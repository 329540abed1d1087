--------------------------- MODULE NodeController ---------------------------
(***************************************************************************)
(* The NodeController of every node (src/mojo/edk/system/node_controller  *)
(* .cc) and the NodeChannels between them (node_channel.cc): a parent     *)
(* node and its children, the bootstrap handshake (AcceptChild,           *)
(* AcceptParent), the connection of a reserved parent port and a child    *)
(* port by token (ConnectToPort, ConnectToPortAck), the queue of ports    *)
(* messages for peers not yet known and the introductions that connect    *)
(* two children (RequestIntroduction, Introduce), and the loss of a       *)
(* channel (OnChannelError, DropPeer).                                     *)
(*                                                                         *)
(* A channel is a pair of ends; an end is <<channel, side>>, side 0 the    *)
(* end the parent created.  wire[e] is the FIFO of messages end e wrote   *)
(* and the other end has not read yet.  The handlers run on the IO thread *)
(* of their node, one at a time; SendPeerMessage runs under peers_lock_.  *)
(* The ports layer is reduced to the two ports connected by token and to  *)
(* the numbered ports messages a node forwards to another.                 *)
(***************************************************************************)
EXTENDS Naturals, Sequences, FiniteSets

CONSTANTS
    Parent,      \* the broker node
    Children,    \* its child nodes
    IntroChans,  \* names for the channels OnRequestIntroduction creates
    PortChild,   \* the child that connects to the parent's port by token
    Sends,       \* [Nodes \X Nodes -> Nat]: other ports messages a node forwards to another
    PortSends,   \* messages the user sends on each port of the token connection
    Crashable,   \* nodes that may crash
    None

Nodes == {Parent} \cup Children

\* The bootstrap token ConnectToChildOnIOThread draws for a child.
Tok(c) == <<"token", c>>
Tokens == {Tok(c) : c \in Children}

BootChan(c) == <<"boot", c>>
Chans == {BootChan(c) : c \in Children} \cup IntroChans
Ends == Chans \X {0, 1}
Other(e) == <<e[1], 1 - e[2]>>

\* The two ports of the token connection: the parent's reserved port and
\* the child's connector port, both created uninitialized.
Ports == {"parent_port", "child_port"}
PortNode == [p \in Ports |-> IF p = "parent_port" THEN Parent ELSE PortChild]

VARIABLES
    endAt,        \* [Ends -> Nodes \cup {None}]: the node holding the end
    endState,     \* [Ends -> {"none", "idle", "started", "closed"}]
    remote,       \* [Ends -> names]: NodeChannel::remote_node_name_
    wire,         \* [Ends -> Seq(messages)]: written, not yet read
    peers,        \* [Nodes -> [Nodes -> Ends \cup {None}]]: peers_
    pendingMsgs,  \* [Nodes -> [Nodes -> Seq]]: pending_peer_messages_
    pendingChildren, \* [Tokens -> Ends \cup {None}]: pending_children_ (parent)
    bootstrap,    \* [Children -> Ends \cup {None}]: bootstrap_channel_to_parent_
    parentName,   \* [Nodes -> Nodes \cup {None}]: parent_name_
    reserved,     \* reserved_ports_ of the parent for the one token: port or None
    pendingToken, \* pending_token_connections_ of PortChild: port or None
    port,         \* [Ports -> [init, node, peer, out, sends, peerClosed]]: Port state,
                  \* outgoing_messages, peer_closed
    calls,        \* embedder calls made: <<call, node>> pairs
    crashed,      \* set of crashed nodes
    sent,         \* ghost: [Nodes -> [Nodes -> Nat]] ports messages forwarded
    recv,         \* ghost: [Nodes -> [Nodes -> Seq(Nat)]] recv[d][s]: numbers received
    early,        \* ghost: a ports message reached a port still Uninitialized
    oops          \* a CHECK failed or peers_.end() was dereferenced

vars == <<endAt, endState, remote, wire, peers, pendingMsgs, pendingChildren,
          bootstrap, parentName, reserved, pendingToken, port, calls, crashed,
          sent, recv, early, oops>>

\* Channel messages (node_channel.cc MessageType); ports messages carry
\* their sender, number and destination port (None: any other port).
AcceptChildMsg(p, t) == [type |-> "AcceptChild", name |-> p, token |-> t]
AcceptParentMsg(t, c) == [type |-> "AcceptParent", name |-> c, token |-> t]
PortsMsg(s, n, p) == [type |-> "Ports", src |-> s, num |-> n, port |-> p]
ConnectToPortMsg(t, p) == [type |-> "ConnectToPort", token |-> t, port |-> p]
ConnectToPortAckMsg(p, q) == [type |-> "ConnectToPortAck", port |-> p, peer |-> q]
RequestIntroductionMsg(n) == [type |-> "RequestIntroduction", name |-> n]
IntroduceMsg(n, h) == [type |-> "Introduce", name |-> n, handle |-> h]

\* The token the parent reserves its port under.
PortToken == "port_token"

-----------------------------------------------------------------------------
(* A handler is a composition of the calls it makes, each a function from  *)
(* a world (the variables they change) to a world; Commit writes it back.  *)

World == [wire |-> wire, es |-> endState, remote |-> remote, peers |-> peers,
          pm |-> pendingMsgs, pc |-> pendingChildren, pn |-> parentName,
          port |-> port, sent |-> sent, oops |-> oops]

Commit(W) ==
    /\ wire' = W.wire /\ endState' = W.es /\ remote' = W.remote
    /\ peers' = W.peers /\ pendingMsgs' = W.pm /\ pendingChildren' = W.pc
    /\ parentName' = W.pn /\ port' = W.port /\ sent' = W.sent /\ oops' = W.oops

Live(W, e) == e # None /\ W.es[e] \in {"idle", "started"}

\* NodeChannel::AcceptChild, PortsMessage, ...: Channel::Write, dropped on
\* a channel already shut down.
Write(W, e, ms) ==
    IF Live(W, e) THEN [W EXCEPT !.wire[e] = @ \o ms] ELSE W

\* NodeChannel::ShutDown, also run by ~NodeChannel.
ShutDown(W, e) ==
    IF e # None /\ W.es[e] # "none" THEN [W EXCEPT !.es[e] = "closed"] ELSE W

\* SendPeerMessage(d, ...) of node n, for a run of messages to one peer:
\* to the peer's channel if there is one; dropped without a parent;
\* otherwise queued, the parent asked for an introduction when the queue
\* was empty.  peers_.find(parent_name_) is dereferenced unchecked.
SendPeerMessage(W, n, d, ms) ==
    LET pe == W.peers[n][W.pn[n]] IN
    IF W.peers[n][d] # None THEN Write(W, W.peers[n][d], ms)
    ELSE IF W.pn[n] = None THEN W
    ELSE IF W.pm[n][d] # <<>> THEN [W EXCEPT !.pm[n][d] = @ \o ms]
    ELSE IF pe = None THEN [W EXCEPT !.oops = TRUE]
    ELSE [Write(W, pe, <<RequestIntroductionMsg(d)>>) EXCEPT !.pm[n][d] = ms]

\* ForwardMessage(d, ...) for k ports messages of node n to port q of d,
\* numbered in the order they are forwarded.
ForwardMessages(W, n, d, q, k) ==
    SendPeerMessage([W EXCEPT !.sent[n][d] = @ + k], n, d,
                    [i \in 1..k |-> PortsMsg(n, W.sent[n][d] + i, q)])

InitializePortLifo(W, p, d, q) ==
    LET k == W.port[p].out
        W1 == [W EXCEPT !.port[p] = [@ EXCEPT !.init = TRUE, !.node = d, !.peer = q, !.out = 0],
                        !.sent[PortNode[p]][d] = @ + k]
    IN  IF W.port[p].init THEN W
        ELSE SendPeerMessage(W1, PortNode[p], d,
                             [i \in 1..k |-> PortsMsg(PortNode[p], W.sent[PortNode[p]][d] + k + 1 - i, q)])

\* Node::InitializePort: an Uninitialized port becomes Receiving with its
\* peer, and FlushOutgoingMessages_Locked forwards what was sent on it.
InitializePort(W, p, d, q) ==
    IF W.port[p].init THEN W
    ELSE ForwardMessages([W EXCEPT !.port[p] = [@ EXCEPT !.init = TRUE, !.node = d,
                                                        !.peer = q, !.out = 0]],
                         PortNode[p], d, q, W.port[p].out)

AddPeerNoFlush(W, n, name, e, start) ==
    LET W1 == [W EXCEPT !.remote[e] = name] IN
    IF W.peers[n][name] # None THEN ShutDown(W1, e)
    ELSE LET W2 == IF start /\ W1.es[e] = "idle" THEN [W1 EXCEPT !.es[e] = "started"] ELSE W1
         IN  [W2 EXCEPT !.pm[n][name] = <<>>, !.peers[n][name] = e]

\* AddPeer(name, channel, start_channel) at node n: SetRemoteNodeName; a
\* duplicate is dropped, which destroys (shuts down) the channel;
\* otherwise the channel starts if asked, the messages queued for the peer
\* are written to it in order and it enters peers_.
AddPeer(W, n, name, e, start) ==
    LET W1 == [W EXCEPT !.remote[e] = name] IN
    IF W.peers[n][name] # None THEN ShutDown(W1, e)
    ELSE LET W2 == IF start /\ W1.es[e] = "idle" THEN [W1 EXCEPT !.es[e] = "started"] ELSE W1
             W3 == Write(W2, e, W2.pm[n][name])
         IN  [W3 EXCEPT !.pm[n][name] = <<>>, !.peers[n][name] = e]

\* Node::LostConnectionToNode(name) on node n, for the ports of the token
\* connection: a port whose peer is on the lost node is marked peer_closed
\* (both are Receiving once initialized, so none is erased).
LostConnectionToNode(W, n, name) ==
    [W EXCEPT !.port = [q \in Ports |->
        IF PortNode[q] = n /\ W.port[q].init /\ W.port[q].node = name
        THEN [W.port[q] EXCEPT !.peerClosed = TRUE] ELSE W.port[q]]]

DropPeerNoNotify(W, n, name) ==
    LET pe == IF name \in Nodes THEN W.peers[n][name] ELSE None
        ce == IF n = Parent /\ name \in Tokens THEN W.pc[name] ELSE None
        W1 == ShutDown(ShutDown(W, pe), ce)
    IN  [W1 EXCEPT !.peers[n] = IF name \in Nodes THEN [@ EXCEPT ![name] = None] ELSE @,
                   !.pm[n] = IF name \in Nodes THEN [@ EXCEPT ![name] = <<>>] ELSE @,
                   !.pc = IF n = Parent /\ name \in Tokens THEN [@ EXCEPT ![name] = None] ELSE @]

\* DropPeer(name) at node n: the peer's channel and a pending child's
\* channel under that name are destroyed, queued messages are discarded;
\* then Node::LostConnectionToNode.
DropPeer(W, n, name) ==
    LET pe == IF name \in Nodes THEN W.peers[n][name] ELSE None
        ce == IF n = Parent /\ name \in Tokens THEN W.pc[name] ELSE None
        W1 == ShutDown(ShutDown(W, pe), ce)
    IN  LostConnectionToNode([W1 EXCEPT !.peers[n] = IF name \in Nodes THEN [@ EXCEPT ![name] = None] ELSE @,
                   !.pm[n] = IF name \in Nodes THEN [@ EXCEPT ![name] = <<>>] ELSE @,
                   !.pc = IF n = Parent /\ name \in Tokens THEN [@ EXCEPT ![name] = None] ELSE @],
                                n, name)

-----------------------------------------------------------------------------

Init ==
    /\ endAt = [e \in Ends |-> IF e[1] \in IntroChans THEN None
                              ELSE IF e[2] = 0 THEN Parent ELSE e[1][2]]
    /\ endState = [e \in Ends |-> "none"]
    /\ remote = [e \in Ends |-> None]
    /\ wire = [e \in Ends |-> <<>>]
    /\ peers = [n \in Nodes |-> [m \in Nodes |-> None]]
    /\ pendingMsgs = [n \in Nodes |-> [m \in Nodes |-> <<>>]]
    /\ pendingChildren = [t \in Tokens |-> None]
    /\ bootstrap = [c \in Children |-> None]
    /\ parentName = [n \in Nodes |-> None]
    /\ reserved = None
    /\ pendingToken = None
    /\ port = [p \in Ports |-> [init |-> FALSE, node |-> None, peer |-> None,
                                out |-> 0, sends |-> 0, peerClosed |-> FALSE]]
    /\ calls = {}
    /\ crashed = {}
    /\ sent = [n \in Nodes |-> [m \in Nodes |-> 0]]
    /\ recv = [n \in Nodes |-> [m \in Nodes |-> <<>>]]
    /\ early = FALSE
    /\ oops = FALSE

Alive(n) == n \notin crashed

\* The embedder's calls, each run as a task on the node's IO thread.
Call(c) == /\ c \notin calls /\ calls' = calls \cup {c}

\* ConnectToChildOnIOThread: a NodeChannel named by a fresh token, started,
\* sends AcceptChild and waits in pending_children_.
ConnectToChild(c) ==
    LET e == <<BootChan(c), 0>>
        W == [World EXCEPT !.es[e] = "started", !.remote[e] = Tok(c), !.pc[Tok(c)] = e]
    IN  /\ Alive(Parent) /\ Call(<<"child", c>>)
        /\ Commit(Write(W, e, <<AcceptChildMsg(Parent, Tok(c))>>))
        /\ UNCHANGED <<endAt, bootstrap, reserved, pendingToken, crashed, recv, early>>

\* ConnectToParentOnIOThread: the child starts its bootstrap channel.
ConnectToParent(c) ==
    LET e == <<BootChan(c), 1>> IN
    /\ Alive(c) /\ Call(<<"parent", c>>)
    /\ endState' = [endState EXCEPT ![e] = "started"]
    /\ bootstrap' = [bootstrap EXCEPT ![c] = e]
    /\ UNCHANGED <<endAt, remote, wire, peers, pendingMsgs, pendingChildren, parentName,
                   reserved, pendingToken, port, crashed, sent, recv, early, oops>>

\* ReservePortForTokenOnIOThread on the parent.
ReservePortForToken ==
    /\ Alive(Parent) /\ Call(<<"reserve", Parent>>)
    /\ reserved' = "parent_port"
    /\ UNCHANGED <<endAt, endState, remote, wire, peers, pendingMsgs, pendingChildren,
                   bootstrap, parentName, pendingToken, port, crashed, sent, recv, early, oops>>

\* ConnectToParentPortByTokenNow: ConnectToPort on the parent's channel,
\* found in peers_ without a check.
ConnectToParentPortByTokenNow(W, n, p) ==
    IF W.pn[n] = None \/ W.peers[n][W.pn[n]] = None THEN [W EXCEPT !.oops = TRUE]
    ELSE Write(W, W.peers[n][W.pn[n]], <<ConnectToPortMsg(PortToken, p)>>)

ConnectToParentPortByTokenAlwaysNow ==
    /\ Alive(PortChild) /\ <<"reserve", Parent>> \in calls
    /\ Call(<<"connect", PortChild>>)
    /\ Commit(ConnectToParentPortByTokenNow(World, PortChild, "child_port"))
    /\ UNCHANGED <<endAt, bootstrap, reserved, crashed, recv, early, pendingToken>>

\* ConnectToParentPortByTokenOnIOThread on PortChild.  The child learns
\* the token from the parent's embedder after the parent reserved it, and
\* the reservation, posted to the parent's IO thread first, runs before
\* any message the child sends (part_004: "The embedder must provide a
\* channel to communicate the token to each node").
ConnectToParentPortByToken ==
    /\ Alive(PortChild) /\ <<"reserve", Parent>> \in calls
    /\ Call(<<"connect", PortChild>>)
    /\ IF parentName[PortChild] # None
       THEN /\ Commit(ConnectToParentPortByTokenNow(World, PortChild, "child_port"))
            /\ UNCHANGED pendingToken
       ELSE /\ pendingToken' = "child_port"
            /\ UNCHANGED <<wire, endState, remote, peers, pendingMsgs, pendingChildren,
                           parentName, port, sent, oops>>
    /\ UNCHANGED <<endAt, bootstrap, reserved, crashed, recv, early>>

\* Node::SendMessage on a port of the token connection: refused once the
\* peer is known closed, queued in outgoing_messages while Uninitialized,
\* else forwarded to the peer.
PortSend(p) ==
    LET n == PortNode[p]
        W == [World EXCEPT !.port[p].sends = @ + 1]
    IN  /\ Alive(n) /\ port[p].sends < PortSends
        /\ ~(port[p].init /\ port[p].peerClosed)
        /\ IF port[p].init
           THEN Commit(ForwardMessages(W, n, port[p].node, port[p].peer, 1))
           ELSE Commit([W EXCEPT !.port[p].out = @ + 1])
        /\ UNCHANGED <<endAt, bootstrap, reserved, pendingToken, calls, crashed, recv, early>>

\* A ports message from n to d for a port whose peer is on d: n has learnt
\* of d through a port that came by way of the parent, so the parent knows d.
UserSend(n, d) ==
    /\ Alive(n) /\ n # d /\ sent[n][d] < Sends[<<n, d>>]
    /\ parentName[n] # None \/ n = Parent
    /\ peers[Parent][d] # None
    /\ Commit(ForwardMessages(World, n, d, None, 1))
    /\ UNCHANGED <<endAt, bootstrap, reserved, pendingToken, calls, crashed, recv, early>>

-----------------------------------------------------------------------------
(* The handlers NodeChannel::OnChannelMessage dispatches to, on the IO      *)
(* thread of node n, for a message from the end's remote_node_name_.       *)
(* W is the world with the message already read.                           *)

OnAcceptChildTokenAsParent(n, from, m, W) ==
    LET b == bootstrap[n]
        W1 == [Write(W, b, <<AcceptParentMsg(m.token, n)>>) EXCEPT !.pn[n] = m.token]
        W2 == AddPeer(W1, n, m.name, b, FALSE)
    IN  IF n = Parent \/ b = None
        THEN /\ Commit(DropPeer(W, n, from)) /\ UNCHANGED bootstrap
        ELSE /\ Commit(IF pendingToken # None /\ n = PortChild
                       THEN ConnectToParentPortByTokenNow(W2, n, pendingToken) ELSE W2)
             /\ bootstrap' = [bootstrap EXCEPT ![n] = None]

OnAcceptChildNoTokenFlush(n, from, m, W) ==
    LET b == bootstrap[n]
        W1 == [Write(W, b, <<AcceptParentMsg(m.token, n)>>) EXCEPT !.pn[n] = m.name]
    IN  IF n = Parent \/ b = None
        THEN /\ Commit(DropPeer(W, n, from)) /\ UNCHANGED bootstrap
        ELSE /\ Commit(AddPeer(W1, n, m.name, b, FALSE))
             /\ bootstrap' = [bootstrap EXCEPT ![n] = None]

\* OnAcceptChild: without a bootstrap channel the sender is dropped;
\* otherwise the child learns its parent's name, answers AcceptParent,
\* adds the parent as a peer and flushes the pending token connections.
OnAcceptChild(n, from, m, W) ==
    LET b == bootstrap[n]
        W1 == [Write(W, b, <<AcceptParentMsg(m.token, n)>>) EXCEPT !.pn[n] = m.name]
        W2 == AddPeer(W1, n, m.name, b, FALSE)
    IN  IF n = Parent \/ b = None
        THEN /\ Commit(DropPeer(W, n, from)) /\ UNCHANGED bootstrap
        ELSE /\ Commit(IF pendingToken # None /\ n = PortChild
                       THEN ConnectToParentPortByTokenNow(W2, n, pendingToken) ELSE W2)
             /\ bootstrap' = [bootstrap EXCEPT ![n] = None]

\* OnAcceptParent: the pending child whose token the channel is named by
\* becomes a peer under the name it sent; anything else drops the sender.
OnAcceptParent(n, from, m, W) ==
    /\ IF n # Parent \/ from \notin Tokens \/ m.token # from \/ W.pc[from] = None
       THEN Commit(DropPeer(W, n, from))
       ELSE Commit(AddPeer([W EXCEPT !.pc[from] = None], n, m.name, W.pc[from], FALSE))
    /\ UNCHANGED bootstrap

\* OnPortsMessage: Node::AcceptMessage.  A message for a port that is
\* still Uninitialized is queued on it like any other.
OnPortsMessage(n, from, m, W) ==
    /\ Commit(W)
    /\ recv' = [recv EXCEPT ![n][m.src] = Append(@, m.num)]
    /\ early' = (early \/ (m.port # None /\ ~port[m.port].init))
    /\ UNCHANGED bootstrap

OnConnectToPortInitFirst(n, from, m, W) ==
    IF reserved = None \/ m.token # PortToken \/ from \notin Nodes \/ W.peers[n][from] = None
    THEN /\ Commit(DropPeer(W, n, from)) /\ UNCHANGED reserved
    ELSE LET W1 == InitializePort(W, reserved, from, m.port)
         IN  /\ Commit(Write(W1, W.peers[n][from], <<ConnectToPortAckMsg(m.port, reserved)>>))
             /\ reserved' = None

\* OnConnectToPort: an unknown token or sender drops the sender; otherwise
\* the reservation is consumed, ConnectToPortAck is sent, and only then is
\* the reserved port initialized, flushing what was sent on it (a CHECK
\* that fails if the port was initialized already).
OnConnectToPort(n, from, m, W) ==
    IF reserved = None \/ m.token # PortToken \/ from \notin Nodes \/ W.peers[n][from] = None
    THEN /\ Commit(DropPeer(W, n, from)) /\ UNCHANGED reserved
    ELSE LET W1 == Write(W, W.peers[n][from], <<ConnectToPortAckMsg(m.port, reserved)>>)
         IN  /\ Commit(IF W1.port[reserved].init THEN [W1 EXCEPT !.oops = TRUE]
                       ELSE InitializePort(W1, reserved, from, m.port))
             /\ reserved' = None

\* OnConnectToPortAck: only from the parent; initializes the connector.
OnConnectToPortAck(n, from, m, W) ==
    Commit(IF from # W.pn[n] \/ from = None THEN DropPeer(W, n, from)
           ELSE IF W.port[m.port].init THEN [W EXCEPT !.oops = TRUE]
           ELSE InitializePort(W, m.port, from, m.peer))

\* OnRequestIntroduction: a known target gets a new channel pair, one end
\* sent to each side; an unknown one is answered with no handle.  The
\* requestor is looked up in peers_ without a check.  An end sent to a
\* node that has died is closed: it dies with the pipe buffer holding it.
OnRequestIntroduction(n, from, m, W) ==
    IF from = m.name \/ m.name = None
    THEN Commit(DropPeer(W, n, from)) /\ UNCHANGED endAt
    ELSE IF from \notin Nodes \/ W.peers[n][from] = None
    THEN Commit([W EXCEPT !.oops = TRUE]) /\ UNCHANGED endAt
    ELSE IF W.peers[n][m.name] = None
    THEN Commit(Write(W, W.peers[n][from], <<IntroduceMsg(m.name, None)>>)) /\ UNCHANGED endAt
    ELSE \E ch \in IntroChans :
           LET e0 == <<ch, 0>>
               e1 == <<ch, 1>>
               W1 == [W EXCEPT !.es[e0] = IF from \in crashed THEN "closed" ELSE "idle",
                               !.es[e1] = IF m.name \in crashed THEN "closed" ELSE "idle"]
               W2 == Write(W1, W.peers[n][from], <<IntroduceMsg(m.name, e0)>>)
           IN  /\ endState[e0] = "none"
               /\ endAt' = [endAt EXCEPT ![e0] = from, ![e1] = m.name]
               /\ Commit(Write(W2, W.peers[n][m.name], <<IntroduceMsg(from, e1)>>))

\* OnIntroduce: only from the parent; no handle discards the messages
\* queued for the peer, a handle becomes a started channel to it.
OnIntroduce(n, from, m, W) ==
    Commit(IF from # W.pn[n] \/ from = None THEN ShutDown(DropPeer(W, n, from), m.handle)
           ELSE IF m.handle = None THEN [W EXCEPT !.pm[n][m.name] = <<>>]
           ELSE AddPeer(W, n, m.name, m.handle, TRUE))

\* The IO thread of n reads the next message on a started channel end.
Receive(e) ==
    LET n == endAt[e]
        m == Head(wire[Other(e)])
        from == remote[e]
        W == [World EXCEPT !.wire[Other(e)] = Tail(@)]
    IN  /\ n # None /\ Alive(n) /\ endState[e] = "started" /\ wire[Other(e)] # <<>>
        /\ \/ m.type = "AcceptChild" /\ OnAcceptChild(n, from, m, W)
                /\ UNCHANGED <<endAt, reserved, recv, early>>
           \/ m.type = "AcceptParent" /\ OnAcceptParent(n, from, m, W)
                /\ UNCHANGED <<endAt, reserved, recv, early>>
           \/ m.type = "Ports" /\ OnPortsMessage(n, from, m, W)
                /\ UNCHANGED <<endAt, reserved>>
           \/ m.type = "ConnectToPort" /\ OnConnectToPort(n, from, m, W)
                /\ UNCHANGED <<endAt, bootstrap, recv, early>>
           \/ m.type = "ConnectToPortAck" /\ OnConnectToPortAck(n, from, m, W)
                /\ UNCHANGED <<endAt, bootstrap, reserved, recv, early>>
           \/ m.type = "RequestIntroduction" /\ OnRequestIntroduction(n, from, m, W)
                /\ UNCHANGED <<bootstrap, reserved, recv, early>>
           \/ m.type = "Introduce" /\ OnIntroduce(n, from, m, W)
                /\ UNCHANGED <<endAt, bootstrap, reserved, recv, early>>
        /\ UNCHANGED <<pendingToken, calls, crashed>>

\* NodeChannel::OnChannelError: the other end is gone and everything it
\* wrote has been read; the channel shuts down and the controller drops
\* the peer the channel is named for.
ChannelError(e) ==
    LET n == endAt[e] IN
    /\ n # None /\ Alive(n) /\ endState[e] = "started"
    /\ endState[Other(e)] = "closed" /\ wire[Other(e)] = <<>>
    /\ Commit(DropPeer(ShutDown(World, e), n, remote[e]))
    /\ UNCHANGED <<endAt, bootstrap, reserved, pendingToken, calls, crashed, recv, early>>

\* A node's process dies: every channel end it holds is closed.
Crash(n) ==
    /\ n \in Crashable /\ Alive(n)
    /\ crashed' = crashed \cup {n}
    /\ endState' = [e \in Ends |-> IF endAt[e] = n /\ endState[e] # "none"
                                   THEN "closed" ELSE endState[e]]
    /\ UNCHANGED <<endAt, remote, wire, peers, pendingMsgs, pendingChildren, bootstrap,
                   parentName, reserved, pendingToken, port, calls, sent, recv, early, oops>>

Next ==
    \/ \E c \in Children : ConnectToChild(c) \/ ConnectToParent(c)
    \/ ReservePortForToken \/ ConnectToParentPortByToken
    \/ \E p \in Ports : PortSend(p)
    \/ \E n, d \in Nodes : UserSend(n, d)
    \/ \E e \in Ends : Receive(e) \/ ChannelError(e)
    \/ \E n \in Nodes : Crash(n)

\* The IO thread of every live node reads every started channel and
\* reports its errors.
Fairness == \A e \in Ends : WF_vars(Receive(e) \/ ChannelError(e))

Spec == Init /\ [][Next]_vars /\ Fairness

-----------------------------------------------------------------------------
(* Properties.                                                             *)

\* The channel messages of node_channel.cc with their fields.
IsMsg(m) ==
    CASE m.type = "Ports" -> m = PortsMsg(m.src, m.num, m.port) /\ m.src \in Nodes
                                /\ m.num \in Nat /\ m.port \in Ports \cup {None}
      [] m.type = "AcceptChild" -> m = AcceptChildMsg(m.name, m.token) /\ m.name \in Nodes
      [] m.type = "AcceptParent" -> m = AcceptParentMsg(m.token, m.name) /\ m.token \in Tokens
      [] m.type = "ConnectToPort" -> m = ConnectToPortMsg(PortToken, m.port) /\ m.port \in Ports
      [] m.type = "ConnectToPortAck" -> m = ConnectToPortAckMsg(m.port, m.peer)
      [] m.type = "RequestIntroduction" -> m = RequestIntroductionMsg(m.name)
      [] m.type = "Introduce" -> m = IntroduceMsg(m.name, m.handle)
                                    /\ m.handle \in Ends \cup {None}
      [] OTHER -> FALSE

\* Every variable has the type the code gives it; in particular
\* parent_name_ is always a node's name (never a token, though both are
\* ports::NodeName), and every peers_ entry is a channel end the node holds.
TypeOK ==
    /\ endAt \in [Ends -> Nodes \cup {None}]
    /\ endState \in [Ends -> {"none", "idle", "started", "closed"}]
    /\ remote \in [Ends -> Nodes \cup Tokens \cup {None}]
    /\ \A e \in Ends : \A i \in 1..Len(wire[e]) : IsMsg(wire[e][i])
    /\ peers \in [Nodes -> [Nodes -> Ends \cup {None}]]
    /\ pendingChildren \in [Tokens -> Ends \cup {None}]
    /\ bootstrap \in [Children -> Ends \cup {None}]
    /\ parentName \in [Nodes -> Nodes \cup {None}]
    /\ reserved \in Ports \cup {None}
    /\ oops \in BOOLEAN
    /\ \A n, m \in Nodes : peers[n][m] # None => endAt[peers[n][m]] = n

\* No ports message reaches a port of the token connection before the
\* port is initialized: OnConnectToPort writes ConnectToPortAck before
\* InitializePort flushes the port's outgoing messages on the same channel
\* (the comment at node_controller.cc:418-434).
PortReadyFirst == ~early

\* No CHECK fails and peers_.end() is never dereferenced: whenever a node
\* needs its parent's channel (SendPeerMessage, ConnectToParentPortByTokenNow)
\* or a requestor's channel (OnRequestIntroduction), it is in peers_.
NoOops == ~oops

\* While no node crashes, every ports message forwarded to another node is
\* received there, including the ones queued until an introduction.
EventuallyDelivered ==
    \A s, d \in Nodes : \A k \in 1..Sends[<<s, d>>] :
        (sent[s][d] >= k /\ crashed = {}) ~> (Len(recv[d][s]) >= k \/ crashed # {})

\* Node n has observed the loss of node m: m is not in its peers_ and every
\* port of n whose peer is on m has peer_closed set.
LossObserved(n, m) ==
    /\ peers[n][m] = None
    /\ \A q \in Ports : (PortNode[q] = n /\ port[q].init /\ port[q].node = m)
                        => port[q].peerClosed

\* When a node dies, every live node eventually observes it: the closed
\* end is reported by OnChannelError, DropPeer removes the peer, and
\* LostConnectionToNode marks the ports whose peer was there peer_closed,
\* so no message is written to a channel nobody reads for ever and the
\* user of such a port learns that nothing more will come.
PeerLossDetected ==
    \A m \in Crashable : \A n \in Nodes \ {m} :
        (m \in crashed /\ n \notin crashed) ~> (LossObserved(n, m) \/ n \in crashed)

\* Once the parent has reserved its port, PortChild has asked to connect
\* to it, and both sides of the bootstrap channel exist, both ports of the
\* token connection are initialized, unless a node crashes.
TokenConnects ==
    ({<<"reserve", Parent>>, <<"connect", PortChild>>, <<"child", PortChild>>,
      <<"parent", PortChild>>} \subseteq calls /\ crashed = {})
        ~> ((\A q \in Ports : port[q].init) \/ crashed # {})
\* The numbers of the ports messages s forwarded to d that d has not read:
\* queued in pending_peer_messages_ of s, or on a channel end d holds.
InFlight(s, d) ==
    {pendingMsgs[s][d][i].num : i \in DOMAIN pendingMsgs[s][d]}
    \cup UNION {{wire[x][i].num : i \in {i \in DOMAIN wire[x] : wire[x][i].type = "Ports"
                                                            /\ wire[x][i].src = s}} :
                 x \in {x \in Ends : endAt[Other(x)] = d}}

Delivery == INSTANCE PeerDelivery
    WITH inflight <- [s \in Nodes |-> [d \in Nodes |-> InFlight(s, d)]],
         failed <- crashed # {},
         Burst <- IF PortSends > 1 THEN PortSends ELSE 1

\* The controllers implement PeerDelivery: no ports message is
\* duplicated or overtaken on its way from one node to another, and none
\* is lost while no node has crashed, whether it went straight to the peer's channel, waited in
\* pending_peer_messages_ for an introduction or in a port's
\* outgoing_messages until InitializePort: the queues are flushed in
\* order, AddPeer writes the pending queue before the channel enters
\* peers_, and a second channel to the same peer is dropped only where
\* nothing was written to it.
PeerDeliveryRefined == Delivery!Spec
=============================================================================
