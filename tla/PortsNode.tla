----------------------------- MODULE PortsNode -----------------------------
(***************************************************************************)
(* The ports routing core of src/mojo/edk/system/ports/node.cc: the port   *)
(* records of every node, the user operations SendMessage, GetMessage and  *)
(* ClosePort, and the handlers of the five events a node accepts (User,    *)
(* PortAccepted, ObserveProxy, ObserveProxyAck, ObserveClosure), including *)
(* the proxy-removal protocol.                                             *)
(*                                                                         *)
(* Names.  The code draws a fresh random 128-bit PortName whenever a port  *)
(* is transferred.  Here a name is <<e, g>>: the logical pipe end e that   *)
(* the port stands for, and a generation g drawn from a per-end counter,   *)
(* so names are fresh by construction and the end a port serves is its    *)
(* first component (a ghost the code does not have).                      *)
(*                                                                         *)
(* Delivery.  NodeDelegate::ForwardMessage hands an event to the node      *)
(* layer; the local loopback queue, the NodeController's incoming queue    *)
(* and the node channels are all folded into one multiset of in-flight     *)
(* events, delivered in any order.  The code must not depend on the order  *)
(* of events from different senders, and sequence numbers make it         *)
(* independent of the order of user messages.                              *)
(*                                                                         *)
(* Atomicity.  Each handler runs under its port's lock and is one step.    *)
(* ClosePort releases the lock before ErasePort, so it is two steps.       *)
(***************************************************************************)
EXTENDS Naturals, Sequences, FiniteSets, Bags, BagsExt

CONSTANTS
    Nodes,      \* node names
    Endpoints,  \* the logical ends of the pipes that exist initially
    PeerOf,     \* [Endpoints -> Endpoints]: the other end of each pipe
    HomeOf,     \* [Endpoints -> Nodes]: the node an end starts on
    MaxSends,   \* bound: [Endpoints -> Nat] SendMessage calls per end
    MaxGen,     \* bound: transfers (fresh names) per end
    Closers,    \* ends on which the user calls ClosePort
    Losable,    \* nodes whose process may die
    None        \* model value: no port, no descriptor, no deferred event

ASSUME PeerOf \in [Endpoints -> Endpoints] /\ HomeOf \in [Endpoints -> Nodes]
ASSUME MaxSends \in [Endpoints -> Nat] /\ MaxGen \in Nat
ASSUME Closers \subseteq Endpoints /\ Losable \subseteq Nodes

\* The per-port reordering buffer.
MQ == INSTANCE MessageQueue

VARIABLES
    port,       \* [Names -> port record]: the ports_ maps of all nodes
    gen,        \* [Endpoints -> Nat]: last generation of name drawn per end
    network,    \* bag of events handed to ForwardMessage, not yet accepted
    oops,       \* set of CHECK failures (OOPS) hit by a handler
    sent,       \* ghost: [Endpoints -> Nat] successful SendMessage calls
    delivered,  \* ghost: [Endpoints -> Seq(Nat)] ids read from each end
    closedEp,   \* ghost: ends the user closed
    lost,       \* nodes whose process has died
    notified    \* <<n, l>>: node n has run LostConnectionToNode(l)

vars == <<port, gen, network, oops, sent, delivered, closedEp, lost, notified>>

Names == Endpoints \X (0..MaxGen)
EndOf(p) == p[1]

\* kInitialSequenceNum and kInvalidSequenceNum.
kInitialSequenceNum == 1
kInvalidSequenceNum == 0

\* Port::State; "Unused" is a name not yet drawn, "Erased" a record that
\* ErasePort removed from ports_.
PortStates == {"Receiving", "Buffering", "Proxying", "Closed"}
Absent == {"Unused", "Erased"}

-----------------------------------------------------------------------------
(* Events (wire messages, section EventType of the spec).                  *)

UserEvent(n, p, seq, from, id, carried) ==
    [type |-> "User", node |-> n, port |-> p, seq |-> seq,
     from |-> from, id |-> id, carried |-> carried]

PortAcceptedEvent(n, p) == [type |-> "PortAccepted", node |-> n, port |-> p]

ObserveProxyEvent(n, p, proxy_node, proxy_port, to_node, to_port) ==
    [type |-> "ObserveProxy", node |-> n, port |-> p,
     proxy_node |-> proxy_node, proxy_port |-> proxy_port,
     to_node |-> to_node, to_port |-> to_port]

ObserveProxyAckEvent(n, p, last) ==
    [type |-> "ObserveProxyAck", node |-> n, port |-> p, last |-> last]

ObserveClosureEvent(n, p, last) ==
    [type |-> "ObserveClosure", node |-> n, port |-> p, last |-> last]

-----------------------------------------------------------------------------
(* Port records and lookups.                                               *)

\* Port::Port(next_sequence_num_to_send, next_sequence_num_to_receive).
NewPort(n, peer_node, peer_port, next_send, next_recv, signalable) ==
    [state |-> "Receiving", node |-> n,
     peer_node |-> peer_node, peer_port |-> peer_port,
     next_send |-> next_send, last_recv |-> 0,
     queue |-> MQ!NewQueue(next_recv, signalable),
     remove_proxy |-> FALSE, peer_closed |-> FALSE,
     send_on_removal |-> None]

UnusedPort == [NewPort(CHOOSE n \in Nodes : TRUE, None, None, 0, 0, FALSE)
                 EXCEPT !.state = "Unused"]

\* Node::GetPort on node n finds p.
InMap(P, p, n) == P[p].state \notin Absent /\ P[p].node = n

\* The user holds a handle to p: p is Receiving and signalable (a port
\* accepted from a message is handed out with the message, GetMessageIf).
Held(p) == port[p].state = "Receiving" /\ port[p].queue.signalable

\* CanAcceptMoreMessages (node.cc 25-34).
CanAcceptMoreMessages(r) ==
    ~((r.peer_closed \/ r.remove_proxy) /\ r.last_recv = r.queue.next - 1)

-----------------------------------------------------------------------------
(* Helpers that update a "world" [port, gen, out]: the port map, the name  *)
(* counters and the bag of events the step emits.                          *)

World == [port |-> port, gen |-> gen, out |-> EmptyBag]

Emit(W, ev) == [W EXCEPT !.out = BagAdd(@, ev)]

WillSendPortReusedSeq(W, c, to_node) ==
    LET r == W.port[c]
        x == <<EndOf(c), W.gen[EndOf(c)] + 1>>
        desc == [name |-> x, peer_node |-> r.peer_node,
                 peer_port |-> r.peer_port, ref_node |-> r.node,
                 ref_port |-> c, next_send |-> r.next_send - 1,
                 next_recv |-> r.queue.next]
    IN [port |-> [W.port EXCEPT ![c].state = "Buffering",
                                ![c].peer_node = to_node,
                                ![c].peer_port = x],
        gen |-> [W.gen EXCEPT ![EndOf(c)] = @ + 1],
        out |-> W.out, desc |-> desc]

WillSendPortLastRecv(W, c, to_node) ==
    LET r == W.port[c]
        x == <<EndOf(c), W.gen[EndOf(c)] + 1>>
        desc == [name |-> x, peer_node |-> r.peer_node,
                 peer_port |-> r.peer_port, ref_node |-> r.node,
                 ref_port |-> c, next_send |-> r.next_send,
                 next_recv |-> r.queue.next - 1]
    IN [port |-> [W.port EXCEPT ![c].state = "Buffering",
                                ![c].peer_node = to_node,
                                ![c].peer_port = x],
        gen |-> [W.gen EXCEPT ![EndOf(c)] = @ + 1],
        out |-> W.out, desc |-> desc]

\* WillSendPort_Locked: draw a new name for c, record its descriptor, and
\* make c a Buffering port whose peer is the new name on to_node.
WillSendPort(W, c, to_node) ==
    LET r == W.port[c]
        x == <<EndOf(c), W.gen[EndOf(c)] + 1>>
        desc == [name |-> x, peer_node |-> r.peer_node,
                 peer_port |-> r.peer_port, ref_node |-> r.node,
                 ref_port |-> c, next_send |-> r.next_send,
                 next_recv |-> r.queue.next]
    IN [port |-> [W.port EXCEPT ![c].state = "Buffering",
                                ![c].peer_node = to_node,
                                ![c].peer_port = x],
        gen |-> [W.gen EXCEPT ![EndOf(c)] = @ + 1],
        out |-> W.out, desc |-> desc]

\* The checks WillSendMessage_Locked makes, under the port's lock, on a port
\* c the message from p carries: c is Receiving (and held by the user, so
\* on p's node) and is not p's peer (CannotSendPeer).
PortSendableAnyState(p, c) ==
    IF c = None THEN TRUE
    ELSE /\ port[c].state \notin Absent
         /\ port[c].node = port[p].node
         /\ c # port[p].peer_port

PortSendable(p, c) ==
    IF c = None THEN TRUE
    ELSE /\ Held(c)
         /\ port[c].node = port[p].node
         /\ c # port[p].peer_port

\* A name is left for every port a message would take.
CanDrawName(W, c) == IF c = None THEN TRUE ELSE W.gen[EndOf(c)] < MaxGen

\* ForwardMessages_Locked: pop every in-order message of t's queue, pass
\* it through WillSendMessage_Locked (already stamped, so only its ports
\* are taken) and forward it to t's peer.
RECURSIVE ForwardMessages(_, _)
ForwardMessages(W, t) ==
    IF ~MQ!HasHead(W.port[t].queue) THEN W
    ELSE LET m  == MQ!Top(W.port[t].queue)
             W1 == [W EXCEPT !.port[t].queue = MQ!PopNext(@)]
             r  == W1.port[t]
             T  == IF m.carried = None THEN W1
                   ELSE WillSendPort(W1, m.carried.name, r.peer_node)
             d  == IF m.carried = None THEN None ELSE T.desc
             fw == [m EXCEPT !.node = r.peer_node, !.port = r.peer_port,
                             !.carried = d]
         IN ForwardMessages(Emit([port |-> T.port, gen |-> T.gen,
                                  out |-> T.out], fw), t)

\* Every message ForwardMessages would pass on can have its port taken.
RECURSIVE NamesForForward(_, _)
NamesForForward(W, t) ==
    IF ~MQ!HasHead(W.port[t].queue) THEN TRUE
    ELSE LET m == MQ!Top(W.port[t].queue) IN
         /\ IF m.carried = None THEN TRUE
            ELSE CanDrawName(W, m.carried.name)
         /\ NamesForForward([W EXCEPT !.port[t].queue = MQ!PopNext(@)], t)

\* InitiateProxyRemoval_Locked: tell the graph that t is a proxy.
InitiateProxyRemoval(W, t) ==
    LET r == W.port[t] IN
    Emit(W, ObserveProxyEvent(r.peer_node, r.peer_port, r.node, t,
                              r.peer_node, r.peer_port))

MaybeRemoveProxyEarly(W, t) ==
    LET r == W.port[t] IN
    IF r.remove_proxy
    THEN LET W1 == [W EXCEPT !.port[t].state = "Erased"] IN
         IF r.send_on_removal = None THEN W1 ELSE Emit(W1, r.send_on_removal)
    ELSE W

\* MaybeRemoveProxy_Locked: once the last message is forwarded, erase t
\* and send the deferred event, if any.
MaybeRemoveProxy(W, t) ==
    LET r == W.port[t] IN
    IF r.remove_proxy /\ ~CanAcceptMoreMessages(r)
    THEN LET W1 == [W EXCEPT !.port[t].state = "Erased"] IN
         IF r.send_on_removal = None THEN W1 ELSE Emit(W1, r.send_on_removal)
    ELSE W

\* ClosePort on a port the node itself closes (orphaned ports of a message
\* that was not accepted): mark it closed, tell its peer, erase it.
CloseAndErase(W, p) ==
    LET r == W.port[p] IN
    Emit([W EXCEPT !.port[p].state = "Erased"],
         ObserveClosureEvent(r.peer_node, r.peer_port, r.next_send - 1))

\* Commit a world: the port map, the counters, the emitted events, and the
\* consumed event ev (None for a user operation).
Commit(W, ev) ==
    /\ port' = W.port
    /\ gen' = W.gen
    /\ network' = IF ev = None THEN network (+) W.out
                  ELSE BagRemove(network, ev) (+) W.out

-----------------------------------------------------------------------------
(* Initial state: every end's first port, named <<e, 0>>, Receiving on its *)
(* home node and peered with the other end of its pipe, as CreatePortPair  *)
(* leaves a local pair and InitializePort on both nodes leaves a pipe      *)
(* between two nodes.  No event is in flight.                              *)

Init ==
    /\ port = [p \in Names |->
                 IF p[2] = 0
                 THEN NewPort(HomeOf[EndOf(p)], HomeOf[PeerOf[EndOf(p)]],
                              <<PeerOf[EndOf(p)], 0>>,
                              kInitialSequenceNum, kInitialSequenceNum, TRUE)
                 ELSE UnusedPort]
    /\ gen = [e \in Endpoints |-> 0]
    /\ network = EmptyBag
    /\ oops = {}
    /\ sent = [e \in Endpoints |-> 0]
    /\ delivered = [e \in Endpoints |-> <<>>]
    /\ closedEp = {}
    /\ lost = {}
    /\ notified = {}

-----------------------------------------------------------------------------
(* User operations.                                                        *)

\* Node::SendMessage from p, carrying port c or None.  The checks for
\* CannotSendSelf, the state, PeerClosed, and (in WillSendMessage_Locked)
\* the state of c and CannotSendPeer return an error and leave the state as
\* it was (the sequence number taken is given back), so only the
\* successful call is a step.  The message gets the next sequence number,
\* its port is taken, and it goes to p's peer.
SendMessage(p, c) ==
    LET r   == port[p]
        W   == [World EXCEPT !.port[p].next_send = @ + 1]
        T   == IF c = None THEN W ELSE WillSendPort(W, c, r.peer_node)
        d   == IF c = None THEN None ELSE T.desc
        msg == UserEvent(r.peer_node, r.peer_port, r.next_send,
                         EndOf(p), sent[EndOf(p)] + 1, d)
    IN /\ Held(p)
       /\ ~r.peer_closed
       /\ sent[EndOf(p)] < MaxSends[EndOf(p)]
       /\ c # p
       /\ PortSendable(p, c)
       /\ CanDrawName(World, c)
       /\ Commit([port |-> T.port, gen |-> T.gen, out |-> T.out (+) SetToBag({msg})],
                 None)
       /\ sent' = [sent EXCEPT ![EndOf(p)] = @ + 1]
       /\ UNCHANGED <<oops, delivered, closedEp>>

\* Node::GetMessage on p: when the peer is not known to be closed and the
\* next message in sequence is queued, pop it; the ports it carries become
\* signalable and so reach the user.  (A null message or PeerClosed leaves
\* the state as it was.)
GetMessage(p) ==
    LET q == port[p].queue
        m == MQ!Top(q)
    IN /\ Held(p)
       /\ CanAcceptMoreMessages(port[p])
       /\ MQ!HasHead(q)
       /\ port' = IF m.carried = None
                  THEN [port EXCEPT ![p].queue = MQ!PopNext(q)]
                  ELSE [port EXCEPT ![p].queue = MQ!PopNext(q),
                                    ![m.carried.name].queue.signalable = TRUE]
       /\ delivered' = [delivered EXCEPT ![m.from] = Append(@, m.id)]
       /\ UNCHANGED <<gen, network, oops, sent, closedEp>>

\* Node::ClosePort, the part under the port lock and the ObserveClosure it
\* sends to the peer with the last sequence number sent.
ClosePort(p) ==
    LET r == port[p] IN
    /\ Held(p)
    /\ EndOf(p) \in Closers
    /\ Commit(Emit([World EXCEPT !.port[p].state = "Closed"],
                   ObserveClosureEvent(r.peer_node, r.peer_port,
                                       r.next_send - 1)), None)
    /\ closedEp' = closedEp \cup {EndOf(p)}
    /\ UNCHANGED <<oops, sent, delivered>>

\* The ErasePort that ends Node::ClosePort, after the lock is released.
ClosePortErase(p) ==
    /\ port[p].state = "Closed"
    /\ port' = [port EXCEPT ![p].state = "Erased"]
    /\ UNCHANGED <<gen, network, oops, sent, delivered, closedEp>>

-----------------------------------------------------------------------------
(* Event handlers: Node::AcceptMessage dispatches on the event type.       *)

\* OnUserMessage with AcceptPort.  Every port the message carries becomes a
\* Receiving, unsignalable port on this node and PortAccepted goes back to
\* the referring port, whether or not the target exists.  The message is
\* queued if the target exists and can accept more messages; a Proxying
\* target forwards what is in order and may then be removed.  Otherwise the
\* ports it carried are closed.
OnUserMessage(m) ==
    LET n  == m.node
        t  == m.port
        d  == m.carried
        W0 == IF d = None THEN World
              ELSE Emit([World EXCEPT !.port[d.name] =
                            NewPort(n, d.peer_node, d.peer_port,
                                    d.next_send, d.next_recv, FALSE)],
                        PortAcceptedEvent(d.ref_node, d.ref_port))
        accepted == InMap(W0.port, t, n) /\ CanAcceptMoreMessages(W0.port[t])
        W1 == [W0 EXCEPT !.port[t].queue = MQ!AcceptMessage(@, m)]
        proxying == W1.port[t].state = "Proxying"
        W2 == IF proxying THEN MaybeRemoveProxy(ForwardMessages(W1, t), t)
              ELSE W1
    IN /\ m.type = "User"
       /\ accepted /\ proxying => NamesForForward(W1, t)
       /\ IF accepted
          THEN /\ Commit(W2, m)
               /\ UNCHANGED closedEp
          ELSE IF d = None
          THEN /\ Commit(W0, m)
               /\ UNCHANGED closedEp
          ELSE /\ Commit(CloseAndErase(W0, d.name), m)
               /\ closedEp' = closedEp \cup {EndOf(d.name)}
       /\ UNCHANGED <<oops, sent, delivered>>

\* A CHECK failure (OOPS) in a handler: the event is consumed and recorded.
Oops(m, what) ==
    /\ oops' = oops \cup {what}
    /\ network' = BagRemove(network, m)
    /\ UNCHANGED <<port, gen, sent, delivered, closedEp>>

\* The event is consumed and the state left as it was.
Ignore(m) ==
    /\ Commit(World, m)
    /\ UNCHANGED <<oops, sent, delivered, closedEp>>

OnPortAcceptedNoForward(m) ==
    LET t  == m.port
        W1 == [World EXCEPT !.port[t].state = "Proxying"]
        W3 == IF W1.port[t].remove_proxy THEN MaybeRemoveProxy(W1, t)
              ELSE InitiateProxyRemoval(W1, t)
    IN /\ m.type = "PortAccepted"
       /\ IF InMap(port, t, m.node) /\ port[t].state = "Buffering"
          THEN /\ Commit(W3, m)
               /\ UNCHANGED <<oops, sent, delivered, closedEp>>
          ELSE Oops(m, "PortAccepted")

\* OnPortAccepted: the Buffering port becomes a proxy, forwards what it
\* buffered, then either removes itself (closure already observed) or
\* starts proxy removal.  An unknown port or one not Buffering is an OOPS.
OnPortAccepted(m) ==
    LET t  == m.port
        W1 == [World EXCEPT !.port[t].state = "Proxying"]
        W2 == ForwardMessages(W1, t)
        W3 == IF W2.port[t].remove_proxy THEN MaybeRemoveProxy(W2, t)
              ELSE InitiateProxyRemoval(W2, t)
    IN /\ m.type = "PortAccepted"
       /\ IF InMap(port, t, m.node) /\ port[t].state = "Buffering"
          THEN /\ NamesForForward(W1, t)
               /\ Commit(W3, m)
               /\ UNCHANGED <<oops, sent, delivered, closedEp>>
          ELSE Oops(m, "PortAccepted")

\* OnObserveProxy: a port whose peer is the proxy bypasses it and acks with
\* the last sequence number it sent, or, if it is not Receiving, defers an
\* ack asking for a resend until its own removal; any other port passes the
\* event on to its peer.  An unknown port ignores it.
OnObserveProxy(m) ==
    LET t == m.port
        r == port[t]
        ack(last) == ObserveProxyAckEvent(m.proxy_node, m.proxy_port, last)
    IN /\ m.type = "ObserveProxy"
       /\ IF ~InMap(port, t, m.node) THEN Ignore(m)
          ELSE /\ IF r.peer_node = m.proxy_node /\ r.peer_port = m.proxy_port
                  THEN IF r.state = "Receiving"
                       THEN Commit(Emit([World EXCEPT
                                           !.port[t].peer_node = m.to_node,
                                           !.port[t].peer_port = m.to_port],
                                        ack(r.next_send - 1)), m)
                       ELSE Commit([World EXCEPT !.port[t].send_on_removal =
                                               ack(kInvalidSequenceNum)], m)
                  ELSE Commit(Emit(World, [m EXCEPT !.node = r.peer_node,
                                                    !.port = r.peer_port]), m)
               /\ UNCHANGED <<oops, sent, delivered, closedEp>>

\* OnObserveProxyAck: the invalid sequence number asks for ObserveProxy to
\* be sent again; otherwise the proxy learns the last message it must
\* forward and may be removed.  An unknown port ignores it; a port that is
\* not a proxy is an OOPS.
OnObserveProxyAck(m) ==
    LET t == m.port IN
    /\ m.type = "ObserveProxyAck"
    /\ IF ~InMap(port, t, m.node) THEN Ignore(m)
       ELSE IF port[t].state # "Proxying" THEN Oops(m, "ObserveProxyAck")
       ELSE /\ IF m.last = kInvalidSequenceNum
               THEN Commit(InitiateProxyRemoval(World, t), m)
               ELSE Commit(MaybeRemoveProxy(
                             [World EXCEPT !.port[t].remove_proxy = TRUE,
                                           !.port[t].last_recv = m.last], t), m)
            /\ UNCHANGED <<oops, sent, delivered, closedEp>>

\* OnObserveClosure: the port learns that its peer closed after sending
\* last.  A Receiving port only records it; any other port arms its removal,
\* and a proxy may be removed and passes the event on to its peer.
OnObserveClosure(m) ==
    LET t  == m.port
        r  == port[t]
        W1 == [World EXCEPT !.port[t].peer_closed = TRUE,
                            !.port[t].last_recv = m.last]
        W2 == [W1 EXCEPT !.port[t].remove_proxy = TRUE]
    IN /\ m.type = "ObserveClosure"
       /\ IF ~InMap(port, t, m.node) THEN Ignore(m)
          ELSE /\ IF r.state = "Receiving" THEN Commit(W1, m)
                  ELSE IF r.state = "Proxying"
                  THEN Commit(Emit(MaybeRemoveProxy(W2, t),
                                   ObserveClosureEvent(r.peer_node, r.peer_port,
                                                       m.last)), m)
                  ELSE Commit(W2, m)
               /\ UNCHANGED <<oops, sent, delivered, closedEp>>

\* Node::AcceptMessage.
AcceptMessage(m) ==
    \/ OnUserMessage(m)
    \/ OnPortAccepted(m)
    \/ OnObserveProxy(m)
    \/ OnObserveProxyAck(m)
    \/ OnObserveClosure(m)

-----------------------------------------------------------------------------

\* A node whose process has died takes no more steps.
OnLive(p) == port[p].node \notin lost

UserStep ==
    \/ \E p \in Names, c \in Names \cup {None} : OnLive(p) /\ SendMessage(p, c)
    \/ \E p \in Names : OnLive(p) /\ GetMessage(p)
    \/ \E p \in Names : OnLive(p) /\ ClosePort(p)

\* A live node accepts an event addressed to it; events for a dead node
\* are never read.
Accept(m) == m.node \notin lost /\ AcceptMessage(m) /\ UNCHANGED <<lost, notified>>

Deliver == \E m \in DOMAIN network : Accept(m)

\* The process of node l dies, with its ports and the events it would
\* have read.
LoseNode(l) ==
    /\ l \in Losable /\ l \notin lost
    /\ lost' = lost \cup {l}
    /\ UNCHANGED <<port, gen, network, oops, sent, delivered, closedEp, notified>>

\* Node::LostConnectionToNode(l) on node n, which NodeController::DropPeer
\* calls when the channel to l fails, after n has read every event that
\* came before the failure: every port of n whose peer is on l becomes
\* peer-closed at its queue's frontier, and every such port that is not
\* Receiving is erased (PortStatusChanged only wakes the user).
LostConnectionToNode(n, l) ==
    LET gone(q) == InMap(port, q, n) /\ port[q].peer_node = l IN
    /\ n \notin lost /\ l \in lost /\ <<n, l>> \notin notified
    /\ \A m \in DOMAIN network : m.node # n
    /\ port' = [q \in Names |->
                  IF ~gone(q) THEN port[q]
                  ELSE LET r == IF port[q].peer_closed THEN port[q]
                                ELSE [port[q] EXCEPT !.peer_closed = TRUE,
                                                     !.last_recv = port[q].queue.next - 1]
                       IN  IF r.state = "Receiving" THEN r ELSE [r EXCEPT !.state = "Erased"]]
    /\ notified' = notified \cup {<<n, l>>}
    /\ UNCHANGED <<gen, network, oops, sent, delivered, closedEp, lost>>

Next ==
    \/ UserStep /\ UNCHANGED <<lost, notified>>
    \/ \E p \in Names : OnLive(p) /\ ClosePortErase(p) /\ UNCHANGED <<lost, notified>>
    \/ Deliver
    \/ \E l \in Nodes : LoseNode(l)
    \/ \E n, l \in Nodes : LostConnectionToNode(n, l)

\* Accepting the user message sent as the i-th from end e (forwarding keeps
\* its identity), or a control event addressed to port p.
DeliverUser(e, i) ==
    \E m \in DOMAIN network :
        m.type = "User" /\ m.from = e /\ m.id = i /\ Accept(m)

DeliverControl(p) ==
    \E m \in DOMAIN network : m.type # "User" /\ m.port = p /\ Accept(m)

\* The node layer of a live node accepts every event it is handed: the
\* NodeController's incoming queue, the loopback queue and the node
\* channels are FIFO and drained by their threads, so no event waits
\* forever while others are accepted.  A thread that closed a port goes on
\* to erase it.  The IO thread reports a failed channel.  The user need not
\* call anything.
Fairness ==
    /\ \A e \in Endpoints : \A i \in 1..MaxSends[e] : WF_vars(DeliverUser(e, i))
    /\ \A p \in Names : WF_vars(OnLive(p) /\ ClosePortErase(p) /\ UNCHANGED <<lost, notified>>)
    /\ \A p \in Names : WF_vars(DeliverControl(p))
    /\ \A n, l \in Nodes : WF_vars(LostConnectionToNode(n, l))

Spec == Init /\ [][Next]_vars /\ Fairness

-----------------------------------------------------------------------------
(* Properties.                                                             *)

\* Every variable has the shape the code's types give it, and every port in
\* a node's map counts sequence numbers from kInitialSequenceNum: the
\* counters a transferred port gets from its descriptor are never below it.
TypeOK ==
    /\ \A p \in Names :
         /\ port[p].state \in PortStates \cup Absent
         /\ port[p].node \in Nodes
         /\ port[p].next_send \in Nat /\ port[p].last_recv \in Nat
         /\ port[p].queue.next \in Nat
         /\ port[p].queue.signalable \in BOOLEAN
         /\ port[p].remove_proxy \in BOOLEAN /\ port[p].peer_closed \in BOOLEAN
         /\ port[p].state \notin Absent =>
              /\ port[p].next_send >= kInitialSequenceNum
              /\ port[p].queue.next >= kInitialSequenceNum
    /\ gen \in [Endpoints -> 0..MaxGen]
    /\ IsABag(network)
    /\ \A e \in Endpoints : sent[e] \in 0..MaxSends[e]
    /\ delivered \in [Endpoints -> Seq(Nat)]
    /\ closedEp \subseteq Endpoints
    /\ lost \subseteq Losable /\ notified \subseteq Nodes \X Nodes

\* Order preservation and no duplication (spec section 8): what GetMessage
\* returns, on whichever port currently holds the reading end, is the
\* messages SendMessage accepted at the other end, in the order they were
\* sent and with no gap, even though both ends may move between nodes and
\* the sequence counters travel in port descriptors.
InOrderDelivery ==
    \A e \in Endpoints : delivered[e] = [i \in 1..Len(delivered[e]) |-> i]

\* No handler reaches an OOPS (a CHECK failure that kills the process):
\* PortAccepted always finds its Buffering port, ObserveProxyAck always
\* finds a proxy when it finds the port at all.
NoOops == oops = {}

\* The user message sent as the i-th from end e is still in flight or
\* queued at a port that exists.
InSystem(e, i) ==
    \/ \E m \in DOMAIN network : m.type = "User" /\ m.from = e /\ m.id = i
    \/ \E p \in Names :
         /\ port[p].state \notin Absent
         /\ \E m \in port[p].queue.heap : m.from = e /\ m.id = i

\* End e has died: no port of it is left on a live node and no message in
\* flight to a live node carries it.
EndGone(e) ==
    /\ ~\E q \in Names : EndOf(q) = e /\ port[q].state \notin Absent /\ OnLive(q)
    /\ ~\E m \in DOMAIN network : /\ m.type = "User" /\ m.carried # None
                                  /\ EndOf(m.carried.name) = e /\ m.node \notin lost

\* No loss under transfer: a message sent and not yet read is never
\* dropped while its reading end is open and alive.  A proxy must not be
\* erased (MaybeRemoveProxy, or LostConnectionToNode when its peer's node
\* dies) before the last message addressed to it arrived, and
\* CanAcceptMoreMessages must not turn away a message still expected.
MessagesNotLost ==
    \A e \in Endpoints :
        PeerOf[e] \notin closedEp /\ ~EndGone(PeerOf[e]) =>
            \A i \in (Len(delivered[e]) + 1)..sent[e] : InSystem(e, i)

\* The i-th message from e is queued at a Receiving port of the reading end.
AtReceiver(e, i) ==
    \E p \in Names :
        /\ EndOf(p) = PeerOf[e]
        /\ port[p].state = "Receiving"
        /\ \E m \in port[p].queue.heap : m.from = e /\ m.id = i

\* Every message sent eventually reaches the port that currently holds the
\* reading end (or is read there), unless that end is closed: proxies
\* forward everything they were sent before they go away.
EventuallyAtReceiver ==
    \A e \in Endpoints : \A i \in 1..MaxSends[e] :
        (sent[e] >= i) ~> (\/ AtReceiver(e, i)
                          \/ Len(delivered[e]) >= i
                          \/ PeerOf[e] \in closedEp)

\* Proxy collapse: every port that was transferred away (Buffering, then
\* Proxying) is eventually erased from its node, through PortAccepted,
\* ObserveProxy, ObserveProxyAck (resent while the upstream port is itself
\* a proxy) or ObserveClosure.
ProxiesCollapse ==
    \A p \in Names :
        (port[p].state \in {"Buffering", "Proxying"}) ~> (port[p].state = "Erased")

\* Closure is observed: when one end is closed, the port that holds the
\* other end eventually records peer_closed, so GetMessage reports
\* PeerClosed once it has read what was sent (node.h: "the port's peer is
\* notified of the closure after it has consumed all pending messages").
ClosureObserved ==
    \A e \in Endpoints :
        (e \in closedEp) ~>
            (\/ PeerOf[e] \in closedEp
             \/ \E p \in Names : /\ EndOf(p) = PeerOf[e]
                                 /\ port[p].state = "Receiving"
                                 /\ port[p].peer_closed)

\* No port is orphaned: a Receiving port the user has not been handed yet
\* (not signalable) is carried by a message queued at a port that exists and
\* is not closed, so it either reaches the user or is forwarded.  A port
\* nobody can reach never closes, and its peer never learns of it.
NoOrphanPorts ==
    \A p \in Names :
        (port[p].state = "Receiving" /\ ~port[p].queue.signalable) =>
            \E t \in Names :
                /\ port[t].state \in {"Receiving", "Buffering", "Proxying"}
                /\ \E m \in port[t].queue.heap :
                      m.carried # None /\ m.carried.name = p
\* The port holding end e, on a live node, knows its peer is closed.
PeerClosedSeen(e) ==
    \E p \in Names : /\ EndOf(p) = e /\ port[p].state = "Receiving" /\ OnLive(p)
                     /\ port[p].peer_closed

\* Loss of a peer is observed: when the node holding one end of a pipe
\* dies, the port holding the other end on a live node eventually records
\* peer_closed, so GetMessage reports PeerClosed instead of waiting for
\* ever ("a lost node causes surviving peers to observe closure"), also
\* when its peer was still a Buffering or Proxying port on its own node.
PeerLossObserved ==
    \A e \in Endpoints :
        (EndGone(PeerOf[e]) /\ PeerOf[e] \notin closedEp) ~>
            (PeerClosedSeen(e) \/ EndGone(e) \/ e \in closedEp)
=============================================================================
