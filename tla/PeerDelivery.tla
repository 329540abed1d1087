---------------------------- MODULE PeerDelivery ----------------------------
(***************************************************************************)
(* What the node controllers promise the ports layer (src/mojo/edk/system *)
(* /node_controller.h, NodeController::ForwardMessage): a ports message    *)
(* forwarded by one node to another is delivered there exactly once, and  *)
(* the messages of one sender reach one receiver in the order they were    *)
(* forwarded.  Messages are named by the number of their forwarding.      *)
(* Once a node has failed, messages in flight may be lost, and a message  *)
(* may be forwarded into a channel nobody reads.                          *)
(***************************************************************************)
EXTENDS Naturals, Sequences, FiniteSets

CONSTANTS
    Nodes,   \* the nodes
    Burst    \* the most messages one step forwards to one node

VARIABLES
    sent,      \* [Nodes -> [Nodes -> Nat]]: sent[s][d] messages s forwarded to d
    recv,      \* [Nodes -> [Nodes -> Seq(Nat)]]: recv[d][s], the numbers d received from s
    inflight,  \* [Nodes -> [Nodes -> SUBSET Nat]]: forwarded by s to d, not yet received
    failed     \* some node has failed

Init ==
    /\ sent = [s \in Nodes |-> [d \in Nodes |-> 0]]
    /\ recv = [d \in Nodes |-> [s \in Nodes |-> <<>>]]
    /\ inflight = [s \in Nodes |-> [d \in Nodes |-> {}]]
    /\ failed = FALSE

\* s forwards k messages to d at once.
Forward(s, d, k) ==
    /\ sent' = [sent EXCEPT ![s][d] = @ + k]
    /\ inflight' = [inflight EXCEPT ![s][d] = @ \cup (sent[s][d] + 1 .. sent[s][d] + k)]
    /\ UNCHANGED <<recv, failed>>

\* d receives the oldest message from s still in flight.
Deliver(s, d) ==
    LET oldest == CHOOSE i \in inflight[s][d] : \A j \in inflight[s][d] : i <= j IN
    /\ inflight[s][d] # {}
    /\ recv' = [recv EXCEPT ![d][s] = Append(@, oldest)]
    /\ inflight' = [inflight EXCEPT ![s][d] = @ \ {oldest}]
    /\ UNCHANGED <<sent, failed>>

Fail == ~failed /\ failed' = TRUE /\ UNCHANGED <<sent, recv, inflight>>

\* After a failure, s forwards k messages to d that are lost at once.
ForwardLost(s, d, k) ==
    /\ failed
    /\ sent' = [sent EXCEPT ![s][d] = @ + k]
    /\ UNCHANGED <<recv, inflight, failed>>

\* After a failure, some messages from s to d in flight are lost.
Lose(s, d) ==
    /\ failed
    /\ \E kept \in SUBSET inflight[s][d] : inflight' = [inflight EXCEPT ![s][d] = kept]
    /\ UNCHANGED <<sent, recv, failed>>

Next ==
    \/ \E s, d \in Nodes :
          /\ s # d
          /\ \/ \E k \in 1..Burst : Forward(s, d, k) \/ ForwardLost(s, d, k)
             \/ Deliver(s, d)
             \/ Lose(s, d)
    \/ Fail

Spec == Init /\ [][Next]_<<sent, recv, inflight, failed>>

=============================================================================
