------------------------------ MODULE SendAtomic ------------------------------
(***************************************************************************)
(* What Node promises of SendMessage, ClosePort and ErasePort on one node  *)
(* (src/mojo/edk/system/ports/node.cc), with each call taking effect in a *)
(* single step: a send that succeeds stamps the next sequence number of   *)
(* its port and takes every port it carries, which must all be Receiving, *)
(* none the sender's own peer; a send that fails changes nothing.  This is *)
(* the abstract specification SendWithPorts implements, whatever the order *)
(* in which its threads take the locks.                                    *)
(***************************************************************************)
EXTENDS Naturals

CONSTANTS
    Ports,   \* names of the ports of this node
    PeerOf,  \* [Ports -> Ports \cup {None}]: the local peer, if any
    None

VARIABLES
    state,     \* [Ports -> {"Receiving", "Buffering", "Closed"}]
    inMap,     \* [Ports -> BOOLEAN]: the port is in ports_
    nextSend,  \* [Ports -> Nat]: next_sequence_num_to_send
    sends      \* [Ports -> Nat]: messages p has handed to its peer

avars == <<state, inMap, nextSend, sends>>

ASendInit ==
    /\ state = [p \in Ports |-> "Receiving"]
    /\ inMap = [p \in Ports |-> TRUE]
    /\ nextSend = [p \in Ports |-> 1]
    /\ sends = [p \in Ports |-> 0]

\* SendMessage from p with a message carrying the ports X succeeds: the
\* message is handed on with the number nextSend[p], the next one.  A
\* SendMessage that fails is no step.
ASend(p, X) ==
    /\ p \notin X
    /\ state[p] = "Receiving"
    /\ \A x \in X : state[x] = "Receiving" /\ x # PeerOf[p]
    /\ state' = [x \in Ports |-> IF x \in X THEN "Buffering" ELSE state[x]]
    /\ nextSend' = [nextSend EXCEPT ![p] = @ + 1]
    /\ sends' = [sends EXCEPT ![p] = @ + 1]
    /\ UNCHANGED inMap

\* ClosePort on a Receiving port.
AClose(p) ==
    /\ state[p] = "Receiving"
    /\ state' = [state EXCEPT ![p] = "Closed"]
    /\ UNCHANGED <<inMap, nextSend, sends>>

\* ErasePort of a port that is closed or was sent away.
AErase(p) ==
    /\ inMap[p] /\ state[p] # "Receiving"
    /\ inMap' = [inMap EXCEPT ![p] = FALSE]
    /\ UNCHANGED <<state, nextSend, sends>>

ASendNext ==
    \E p \in Ports :
        \/ \E X \in SUBSET Ports : ASend(p, X)
        \/ AClose(p)
        \/ AErase(p)

ASendSpec == ASendInit /\ [][ASendNext]_avars
=============================================================================
