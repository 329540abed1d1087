-------------------------------- MODULE Core --------------------------------
(***************************************************************************)
(* The message-pipe calls of Core (src/mojo/edk/system/core.cc) on one     *)
(* node, composed with the locking of Node::SendMessage and ClosePort      *)
(* below them (SendWithPorts).  Each handle names the MessagePipeDispatcher *)
(* of one port.                                                            *)
(*                                                                         *)
(* HandleTable and message_pipe_dispatcher.cc are not in the repository.   *)
(* Their behaviour as core.cc relies on it: GetDispatcher finds any handle *)
(* still in the table, in transit or not; GetAndRemoveDispatcher refuses a *)
(* handle in transit (MOJO_RESULT_BUSY); BeginTransit marks every handle   *)
(* of the message busy, or fails and leaves them as they were when one is  *)
(* busy or unknown; CompleteTransit removes the handles, CancelTransit     *)
(* unmarks them.  The dispatcher's WriteMessage hands the message, with   *)
(* the ports of the dispatchers in transit, to Node::SendMessage and       *)
(* returns its result; ReadMessage calls Node::GetMessage (a locked        *)
(* operation on the port) and Close calls Node::ClosePort.                 *)
(*                                                                         *)
(* A call that returns an error before it changes anything (an unknown     *)
(* handle, MOJO_RESULT_BUSY, a failed BeginTransit) is not a step.         *)
(***************************************************************************)
EXTENDS Naturals, Sequences, FiniteSets

CONSTANTS
    Threads, Ports, PeerOf, MaxCalls, None,   \* as in SendWithPorts
    Handles,   \* the handles of the message pipes' dispatchers
    PortOf,    \* [Handles -> Ports], one to one: the dispatcher's port
    Writes     \* set of [h |-> handle, hs |-> Seq(Handles)]: WriteMessage calls

ASSUME /\ PortOf \in [Handles -> Ports]
       /\ \A h, g \in Handles : PortOf[h] = PortOf[g] => h = g
       /\ \A w \in Writes : w.h \in Handles /\ w.hs \in Seq(Handles)

VARIABLES
    owner, swp, state, inMap, nextSend, pc, calls, sends, taken, crashed,
    table,     \* [Handles -> {"idle", "busy", "closed", "sent"}]: the handle
               \* table; "closed" and "sent" are both out of the table
    transit    \* [Threads -> SUBSET Handles]: the handles thread t's
               \* WriteMessage has in transit

nodeVars == <<owner, swp, state, inMap, nextSend, pc, calls, sends, taken, crashed>>
vars == <<nodeVars, table, transit>>

\* The handles a message carries.
HandlesOf(hs) == {hs[i] : i \in DOMAIN hs}

\* The SendMessage call the dispatcher makes for a WriteMessage.
SendCall(w) == [from |-> PortOf[w.h], ports |-> [i \in DOMAIN w.hs |-> PortOf[w.hs[i]]]]

Node == INSTANCE SendWithPorts
    WITH Calls <- {SendCall(w) : w \in Writes},
         OpPorts <- Ports,
         ClosePorts <- Ports

-----------------------------------------------------------------------------

\* Both dispatchers of every pipe were added by CreateMessagePipe.
Init ==
    /\ Node!Init
    /\ table = [h \in Handles |-> "idle"]
    /\ transit = [t \in Threads |-> {}]

\* Core::WriteMessage up to dispatcher->WriteMessage: GetDispatcher finds
\* w.h, no carried handle is w.h itself (else MOJO_RESULT_BUSY), and
\* BeginTransit under handles_lock_ marks the carried handles busy.  The
\* dispatcher calls Node::SendMessage, whose first step this is too.  With
\* no handles (the fast path) nothing is put in transit.
WriteMessage(t, w) ==
    LET X == HandlesOf(w.hs) IN
    /\ transit[t] = {}
    /\ table[w.h] \in {"idle", "busy"}
    /\ w.h \notin X
    /\ \A x \in X : table[x] = "idle"
    /\ table' = [x \in Handles |-> IF x \in X THEN "busy" ELSE table[x]]
    /\ transit' = [transit EXCEPT ![t] = X]
    /\ Node!CallSendMessage(t, SendCall(w))

\* The sent ports are Buffering once SendMessage has returned OK; a refused
\* send leaves them Receiving (their handles are busy, so no other call
\* can take or close them meanwhile).
Sent(t) == \A x \in transit[t] : state[PortOf[x]] = "Buffering"

WriteMessageCompleteAlways(t) ==
    /\ ~crashed /\ pc[t].at = "idle" /\ transit[t] # {}
    /\ table' = [x \in Handles |-> IF x \in transit[t] THEN "sent" ELSE table[x]]
    /\ transit' = [transit EXCEPT ![t] = {}]
    /\ UNCHANGED nodeVars

EndWriteMessageNoCancel(t) ==
    /\ ~crashed /\ pc[t].at = "idle" /\ transit[t] # {}
    /\ table' = [x \in Handles |-> IF x \in transit[t] /\ Sent(t) THEN "sent" ELSE table[x]]
    /\ transit' = [transit EXCEPT ![t] = {}]
    /\ UNCHANGED nodeVars

\* After dispatcher->WriteMessage returns: under handles_lock_,
\* CompleteTransit when it returned MOJO_RESULT_OK, CancelTransit otherwise.
EndWriteMessage(t) ==
    /\ ~crashed /\ pc[t].at = "idle" /\ transit[t] # {}
    /\ table' = [x \in Handles |-> IF x \in transit[t]
                                   THEN IF Sent(t) THEN "sent" ELSE "idle"
                                   ELSE table[x]]
    /\ transit' = [transit EXCEPT ![t] = {}]
    /\ UNCHANGED nodeVars

\* Core::Close: GetAndRemoveDispatcher under handles_lock_ (a handle in
\* transit gives MOJO_RESULT_BUSY), then dispatcher->Close() closes the port.
Close(t, h) ==
    /\ transit[t] = {}
    /\ table[h] = "idle"
    /\ table' = [table EXCEPT ![h] = "closed"]
    /\ Node!CallClosePort(t, PortOf[h])
    /\ UNCHANGED transit

\* Core::ReadMessage: GetDispatcher, then the dispatcher's GetMessage, which
\* holds the port's lock.
ReadMessage(t, h) ==
    /\ transit[t] = {}
    /\ table[h] \in {"idle", "busy"}
    /\ Node!CallLockedOp(t, PortOf[h])
    /\ UNCHANGED <<table, transit>>

\* A step of a thread inside the Node, or of the IO thread.
NodeStep ==
    /\ \/ \E t \in Threads :
             \/ Node!LockPort(t) \/ Node!LockSendWithPorts(t) \/ Node!TakePort(t)
             \/ Node!UnlockOnError(t) \/ Node!Send(t)
             \/ Node!OpLock(t) \/ Node!OpUnlock(t)
             \/ Node!ClosePortLocked(t) \/ Node!ClosePortErase(t)
       \/ \E x \in Ports : Node!ProxyRemoved(x)
    /\ UNCHANGED <<table, transit>>

Next ==
    \/ \E t \in Threads :
         \/ \E w \in Writes : WriteMessage(t, w)
         \/ EndWriteMessage(t)
         \/ \E h \in Handles : Close(t, h) \/ ReadMessage(t, h)
    \/ NodeStep

\* Threads and the IO thread are scheduled as in SendWithPorts, and a
\* thread whose SendMessage has returned goes on to end the transit.
Fairness == Node!Fairness /\ \A t \in Threads : WF_vars(EndWriteMessage(t))

Spec == Init /\ [][Next]_vars /\ Fairness

-----------------------------------------------------------------------------
(* Properties.                                                             *)

\* Every variable has the type the code gives it.
TypeOK ==
    /\ Node!TypeOK
    /\ table \in [Handles -> {"idle", "busy", "closed", "sent"}]
    /\ transit \in [Threads -> SUBSET Handles]

\* Node::SendMessage and ClosePort stay linearizable (SendWithPorts) when
\* they are called through Core::WriteMessage and Core::Close.
SendLinearizable == Node!SendLinearizable

\* The handle table agrees with the ports below it.  A handle the user
\* still holds names a Receiving port that no send has taken, a handle the
\* user closed names a port no send took, and a handle whose dispatcher was
\* sent names a port exactly one send took.  Core::WriteMessage must pick
\* CompleteTransit or CancelTransit from the send's result, and BeginTransit
\* must keep two threads from carrying the same handle: otherwise a user
\* keeps a handle to a port already sent (and GetPort may then return null
\* for it, node.cc:789) or loses a handle whose port never left.
HandlesMatchPorts ==
    \A h \in Handles :
        /\ table[h] = "idle" => state[PortOf[h]] = "Receiving"
        /\ table[h] \in {"idle", "closed"} => taken[PortOf[h]] = 0
        /\ table[h] = "sent" => taken[PortOf[h]] = 1

\* Every handle put in transit leaves it: each WriteMessage that carries
\* handles returns from SendMessage (no lock is left held, no thread waits
\* for ever) and then runs CompleteTransit or CancelTransit, so no handle
\* stays busy, refusing Close and every later send, for ever.
TransitEnds == \A h \in Handles : table[h] = "busy" ~> table[h] # "busy"
=============================================================================
