---------------------------- MODULE SendWithPorts ----------------------------
(***************************************************************************)
(* The locking of Node::SendMessage and Node::WillSendMessage_Locked       *)
(* (src/mojo/edk/system/ports/node.cc 250-285, 752-835) on one node, with  *)
(* user threads calling SendMessage with messages that carry ports,       *)
(* ClosePort, other operations that hold one port's lock (GetMessage,    *)
(* GetStatus, the event handlers), and the IO thread that erases a port  *)
(* once it has been transferred (PortAccepted and ObserveProxyAck,       *)
(* PortsNode).                                                             *)
(*                                                                         *)
(* A step ends at every lock acquisition, which may block, and at every    *)
(* unlock that can race with another thread; code between them that takes *)
(* no lock is part of the step.  A std::mutex is owned by at most one      *)
(* thread; unlock() of a mutex the caller does not own is undefined        *)
(* behaviour, and the glibc mutex behind it simply releases the lock,      *)
(* whoever holds it: that is the outcome modelled.                         *)
(***************************************************************************)
EXTENDS Naturals, Sequences, FiniteSets

CONSTANTS
    Threads,    \* user threads
    Ports,      \* names of the ports of this node
    PeerOf,     \* [Ports -> Ports \cup {None}]: the local peer, if any
    Calls,      \* set of [from |-> port, ports |-> Seq(Ports)]: SendMessage calls
    OpPorts,    \* ports on which other operations take the lock
    ClosePorts, \* ports ClosePort is called on
    MaxCalls,   \* bound: operations started per thread
    None        \* model value

ASSUME \A c \in Calls : c.from \in Ports /\ c.ports \in Seq(Ports)

VARIABLES
    owner,      \* [Ports -> Threads \cup {None}]: Port::lock
    swp,        \* owner of send_with_ports_lock_
    state,      \* [Ports -> {"Receiving", "Buffering", "Closed"}]
    inMap,      \* [Ports -> BOOLEAN]: GetPort finds the port
    nextSend,   \* [Ports -> Nat]: next_sequence_num_to_send
    pc,         \* [Threads -> record]: where each thread is
    calls,      \* [Threads -> Nat]: operations started
    sends,      \* ghost: [Ports -> Nat] successful SendMessage calls from p
    taken,      \* ghost: [Ports -> Nat] successful sends that carried p
    crashed     \* a thread dereferenced the null port GetPort returned

vars == <<owner, swp, state, inMap, nextSend, pc, calls, sends, taken, crashed>>

kInitialSequenceNum == 1

Idle == [at |-> "idle", from |-> None, ports |-> <<>>, i |-> 0, j |-> 0]

\* Thread t is at label l of a running process: a null dereference ends
\* the process, and after it no thread takes another step.
At(t, l) == ~crashed /\ pc[t].at = l

\* The lock is free.
Free(p) == owner[p] = None

\* Set of the ports a message carries.
Carried(ms) == {ms[k] : k \in 1..Len(ms)}

-----------------------------------------------------------------------------

Init ==
    /\ owner = [p \in Ports |-> None]
    /\ swp = None
    /\ state = [p \in Ports |-> "Receiving"]
    /\ inMap = [p \in Ports |-> TRUE]
    /\ nextSend = [p \in Ports |-> kInitialSequenceNum]
    /\ pc = [t \in Threads |-> Idle]
    /\ calls = [t \in Threads |-> 0]
    /\ sends = [p \in Ports |-> 0]
    /\ taken = [p \in Ports |-> 0]
    /\ crashed = FALSE

\* SendMessage is called.  The CannotSendSelf check runs before any lock;
\* when it fails the call returns at once and is not a step.
CallSendMessage(t, c) ==
    /\ At(t, "idle") /\ calls[t] < MaxCalls
    /\ c.from \notin Carried(c.ports)
    /\ pc' = [pc EXCEPT ![t] = [Idle EXCEPT !.at = "lock_port", !.from = c.from,
                                            !.ports = c.ports]]
    /\ calls' = [calls EXCEPT ![t] = @ + 1]
    /\ UNCHANGED <<owner, swp, state, inMap, nextSend, sends, taken, crashed>>

LockPortRollsBack(t) ==
    LET p == pc[t].from IN
    /\ At(t, "lock_port")
    /\ Free(p)
    /\ IF state[p] # "Receiving"
       THEN /\ pc' = [pc EXCEPT ![t] = Idle]
            /\ nextSend' = [nextSend EXCEPT ![p] = @ - 1]
            /\ UNCHANGED owner
       ELSE /\ owner' = [owner EXCEPT ![p] = t]
            /\ nextSend' = [nextSend EXCEPT ![p] = @ + 1]
            /\ pc' = [pc EXCEPT ![t].at = IF pc[t].ports = <<>> THEN "send"
                                          ELSE "lock_swp"]
    /\ UNCHANGED <<swp, state, inMap, calls, sends, taken, crashed>>

\* lock_guard on port->lock; a port that is not Receiving returns
\* PortStateUnexpected.  Otherwise WillSendMessage_Locked stamps the
\* message; with ports to take, it goes for send_with_ports_lock_.
LockPort(t) ==
    LET p == pc[t].from IN
    /\ At(t, "lock_port")
    /\ Free(p)
    /\ IF state[p] # "Receiving"
       THEN /\ pc' = [pc EXCEPT ![t] = Idle]
            /\ UNCHANGED <<owner, nextSend>>
       ELSE /\ owner' = [owner EXCEPT ![p] = t]
            /\ nextSend' = [nextSend EXCEPT ![p] = @ + 1]
            /\ pc' = [pc EXCEPT ![t].at = IF pc[t].ports = <<>> THEN "send"
                                          ELSE "lock_swp"]
    /\ UNCHANGED <<swp, state, inMap, calls, sends, taken, crashed>>

LockSendWithPorts(t) ==
    /\ At(t, "lock_swp")
    /\ swp = None
    /\ swp' = t
    /\ pc' = [pc EXCEPT ![t].at = "take", ![t].i = 1]
    /\ UNCHANGED <<owner, state, inMap, nextSend, calls, sends, taken, crashed>>

TakePortAnyState(t) ==
    LET x == pc[t].ports[pc[t].i] IN
    /\ At(t, "take")
    /\ IF ~inMap[x]
       THEN /\ crashed' = TRUE
            /\ pc' = [pc EXCEPT ![t].at = "crashed"]
            /\ UNCHANGED owner
       ELSE /\ Free(x)
            /\ owner' = [owner EXCEPT ![x] = t]
            /\ pc' = [pc EXCEPT ![t] =
                 IF x = PeerOf[pc[t].from]
                 THEN [@ EXCEPT !.at = "unlock_err", !.j = 0]
                 ELSE IF pc[t].i < Len(pc[t].ports) THEN [@ EXCEPT !.i = @ + 1]
                 ELSE [@ EXCEPT !.at = "send"]]
            /\ UNCHANGED crashed
    /\ UNCHANGED <<swp, state, inMap, nextSend, calls, sends, taken>>

\* ports[i] = GetPort(...); ports[i]->lock.lock(); then the state and
\* CannotSendPeer checks.  A port no longer in ports_ gives a null pointer,
\* dereferenced by lock().
TakePort(t) ==
    LET x == pc[t].ports[pc[t].i] IN
    /\ At(t, "take")
    /\ IF ~inMap[x]
       THEN /\ crashed' = TRUE
            /\ pc' = [pc EXCEPT ![t].at = "crashed"]
            /\ UNCHANGED owner
       ELSE /\ Free(x)
            /\ owner' = [owner EXCEPT ![x] = t]
            /\ pc' = [pc EXCEPT ![t] =
                 IF state[x] # "Receiving" \/ x = PeerOf[pc[t].from]
                 THEN [@ EXCEPT !.at = "unlock_err", !.j = 0]
                 ELSE IF pc[t].i < Len(pc[t].ports) THEN [@ EXCEPT !.i = @ + 1]
                 ELSE [@ EXCEPT !.at = "send"]]
            /\ UNCHANGED crashed
    /\ UNCHANGED <<swp, state, inMap, nextSend, calls, sends, taken>>

UnlockOnErrorNoRollback(t) ==
    LET k == pc[t].i
        x == pc[t].ports[k]
        p == pc[t].from
    IN /\ At(t, "unlock_err")
       /\ IF pc[t].j + 1 < k
          THEN /\ owner' = [owner EXCEPT ![x] = None]
               /\ pc' = [pc EXCEPT ![t].j = @ + 1]
               /\ UNCHANGED swp
          ELSE /\ owner' = [owner EXCEPT ![x] = None, ![p] = None]
               /\ swp' = None
               /\ pc' = [pc EXCEPT ![t] = Idle]
       /\ UNCHANGED <<state, inMap, nextSend, calls, sends, taken, crashed>>

\* The error path: for (j = 0; j <= i; ++j) ports[i]->lock.unlock(); then
\* next_sequence_num_to_send--, and the lock_guards release
\* send_with_ports_lock_ and port->lock on return.
UnlockOnError(t) ==
    LET k == pc[t].i
        x == pc[t].ports[k]
        p == pc[t].from
    IN /\ At(t, "unlock_err")
       /\ IF pc[t].j + 1 < k
          THEN /\ owner' = [owner EXCEPT ![x] = None]
               /\ pc' = [pc EXCEPT ![t].j = @ + 1]
               /\ UNCHANGED <<swp, nextSend>>
          ELSE /\ owner' = [owner EXCEPT ![x] = None, ![p] = None]
               /\ nextSend' = [nextSend EXCEPT ![p] = @ - 1]
               /\ swp' = None
               /\ pc' = [pc EXCEPT ![t] = Idle]
       /\ UNCHANGED <<state, inMap, calls, sends, taken, crashed>>

\* Success: send_with_ports_lock_ is released, WillSendPort_Locked makes
\* every carried port Buffering, their locks are released, the message is
\* forwarded and port->lock is released.
Send(t) ==
    LET p == pc[t].from
        X == Carried(pc[t].ports)
    IN /\ At(t, "send")
       /\ swp' = IF swp = t THEN None ELSE swp
       /\ state' = [x \in Ports |-> IF x \in X THEN "Buffering" ELSE state[x]]
       /\ owner' = [x \in Ports |-> IF x \in X \cup {p} THEN None ELSE owner[x]]
       /\ sends' = [sends EXCEPT ![p] = @ + 1]
       /\ taken' = [x \in Ports |-> IF x \in X THEN taken[x] + 1 ELSE taken[x]]
       /\ pc' = [pc EXCEPT ![t] = Idle]
       /\ UNCHANGED <<inMap, nextSend, calls, crashed>>

\* Another operation on p under a lock_guard: take the lock, then release.
CallLockedOp(t, p) ==
    /\ At(t, "idle") /\ calls[t] < MaxCalls
    /\ pc' = [pc EXCEPT ![t] = [Idle EXCEPT !.at = "op", !.from = p]]
    /\ calls' = [calls EXCEPT ![t] = @ + 1]
    /\ UNCHANGED <<owner, swp, state, inMap, nextSend, sends, taken, crashed>>

OpLock(t) ==
    /\ At(t, "op") /\ Free(pc[t].from)
    /\ owner' = [owner EXCEPT ![pc[t].from] = t]
    /\ pc' = [pc EXCEPT ![t].at = "op_unlock"]
    /\ UNCHANGED <<swp, state, inMap, nextSend, calls, sends, taken, crashed>>

OpUnlock(t) ==
    /\ At(t, "op_unlock")
    /\ owner' = [owner EXCEPT ![pc[t].from] = None]
    /\ pc' = [pc EXCEPT ![t] = Idle]
    /\ UNCHANGED <<swp, state, inMap, nextSend, calls, sends, taken, crashed>>

\* ClosePort is called on p.
CallClosePort(t, p) ==
    /\ At(t, "idle") /\ calls[t] < MaxCalls
    /\ pc' = [pc EXCEPT ![t] = [Idle EXCEPT !.at = "close", !.from = p]]
    /\ calls' = [calls EXCEPT ![t] = @ + 1]
    /\ UNCHANGED <<owner, swp, state, inMap, nextSend, sends, taken, crashed>>

\* ClosePort's lock_guard: a port that is not Receiving returns
\* PortStateUnexpected, a Receiving one becomes Closed.  Nothing in the
\* guarded block waits, so taking and releasing the lock is one step.
ClosePortLocked(t) ==
    LET p == pc[t].from IN
    /\ At(t, "close") /\ Free(p)
    /\ IF state[p] = "Receiving"
       THEN /\ state' = [state EXCEPT ![p] = "Closed"]
            /\ pc' = [pc EXCEPT ![t].at = "erase"]
       ELSE /\ pc' = [pc EXCEPT ![t] = Idle]
            /\ UNCHANGED state
    /\ UNCHANGED <<owner, swp, inMap, nextSend, calls, sends, taken, crashed>>

\* After forwarding ObserveClosure (no lock), ErasePort removes p from
\* ports_ and ClosePort returns OK.
ClosePortErase(t) ==
    /\ At(t, "erase")
    /\ inMap' = [inMap EXCEPT ![pc[t].from] = FALSE]
    /\ pc' = [pc EXCEPT ![t] = Idle]
    /\ UNCHANGED <<owner, swp, state, nextSend, calls, sends, taken, crashed>>

\* The IO thread: OnPortAccepted and OnObserveProxyAck, under the port's
\* lock, turn a transferred port into a proxy and erase it (ErasePort).
ProxyRemoved(x) ==
    /\ ~crashed /\ state[x] = "Buffering" /\ inMap[x] /\ Free(x)
    /\ inMap' = [inMap EXCEPT ![x] = FALSE]
    /\ UNCHANGED <<owner, swp, state, nextSend, pc, calls, sends, taken, crashed>>

Next ==
    \/ \E t \in Threads :
         \/ \E c \in Calls : CallSendMessage(t, c)
         \/ \E p \in OpPorts : CallLockedOp(t, p)
         \/ \E p \in ClosePorts : CallClosePort(t, p)
         \/ LockPort(t) \/ LockSendWithPorts(t) \/ TakePort(t)
         \/ UnlockOnError(t) \/ Send(t) \/ OpLock(t) \/ OpUnlock(t)
         \/ ClosePortLocked(t) \/ ClosePortErase(t)
    \/ \E x \in Ports : ProxyRemoved(x)

\* Every thread that can go on does (the scheduler runs every runnable
\* thread), and the IO thread handles the events it is sent.
Fairness ==
    /\ \A t \in Threads :
         WF_vars(LockPort(t) \/ LockSendWithPorts(t) \/ TakePort(t)
              \/ UnlockOnError(t) \/ Send(t) \/ OpLock(t) \/ OpUnlock(t)
              \/ ClosePortLocked(t) \/ ClosePortErase(t))
    /\ \A x \in Ports : WF_vars(ProxyRemoved(x))

Spec == Init /\ [][Next]_vars /\ Fairness

-----------------------------------------------------------------------------
(* Refinement of SendAtomic.  A SendMessage takes effect at Send; until   *)
(* then the number WillSendMessage_Locked stamped under port->lock is     *)
(* not yet spent, and the abstract counter does not count it.              *)

\* Thread t has stamped a message from p and not yet sent or rolled back.
Stamped(t, p) ==
    pc[t].from = p /\ pc[t].at \in {"lock_swp", "take", "unlock_err", "send", "crashed"}

nextSendCommitted ==
    [p \in Ports |-> nextSend[p] - (IF \E t \in Threads : Stamped(t, p) THEN 1 ELSE 0)]

Atomic == INSTANCE SendAtomic WITH nextSend <- nextSendCommitted

-----------------------------------------------------------------------------
(* Properties.                                                             *)

\* Every variable has the type the code gives it.
TypeOK ==
    /\ owner \in [Ports -> Threads \cup {None}]
    /\ swp \in Threads \cup {None}
    /\ state \in [Ports -> {"Receiving", "Buffering", "Closed"}]
    /\ inMap \in [Ports -> BOOLEAN]
    /\ nextSend \in [Ports -> Nat]
    /\ \A p \in Ports : nextSend[p] >= kInitialSequenceNum
    /\ calls \in [Threads -> 0..MaxCalls]
    /\ crashed \in BOOLEAN

\* Sequence numbers are not double-advanced (spec scenario 5): whenever no
\* thread is inside SendMessage on p, next_sequence_num_to_send is one past
\* the number of successful sends from p, so a send that failed on one of
\* its ports (PortStateUnexpected, CannotSendPeer) gave its number back.
SequenceRolledBack ==
    \A p \in Ports :
        (\A t \in Threads : pc[t].from = p => pc[t].at \in {"idle", "lock_port", "op", "op_unlock"})
            => nextSend[p] = kInitialSequenceNum + sends[p]

\* SendMessage, ClosePort and ErasePort are linearizable: every step of
\* the threads and of the IO thread is either no step of SendAtomic or one
\* whole send, close or erase of it.  A send refused on a carried port
\* (PortStateUnexpected, CannotSendPeer) must give back its number and
\* leave every port as it was, and a send that succeeds must find all its
\* ports still Receiving when it makes them Buffering.
SendLinearizable == Atomic!ASendSpec

\* Of several sends that carry the same port, at most one succeeds: the
\* port is taken once, and every other send sees it Buffering and fails.
TakenOnce == \A x \in Ports : taken[x] <= 1

\* No lock is left behind: a port's lock is only ever owned by a thread
\* that is still inside an operation.  WillSendMessage_Locked's error path
\* must release every carried port it locked.
NoLockLeak == \A p \in Ports : owner[p] # None => pc[owner[p]].at # "idle"

\* WillSendMessage_Locked never dereferences the null pointer GetPort
\* returns for a carried port that is no longer in ports_; a stale port
\* gets PortStateUnexpected like a Buffering one.
NoNullPort == ~crashed

\* Every SendMessage or locked operation that started returns (or the
\* process has crashed): no thread waits forever for a port lock or for
\* send_with_ports_lock_, which the comment at node.cc:784 says prevents
\* the threads from locking ports in conflicting orders.
CallsReturn ==
    \A t \in Threads :
        (pc[t].at # "idle") ~> (pc[t].at = "idle" \/ crashed)
=============================================================================
