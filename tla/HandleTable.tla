----------------------------- MODULE HandleTable -----------------------------
(***************************************************************************)
(* The calls of Core (src/mojo/edk/system/core.cc) that put dispatchers   *)
(* into the handle table or take them out, with the table's capacity.     *)
(* Threads call them concurrently; handles_lock_ is held inside each      *)
(* AddDispatcher and GetAndRemoveDispatcher, and released between the two *)
(* AddDispatcher calls of CreateMessagePipe and CreateDataPipe, so those  *)
(* take two steps.                                                         *)
(*                                                                         *)
(* HandleTable is not in the repository.  Core relies on it as follows,   *)
(* and so does the model: AddDispatcher returns MOJO_HANDLE_INVALID when   *)
(* the table holds MaxHandles entries, and adds the dispatcher otherwise;  *)
(* AddDispatchersFromTransit adds all the dispatchers or none.  A          *)
(* dispatcher is a model value; "new" takes one not used yet.  The         *)
(* dispatchers' own code is not here either: a dispatcher is open until    *)
(* its Close() runs, and one whose last reference is dropped without a     *)
(* Close() is "dropped".                                                   *)
(***************************************************************************)
EXTENDS Naturals, FiniteSets

CONSTANTS
    Threads,     \* user threads
    Disps,       \* dispatcher objects; bound: the dispatchers ever created
    MaxHandles,  \* the handle table's capacity
    MaxCalls,    \* bound: calls started per thread
    MaxReceived, \* bound: dispatchers one ReadMessage receives
    None         \* model value

Kinds == {"pipe", "data", "waitset", "buffer", "wrapper"}

VARIABLES
    status,   \* [Disps -> {"unused", "open", "closed", "dropped"}]
    kind,     \* [Disps -> Kinds \cup {None}]
    inTable,  \* the dispatchers the handle table holds a handle for
    pc,       \* [Threads -> [at, k, d]]: a CreateMessagePipe or
              \* CreateDataPipe between its two AddDispatcher calls
    calls,    \* [Threads -> Nat]: calls started
    crashed   \* the process dereferenced a null pointer

vars == <<status, kind, inTable, pc, calls, crashed>>

Idle == [at |-> "idle", k |-> None, d |-> None]

Unused == {d \in Disps : status[d] = "unused"}

\* AddDispatcher succeeds: the table is not full.
Room == Cardinality(inTable) < MaxHandles

\* The handles the user holds: those of calls that have returned.
Returned == inTable \ {pc[t].d : t \in Threads}

\* Thread t may start a call.
Start(t) == ~crashed /\ pc[t].at = "idle" /\ calls[t] < MaxCalls
                      /\ calls' = [calls EXCEPT ![t] = @ + 1]

\* "new Dispatcher": d, not used before, becomes a dispatcher of kind k.
New(d, k) == kind' = [kind EXCEPT ![d] = k]

\* AddDispatcher has found room for d.
AddDispatcher(d) ==
    /\ status' = [status EXCEPT ![d] = "open"]
    /\ inTable' = inTable \cup {d}

-----------------------------------------------------------------------------

Init ==
    /\ status = [d \in Disps |-> "unused"]
    /\ kind = [d \in Disps |-> None]
    /\ inTable = {}
    /\ pc = [t \in Threads |-> Idle]
    /\ calls = [t \in Threads |-> 0]
    /\ crashed = FALSE

\* The first AddDispatcher of CreateMessagePipe (k = "pipe") or of
\* CreateDataPipe (k = "data"): CreatePortPair, the dispatcher of port0,
\* AddDispatcher.  When the table is full the call returns
\* MOJO_RESULT_RESOURCE_EXHAUSTED and the only reference to the new
\* dispatcher goes away without Close().
CreatePipeFirst(t, k) ==
    \E d \in Unused :
        /\ Start(t)
        /\ New(d, k)
        /\ IF Room
             THEN /\ AddDispatcher(d)
                  /\ pc' = [pc EXCEPT ![t] = [at |-> "second", k |-> k, d |-> d]]
             ELSE /\ status' = [status EXCEPT ![d] = "dropped"]
                  /\ UNCHANGED <<inTable, pc>>
        /\ UNCHANGED crashed

CreateMessagePipe(t) == CreatePipeFirst(t, "pipe")

CreateDataPipe(t) == CreatePipeFirst(t, "data")

\* The second AddDispatcher, for port1.  When the table filled up since the
\* first one, the cleanup calls Close() through the null scoped_refptr
\* |unused| before GetAndRemoveDispatcher would have set it: the process
\* crashes.
CreatePipeSecond(t) ==
    \E d \in Unused :
        /\ ~crashed /\ pc[t].at = "second"
        /\ New(d, pc[t].k)
        /\ IF Room
             THEN /\ AddDispatcher(d)
                  /\ UNCHANGED crashed
             ELSE /\ status' = [status EXCEPT ![d] = "dropped"]
                  /\ crashed' = TRUE
                  /\ UNCHANGED inTable
        /\ pc' = [pc EXCEPT ![t] = Idle]
        /\ UNCHANGED calls

\* CreateWaitSet and CreateSharedBuffer (k = "waitset", "buffer"): a new
\* dispatcher and AddDispatcher; on a full table the new dispatcher is
\* closed.  (CreateSharedBuffer's validation and allocation errors return
\* before anything changes and are not steps.)
CreateClosingOnFailure(t, k) ==
    \E d \in Unused :
        /\ Start(t)
        /\ New(d, k)
        /\ IF Room
             THEN AddDispatcher(d)
             ELSE /\ status' = [status EXCEPT ![d] = "closed"]
                  /\ UNCHANGED inTable
        /\ UNCHANGED <<pc, crashed>>

CreateWaitSet(t) == CreateClosingOnFailure(t, "waitset")

CreateSharedBuffer(t) == CreateClosingOnFailure(t, "buffer")

\* A new dispatcher and AddDispatcher; on a full table the dispatcher is
\* dropped without Close().
CreateDroppingOnFailure(t, k) ==
    \E d \in Unused :
        /\ Start(t)
        /\ New(d, k)
        /\ IF Room
             THEN AddDispatcher(d)
             ELSE /\ status' = [status EXCEPT ![d] = "dropped"]
                  /\ UNCHANGED inTable
        /\ UNCHANGED <<pc, crashed>>

\* DuplicateBufferHandle(b): GetDispatcher finds b, the dispatcher makes a
\* new one for the same buffer, and AddDispatcher adds it.  On a full
\* table the code calls Close() on |dispatcher|, which is b, and the new
\* dispatcher is dropped.
DuplicateBufferHandle(t, b) ==
    \E d \in Unused :
        /\ Start(t)
        /\ b \in Returned /\ kind[b] = "buffer"
        /\ New(d, "buffer")
        /\ IF Room
             THEN AddDispatcher(d)
             ELSE /\ status' = [status EXCEPT ![d] = "dropped", ![b] = "closed"]
                  /\ UNCHANGED inTable
        /\ UNCHANGED <<pc, crashed>>

\* CreatePlatformHandleWrapper returns MOJO_RESULT_RESOURCE_EXHAUSTED on a
\* full table.
CreatePlatformHandleWrapper(t) == CreateDroppingOnFailure(t, "wrapper")

\* CreateParentMessagePipe (after NodeController::ReservePort) and
\* CreateChildMessagePipe (before ConnectToParentPort) do not check
\* AddDispatcher's result: on a full table they return an invalid handle.
\* The reserved or connecting port is left to NodeController.
CreateParentMessagePipe(t) == CreateDroppingOnFailure(t, "pipe")

CreateChildMessagePipe(t) == CreateDroppingOnFailure(t, "pipe")

\* PassWrappedPlatformHandle(w): under handles_lock_, GetAndRemoveDispatcher
\* takes w out of the table, and its Close() runs.  (The code casts the
\* dispatcher to PlatformHandleDispatcher without checking its type; only
\* wrappers are passed.)
PassWrappedPlatformHandle(t, w) ==
    /\ Start(t)
    /\ w \in Returned /\ kind[w] = "wrapper"
    /\ inTable' = inTable \ {w}
    /\ status' = [status EXCEPT ![w] = "closed"]
    /\ UNCHANGED <<kind, pc, crashed>>

\* Close(h): GetAndRemoveDispatcher under handles_lock_, then Close().
\* Nothing in this model observes the dispatcher between the two.
Close(t, h) ==
    /\ Start(t)
    /\ h \in Returned
    /\ inTable' = inTable \ {h}
    /\ status' = [status EXCEPT ![h] = "closed"]
    /\ UNCHANGED <<kind, pc, crashed>>

\* ReadMessage of a message carrying ports: AddDispatchersForReceivedPorts
\* makes a MessagePipeDispatcher for each port, and
\* AddDispatchersFromTransit adds them all under handles_lock_ or, when
\* they do not fit, closes every one of them.
ReceiveDispatchers(t) ==
    \E D \in SUBSET Unused :
        /\ Start(t)
        /\ D # {} /\ Cardinality(D) <= MaxReceived
        /\ kind' = [d \in Disps |-> IF d \in D THEN "pipe" ELSE kind[d]]
        /\ IF Cardinality(inTable) + Cardinality(D) <= MaxHandles
             THEN /\ status' = [d \in Disps |-> IF d \in D THEN "open" ELSE status[d]]
                  /\ inTable' = inTable \cup D
             ELSE /\ status' = [d \in Disps |-> IF d \in D THEN "closed" ELSE status[d]]
                  /\ UNCHANGED inTable
        /\ UNCHANGED <<pc, crashed>>

Next ==
    \E t \in Threads :
        \/ CreateMessagePipe(t) \/ CreateDataPipe(t) \/ CreatePipeSecond(t)
        \/ CreateWaitSet(t) \/ CreateSharedBuffer(t)
        \/ CreatePlatformHandleWrapper(t)
        \/ CreateParentMessagePipe(t) \/ CreateChildMessagePipe(t)
        \/ \E b \in Disps : DuplicateBufferHandle(t, b)
        \/ \E w \in Disps : PassWrappedPlatformHandle(t, w)
        \/ \E h \in Disps : Close(t, h)
        \/ ReceiveDispatchers(t)

Spec == Init /\ [][Next]_vars

-----------------------------------------------------------------------------
(* Properties.                                                             *)

\* Every variable has the type the code gives it.
TypeOK ==
    /\ status \in [Disps -> {"unused", "open", "closed", "dropped"}]
    /\ kind \in [Disps -> Kinds \cup {None}]
    /\ inTable \subseteq Disps /\ Cardinality(inTable) <= MaxHandles
    /\ pc \in [Threads -> [at : {"idle", "second"}, k : {None, "pipe", "data"},
                            d : Disps \cup {None}]]
    /\ calls \in [Threads -> 0..MaxCalls]
    /\ crashed \in BOOLEAN

\* No dispatcher the table still hands out has been closed: an error path
\* after a failed AddDispatcher (DuplicateBufferHandle's) closes only what
\* the failed call created.
TableDispatchersOpen == \A d \in inTable : status[d] = "open"

\* Every handle in the table can be used, whatever the calls that failed
\* on a full table did on their error paths: the process is alive (the
\* cleanup of CreateMessagePipe and CreateDataPipe after their second
\* AddDispatcher fails dereferences nothing null), and no dispatcher in the
\* table has been closed.
HandlesUsable == ~crashed /\ TableDispatchersOpen
=============================================================================
