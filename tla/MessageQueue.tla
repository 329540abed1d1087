---------------------------- MODULE MessageQueue ----------------------------
(***************************************************************************)
(* The per-port reordering buffer of src/mojo/edk/system/ports/            *)
(* message_queue.cc.  A queue is a record                                  *)
(*   [heap |-> set of user messages, next |-> next_sequence_num_,          *)
(*    signalable |-> signalable_]                                          *)
(* The std::vector kept as a binary heap is abstracted to the set of the   *)
(* messages it holds: the heap order only decides which message is heap_[0]*)
(* (the one with the least sequence number), and that is what Top gives.   *)
(* Every message is a record with at least a field seq.                    *)
(***************************************************************************)
EXTENDS Naturals

\* MessageQueue::MessageQueue(next_sequence_num); signalable_ starts TRUE.
NewQueue(next, signalable) ==
    [heap |-> {}, next |-> next, signalable |-> signalable]

\* heap_[0]: the message with the least sequence number.
Top(q) == CHOOSE m \in q.heap : \A o \in q.heap : m.seq <= o.seq

\* The test of GetNextMessageIf: the heap is not empty and its top carries
\* the sequence number the queue is waiting for.
HasHead(q) == q.heap # {} /\ Top(q).seq = q.next

\* GetNextMessageIf with a null selector, when HasHead(q): pop the top and
\* advance next_sequence_num_.
PopNext(q) == [q EXCEPT !.heap = @ \ {Top(q)}, !.next = @ + 1]

\* MessageQueue::AcceptMessage: push onto the heap.
AcceptMessage(q, m) == [q EXCEPT !.heap = @ \cup {m}]
=============================================================================
