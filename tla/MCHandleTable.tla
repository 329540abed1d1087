---------------------------- MODULE MCHandleTable ----------------------------
(* Two threads, four dispatcher objects and a table of two handles: enough *)
(* for the table to be full with one thread between the two AddDispatcher *)
(* calls of CreateMessagePipe, and for a buffer to be duplicated into a   *)
(* full table.                                                             *)
EXTENDS HandleTable, TLC

CONSTANTS t1, t2, d1, d2, d3, d4

MCThreads == {t1, t2}
MCDisps == {d1, d2, d3, d4}

Symmetry == Permutations(MCThreads) \cup Permutations(MCDisps)
=============================================================================
