---------------------------- MODULE MCPortsNode ----------------------------
(***************************************************************************)
(* PortsNode for TLC.  Two nodes; two pipes: a-b between n1 and n2 (as two *)
(* InitializePort calls leave it) and c-d on n1 (as CreatePortPair leaves  *)
(* it).  A port can only be sent from a port on its own node, so a carries *)
(* c or d to n2 and c carries a within n1 (or to wherever d went); ends   *)
(* move between the nodes and within n1, and proxies chain.                *)
(***************************************************************************)
EXTENDS PortsNode, TLC

CONSTANTS n1, n2

MCNodes == {n1, n2}
MCEndpoints == {"a", "b", "c", "d"}
MCPeerOf == ("a" :> "b") @@ ("b" :> "a") @@ ("c" :> "d") @@ ("d" :> "c")
MCHomeOf == ("a" :> n1) @@ ("b" :> n2) @@ ("c" :> n1) @@ ("d" :> n1)

\* Send bounds.  Safety: a sends once (it may carry c or d away) and c
\* twice, so two messages of one pipe race a transfer of either of its ends.
SendsSafety == ("a" :> 1) @@ ("b" :> 0) @@ ("c" :> 2) @@ ("d" :> 0)
\* Liveness and the closure and orphan checks: one message each from a and c.
SendsOneEach == ("a" :> 1) @@ ("b" :> 0) @@ ("c" :> 1) @@ ("d" :> 0)
\* Proxy removal: only a sends, carrying c or d; the other end never sends.
SendsTransferOnly == ("a" :> 1) @@ ("b" :> 0) @@ ("c" :> 0) @@ ("d" :> 0)
=============================================================================
