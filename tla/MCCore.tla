------------------------------- MODULE MCCore -------------------------------
(***************************************************************************)
(* Core for TLC.  Ports a-b are a local pipe (CreatePortPair), c's and d's *)
(* peers are on another node; ha, hb, hc and hd are their dispatchers'     *)
(* handles.                                                                *)
(***************************************************************************)
EXTENDS Core, TLC

CONSTANTS t1, t2, ha, hb, hc, hd

MCThreads == {t1, t2}
MCPorts == {"a", "b", "c", "d"}
MCPeerOf == ("a" :> "b") @@ ("b" :> "a") @@ ("c" :> None) @@ ("d" :> None)
MCHandles == {ha, hb, hc, hd}
MCPortOf == (ha :> "a") @@ (hb :> "b") @@ (hc :> "c") @@ (hd :> "d")

\* hc sent from ha and from hd, a write on hc itself (which races its
\* transfer), and hb sent from ha, which Node refuses with CannotSendPeer
\* after locking b.  No port that is carried also sends a message that
\* carries one, so the senders cannot deadlock (MCCoreDeadlock.cfg).
MCWrites ==
    {[h |-> ha, hs |-> <<hc>>], [h |-> hd, hs |-> <<hc>>],
     [h |-> hc, hs |-> <<>>], [h |-> ha, hs |-> <<hb>>]}

\* a sends b, a's peer, while b sends c: each sender holds its own port,
\* one waits for b, the other for send_with_ports_lock_.
WritesChained == {[h |-> ha, hs |-> <<hb>>], [h |-> hb, hs |-> <<hc>>]}
=============================================================================
