-------------------------- MODULE MCSendWithPorts --------------------------
(***************************************************************************)
(* SendWithPorts for TLC.  One node with ports a, b and c: a-b is a local  *)
(* pipe (CreatePortPair), c's peer is on another node.  Messages from a or *)
(* b may carry c; a message from c may carry a; one message from a carries *)
(* c and then a's own peer b.                                              *)
(***************************************************************************)
EXTENDS SendWithPorts, TLC

CONSTANTS t1, t2

MCThreads == {t1, t2}
MCPorts == {"a", "b", "c"}
MCPeerOf == ("a" :> "b") @@ ("b" :> "a") @@ ("c" :> None)

\* Both threads race to send c, from a and from b; c sends a; a sends
\* nothing.  No message is refused after a port has been locked, so the
\* passing run is free of the error-path unlock bug.
CallsRace ==
    {[from |-> "a", ports |-> <<"c">>], [from |-> "b", ports |-> <<"c">>],
     [from |-> "c", ports |-> <<"a">>], [from |-> "a", ports |-> <<>>]}

\* A message from a that carries c and then a's peer b: refused with
\* ERROR_PORT_CANNOT_SEND_PEER after c has been locked.
CallsPeerSecond == {[from |-> "a", ports |-> <<"c", "b">>]}

\* Two sends of c; the first erases it before the second takes it.
CallsSameCarried == {[from |-> "a", ports |-> <<"c">>], [from |-> "b", ports |-> <<"c">>]}

\* a carries c while c carries a: each thread holds its own sending port.
CallsCrossed == {[from |-> "a", ports |-> <<"c">>], [from |-> "c", ports |-> <<"a">>]}
=============================================================================
