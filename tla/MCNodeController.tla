------------------------- MODULE MCNodeController -------------------------
(***************************************************************************)
(* NodeController for TLC: a parent p with children c1 and c2.  c1        *)
(* connects its port to the parent's reserved port by token; c1 and c2    *)
(* forward ports messages to each other, which needs an introduction.     *)
(***************************************************************************)
EXTENDS NodeController, TLC

CONSTANTS p, c1, c2, i1, i2

MCChildren == {c1, c2}
MCIntroChans == {i1, i2}
\* One channel name: enough for the single introduction of c1 and c2.

\* One ports message each way between the children.
SendsBetweenChildren ==
    [pr \in ({p} \cup MCChildren) \X ({p} \cup MCChildren) |->
        IF pr \in {<<c1, c2>>, <<c2, c1>>} THEN 1 ELSE 0]
\* One ports message from c1 to c2, which c1 must ask an introduction for.
SendsOneWay ==
    [pr \in ({p} \cup MCChildren) \X ({p} \cup MCChildren) |->
        IF pr = <<c1, c2>> THEN 1 ELSE 0]
\* None: only the token connection carries ports messages.
SendsNone == [pr \in ({p} \cup MCChildren) \X ({p} \cup MCChildren) |-> 0]
=============================================================================
