------------------------------- MODULE MCScan -------------------------------
(***************************************************************************)
(* A small instance of Scan: two owners pay once each for the same name,   *)
(* so that their order, and whether both are seen, decides who holds it.   *)
(***************************************************************************)
EXTENDS Scan

CONSTANTS ta, tb, name, alice, bob

OneYearEach == [t \in {ta, tb} |-> 1]

\* With a year of one block one term is soon over, while the other outlasts the
\* heights at which it becomes final.
OneAndThreeYears == [t \in {ta, tb} |-> IF t = ta THEN 1 ELSE 3]

Rivals == [t \in {ta, tb} |-> [name |-> name, owner |-> IF t = ta THEN alice ELSE bob]]

AllBlocks == {<<>>, <<ta>>, <<tb>>, <<ta, tb>>, <<tb, ta>>}

=============================================================================
