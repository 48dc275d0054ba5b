----------------------------- MODULE MCReplay ------------------------------
(***************************************************************************)
(* A small instance of Replay: a year costs 2 atomic units and lasts one   *)
(* block, so that with heights up to 4 a name expires, is claimed by the   *)
(* other owner, and is renewed in its first and in its last block.         *)
(***************************************************************************)
EXTENDS Replay, TLC

\* One year, not a whole number of years, two years.
SomeAmounts == {2, 3, 4}

Symmetric == Permutations(TxIDs) \cup Permutations(Owners) \cup Permutations(Names)
=============================================================================
