------------------------------ MODULE MCClaim -------------------------------
(***************************************************************************)
(* A small instance of Claim: one name and its owner, a year that costs 3  *)
(* units and lasts two blocks.                                             *)
(***************************************************************************)
EXTENDS Claim

CONSTANTS name, owner

Wanted == [name |-> name, owner |-> owner]
=============================================================================
