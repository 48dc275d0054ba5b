----------------------------- MODULE NameLease ------------------------------
(***************************************************************************)
(* What the registry promises, without payments, payloads or events: every *)
(* name has at most one holder at a time, for a term that only grows, and  *)
(* passes to somebody else only once the term is over.  Time (the block    *)
(* height) moves forward, by itself or together with a grant.              *)
(***************************************************************************)
EXTENDS Integers

CONSTANTS Names, Owners, Nobody,
          Heights,  \* block heights
          Terms     \* the lengths, in blocks, a name can be leased for

VARIABLES holder, until, now

vars == <<holder, until, now>>

Init == /\ holder = [n \in Names |-> Nobody]
        /\ until = [n \in Names |-> 0]
        /\ now = 0

\* A name whose term is over goes to any owner for a fresh term.
Grant(n, o, term, at) ==
  /\ until[n] <= at
  /\ holder' = [holder EXCEPT ![n] = o]
  /\ until' = [until EXCEPT ![n] = at + term]

\* A name still held is held longer, by the same holder.
Extend(n, term, at) ==
  /\ until[n] > at
  /\ until' = [until EXCEPT ![n] = @ + term]
  /\ UNCHANGED holder

Next == \E at \in Heights :
          /\ at >= now
          /\ now' = at
          /\ \/ UNCHANGED <<holder, until>>
             \/ \E n \in Names, term \in Terms :
                  \/ \E o \in Owners : Grant(n, o, term, at)
                  \/ Extend(n, term, at)

Spec == Init /\ [][Next]_vars
=============================================================================
