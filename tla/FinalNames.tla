----------------------------- MODULE FinalNames -----------------------------
(***************************************************************************)
(* What the indexer promises about names, without chains, wallets and      *)
(* scans.  A register says of each name claimed so far who has it, since   *)
(* when, and until when.  One register is final: it survives any restart,  *)
(* and another one takes its place only if it continues it.  Lookups are   *)
(* answered from a register that continues the final one, or closed.       *)
(***************************************************************************)
EXTENDS Integers

CONSTANTS Names, Owners

VARIABLES final,    \* the register that is kept
          answers,  \* the register that lookups are answered from
          open      \* whether they are; nobody sees the answers otherwise

vars == <<final, answers, open>>

IsRegister(r) ==
  /\ DOMAIN r \subseteq Names
  /\ \A n \in DOMAIN r : r[n] \in [owner : Owners, since : Nat, until : Nat]

\* Nobody loses a name before his term is over, and no term gets shorter.
Continues(r, s) ==
  \A n \in DOMAIN s :
    /\ n \in DOMAIN r
    /\ r[n].until >= s[n].until
    /\ \/ r[n].owner = s[n].owner /\ r[n].since = s[n].since
       \/ r[n].since >= s[n].until

Init == /\ final = [n \in {} |-> n]
        /\ answers = final
        /\ open = FALSE

Keep == /\ IsRegister(final') /\ Continues(final', final)
        /\ UNCHANGED <<answers, open>>

Open == /\ open' = TRUE
        /\ IsRegister(answers') /\ Continues(answers', final)
        /\ UNCHANGED final

Close == /\ open' = FALSE
         /\ IsRegister(answers')
         /\ UNCHANGED final

Next == Keep \/ Open \/ Close

Spec == Init /\ [][Next]_vars
=============================================================================
