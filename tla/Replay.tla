------------------------------- MODULE Replay -------------------------------
(***************************************************************************)
(* The replay loop of scanOnce: one registry, from empty, fed confirmed    *)
(* transfers in the order sortTransfers gives them, so at heights that     *)
(* never decrease.  Transfers carry any amount and any payload, including  *)
(* none.                                                                   *)
(***************************************************************************)
EXTENDS Registry

CONSTANTS
  TxIDs,      \* transactions; each confirms once
  Amounts,    \* amounts a transfer can carry
  MaxHeight,  \* bound on the heights at which transfers confirm
  Nobody      \* the holder of a name without entry, in the abstract lease

ASSUME AmountsAssumption == Amounts \subseteq Nat /\ MaxHeight \in Nat

VARIABLES
  names,   \* Registry.Names
  events,  \* the events Apply has returned, in order
  height,  \* height of the last transfer applied
  paid     \* history: all that was paid so far, in atomic units

vars == <<names, events, height, paid>>

Applied == {events[i].TxID : i \in DOMAIN events}

Init == /\ names = NewRegistry
        /\ events = <<>>
        /\ height = 0
        /\ paid = 0

\* One iteration of the loop at indexer.go:478-489 for the visible registry.
Apply(t) ==
  /\ t.height >= height
  /\ t.txid \notin Applied
  /\ names' = NamesAfter(names, t)
  /\ events' = Append(events, EventOf(names, t))
  /\ height' = t.height
  /\ paid' = paid + t.amount

Inputs == [txid : TxIDs, height : 1..MaxHeight, amount : Amounts,
           payload : Payloads \cup {NoPayload}]

Next == \E t \in Inputs : Apply(t)

Spec == Init /\ [][Next]_vars

-----------------------------------------------------------------------------
\* Every variable has its type.  The proofs rest on it.
TypeOK ==
  /\ IsRegistry(names, TxIDs)
  /\ events \in Seq(Events(TxIDs))
  /\ height \in Nat
  /\ paid \in Nat

TermsGoOn ==
  \A n \in DOMAIN names :
    names[n].ExpirationHeight > height' =>
      /\ n \in DOMAIN names'
      /\ names'[n].OwnerKey = names[n].OwnerKey
      /\ names'[n].ExpirationHeight >= names[n].ExpirationHeight

\* A name whose term is running keeps its owner, whatever transfer confirms
\* next and whoever sends it, and its term never gets shorter (README.md:15,
\* "unseizable"; Apply, registry.go:48-70).
NoSeizure == [][TermsGoOn]_vars

\* The indices of the events that changed the entry of name n.
AcceptedFor(n) ==
  {i \in DOMAIN events : /\ events[i].Action # "ignored"
                         /\ events[i].Payload.name = n}

\* The indices of those that brought the entry to what it is: from the last
\* claim on.
TenureOf(n) ==
  {i \in AcceptedFor(n) :
     \A j \in AcceptedFor(n) : j > i => events[j].Action # "claimed"}

\* The event log explains the registry: each entry is what its last claim and
\* the renewals after it say, in owner, heights, expiry and source
\* transactions, and a name without accepted events has no entry.  The
\* registry and the log are saved to different tables (store.go:218-239).
EntriesMatchEvents ==
  \A n \in Names :
    /\ n \in DOMAIN names <=> AcceptedFor(n) # {}
    /\ n \in DOMAIN names =>
         LET first == CHOOSE i \in TenureOf(n) : \A j \in TenureOf(n) : i <= j
             last  == CHOOSE i \in TenureOf(n) : \A j \in TenureOf(n) : i >= j
         IN /\ events[first].Action = "claimed"
            /\ names[n].FirstClaimHeight = events[first].Height
            /\ names[n].LastUpdateHeight = events[last].Height
            /\ names[n].ExpirationHeight = events[last].ExpirationHeight
            /\ \A i \in TenureOf(n) : events[i].Payload.owner = names[n].OwnerKey
            /\ {names[n].SourceTxIDs[i] : i \in DOMAIN names[n].SourceTxIDs}
                 = {events[i].TxID : i \in TenureOf(n)}

\* Two different owners never held the same name at the same height: the log
\* shows the first one's term over before the second one's claim
\* (registry.go:49, 61-63).
DisjointTenures ==
  \A n \in Names : \A i, j \in AcceptedFor(n) :
    i < j /\ events[i].Payload.owner # events[j].Payload.owner =>
      events[i].ExpirationHeight <= events[j].Height

\* No term reaches further than all payments together could buy: an expiry is at
\* most the current height plus BlocksPerYear / YearAmount for each atomic unit
\* ever paid, whatever was claimed, renewed and lost before.  That keeps height + extension and
\* ExpirationHeight += extension (registry.go:50, 66) below 2^64 until payments
\* add up to some 38,000 times 2^64 atomic units.
PaidForExpiry ==
  \A n \in DOMAIN names :
    (names[n].ExpirationHeight - height) * YearAmount <= paid * BlocksPerYear

\* A payment for one year from o, confirmed at height h, for name n.
Bid(n, o, h) == [txid    |-> CHOOSE id \in TxIDs : TRUE,
                 height  |-> h,
                 amount  |-> YearAmount,
                 payload |-> [name |-> n, owner |-> o]]

\* A lookup answered at height h predicts the transfer that confirms at h: the
\* name is found exactly when anybody but its owner pays in vain, and
\* remaining_blocks later, but not one block before, anybody gets it
\* (handleLookup, indexer.go:662-671, against Apply, registry.go:49, 61).
LookupPredictsApply ==
  \A n \in Names, h \in height..MaxHeight : \A o \in Owners :
    LET Wins(at) == EventOf(names, Bid(n, o, at)).Action = "claimed"
        end == h + RemainingBlocks(names, n, h)
    IN IF Found(names, n, h)
       THEN ~Wins(h) /\ ~Wins(end - 1) /\ Wins(end)
       ELSE Wins(h)

-----------------------------------------------------------------------------
\* The registry implements the lease of every name.
Lease == INSTANCE NameLease WITH
  Heights <- 0..MaxHeight,
  Terms  <- {Extension(a) : a \in {b \in Amounts : WholeYears(b)}},
  holder <- [n \in Names |-> IF n \in DOMAIN names THEN names[n].OwnerKey ELSE Nobody],
  until  <- [n \in Names |-> IF n \in DOMAIN names THEN names[n].ExpirationHeight ELSE 0],
  now    <- height

\* Replaying transfers is leasing names: each transfer grants, extends or
\* leaves things as they are, and nothing else happens to a name.
ImplementsLease == Lease!Spec
=============================================================================
