------------------------------ MODULE Registry ------------------------------
(***************************************************************************)
(* The name registry of pkg/xns/registry.go and the rule of protocol.go    *)
(* that turns a payment into years, as operators on values: a registry is  *)
(* a function from the names claimed so far to their entries, and applying *)
(* a transfer yields the next registry and one event.  No state machine    *)
(* here: Replay drives one registry, Scan rebuilds registries from a       *)
(* chain.                                                                  *)
(*                                                                         *)
(* Heights and amounts are naturals of any size: PaidForExpiry (module     *)
(* Replay) shows why the uint64 arithmetic of the code cannot wrap.        *)
(***************************************************************************)
EXTENDS Integers, Sequences

CONSTANTS
  Names,         \* names a payload can carry, all of them valid
  Owners,        \* owner keys a payload can carry, all of them valid
  NoPayload,     \* the result of payloadForTx when it finds no single payload
  YearAmount,    \* atomic units for one year (protocol.go:13)
  BlocksPerYear  \* blocks a year of registration lasts (protocol.go:14)

Payloads == [name : Names, owner : Owners]

ASSUME YearAssumption ==
  /\ YearAmount \in Nat \ {0}
  /\ BlocksPerYear \in Nat \ {0}

ASSUME NoPayloadAssumption == NoPayload \notin Payloads

\* A confirmed incoming transfer with what payloadForTx decoded for it.
Transfers(TxIDs) ==
  [txid : TxIDs, height : Nat, amount : Nat, payload : Payloads \cup {NoPayload}]

-----------------------------------------------------------------------------
\* Payments

\* YearsFromAmount returns no error.
WholeYears(amount) == amount >= YearAmount /\ amount % YearAmount = 0

\* The years rounded up instead of divided exactly.
YearsRoundedUp(amount) == amount \div YearAmount + 1

YearsFromAmount(amount) == amount \div YearAmount

\* The blocks that a payment of whole years buys.
Extension(amount) == YearsFromAmount(amount) * BlocksPerYear

-----------------------------------------------------------------------------
\* Entries

Entries(TxIDs) ==
  [OwnerKey : Owners, ExpirationHeight : Nat, FirstClaimHeight : Nat,
   LastUpdateHeight : Nat, SourceTxIDs : Seq(TxIDs)]

\* A registry is a function from some of the names to entries.
IsRegistry(names, TxIDs) ==
  /\ DOMAIN names \subseteq Names
  /\ \A n \in DOMAIN names : names[n] \in Entries(TxIDs)

NewRegistry == [n \in {} |-> n]

Put(names, n, entry) == [m \in DOMAIN names \cup {n} |-> IF m = n THEN entry ELSE names[m]]

\* The expiry comparison off by one: the last block of a tenure already free.
FreeOneBlockEarly(names, n, height) ==
  n \in DOMAIN names => names[n].ExpirationHeight - 1 <= height

\* The expiry comparison off by one: the expiry block still taken.
FreeOneBlockLate(names, n, height) ==
  n \in DOMAIN names => names[n].ExpirationHeight < height

\* Whoever pays at this height gets the name.
Free(names, n, height) ==
  n \in DOMAIN names => names[n].ExpirationHeight <= height

\* The transfer gets as far as the registry lookup in Apply.
Valid(t) == WholeYears(t.amount) /\ t.payload # NoPayload

Claims(names, t) == Valid(t) /\ Free(names, t.payload.name, t.height)

\* The owner comparison is missing.
RenewsForAnyone(names, t) ==
  Valid(t) /\ ~Free(names, t.payload.name, t.height)

Renews(names, t) ==
  /\ Valid(t)
  /\ ~Free(names, t.payload.name, t.height)
  /\ names[t.payload.name].OwnerKey = t.payload.owner

\* Name and owner stored in each other's place.
ClaimedSwapped(t) ==
  [OwnerKey         |-> t.payload.name,
   ExpirationHeight |-> t.height + Extension(t.amount),
   FirstClaimHeight |-> t.height,
   LastUpdateHeight |-> t.height,
   SourceTxIDs      |-> <<t.txid>>]

Claimed(t) ==
  [OwnerKey         |-> t.payload.owner,
   ExpirationHeight |-> t.height + Extension(t.amount),
   FirstClaimHeight |-> t.height,
   LastUpdateHeight |-> t.height,
   SourceTxIDs      |-> <<t.txid>>]

\* A renewal that counts from the payment and not from the old expiry.
RenewedFromNow(entry, t) ==
  [entry EXCEPT !.ExpirationHeight = t.height + Extension(t.amount),
                !.LastUpdateHeight = t.height,
                !.SourceTxIDs      = Append(@, t.txid)]

\* A renewal that loses its source transaction.
RenewedUnsourced(entry, t) ==
  [entry EXCEPT !.ExpirationHeight = @ + Extension(t.amount),
                !.LastUpdateHeight = t.height]

Renewed(entry, t) ==
  [entry EXCEPT !.ExpirationHeight = @ + Extension(t.amount),
                !.LastUpdateHeight = t.height,
                !.SourceTxIDs      = Append(@, t.txid)]

-----------------------------------------------------------------------------
\* Registry.Apply: the registry it leaves and the event it returns.

NamesAfter(names, t) ==
  IF Claims(names, t) THEN Put(names, t.payload.name, Claimed(t))
  ELSE IF Renews(names, t)
       THEN Put(names, t.payload.name, Renewed(names[t.payload.name], t))
       ELSE names

ActionOf(names, t) ==
  IF Claims(names, t) THEN "claimed"
  ELSE IF Renews(names, t) THEN "renewed" ELSE "ignored"

\* The expiry an event reports: that of the entry it leaves, 0 when ignored.
EventOf(names, t) ==
  [TxID             |-> t.txid,
   Height           |-> t.height,
   Amount           |-> t.amount,
   Payload          |-> IF Valid(t) THEN t.payload ELSE NoPayload,
   Action           |-> ActionOf(names, t),
   ExpirationHeight |-> IF ActionOf(names, t) = "ignored" THEN 0
                        ELSE NamesAfter(names, t)[t.payload.name].ExpirationHeight]

Events(TxIDs) ==
  [TxID : TxIDs, Height : Nat, Amount : Nat, Payload : Payloads \cup {NoPayload},
   Action : {"claimed", "renewed", "ignored"}, ExpirationHeight : Nat]

-----------------------------------------------------------------------------
\* What handleLookup answers from a registry and the height it was built for.

Found(names, n, height) ==
  n \in DOMAIN names /\ names[n].ExpirationHeight > height

RemainingBlocks(names, n, height) == names[n].ExpirationHeight - height
=============================================================================
