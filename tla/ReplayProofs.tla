---------------------------- MODULE ReplayProofs ----------------------------
(***************************************************************************)
(* Theorems about Replay, for any names, owners, transactions, amounts and *)
(* prices: the types, the promise to a running term, what the log tells,   *)
(* the answers of lookups, the bound on expiry heights, and the refinement *)
(* of NameLease.                                                           *)
(***************************************************************************)
EXTENDS Replay, RegistryProofs

-----------------------------------------------------------------------------
(* Inputs and types.                                                       *)

\* What a transfer that the loop may see is made of.
LEMMA InputFacts ==
  ASSUME NEW t \in Inputs
  PROVE  /\ t \in Transfers(TxIDs)
         /\ t.txid \in TxIDs
         /\ t.height \in 1..MaxHeight
         /\ t.height \in Nat
         /\ t.amount \in Amounts
         /\ t.amount \in Nat
         /\ t.payload \in Payloads \cup {NoPayload}
<1>1. /\ t.txid \in TxIDs
      /\ t.height \in 1..MaxHeight
      /\ t.amount \in Amounts
      /\ t.payload \in Payloads \cup {NoPayload}
  BY DEF Inputs
<1>2. t.height \in Nat
  BY <1>1, AmountsAssumption
<1>3. t.amount \in Nat
  BY <1>1, AmountsAssumption
<1>4. t \in Transfers(TxIDs)
  BY <1>2, <1>3 DEF Inputs, Transfers
<1>5. QED
  BY <1>1, <1>2, <1>3, <1>4

\* Every variable keeps its type.
THEOREM TypeCorrect == Spec => []TypeOK
<1>1. Init => TypeOK
  BY DEF Init, TypeOK, NewRegistry, IsRegistry
<1>2. TypeOK /\ [Next]_vars => TypeOK'
  <2> SUFFICES ASSUME TypeOK, [Next]_vars PROVE TypeOK'
    OBVIOUS
  <2>1. ASSUME NEW t \in Inputs, Apply(t)
        PROVE  TypeOK'
    <3>1. IsRegistry(names, TxIDs)
      BY DEF TypeOK
    <3>2. IsRegistry(names', TxIDs)
      BY <2>1, <3>1, InputFacts, NamesAfterType DEF Apply
    <3>3. events' \in Seq(Events(TxIDs))
      BY <2>1, <3>1, InputFacts, EventType DEF Apply, TypeOK
    <3>4. height' \in Nat /\ paid' \in Nat
      BY <2>1, InputFacts DEF Apply, TypeOK
    <3>5. QED
      BY <3>2, <3>3, <3>4 DEF TypeOK
  <2>2. CASE UNCHANGED vars
    BY <2>2 DEF vars, TypeOK
  <2>3. QED
    BY <2>1, <2>2 DEF Next
<1>3. QED
  BY <1>1, <1>2, PTL DEF Spec

-----------------------------------------------------------------------------
(* Safety.                                                                 *)

\* No transfer takes a running name away or shortens its term.
THEOREM RunningTermsGoOn == Spec => NoSeizure
<1>1. TypeOK /\ [Next]_vars => [TermsGoOn]_vars
  <2> SUFFICES ASSUME TypeOK, NEW t \in Inputs, Apply(t) PROVE TermsGoOn
    BY DEF Next
  <2>1. IsRegistry(names, TxIDs)
    BY DEF TypeOK
  <2>2. height' = t.height /\ names' = NamesAfter(names, t)
    BY DEF Apply
  <2>3. QED
    BY <2>1, <2>2, InputFacts, RunningTerm DEF TermsGoOn
<1>2. QED
  BY <1>1, TypeCorrect, PTL DEF Spec, NoSeizure

\* A claim or a renewal pays for the blocks it adds; nothing else adds any.
THEOREM ExpiryIsPaidFor == Spec => []PaidForExpiry
<1>1. Init => PaidForExpiry
  BY DEF Init, PaidForExpiry, NewRegistry
<1>2. TypeOK /\ PaidForExpiry /\ [Next]_vars => PaidForExpiry'
  <2> SUFFICES ASSUME TypeOK, PaidForExpiry, [Next]_vars,
                      NEW n \in DOMAIN names'
               PROVE  (names'[n].ExpirationHeight - height') * YearAmount
                        <= paid' * BlocksPerYear
    BY DEF PaidForExpiry
  <2>1. ASSUME NEW t \in Inputs, Apply(t)
        PROVE  (names'[n].ExpirationHeight - height') * YearAmount
                 <= paid' * BlocksPerYear
    <3> DEFINE P == YearAmount
               B == BlocksPerYear
               x == Extension(t.amount)
    <3>1. /\ names' = NamesAfter(names, t)
          /\ height' = t.height
          /\ paid' = paid + t.amount
          /\ t.height >= height
      BY <2>1 DEF Apply
    <3>2. /\ height \in Nat /\ paid \in Nat /\ t.height \in Nat /\ t.amount \in Nat
          /\ P \in Nat \ {0} /\ B \in Nat \ {0}
      BY InputFacts, YearAssumption DEF TypeOK
    <3>3. paid' * B = paid * B + t.amount * B /\ t.amount * B >= 0 /\ paid * B >= 0
      BY <3>1, <3>2
    <3>4. ASSUME n \in DOMAIN names, names'[n] = names[n]
          PROVE  (names'[n].ExpirationHeight - height') * P <= paid' * B
      <4> DEFINE e == names[n].ExpirationHeight
      <4>1. e \in Nat
        BY <3>4 DEF TypeOK, IsRegistry, Entries
      <4>2. (e - t.height) * P <= (e - height) * P
        BY <3>1, <3>2, <4>1
      <4>3. (e - height) * P <= paid * B
        BY <3>4 DEF PaidForExpiry
      <4>4. (e - t.height) * P <= paid * B + t.amount * B
        <5>1. /\ (e - t.height) * P \in Int /\ (e - height) * P \in Int
              /\ paid * B \in Int /\ t.amount * B \in Int
          BY <3>2, <4>1
        <5>2. QED
          BY <3>3, <4>2, <4>3, <5>1
      <4>5. names'[n].ExpirationHeight - height' = e - t.height
        BY <3>1, <3>4
      <4>6. QED
        BY <3>3, <4>4, <4>5
    <3>5. CASE /\ Claims(names, t)
               /\ NamesAfter(names, t) = Put(names, t.payload.name, Claimed(t))
      <4>1. x \in Nat /\ x * P = t.amount * B
        BY <3>5, InputFacts, ValidFacts DEF Claims
      <4>2. CASE n = t.payload.name
        <5>1. names'[n].ExpirationHeight = t.height + x
          BY <3>1, <3>5, <4>2 DEF Put, Claimed
        <5>2. QED
          BY <3>1, <3>2, <3>3, <4>1, <5>1
      <4>3. CASE n # t.payload.name
        BY <3>1, <3>4, <3>5, <4>3 DEF Put
      <4>4. QED
        BY <4>2, <4>3
    <3>6. CASE /\ Renews(names, t)
               /\ NamesAfter(names, t)
                    = Put(names, t.payload.name, Renewed(names[t.payload.name], t))
      <4>1. x \in Nat /\ x * P = t.amount * B
        BY <3>6, InputFacts, ValidFacts DEF Renews
      <4>2. CASE n = t.payload.name
        <5> DEFINE e == names[n].ExpirationHeight
        <5>1. n \in DOMAIN names /\ names[n] \in Entries(TxIDs) /\ e \in Nat
          BY <3>6, <4>2 DEF Renews, Free, TypeOK, IsRegistry, Entries
        <5>2. names'[n].ExpirationHeight = e + x
          BY <3>1, <3>6, <4>2, <5>1 DEF Put, Renewed, Entries
        <5>3. (e - t.height) * P <= (e - height) * P
          BY <3>1, <3>2, <5>1
        <5>4. (e - height) * P <= paid * B
          BY <5>1 DEF PaidForExpiry
        <5>5. (e + x - t.height) * P = (e - t.height) * P + x * P
          BY <3>2, <4>1, <5>1
        <5>6. (e + x - t.height) * P <= paid * B + t.amount * B
          BY <3>2, <4>1, <5>1, <5>3, <5>4, <5>5
        <5>7. names'[n].ExpirationHeight - height' = e + x - t.height
          BY <3>1, <3>2, <4>1, <5>1, <5>2
        <5>8. QED
          BY <3>3, <5>6, <5>7
      <4>3. CASE n # t.payload.name
        BY <3>1, <3>4, <3>6, <4>3 DEF Put
      <4>4. QED
        BY <4>2, <4>3
    <3>7. CASE NamesAfter(names, t) = names
      BY <3>1, <3>4, <3>7
    <3>8. QED
      BY <3>5, <3>6, <3>7, ApplyCases
  <2>2. CASE UNCHANGED vars
    BY <2>2 DEF vars, PaidForExpiry
  <2>3. QED
    BY <2>1, <2>2 DEF Next
<1>3. QED
  BY <1>1, <1>2, TypeCorrect, PTL DEF Spec

-----------------------------------------------------------------------------
(* Tenures.                                                                *)

\* What a claim or a renewal has to know of the log for DisjointTenures to
\* survive it: no logged term of a name outlasts its entry, and those of
\* former owners are over.
FormerTermsAreOver ==
  \A n \in Names : \A i \in AcceptedFor(n) :
    /\ n \in DOMAIN names
    /\ events[i].ExpirationHeight <= names[n].ExpirationHeight
    /\ events[i].Payload.owner # names[n].OwnerKey =>
         events[i].ExpirationHeight <= height

\* The log grows by one event.
LEMMA LogGrows ==
  ASSUME TypeOK, NEW t \in Inputs, Apply(t)
  PROVE  /\ Len(events) \in Nat
         /\ DOMAIN events = 1..Len(events)
         /\ DOMAIN events' = DOMAIN events \cup {Len(events) + 1}
         /\ \A i \in DOMAIN events : events'[i] = events[i] /\ events[i] \in Events(TxIDs)
         /\ events'[Len(events) + 1] = EventOf(names, t)
<1>1. events \in Seq(Events(TxIDs)) /\ IsRegistry(names, TxIDs)
  BY DEF TypeOK
<1>2. EventOf(names, t) \in Events(TxIDs) /\ events' = Append(events, EventOf(names, t))
  BY <1>1, InputFacts, EventType DEF Apply
<1>3. QED
  BY <1>1, <1>2

\* A transfer leaves every logged term where FormerTermsAreOver wants it.
LEMMA LoggedTerms ==
  ASSUME TypeOK, FormerTermsAreOver, NEW t \in Inputs, Apply(t),
         NEW n \in Names, NEW i \in AcceptedFor(n)
  PROVE  /\ n \in DOMAIN names'
         /\ events[i].ExpirationHeight <= names'[n].ExpirationHeight
         /\ events[i].Payload.owner # names'[n].OwnerKey =>
              events[i].ExpirationHeight <= t.height
<1> DEFINE old == events[i].ExpirationHeight
           e == names[n]
<1>1. /\ names' = NamesAfter(names, t)
      /\ height <= t.height
      /\ height \in Nat /\ t.height \in Nat
      /\ IsRegistry(names, TxIDs)
  BY InputFacts DEF Apply, TypeOK
<1>2. /\ n \in DOMAIN names
      /\ e \in Entries(TxIDs)
      /\ e.ExpirationHeight \in Nat
      /\ old <= e.ExpirationHeight
      /\ events[i].Payload.owner # e.OwnerKey => old <= height
  BY DEF FormerTermsAreOver, TypeOK, IsRegistry, Entries
<1>3. old \in Nat
  <2>1. events[i] \in Events(TxIDs)
    BY LogGrows DEF AcceptedFor
  <2>2. QED
    BY <2>1 DEF Events
<1>4. n \in DOMAIN names'
  BY <1>1, <1>2, ApplyCases DEF Put
<1>5. CASE names'[n] = e
  BY <1>1, <1>2, <1>3, <1>4, <1>5
<1>6. CASE /\ Claims(names, t) /\ n = t.payload.name
           /\ NamesAfter(names, t) = Put(names, n, Claimed(t))
  <2>1. names'[n].ExpirationHeight = t.height + Extension(t.amount)
    BY <1>1, <1>6 DEF Put, Claimed
  <2>2. Extension(t.amount) \in Nat
    BY <1>6, InputFacts, ValidFacts DEF Claims
  <2>3. e.ExpirationHeight <= t.height
    BY <1>2, <1>6 DEF Claims, Free
  <2>4. QED
    BY <1>1, <1>2, <1>3, <1>4, <2>1, <2>2, <2>3
<1>7. CASE /\ Renews(names, t) /\ n = t.payload.name
           /\ NamesAfter(names, t) = Put(names, n, Renewed(e, t))
  <2>1. /\ names'[n].ExpirationHeight = e.ExpirationHeight + Extension(t.amount)
        /\ names'[n].OwnerKey = e.OwnerKey
    BY <1>1, <1>2, <1>7 DEF Put, Renewed, Entries
  <2>2. Extension(t.amount) \in Nat
    BY <1>7, InputFacts, ValidFacts DEF Renews
  <2>3. QED
    BY <1>1, <1>2, <1>3, <1>4, <2>1, <2>2
<1>8. CASE n # t.payload.name
  <2>1. names'[n] = e
    BY <1>1, <1>2, <1>8, ApplyCases DEF Put
  <2>2. QED
    BY <1>5, <2>1
<1>9. QED
  BY <1>1, <1>5, <1>6, <1>7, <1>8, ApplyCases

\* At no height is a name held by two owners.
THEOREM TenuresAreDisjoint == Spec => []DisjointTenures
<1>1. Init => FormerTermsAreOver /\ DisjointTenures
  BY DEF Init, FormerTermsAreOver, DisjointTenures, AcceptedFor
<1>2. TypeOK /\ FormerTermsAreOver /\ DisjointTenures /\ [Next]_vars
        => (FormerTermsAreOver /\ DisjointTenures)'
  <2> SUFFICES ASSUME TypeOK, FormerTermsAreOver, DisjointTenures, [Next]_vars
               PROVE  (FormerTermsAreOver /\ DisjointTenures)'
    OBVIOUS
  <2>1. ASSUME NEW t \in Inputs, Apply(t)
        PROVE  (FormerTermsAreOver /\ DisjointTenures)'
    <3> DEFINE ev == EventOf(names, t)
               k  == Len(events) + 1
               Accepted == ActionOf(names, t) # "ignored"
    <3>1. /\ names' = NamesAfter(names, t) /\ height' = t.height
          /\ IsRegistry(names, TxIDs)
      BY <2>1 DEF Apply, TypeOK
    <3>2. ev.Action = ActionOf(names, t) /\ ev.Height = t.height
      BY DEF EventOf
    <3>3. /\ \A i \in DOMAIN events : events'[i] = events[i] /\ i < k
          /\ DOMAIN events' = DOMAIN events \cup {k} /\ events'[k] = ev
          /\ k \notin DOMAIN events
      <4>1. k \in Nat /\ \A i \in DOMAIN events : i \in Nat /\ i < k
        BY <2>1, LogGrows
      <4>2. k \notin DOMAIN events
        BY <4>1
      <4>3. \A i \in DOMAIN events : events'[i] = events[i]
        BY <2>1, LogGrows
      <4>4. DOMAIN events' = DOMAIN events \cup {k} /\ events'[k] = ev
        BY <2>1, LogGrows
      <4>5. QED
        BY <4>1, <4>2, <4>3, <4>4
    <3>4. ASSUME NEW n \in Names, NEW i \in AcceptedFor(n)'
          PROVE  \/ i \in AcceptedFor(n) /\ events'[i] = events[i] /\ i < k
                 \/ i = k /\ Accepted /\ t.payload.name = n
      <4>1. i \in DOMAIN events' /\ events'[i].Action # "ignored"
            /\ events'[i].Payload.name = n
        BY DEF AcceptedFor
      <4>2. CASE i \in DOMAIN events
        BY <3>3, <4>1, <4>2 DEF AcceptedFor
      <4>3. CASE i = k
        <5>1. Accepted
          BY <3>2, <3>3, <4>1, <4>3
        <5>2. ev.Payload = t.payload
          BY <3>1, <5>1, InputFacts, AcceptedEvent
        <5>3. QED
          BY <3>3, <4>1, <4>3, <5>1, <5>2
      <4>4. QED
        BY <3>3, <4>1, <4>2, <4>3
    <3>5. FormerTermsAreOver'
      <4> SUFFICES ASSUME NEW n \in Names, NEW i \in AcceptedFor(n)'
                   PROVE  /\ n \in DOMAIN names'
                          /\ events'[i].ExpirationHeight <= names'[n].ExpirationHeight
                          /\ events'[i].Payload.owner # names'[n].OwnerKey =>
                               events'[i].ExpirationHeight <= height'
        BY DEF FormerTermsAreOver
      <4>1. CASE i \in AcceptedFor(n) /\ events'[i] = events[i]
        BY <2>1, <3>1, <4>1, LoggedTerms
      <4>2. CASE i = k /\ Accepted /\ t.payload.name = n
        BY <3>1, <3>3, <4>2, InputFacts, AcceptedEvent
      <4>3. QED
        BY <3>4, <4>1, <4>2
    <3>6. DisjointTenures'
      <4> SUFFICES ASSUME NEW n \in Names,
                          NEW i \in AcceptedFor(n)', NEW j \in AcceptedFor(n)',
                          i < j, events'[i].Payload.owner # events'[j].Payload.owner
                   PROVE  events'[i].ExpirationHeight <= events'[j].Height
        BY DEF DisjointTenures
      <4>1. CASE i \in AcceptedFor(n) /\ j \in AcceptedFor(n)
        BY <3>3, <4>1 DEF DisjointTenures, AcceptedFor
      <4>2. CASE i \in AcceptedFor(n) /\ j = k /\ Accepted /\ t.payload.name = n
        <5>1. events'[j].Payload.owner = names'[n].OwnerKey /\ events'[j].Height = t.height
          BY <3>1, <3>2, <3>3, <4>2, InputFacts, AcceptedEvent
        <5>2. events'[i] = events[i]
          BY <3>3, <4>2 DEF AcceptedFor
        <5>3. QED
          BY <2>1, <4>2, <5>1, <5>2, LoggedTerms
      <4>3. CASE i = k
        <5>1. j = k \/ j < k
          BY <3>4
        <5>2. k \in Nat
          BY <2>1, LogGrows
        <5>3. j \in DOMAIN events \/ j = k
          BY <3>3 DEF AcceptedFor
        <5>4. j \in Nat
          BY <2>1, <5>2, <5>3, LogGrows
        <5>5. QED
          BY <4>3, <5>1, <5>2, <5>4
      <4>4. QED
        BY <3>4, <4>1, <4>2, <4>3
    <3>7. QED
      BY <3>5, <3>6
  <2>2. CASE UNCHANGED vars
    BY <2>2 DEF vars, FormerTermsAreOver, DisjointTenures, AcceptedFor
  <2>3. QED
    BY <2>1, <2>2 DEF Next
<1>3. QED
  BY <1>1, <1>2, TypeCorrect, PTL DEF Spec

-----------------------------------------------------------------------------
(* The log explains the registry.                                          *)

\* The elements of a sequence, and the transactions of a name's tenure.
Elements(q) == {q[i] : i \in DOMAIN q}

Sources(n) == {events[i].TxID : i \in TenureOf(n)}

\* EntriesMatchEvents with the first and the last event of the tenure named
\* instead of chosen: what a renewal extends is a tenure that begins somewhere.
Explains(n, first, last) ==
  /\ first \in TenureOf(n) /\ last \in TenureOf(n)
  /\ \A i \in TenureOf(n) : first <= i /\ i <= last
  /\ events[first].Action = "claimed"
  /\ names[n].FirstClaimHeight = events[first].Height
  /\ names[n].LastUpdateHeight = events[last].Height
  /\ names[n].ExpirationHeight = events[last].ExpirationHeight
  /\ \A i \in TenureOf(n) : events[i].Payload.owner = names[n].OwnerKey
  /\ Elements(names[n].SourceTxIDs) = Sources(n)

Explained(n) ==
  /\ n \in DOMAIN names <=> AcceptedFor(n) # {}
  /\ n \in DOMAIN names => \E first, last \in TenureOf(n) : Explains(n, first, last)

AllExplained == \A n \in Names : Explained(n)

\* Where a tenure begins and ends is no choice.
LEMMA ExplainedMatches ==
  ASSUME TypeOK, AllExplained
  PROVE  EntriesMatchEvents
<1> SUFFICES ASSUME NEW n \in Names, n \in DOMAIN names
             PROVE  LET first == CHOOSE i \in TenureOf(n) : \A j \in TenureOf(n) : i <= j
                        last  == CHOOSE i \in TenureOf(n) : \A j \in TenureOf(n) : i >= j
                    IN /\ events[first].Action = "claimed"
                       /\ names[n].FirstClaimHeight = events[first].Height
                       /\ names[n].LastUpdateHeight = events[last].Height
                       /\ names[n].ExpirationHeight = events[last].ExpirationHeight
                       /\ \A i \in TenureOf(n) : events[i].Payload.owner = names[n].OwnerKey
                       /\ {names[n].SourceTxIDs[i] : i \in DOMAIN names[n].SourceTxIDs}
                            = {events[i].TxID : i \in TenureOf(n)}
  BY DEF AllExplained, Explained, EntriesMatchEvents
<1>1. PICK f \in TenureOf(n), l \in TenureOf(n) : Explains(n, f, l)
  BY DEF AllExplained, Explained
<1>2. TenureOf(n) \subseteq Int
  BY DEF TypeOK, TenureOf, AcceptedFor
<1>3. \A i \in TenureOf(n) : f <= i /\ l >= i
  BY <1>1, <1>2 DEF Explains
<1>4. (CHOOSE i \in TenureOf(n) : \A j \in TenureOf(n) : i <= j) = f
  BY <1>2, <1>3
<1>5. (CHOOSE i \in TenureOf(n) : \A j \in TenureOf(n) : i >= j) = l
  BY <1>2, <1>3
<1>. QED
  BY <1>1, <1>4, <1>5 DEF Explains, Elements, Sources

\* The accepted events of a name: those of before, and the new one if the
\* transfer was for that name and accepted.
LEMMA AcceptedGrows ==
  ASSUME TypeOK, NEW t \in Inputs, Apply(t), NEW n \in Names
  PROVE  LET k == Len(events) + 1
         IN /\ k \in Nat
            /\ \A i \in AcceptedFor(n) : i \in Nat /\ i < k /\ events'[i] = events[i]
            /\ events'[k] = EventOf(names, t)
            /\ ActionOf(names, t) # "ignored" /\ t.payload.name = n =>
                 AcceptedFor(n)' = AcceptedFor(n) \cup {k}
            /\ ActionOf(names, t) = "ignored" \/ t.payload.name # n =>
                 AcceptedFor(n)' = AcceptedFor(n)
<1> DEFINE k == Len(events) + 1
<1>1. /\ DOMAIN events' = DOMAIN events \cup {k}
      /\ \A i \in DOMAIN events : events'[i] = events[i]
      /\ events'[k] = EventOf(names, t)
  BY LogGrows
<1>2. k \in Nat /\ \A i \in DOMAIN events : i \in Nat /\ i < k
  BY LogGrows
<1>3. IsRegistry(names, TxIDs) /\ EventOf(names, t).Action = ActionOf(names, t)
  BY DEF TypeOK, EventOf
<1>4. ActionOf(names, t) # "ignored" => EventOf(names, t).Payload = t.payload
  BY <1>3, InputFacts, AcceptedEvent
<1>5. AcceptedFor(n) \subseteq DOMAIN events
  BY DEF AcceptedFor
<1>6. AcceptedFor(n)' = {i \in DOMAIN events' : /\ events'[i].Action # "ignored"
                                                /\ events'[i].Payload.name = n}
  BY DEF AcceptedFor
<1>7. \A i \in DOMAIN events : i \in AcceptedFor(n)' <=> i \in AcceptedFor(n)
  BY <1>1, <1>6 DEF AcceptedFor
<1>8. k \in AcceptedFor(n)' <=> ActionOf(names, t) # "ignored" /\ t.payload.name = n
  BY <1>1, <1>3, <1>4, <1>6
<1>9. AcceptedFor(n)' \subseteq DOMAIN events \cup {k}
  BY <1>1, <1>6
<1>10. k \notin DOMAIN events
  BY <1>2
<1>. QED
  BY <1>1, <1>2, <1>5, <1>7, <1>8, <1>9, <1>10

\* A claim begins a tenure, a renewal belongs to the one that is running, and
\* other transfers leave it alone.
LEMMA TenureGrows ==
  ASSUME TypeOK, NEW t \in Inputs, Apply(t), NEW n \in Names
  PROVE  LET k == Len(events) + 1
         IN /\ ActionOf(names, t) = "claimed" /\ t.payload.name = n => TenureOf(n)' = {k}
            /\ ActionOf(names, t) = "renewed" /\ t.payload.name = n =>
                 TenureOf(n)' = TenureOf(n) \cup {k}
            /\ ActionOf(names, t) = "ignored" \/ t.payload.name # n =>
                 TenureOf(n)' = TenureOf(n)
<1> DEFINE k == Len(events) + 1
           A == AcceptedFor(n)
<1>1. k \in Nat /\ \A i \in A : i \in Nat /\ i < k /\ ~(i > k) /\ events'[i] = events[i]
  BY AcceptedGrows
<1>2. events'[k].Action = ActionOf(names, t)
  <2>1. events'[k] = EventOf(names, t)
    BY AcceptedGrows
  <2>. QED
    BY <2>1 DEF EventOf
<1>3. TenureOf(n)' = {i \in A' : \A j \in A' : j > i => events'[j].Action # "claimed"}
  BY DEF TenureOf
<1>4. TenureOf(n) = {i \in A : \A j \in A : j > i => events'[j].Action # "claimed"}
  BY <1>1 DEF TenureOf
<1>5. CASE ActionOf(names, t) = "claimed" /\ t.payload.name = n
  <2>1. A' = A \cup {k}
    BY <1>5, AcceptedGrows
  <2>2. \A i \in A : k > i
    BY <1>1
  <2>. QED
    BY <1>1, <1>2, <1>3, <1>5, <2>1, <2>2
<1>6. CASE ActionOf(names, t) = "renewed" /\ t.payload.name = n
  <2>1. A' = A \cup {k}
    BY <1>6, AcceptedGrows
  <2>. QED
    BY <1>1, <1>2, <1>3, <1>4, <1>6, <2>1
<1>7. CASE ActionOf(names, t) = "ignored" \/ t.payload.name # n
  <2>1. A' = A
    BY <1>7, AcceptedGrows
  <2>2. TenureOf(n)' = TenureOf(n)
    BY <1>3, <1>4, <2>1
  <2>. QED
    BY <1>7, <2>2
<1>. QED
  BY <1>5, <1>6, <1>7

\* The elements of a sequence with one more.
LEMMA AppendAdds ==
  ASSUME NEW S, NEW q \in Seq(S), NEW x \in S
  PROVE  Elements(Append(q, x)) = Elements(q) \cup {x}
<1> DEFINE r == Append(q, x)
           k == Len(q) + 1
<1>1. /\ DOMAIN r = DOMAIN q \cup {k}
      /\ r[k] = x
      /\ \A i \in DOMAIN q : r[i] = q[i]
  BY DOMAIN q = 1..Len(q), Len(q) \in Nat
<1> HIDE DEF r, k
<1>2. ASSUME NEW y \in Elements(r)
      PROVE  y \in Elements(q) \cup {x}
  <2>1. PICK i \in DOMAIN r : y = r[i]
    BY DEF Elements
  <2>. QED
    BY <1>1, <2>1 DEF Elements
<1>3. ASSUME NEW y \in Elements(q) \cup {x}
      PROVE  y \in Elements(r)
  BY <1>1 DEF Elements
<1>4. Elements(r) = Elements(q) \cup {x}
  BY <1>2, <1>3
<1>. QED
  BY <1>4 DEF r

\* The entries of other names stay.
LEMMA PutElsewhere ==
  ASSUME NEW reg, NEW m, NEW entry, NEW n, n # m
  PROVE  /\ n \in DOMAIN Put(reg, m, entry) <=> n \in DOMAIN reg
         /\ n \in DOMAIN reg => Put(reg, m, entry)[n] = reg[n]
BY DEF Put

\* A transfer leaves every entry explained.
LEMMA StepExplains ==
  ASSUME TypeOK, NEW t \in Inputs, Apply(t), NEW n \in Names, Explained(n)
  PROVE  Explained(n)'
<1> DEFINE ev == EventOf(names, t)
<1>0. PICK k \in Nat : k = Len(events) + 1
  BY LogGrows
<1>1. /\ names' = NamesAfter(names, t) /\ IsRegistry(names, TxIDs)
      /\ t \in Transfers(TxIDs)
  BY InputFacts DEF Apply, TypeOK
<1>2. /\ events'[k] = ev
      /\ \A i \in AcceptedFor(n) : i \in Nat /\ i < k /\ events'[i] = events[i]
  BY <1>0, AcceptedGrows
<1>3. /\ ev.Height = t.height /\ ev.TxID = t.txid /\ ev.Action = ActionOf(names, t)
  BY DEF EventOf
<1>4. CASE /\ Claims(names, t) /\ t.payload.name = n
           /\ NamesAfter(names, t) = Put(names, n, Claimed(t))
           /\ ActionOf(names, t) = "claimed"
  <2>1. AcceptedFor(n)' = AcceptedFor(n) \cup {k} /\ TenureOf(n)' = {k}
    BY <1>0, <1>4, AcceptedGrows, TenureGrows
  <2>2. n \in DOMAIN names' /\ names'[n] = Claimed(t)
    BY <1>1, <1>4 DEF Put
  <2>3. /\ ev.Payload = t.payload
        /\ ev.ExpirationHeight = names'[n].ExpirationHeight
    BY <1>1, <1>4, AcceptedEvent
  <2>4. Elements(names'[n].SourceTxIDs) = {t.txid} /\ Sources(n)' = {t.txid}
    BY <1>2, <1>3, <2>1, <2>2 DEF Claimed, Elements, Sources
  <2>5. Explains(n, k, k)'
    BY <1>2, <1>3, <1>4, <2>1, <2>2, <2>3, <2>4 DEF Explains, Claimed
  <2>. QED
    BY <2>1, <2>2, <2>5 DEF Explained
<1>5. CASE /\ Renews(names, t) /\ t.payload.name = n
           /\ NamesAfter(names, t) = Put(names, n, Renewed(names[n], t))
           /\ ActionOf(names, t) = "renewed"
  <2> DEFINE e == names[n]
  <2>1. AcceptedFor(n)' = AcceptedFor(n) \cup {k} /\ TenureOf(n)' = TenureOf(n) \cup {k}
    BY <1>0, <1>5, AcceptedGrows, TenureGrows
  <2>2. n \in DOMAIN names /\ e \in Entries(TxIDs) /\ e.OwnerKey = t.payload.owner
    BY <1>1, <1>5 DEF Renews, Free, IsRegistry
  <2>3. n \in DOMAIN names' /\ names'[n] = Renewed(e, t)
    BY <1>1, <1>5 DEF Put
  <2>4. /\ ev.Payload = t.payload
        /\ ev.ExpirationHeight = names'[n].ExpirationHeight
    BY <1>1, <1>5, AcceptedEvent
  <2>5. /\ names'[n].OwnerKey = e.OwnerKey
        /\ names'[n].FirstClaimHeight = e.FirstClaimHeight
        /\ names'[n].LastUpdateHeight = t.height
        /\ names'[n].SourceTxIDs = Append(e.SourceTxIDs, t.txid)
    BY <2>2, <2>3 DEF Renewed, Entries
  <2>6. PICK f \in TenureOf(n), l \in TenureOf(n) : Explains(n, f, l)
    BY <2>2 DEF Explained
  <2>7. TenureOf(n) \subseteq AcceptedFor(n)
    BY DEF TenureOf
  <2>8. Elements(names'[n].SourceTxIDs) = Sources(n)'
    <3>1. e.SourceTxIDs \in Seq(TxIDs) /\ t.txid \in TxIDs
      BY <1>1, <2>2, TransferFacts DEF Entries
    <3>2. Elements(names'[n].SourceTxIDs) = Elements(e.SourceTxIDs) \cup {t.txid}
      BY <2>5, <3>1, AppendAdds
    <3>3. Sources(n)' = Sources(n) \cup {t.txid}
      BY <1>2, <1>3, <2>1, <2>7 DEF Sources
    <3>. QED
      BY <2>6, <3>2, <3>3 DEF Explains
  <2>9. f <= k /\ k <= k /\ \A i \in TenureOf(n) : f <= i /\ i <= k
    BY <1>2, <2>6, <2>7 DEF Explains
  <2>10. Explains(n, f, k)'
    BY <1>2, <1>3, <2>1, <2>2, <2>4, <2>5, <2>6, <2>7, <2>8, <2>9 DEF Explains
  <2>. QED
    BY <2>1, <2>3, <2>10 DEF Explained
<1>6. CASE ActionOf(names, t) = "ignored" \/ t.payload.name # n
  <2>1. AcceptedFor(n)' = AcceptedFor(n) /\ TenureOf(n)' = TenureOf(n)
    BY <1>6, AcceptedGrows, TenureGrows
  <2>2. (n \in DOMAIN names' <=> n \in DOMAIN names)
        /\ (n \in DOMAIN names => names'[n] = names[n])
    <3>1. CASE ActionOf(names, t) = "ignored"
      <4>1. names' = names
        BY <1>1, <3>1, ApplyCases
      <4>. QED
        BY <4>1
    <3>2. CASE t.payload.name # n
      BY <1>1, <3>2, ApplyCases, PutElsewhere
    <3>. QED
      BY <1>6, <3>1, <3>2
  <2>3. TenureOf(n) \subseteq AcceptedFor(n)
    BY DEF TenureOf
  <2>4. CASE n \in DOMAIN names
    <3>1. PICK f \in TenureOf(n), l \in TenureOf(n) : Explains(n, f, l)
      BY <2>4 DEF Explained
    <3>2. Sources(n)' = Sources(n)
      BY <1>2, <2>1, <2>3 DEF Sources
    <3>3. names'[n] = names[n]
          /\ \A i \in TenureOf(n) : events'[i] = events[i]
          /\ TenureOf(n)' = TenureOf(n)
      BY <1>2, <2>1, <2>2, <2>3, <2>4
    <3>4. \A i \in TenureOf(n)' : events'[i].Payload.owner = names'[n].OwnerKey
      BY <3>1, <3>3 DEF Explains
    <3>5. Explains(n, f, l)'
      BY <3>1, <3>2, <3>3, <3>4 DEF Explains
    <3>. QED
      BY <2>1, <2>2, <3>1, <3>3, <3>5 DEF Explained
  <2>. QED
    BY <2>1, <2>2, <2>4 DEF Explained
<1>. QED
  BY <1>4, <1>5, <1>6, ApplyCases

\* The registry and the log, which are saved to different tables, tell the same
\* story: owner, heights, expiry and source transactions of every entry are
\* those of the last claim of its name and the renewals after it.
THEOREM EntriesAreExplained == Spec => []EntriesMatchEvents
<1>1. Init => AllExplained
  BY DEF Init, NewRegistry, AllExplained, Explained, AcceptedFor
<1>2. TypeOK /\ AllExplained /\ [Next]_vars => AllExplained'
  <2> SUFFICES ASSUME TypeOK, AllExplained, [Next]_vars, NEW n \in Names PROVE Explained(n)'
    BY DEF AllExplained
  <2>1. CASE UNCHANGED vars
    <3>1. names' = names /\ events' = events
      BY <2>1 DEF vars
    <3>2. TenureOf(n)' = TenureOf(n) /\ AcceptedFor(n)' = AcceptedFor(n) /\ Sources(n)' = Sources(n)
      BY <3>1 DEF TenureOf, AcceptedFor, Sources
    <3>. QED
      BY <3>1, <3>2 DEF AllExplained, Explained, Explains
  <2>. QED
    BY <2>1, StepExplains DEF Next, AllExplained
<1>. QED
  BY <1>1, <1>2, TypeCorrect, ExplainedMatches, PTL DEF Spec

-----------------------------------------------------------------------------
(* Lookups.                                                                *)

\* A payment for one year gets a name exactly when the name is free.
LEMMA BidWins ==
  ASSUME NEW n \in Names, NEW o \in Owners, NEW h
  PROVE  EventOf(names, Bid(n, o, h)).Action = "claimed" <=> Free(names, n, h)
<1> DEFINE b == Bid(n, o, h)
<1>1. b.amount = YearAmount /\ b.height = h /\ b.payload = [name |-> n, owner |-> o]
  BY DEF Bid
<1>2. WholeYears(b.amount)
  <2>1. YearAmount % YearAmount = 0
    BY YearAssumption
  <2>. QED
    BY <1>1, <2>1, YearAssumption DEF WholeYears
<1>3. b.payload # NoPayload /\ b.payload.name = n
  BY <1>1, NoPayloadAssumption DEF Payloads
<1>4. Claims(names, b) <=> Free(names, n, h)
  BY <1>1, <1>2, <1>3 DEF Claims, Valid
<1>5. EventOf(names, b).Action = "claimed" <=> Claims(names, b)
  BY DEF EventOf, ActionOf
<1>. QED
  BY <1>4, <1>5

\* Whatever was claimed, renewed and lost before, a lookup's answer says which
\* payments will get the name: none as long as it is found, and the first one
\* after the blocks it reports.
THEOREM LookupsPredictPayments == Spec => []LookupPredictsApply
<1>1. TypeOK => LookupPredictsApply
  <2> SUFFICES ASSUME TypeOK, NEW n \in Names, NEW h \in height..MaxHeight, NEW o \in Owners
               PROVE  LET Wins(at) == EventOf(names, Bid(n, o, at)).Action = "claimed"
                          end == h + RemainingBlocks(names, n, h)
                      IN IF Found(names, n, h)
                         THEN ~Wins(h) /\ ~Wins(end - 1) /\ Wins(end)
                         ELSE Wins(h)
    BY DEF LookupPredictsApply
  <2> DEFINE end == h + RemainingBlocks(names, n, h)
  <2>1. h \in Int
    BY AmountsAssumption DEF TypeOK
  <2>2. n \in DOMAIN names => names[n].ExpirationHeight \in Nat
    BY DEF TypeOK, IsRegistry, Entries
  <2>3. ~Found(names, n, h) <=> Free(names, n, h)
    BY <2>1, <2>2 DEF Found, Free
  <2>4. Found(names, n, h) => ~Free(names, n, end - 1) /\ Free(names, n, end)
    BY <2>1, <2>2 DEF Found, Free, RemainingBlocks
  <2>. QED
    BY <2>3, <2>4, BidWins
<1>. QED
  BY <1>1, TypeCorrect, PTL

-----------------------------------------------------------------------------
(* Refinement.                                                             *)

\* Replaying any transfers implements the lease: a claim is a grant, a renewal
\* an extension, and an ignored transfer only lets time pass.
THEOREM ReplayImplementsLease == Spec => ImplementsLease
<1> DEFINE H(reg) == [n \in Names |-> IF n \in DOMAIN reg THEN reg[n].OwnerKey ELSE Nobody]
           U(reg) == [n \in Names |-> IF n \in DOMAIN reg THEN reg[n].ExpirationHeight ELSE 0]
<1>1. Init => Lease!Init
  BY DEF Init, Lease!Init, NewRegistry
<1>2. TypeOK /\ [Next]_vars => [Lease!Next]_(Lease!vars)
  <2> SUFFICES ASSUME TypeOK, NEW t \in Inputs, Apply(t) PROVE Lease!Next
    BY DEF Next, vars, Lease!vars
  <2> DEFINE m == t.payload.name
  <2>1. /\ names' = NamesAfter(names, t) /\ height' = t.height
        /\ t.height >= height /\ t.height \in 0..MaxHeight
        /\ IsRegistry(names, TxIDs)
    BY InputFacts DEF Apply, TypeOK
  <2>2. ASSUME Valid(t)
        PROVE  /\ m \in Names /\ t.payload.owner \in Owners
               /\ Extension(t.amount) \in {Extension(a) : a \in {b \in Amounts : WholeYears(b)}}
    BY <2>2, InputFacts, ValidFacts DEF Valid
  <2>3. CASE /\ Claims(names, t)
             /\ NamesAfter(names, t) = Put(names, m, Claimed(t))
    <3>1. /\ Claimed(t).OwnerKey = t.payload.owner
          /\ Claimed(t).ExpirationHeight = t.height + Extension(t.amount)
      BY DEF Claimed
    <3>2. H(names') = [H(names) EXCEPT ![m] = t.payload.owner]
      BY <2>1, <2>3, <3>1 DEF Put
    <3>3. U(names') = [U(names) EXCEPT ![m] = t.height + Extension(t.amount)]
      BY <2>1, <2>3, <3>1 DEF Put
    <3>4. m \in Names => U(names)[m] <= t.height
      BY <2>1, <2>3 DEF Claims, Free
    <3>5. Valid(t)
      BY <2>3 DEF Claims
    <3>6. Lease!Grant(m, t.payload.owner, Extension(t.amount), t.height)
      BY <2>2, <3>2, <3>3, <3>4, <3>5 DEF Lease!Grant
    <3>7. QED
      BY <2>1, <2>2, <3>5, <3>6 DEF Lease!Next
  <2>4. CASE /\ Renews(names, t)
             /\ NamesAfter(names, t) = Put(names, m, Renewed(names[m], t))
    <3>0. m \in DOMAIN names /\ names[m] \in Entries(TxIDs)
          /\ names[m].ExpirationHeight > t.height
      BY <2>1, <2>4, InputFacts DEF Renews, Free, IsRegistry, Entries
    <3>1. /\ Renewed(names[m], t).OwnerKey = names[m].OwnerKey
          /\ Renewed(names[m], t).ExpirationHeight
               = names[m].ExpirationHeight + Extension(t.amount)
      BY <3>0 DEF Renewed, Entries
    <3>2. H(names') = H(names)
      BY <2>1, <2>4, <3>0, <3>1 DEF Put
    <3>3. U(names') = [U(names) EXCEPT ![m] = @ + Extension(t.amount)]
      BY <2>1, <2>4, <3>0, <3>1 DEF Put
    <3>4. m \in Names /\ U(names)[m] > t.height
      BY <2>1, <3>0 DEF IsRegistry
    <3>5. Valid(t)
      BY <2>4 DEF Renews
    <3>6. Lease!Extend(m, Extension(t.amount), t.height)
      BY <3>2, <3>3, <3>4 DEF Lease!Extend
    <3>7. QED
      BY <2>1, <2>2, <3>5, <3>6 DEF Lease!Next
  <2>5. CASE NamesAfter(names, t) = names
    BY <2>1, <2>5 DEF Lease!Next
  <2>6. QED
    BY <2>3, <2>4, <2>5, ApplyCases
<1>3. QED
  BY <1>1, <1>2, TypeCorrect, PTL DEF Spec, ImplementsLease, Lease!Spec
=============================================================================
