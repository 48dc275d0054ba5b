--------------------------- MODULE RegistryProofs ---------------------------
(***************************************************************************)
(* What the operators of Registry return, preserve and bound, for          *)
(* transfers of any set T of transactions: the lemmas the proofs about     *)
(* Replay and Scan share.                                                  *)
(***************************************************************************)
EXTENDS Registry, TLAPS

\* A payment of whole years buys at least one block, and the price per block is
\* exactly that of a year divided by its blocks (protocol.go:131-139).
LEMMA ExtensionCost ==
  ASSUME NEW a \in Nat, WholeYears(a)
  PROVE  /\ Extension(a) \in Nat \ {0}
         /\ Extension(a) * YearAmount = a * BlocksPerYear
<1>1. /\ a \div YearAmount \in Nat \ {0}
      /\ (a \div YearAmount) * YearAmount = a
  BY YearAssumption DEF WholeYears
<1>2. QED
  BY <1>1, YearAssumption DEF Extension, YearsFromAmount

\* A transfer does one of three things to the registry: its name, free, gets a
\* fresh entry, its name's entry is renewed, or nothing changes.
LEMMA ApplyCases ==
  ASSUME NEW reg, NEW t
  PROVE  \/ /\ Claims(reg, t)
            /\ NamesAfter(reg, t) = Put(reg, t.payload.name, Claimed(t))
            /\ ActionOf(reg, t) = "claimed"
         \/ /\ Renews(reg, t)
            /\ NamesAfter(reg, t)
                 = Put(reg, t.payload.name, Renewed(reg[t.payload.name], t))
            /\ ActionOf(reg, t) = "renewed"
         \/ /\ NamesAfter(reg, t) = reg
            /\ ActionOf(reg, t) = "ignored"
BY DEF NamesAfter, ActionOf

\* What a transfer is made of.
LEMMA TransferFacts ==
  ASSUME NEW T, NEW t \in Transfers(T)
  PROVE  /\ t.txid \in T
         /\ t.height \in Nat
         /\ t.amount \in Nat
         /\ t.payload \in Payloads \cup {NoPayload}
BY DEF Transfers

\* A transfer the registry accepts has a payload and pays for at least a block.
LEMMA ValidFacts ==
  ASSUME NEW T, NEW t \in Transfers(T), Valid(t)
  PROVE  /\ t.payload \in Payloads
         /\ t.payload.name \in Names
         /\ t.payload.owner \in Owners
         /\ Extension(t.amount) \in Nat \ {0}
         /\ Extension(t.amount) * YearAmount = t.amount * BlocksPerYear
<1>1. t.payload \in Payloads /\ WholeYears(t.amount)
  BY TransferFacts DEF Valid
<1>2. QED
  BY <1>1, TransferFacts, ExtensionCost DEF Payloads

\* A registry with one more entry is a registry.
LEMMA PutType ==
  ASSUME NEW T, NEW reg, IsRegistry(reg, T), NEW n \in Names, NEW entry \in Entries(T)
  PROVE  IsRegistry(Put(reg, n, entry), T)
BY DEF IsRegistry, Put

\* Apply leaves a registry.
LEMMA NamesAfterType ==
  ASSUME NEW reg, NEW T, NEW t \in Transfers(T), IsRegistry(reg, T)
  PROVE  IsRegistry(NamesAfter(reg, t), T)
<1>0. t.txid \in T /\ t.height \in Nat
  BY TransferFacts
<1>1. CASE /\ Claims(reg, t)
           /\ NamesAfter(reg, t) = Put(reg, t.payload.name, Claimed(t))
  <2>1. Valid(t)
    BY <1>1 DEF Claims
  <2>2. Claimed(t) \in Entries(T)
    <3>1. <<t.txid>> \in Seq(T)
      BY <1>0
    <3>2. t.height + Extension(t.amount) \in Nat
      BY <1>0, <2>1, ValidFacts
    <3>3. QED
      BY <1>0, <3>1, <3>2, <2>1, ValidFacts DEF Claimed, Entries
  <2>3. QED
    BY <1>1, <2>1, <2>2, ValidFacts, PutType
<1>2. CASE /\ Renews(reg, t)
           /\ NamesAfter(reg, t)
                = Put(reg, t.payload.name, Renewed(reg[t.payload.name], t))
  <2>1. Valid(t) /\ t.payload.name \in DOMAIN reg
    BY <1>2 DEF Renews, Free
  <2> DEFINE e == reg[t.payload.name]
  <2>2. e \in Entries(T)
    BY <2>1 DEF IsRegistry
  <2>3. Renewed(e, t) \in Entries(T)
    <3>1. Append(e.SourceTxIDs, t.txid) \in Seq(T)
      BY <1>0, <2>2 DEF Entries
    <3>2. e.ExpirationHeight + Extension(t.amount) \in Nat
      BY <2>1, <2>2, ValidFacts DEF Entries
    <3>3. QED
      BY <1>0, <3>1, <3>2, <2>2 DEF Renewed, Entries
  <2>4. QED
    BY <1>2, <2>1, <2>3, ValidFacts, PutType
<1>3. CASE NamesAfter(reg, t) = reg
  BY <1>3
<1>4. QED
  BY <1>1, <1>2, <1>3, ApplyCases

\* Apply returns an event.
LEMMA EventType ==
  ASSUME NEW reg, NEW T, NEW t \in Transfers(T), IsRegistry(reg, T)
  PROVE  EventOf(reg, t) \in Events(T)
<1>1. /\ t.txid \in T
      /\ t.height \in Nat
      /\ t.amount \in Nat
      /\ t.payload \in Payloads \cup {NoPayload}
  BY TransferFacts
<1>2. ActionOf(reg, t) \in {"claimed", "renewed", "ignored"}
  BY ApplyCases
<1>3. ASSUME ActionOf(reg, t) # "ignored"
      PROVE  NamesAfter(reg, t)[t.payload.name].ExpirationHeight \in Nat
  <2>1. t.payload.name \in DOMAIN NamesAfter(reg, t)
    BY <1>3, ApplyCases DEF Put
  <2>2. NamesAfter(reg, t)[t.payload.name] \in Entries(T)
    BY <2>1, NamesAfterType DEF IsRegistry
  <2>3. QED
    BY <2>2 DEF Entries
<1>4. QED
  BY <1>1, <1>2, <1>3 DEF EventOf, Events

\* Where a running term meets a transfer: its entry is not the one a claim
\* replaces, and if a renewal changes it, the owner stays and the term grows.
LEMMA RunningTerm ==
  ASSUME NEW T, NEW t \in Transfers(T), NEW reg, IsRegistry(reg, T), NEW n \in DOMAIN reg,
         reg[n].ExpirationHeight > t.height
  PROVE  /\ n \in DOMAIN NamesAfter(reg, t)
         /\ NamesAfter(reg, t)[n].OwnerKey = reg[n].OwnerKey
         /\ NamesAfter(reg, t)[n].ExpirationHeight >= reg[n].ExpirationHeight
<1>0. reg[n] \in Entries(T) /\ reg[n].ExpirationHeight \in Nat /\ t.height \in Nat
  BY TransferFacts DEF IsRegistry, Entries
<1>1. CASE /\ Claims(reg, t)
           /\ NamesAfter(reg, t) = Put(reg, t.payload.name, Claimed(t))
  <2>1. n # t.payload.name
    BY <1>0, <1>1 DEF Claims, Free
  <2>2. NamesAfter(reg, t)[n] = reg[n] /\ n \in DOMAIN NamesAfter(reg, t)
    BY <1>1, <2>1 DEF Put
  <2>3. QED
    BY <1>0, <2>2
<1>2. CASE /\ Renews(reg, t)
           /\ NamesAfter(reg, t)
                = Put(reg, t.payload.name, Renewed(reg[t.payload.name], t))
  <2>1. CASE n = t.payload.name
    <3>1. /\ NamesAfter(reg, t)[n] = Renewed(reg[n], t)
          /\ n \in DOMAIN NamesAfter(reg, t)
      BY <1>2, <2>1 DEF Put
    <3>2. /\ Renewed(reg[n], t).OwnerKey = reg[n].OwnerKey
          /\ Renewed(reg[n], t).ExpirationHeight
               = reg[n].ExpirationHeight + Extension(t.amount)
      BY <1>0 DEF Renewed, Entries
    <3>3. Extension(t.amount) \in Nat
      BY <1>2, ValidFacts DEF Renews
    <3>4. QED
      BY <1>0, <3>1, <3>2, <3>3
  <2>2. CASE n # t.payload.name
    <3>1. NamesAfter(reg, t)[n] = reg[n] /\ n \in DOMAIN NamesAfter(reg, t)
      BY <1>2, <2>2 DEF Put
    <3>2. QED
      BY <1>0, <3>1
  <2>3. QED
    BY <2>1, <2>2
<1>3. CASE NamesAfter(reg, t) = reg
  BY <1>0, <1>3
<1>4. QED
  BY <1>1, <1>2, <1>3, ApplyCases

\* The event of an accepted transfer says what became of its name's entry.
LEMMA AcceptedEvent ==
  ASSUME NEW T, NEW t \in Transfers(T), NEW reg, IsRegistry(reg, T), ActionOf(reg, t) # "ignored"
  PROVE  LET n  == t.payload.name
             ev == EventOf(reg, t)
         IN /\ n \in DOMAIN NamesAfter(reg, t)
            /\ ev.Payload = t.payload
            /\ ev.ExpirationHeight = NamesAfter(reg, t)[n].ExpirationHeight
            /\ ev.ExpirationHeight \in Nat
            /\ NamesAfter(reg, t)[n].OwnerKey = t.payload.owner
<1> DEFINE n == t.payload.name
<1>1. Valid(t)
  BY ApplyCases DEF Claims, Renews
<1>2. n \in DOMAIN NamesAfter(reg, t)
  BY ApplyCases DEF Put
<1>3. /\ EventOf(reg, t).Payload = t.payload
      /\ EventOf(reg, t).ExpirationHeight = NamesAfter(reg, t)[n].ExpirationHeight
  BY <1>1 DEF EventOf
<1>4. NamesAfter(reg, t)[n].ExpirationHeight \in Nat
  <2>1. NamesAfter(reg, t)[n] \in Entries(T)
    BY <1>2, NamesAfterType DEF IsRegistry
  <2>2. QED
    BY <2>1 DEF Entries
<1>5. CASE /\ Claims(reg, t)
           /\ NamesAfter(reg, t) = Put(reg, n, Claimed(t))
  <2>1. NamesAfter(reg, t)[n].OwnerKey = t.payload.owner
    BY <1>5 DEF Put, Claimed
  <2>2. QED
    BY <1>2, <1>3, <1>4, <2>1
<1>6. CASE /\ Renews(reg, t)
           /\ NamesAfter(reg, t) = Put(reg, n, Renewed(reg[n], t))
  <2>1. n \in DOMAIN reg /\ reg[n] \in Entries(T) /\ reg[n].OwnerKey = t.payload.owner
    BY <1>6 DEF Renews, Free, IsRegistry
  <2>2. NamesAfter(reg, t)[n].OwnerKey = reg[n].OwnerKey
    BY <1>6, <2>1 DEF Put, Renewed, Entries
  <2>3. QED
    BY <1>2, <1>3, <1>4, <2>1, <2>2
<1>7. QED
  BY <1>5, <1>6, ApplyCases
\* An entry is the one that was there, or was last updated by the transfer; the
\* entries of other names stay.
LEMMA LastUpdate ==
  ASSUME NEW T, NEW t \in Transfers(T), NEW reg, IsRegistry(reg, T)
  PROVE  /\ DOMAIN reg \subseteq DOMAIN NamesAfter(reg, t)
         /\ \A n \in DOMAIN NamesAfter(reg, t) :
              \/ n \in DOMAIN reg /\ NamesAfter(reg, t)[n] = reg[n]
              \/ NamesAfter(reg, t)[n].LastUpdateHeight = t.height
<1>1. CASE /\ Claims(reg, t)
           /\ NamesAfter(reg, t) = Put(reg, t.payload.name, Claimed(t))
  <2>1. Claimed(t).LastUpdateHeight = t.height
    BY DEF Claimed
  <2>2. QED
    BY <1>1, <2>1 DEF Put
<1>2. CASE /\ Renews(reg, t)
           /\ NamesAfter(reg, t)
                = Put(reg, t.payload.name, Renewed(reg[t.payload.name], t))
  <2>1. t.payload.name \in DOMAIN reg /\ reg[t.payload.name] \in Entries(T)
    BY <1>2 DEF Renews, Free, IsRegistry
  <2>2. Renewed(reg[t.payload.name], t).LastUpdateHeight = t.height
    BY <2>1 DEF Renewed, Entries
  <2>3. QED
    BY <1>2, <2>1, <2>2 DEF Put
<1>3. CASE NamesAfter(reg, t) = reg
  BY <1>3
<1>4. QED
  BY <1>1, <1>2, <1>3, ApplyCases
=============================================================================
