---------------------------- MODULE StoreProofs -----------------------------
(***************************************************************************)
(* Proofs about Store, for all snapshots, networks and orders of the       *)
(* inserts: the types, what is on disk, and that the database, through     *)
(* Load, is the store of whole snapshots that SnapshotStore describes.     *)
(***************************************************************************)
EXTENDS Store, FiniteSetTheorems, TLAPS

Shape ==
  /\ DOMAIN disk = Tables /\ DOMAIN work = Tables /\ DOMAIN left = Tables
  /\ disk = [t \in Tables |-> disk[t]]
  /\ work = [t \in Tables |-> work[t]]
  /\ left = [t \in Tables |-> left[t]]

\* While Save deletes, every table that is not empty is still to be emptied.
Emptying ==
  deletes # <<>> =>
    /\ left = Inserts(saving)
    /\ \A t \in Tables : work[t] = {} \/ \E i \in 1..Len(deletes) : deletes[i] = t

\* While Save inserts, the tables hold what it has inserted and nothing else.
Filling ==
  deletes = <<>> =>
    \A t \in Tables :
      /\ left[t] \subseteq Inserts(saving)[t]
      /\ work[t] = {Row(insert) : insert \in Inserts(saving)[t] \ left[t]}

\* No two rows inserted so far have the same key.
KeysDiffered ==
  \A t \in Tables : \A a, b \in Inserts(saving)[t] \ left[t] : a.key = b.key => a = b

SavingInv ==
  phase = "saving" =>
    /\ saving \in Saveable
    /\ Emptying
    /\ Filling
    /\ KeysDiffered

\* What the process does in one step.
LEMMA Steps ==
  ASSUME Next
  PROVE  \/ \E n \in Networks : Start(n)
         \/ RemoveFiles
         \/ \E s \in Snapshots : Begin(s)
         \/ DeleteRows
         \/ \E t \in Tables : \E insert \in left[t] : InsertRow(t, insert)
         \/ \E t \in Tables : \E insert \in left[t] : Refused(t, insert)
         \/ Commit
         \/ SaveFails
         \/ Stop
  BY DEF Next

LEMMA InitShape == Init => Shape
<1>1. ASSUME Init PROVE Shape
  <2>1. PICK s : disk = NoRows \/ disk = Rows(s)
    BY <1>1 DEF Init
  <2>. QED
    BY <1>1, <2>1 DEF Init, NoRows, Rows, Shape
<1>. QED
  BY <1>1

LEMMA KeepsShape ==
  ASSUME Shape, [Next]_vars
  PROVE  Shape'
<1>1. CASE UNCHANGED vars
  BY <1>1 DEF vars, Shape
<1>2. CASE \/ \E n \in Networks : Start(n)
           \/ RemoveFiles
           \/ Commit
           \/ SaveFails
           \/ Stop
           \/ \E t \in Tables : \E insert \in left[t] : Refused(t, insert)
  BY <1>2 DEF Start, RemoveFiles, Commit, SaveFails, Stop, Refused, EndTransaction,
              NoRows, Shape
<1>3. CASE \E s \in Snapshots : Begin(s)
  <2>1. DOMAIN left' = Tables /\ left' = [t \in Tables |-> left'[t]]
    BY <1>3 DEF Begin, Inserts
  <2>. QED
    BY <1>3, <2>1 DEF Begin, Shape
<1>4. CASE DeleteRows
  BY <1>4 DEF DeleteRows, Shape
<1>5. CASE \E t \in Tables : \E insert \in left[t] : InsertRow(t, insert)
  BY <1>5 DEF InsertRow, Shape
<1>. QED
  BY <1>1, <1>2, <1>3, <1>4, <1>5, Steps

\* The part of TypeOK that says nothing of tables.
ProcessTypes ==
  /\ deletes \in Seq(Tables)
  /\ saving \in Saveable \cup {Empty}
  /\ phase \in Phases
  /\ network \in Networks \cup {NoAddress}
  /\ phase # "down" <=> network # NoAddress

LEMMA InitProcess == Init => ProcessTypes
  BY DEF Init, ProcessTypes, Phases

LEMMA KeepsProcessTypes ==
  ASSUME ProcessTypes, [Next]_vars
  PROVE  ProcessTypes'
<1>1. CASE UNCHANGED vars
  BY <1>1 DEF vars, ProcessTypes
<1>2. CASE \E s \in Snapshots : Begin(s)
  <2>1. PICK s \in Snapshots : Begin(s)
    BY <1>2
  <2>2. network \in Networks
    BY <2>1 DEF Begin, ProcessTypes
  <2>3. saving' \in Saveable
    BY <2>1, <2>2 DEF Begin, Saveable
  <2>4. Deletes \in Seq(Tables)
    BY DEF Deletes, Tables
  <2>. QED
    BY <2>1, <2>3, <2>4 DEF Begin, ProcessTypes, Phases
<1>3. CASE DeleteRows
  BY <1>3 DEF DeleteRows, ProcessTypes
<1>4. CASE \/ \E t \in Tables : \E insert \in left[t] : InsertRow(t, insert)
           \/ \E n \in Networks : Start(n)
           \/ RemoveFiles
  BY <1>4, AddressAssumption DEF InsertRow, Start, RemoveFiles, ProcessTypes, Phases
<1>5. ASSUME EndTransaction, phase' \in Phases,
             phase' # "down" <=> network' # NoAddress,
             network' = network \/ network' = NoAddress
      PROVE  ProcessTypes'
  BY <1>5 DEF EndTransaction, ProcessTypes
<1>6. CASE Stop
  BY <1>5, <1>6 DEF Stop, Phases
<1>7. CASE \/ Commit
           \/ SaveFails
           \/ \E t \in Tables : \E insert \in left[t] : Refused(t, insert)
  <2>1. EndTransaction /\ phase = "saving" /\ phase' = "serving" /\ network' = network
    BY <1>7 DEF Commit, SaveFails, Refused
  <2>. QED
    BY <1>5, <2>1 DEF ProcessTypes, Phases
<1>. QED
  BY <1>1, <1>2, <1>3, <1>4, <1>6, <1>7, Steps

\* Every variable has its type, always.
THEOREM TypeCorrect == Spec => []TypeOK
<1>2. Shape /\ ProcessTypes => TypeOK
  BY DEF Shape, ProcessTypes, TypeOK
<1>. QED
  BY <1>2, InitShape, KeepsShape, InitProcess, KeepsProcessTypes, PTL DEF Spec

-----------------------------------------------------------------------------
LEMMA DeletingKeeps ==
  ASSUME Shape, ProcessTypes, SavingInv, DeleteRows
  PROVE  SavingInv'
<1>1. \A t \in Tables : work'[t] = {} \/ \E i \in 1..Len(deletes') : deletes'[i] = t
  <2>1. SUFFICES ASSUME NEW t \in Tables, work'[t] # {}
                 PROVE  \E i \in 1..Len(deletes') : deletes'[i] = t
    OBVIOUS
  <2>2. work[t] # {} /\ t # Head(deletes)
    BY <2>1 DEF DeleteRows
  <2>3. PICK i \in 1..Len(deletes) : deletes[i] = t
    BY <2>2 DEF DeleteRows, SavingInv, Emptying
  <2>4. i # 1 /\ deletes' = Tail(deletes) /\ deletes \in Seq(Tables) /\ deletes # <<>>
    BY <2>2, <2>3 DEF DeleteRows, ProcessTypes
  <2>5. i - 1 \in 1..Len(deletes') /\ deletes'[i - 1] = t
    BY <2>3, <2>4
  <2>. QED
    BY <2>5
<1>2. left' = Inserts(saving') /\ saving' \in Saveable
  BY DEF DeleteRows, SavingInv, Emptying
<1>3. Emptying'
  BY <1>1, <1>2 DEF Emptying
<1>4. Filling'
  <2>1. SUFFICES ASSUME deletes' = <<>>, NEW t \in Tables
                 PROVE  /\ left'[t] \subseteq Inserts(saving')[t]
                        /\ work'[t] = {Row(insert) : insert \in Inserts(saving')[t] \ left'[t]}
    BY DEF Filling
  <2>2. work'[t] = {}
    BY <1>1, <2>1
  <2>3. Inserts(saving')[t] \ left'[t] = {}
    BY <1>2
  <2>. QED
    BY <1>2, <2>2, <2>3
<1>5. KeysDiffered'
  BY <1>2 DEF KeysDiffered
<1>. QED
  BY <1>2, <1>3, <1>4, <1>5 DEF SavingInv

LEMMA InsertingKeeps ==
  ASSUME Shape, SavingInv, NEW t \in Tables, NEW insert \in left[t], InsertRow(t, insert)
  PROVE  SavingInv'
<1>. USE DEF SavingInv, InsertRow
<1>1. saving' = saving /\ saving \in Saveable /\ deletes' = <<>> /\ deletes = <<>>
  OBVIOUS
<1>2. /\ work'[t] = work[t] \cup {Row(insert)}
      /\ left'[t] = left[t] \ {insert}
      /\ \A u \in Tables \ {t} : work'[u] = work[u] /\ left'[u] = left[u]
  BY DEF Shape
<1>3. insert \in Inserts(saving)[t]
  BY <1>1 DEF Filling
<1>4. Filling'
  <2>1. SUFFICES ASSUME NEW u \in Tables
                 PROVE  /\ left'[u] \subseteq Inserts(saving)[u]
                        /\ work'[u] = {Row(i) : i \in Inserts(saving)[u] \ left'[u]}
    BY <1>1 DEF Filling
  <2>2. CASE u # t
    BY <1>1, <1>2, <2>2 DEF Filling
  <2>3. CASE u = t
    <3>1. Inserts(saving)[t] \ left'[t] = (Inserts(saving)[t] \ left[t]) \cup {insert}
      BY <1>2, <1>3
    <3>2. work[t] = {Row(i) : i \in Inserts(saving)[t] \ left[t]}
      BY <1>1 DEF Filling
    <3>3. left[t] \subseteq Inserts(saving)[t]
      BY <1>1 DEF Filling
    <3>. HIDE DEF SavingInv, InsertRow
    <3>4. work'[t] = {Row(i) : i \in Inserts(saving)[t] \ left'[t]}
      BY <1>2, <3>1, <3>2
    <3>. QED
      BY <1>2, <2>3, <3>3, <3>4
  <2>. QED
    BY <2>2, <2>3
<1>5. KeysDiffered'
  <2>1. SUFFICES ASSUME NEW u \in Tables,
                        NEW a \in Inserts(saving)[u] \ left'[u],
                        NEW b \in Inserts(saving)[u] \ left'[u],
                        a.key = b.key
                 PROVE  a = b
    BY <1>1 DEF KeysDiffered
  <2>2. CASE u # t
    BY <1>1, <1>2, <2>1, <2>2 DEF KeysDiffered
  <2>3. CASE u = t
    <3>1. \A c \in Inserts(saving)[t] \ left[t] : c.key # insert.key
      <4>1. SUFFICES ASSUME NEW c \in Inserts(saving)[t] \ left[t]
                     PROVE  c.key # insert.key
        OBVIOUS
      <4>2. Row(c) \in work[t]
        BY <1>1 DEF Filling
      <4>3. Row(c).key # insert.key
        BY <4>2 DEF Accepts
      <4>. QED
        BY <4>3 DEF Row
    <3>2. /\ a = insert \/ a \in Inserts(saving)[t] \ left[t]
          /\ b = insert \/ b \in Inserts(saving)[t] \ left[t]
      BY <1>2, <2>1, <2>3
    <3>. QED
      BY <1>1, <2>1, <3>1, <3>2 DEF KeysDiffered
  <2>. QED
    BY <2>2, <2>3
<1>6. Emptying'
  BY <1>1 DEF Emptying
<1>. QED
  BY <1>1, <1>4, <1>5, <1>6

LEMMA BeginningKeeps ==
  ASSUME ProcessTypes, NEW s \in Snapshots, Begin(s)
  PROVE  SavingInv'
<1>1. network \in Networks
  BY DEF Begin, ProcessTypes
<1>2. saving' \in Saveable /\ left' = Inserts(saving') /\ deletes' = <<"name_txids", "names", "events", "meta">>
  BY <1>1 DEF Begin, Saveable, Deletes
<1>3. \A t \in Tables : \E i \in 1..4 : deletes'[i] = t
  BY <1>2 DEF Tables
<1>4. Emptying'
  BY <1>2, <1>3 DEF Emptying
<1>5. Filling'
  BY <1>2 DEF Filling
<1>6. KeysDiffered'
  BY <1>2 DEF KeysDiffered
<1>. QED
  BY <1>2, <1>4, <1>5, <1>6 DEF SavingInv

LEMMA KeepsSavingInv ==
  ASSUME Shape, ProcessTypes, SavingInv, [Next]_vars
  PROVE  SavingInv'
<1>1. CASE UNCHANGED vars
  BY <1>1 DEF vars, SavingInv, Emptying, Filling, KeysDiffered
<1>2. CASE phase' # "saving"
  BY <1>2 DEF SavingInv
<1>3. CASE \E s \in Snapshots : Begin(s)
  BY <1>3, BeginningKeeps
<1>4. CASE DeleteRows
  BY <1>4, DeletingKeeps
<1>5. CASE \E t \in Tables : \E insert \in left[t] : InsertRow(t, insert)
  BY <1>5, InsertingKeeps
<1>. QED
  BY <1>1, <1>2, <1>3, <1>4, <1>5, Steps DEF Start, RemoveFiles, Commit, SaveFails, Stop, Refused

\* What is committed is a snapshot without two rows of one key.
LEMMA CommittedRows ==
  ASSUME Shape, SavingInv, Commit
  PROVE  saving \in Saveable /\ KeysDiffer(saving) /\ disk' = Rows(saving)
<1>1. \A t \in Tables : left[t] = {}
  BY DEF Commit, NoRows
<1>2. saving \in Saveable /\ Filling /\ KeysDiffered /\ deletes = <<>>
  BY DEF Commit, SavingInv
<1>3. \A t \in Tables : work[t] = {Row(insert) : insert \in Inserts(saving)[t]}
  BY <1>1, <1>2 DEF Filling
<1>4. work = Rows(saving)
  BY <1>3 DEF Shape, Rows
<1>5. KeysDiffer(saving)
  BY <1>1, <1>2 DEF KeysDiffered, KeysDiffer
<1>. QED
  BY <1>2, <1>4, <1>5 DEF Commit

LEMMA CommitsWhole ==
  ASSUME Shape, SavingInv, Commit
  PROVE  Whole'
BY CommittedRows DEF Whole

\* Through failed statements, refused rows, failed commits and deaths, the
\* tables on disk are always those of one snapshot.
THEOREM DiskIsWhole == Spec => []Whole
<1>1. Init => SavingInv /\ Whole
  BY DEF Init, SavingInv, Whole, Legacy
<1>2. ASSUME Shape, SavingInv, Whole, [Next]_vars
      PROVE  Whole'
  <2>1. CASE Commit
    BY <1>2, <2>1, CommitsWhole
  <2>2. CASE RemoveFiles
    BY <2>2 DEF RemoveFiles, Whole
  <2>3. CASE UNCHANGED disk
    BY <1>2, <2>3 DEF Whole
  <2>. QED
    BY <1>2, <2>1, <2>2, <2>3, Steps
       DEF vars, Start, Begin, DeleteRows, InsertRow, Refused, SaveFails, Stop
<1>. QED
  BY <1>1, <1>2, InitShape, KeepsShape, KeepsSavingInv, KeepsProcessTypes, InitProcess, PTL DEF Spec

-----------------------------------------------------------------------------
(* Places in an order: the element that has k - 1 others before it.        *)

IsOrder(S, R) ==
  /\ \A x \in S : <<x, x>> \notin R
  /\ \A x, y \in S : x = y \/ <<x, y>> \in R \/ <<y, x>> \in R
  /\ \A x, y, z \in S : <<x, y>> \in R /\ <<y, z>> \in R => <<x, z>> \in R

Below(S, R, x) == {y \in S : <<y, x>> \in R}

\* In a finite set in order there is just one element at each place.
LEMMA OneAtEachPlace ==
  ASSUME NEW S, IsFiniteSet(S), NEW R, IsOrder(S, R), NEW k \in 1..Cardinality(S)
  PROVE  \E x \in S : /\ Cardinality(Below(S, R, x)) = k - 1
                      /\ \A y \in S : Cardinality(Below(S, R, y)) = k - 1 => y = x
<1> DEFINE N == Cardinality(S)
           rank(x) == Cardinality(Below(S, R, x))
           place == [x \in S |-> rank(x) + 1]
<1>1. N \in Nat
  BY FS_CardinalityType
<1>2. ASSUME NEW x \in S
      PROVE  /\ IsFiniteSet(Below(S, R, x)) /\ x \notin Below(S, R, x)
             /\ rank(x) \in Nat /\ rank(x) < N
  <2>1. Below(S, R, x) \in SUBSET (S \ {x}) /\ x \notin Below(S, R, x)
    BY DEF Below, IsOrder
  <2>2. IsFiniteSet(S \ {x}) /\ Cardinality(S \ {x}) = N - 1
    BY FS_RemoveElement
  <2>3. IsFiniteSet(Below(S, R, x)) /\ rank(x) <= N - 1
    BY <2>1, <2>2, FS_Subset
  <2>4. rank(x) \in Nat
    BY <2>3, FS_CardinalityType
  <2> HIDE DEF rank, N
  <2>5. QED
    BY <1>1, <2>1, <2>3, <2>4
<1>3. ASSUME NEW x \in S, NEW y \in S, <<x, y>> \in R
      PROVE  rank(x) < rank(y)
  <2>1. Below(S, R, x) \cup {x} \in SUBSET Below(S, R, y)
    BY <1>3 DEF Below, IsOrder
  <2>2. Cardinality(Below(S, R, x) \cup {x}) = rank(x) + 1
    BY <1>2, FS_AddElement
  <2>3. Cardinality(Below(S, R, x) \cup {x}) <= rank(y)
    BY <1>2, <2>1, FS_Subset
  <2>4. rank(x) \in Nat /\ rank(y) \in Nat
    BY <1>2
  <2> HIDE DEF rank
  <2>5. QED
    BY <2>2, <2>3, <2>4
<1> HIDE DEF rank, N
<1>4. ASSUME NEW x \in S, NEW y \in S, rank(x) = rank(y) PROVE x = y
  <2>1. x = y \/ <<x, y>> \in R \/ <<y, x>> \in R
    BY DEF IsOrder
  <2>2. rank(x) \in Nat /\ rank(y) \in Nat
    BY <1>2
  <2>3. QED
    BY <1>3, <1>4, <2>1, <2>2
<1>5. place \in Injection(S, 1..N)
  <2>1. \A x \in S : rank(x) + 1 \in 1..N
    BY <1>1, <1>2
  <2>2. \A x, y \in S : place[x] = place[y] => x = y
    BY <1>2, <1>4
  <2>3. QED
    BY <2>1, <2>2 DEF Injection, IsInjective
<1>6. place \in Surjection(S, 1..N)
  <2>1. IsFiniteSet(1..N) /\ Cardinality(1..N) = N
    BY <1>1, FS_Interval
  <2> HIDE DEF place
  <2>2. QED
    BY <1>5, <2>1, FS_Injection DEF N
<1>7. PICK x \in S : place[x] = k
  <2>1. k \in 1..N
    BY DEF N
  <2> HIDE DEF place
  <2>2. QED
    BY <1>6, <2>1 DEF Surjection
<1>8. rank(x) = k - 1
  BY <1>2, <1>7
<1>9. \A y \in S : rank(y) = k - 1 => y = x
  BY <1>4, <1>8
<1>10. QED
  BY <1>8, <1>9 DEF rank

KeepsOrder(f, S, R, Q) == \A x, y \in S : <<x, y>> \in R <=> <<f[x], f[y]>> \in Q

\* A one-to-one map that keeps the order keeps the places.
LEMMA PlacesKept ==
  ASSUME NEW S, NEW T, IsFiniteSet(S), NEW f \in Bijection(S, T), NEW R, NEW Q,
         KeepsOrder(f, S, R, Q), NEW x \in S
  PROVE  Cardinality(Below(T, Q, f[x])) = Cardinality(Below(S, R, x))
<1> DEFINE A == Below(S, R, x)
           B == Below(T, Q, f[x])
           g == [y \in A |-> f[y]]
<1>1. /\ f \in [S -> T] /\ \A y, z \in S : f[y] = f[z] => y = z
      /\ \A t \in T : \E y \in S : f[y] = t
  BY DEF Bijection, Injection, Surjection, IsInjective
<1>2. A \in SUBSET S /\ \A y \in A : f[y] \in B
  BY <1>1 DEF Below, KeepsOrder
<1>3. \A t \in B : \E y \in A : f[y] = t
  BY <1>1 DEF Below, KeepsOrder
<1> HIDE DEF A, B
<1>4. g \in Bijection(A, B)
  BY <1>1, <1>2, <1>3 DEF Bijection, Injection, Surjection, IsInjective
<1>5. IsFiniteSet(A)
  BY <1>2, FS_Subset
<1>6. QED
  BY <1>4, <1>5, FS_Bijection DEF A, B, ExistsBijection

-----------------------------------------------------------------------------
(* What Load reads from the rows of a snapshot.                            *)

\* A snapshot as scanOnce returns it, with the address of a network or none.
Proper(s) ==
  /\ s = [Height |-> s.Height, BlockHash |-> s.BlockHash, ProtocolAddress |-> s.ProtocolAddress,
          Names |-> s.Names, Events |-> s.Events]
  /\ s.Height = 0 => s.BlockHash = NoHash
  /\ s.Names = [n \in DOMAIN s.Names |-> s.Names[n]]
  /\ \A n \in DOMAIN s.Names : s.Names[n] \in Entries(TxIDs)
  /\ s.Events \in Seq(Events(TxIDs))

\* Every snapshot that may be on disk is one that Load can give back.
LEMMA SavedIsProper ==
  ASSUME NEW s \in Legacy \cup Saveable
  PROVE  /\ Proper(s)
         /\ s.ProtocolAddress \in Networks \cup {NoAddress}
         /\ s \in Legacy => s.ProtocolAddress = NoAddress
         /\ s \in Saveable => s.ProtocolAddress \in Networks
<1>1. PICK r \in Snapshots, a \in Networks \cup {NoAddress} :
        /\ s = Addressed(r, a)
        /\ s \in Legacy => a = NoAddress
        /\ s \in Saveable => a \in Networks
  <2>1. CASE s \in Saveable
    <3>1. PICK r \in Snapshots, a \in Networks : s = Addressed(r, a)
      BY <2>1 DEF Saveable
    <3>2. s \notin Legacy
      <4>1. s.ProtocolAddress = a
        BY <3>1 DEF Addressed
      <4>2. s \in Legacy => s.ProtocolAddress = NoAddress
        BY DEF Legacy, Addressed
      <4>3. QED
        BY <4>1, <4>2, AddressAssumption
    <3>3. QED
      BY <3>1, <3>2
  <2>2. CASE s \notin Saveable
    <3>1. PICK r \in Snapshots : s = Addressed(r, NoAddress)
      BY <2>2 DEF Legacy
    <3>2. QED
      BY <2>2, <3>1
  <2>3. QED
    BY <2>1, <2>2
<1>2. /\ r.Height = 0 => r.BlockHash = NoHash
      /\ \E names \in SUBSET Names : r.Names \in [names -> Entries(TxIDs)]
      /\ r.Events \in Seq(Events(TxIDs))
  BY SnapshotsAssumption
<1>3. r.Names = [n \in DOMAIN r.Names |-> r.Names[n]] /\ \A n \in DOMAIN r.Names : r.Names[n] \in Entries(TxIDs)
  BY <1>2
<1>4. QED
  BY <1>1, <1>2, <1>3 DEF Proper, Addressed

\* The rows of each table.
LEMMA TableRows ==
  ASSUME NEW s
  PROVE  /\ Rows(s)["meta"] = {Row(x) : x \in MetaInserts(s)}
         /\ Rows(s)["names"] = {Row(x) : x \in NameInserts(s)}
         /\ Rows(s)["name_txids"] = {Row(x) : x \in TxIDInserts(s)}
         /\ Rows(s)["events"] = {Row(x) : x \in EventInserts(s)}
         /\ Inserts(s)["events"] = EventInserts(s)
         /\ Inserts(s)["names"] = NameInserts(s)
<1>1. "meta" \in Tables /\ "names" \in Tables /\ "name_txids" \in Tables /\ "events" \in Tables
  BY DEF Tables
<1>2. /\ Inserts(s)["meta"] = MetaInserts(s)
      /\ Inserts(s)["names"] = NameInserts(s)
      /\ Inserts(s)["name_txids"] = TxIDInserts(s)
      /\ Inserts(s)["events"] = EventInserts(s)
  BY <1>1 DEF Inserts
<1>3. \A t \in Tables : Rows(s)[t] = {Row(x) : x \in Inserts(s)[t]}
  BY DEF Rows
<1>4. QED
  BY <1>1, <1>2, <1>3

\* The values of meta.
LEMMA MetaLoaded ==
  ASSUME NEW s
  PROVE  /\ ValueOf(Rows(s)["meta"], "height", 0) = s.Height
         /\ ValueOf(Rows(s)["meta"], "block_hash", NoHash) = s.BlockHash
         /\ ValueOf(Rows(s)["meta"], "protocol_address", NoAddress) = s.ProtocolAddress
<1> DEFINE rows == Rows(s)["meta"]
           row(k, v) == [key |-> k, val |-> v]
<1>1. \A k, v, p : Row(Insert(k, v, p)) = row(k, v)
  BY DEF Row, Insert
<1>2. \A x : x \in MetaInserts(s) <=>
               \/ x = Insert("height", s.Height, 1)
               \/ x = Insert("block_hash", s.BlockHash, 2) /\ s.BlockHash # NoHash
               \/ x = Insert("protocol_address", s.ProtocolAddress, 3) /\ s.ProtocolAddress # NoAddress
  BY DEF MetaInserts
<1>3. rows = {Row(x) : x \in MetaInserts(s)}
  BY TableRows
<1>4. /\ row("height", s.Height) \in rows
      /\ s.BlockHash # NoHash => row("block_hash", s.BlockHash) \in rows
      /\ s.ProtocolAddress # NoAddress => row("protocol_address", s.ProtocolAddress) \in rows
  <2>1. Insert("height", s.Height, 1) \in MetaInserts(s)
    BY <1>2
  <2>2. s.BlockHash # NoHash => Insert("block_hash", s.BlockHash, 2) \in MetaInserts(s)
    BY <1>2
  <2>3. s.ProtocolAddress # NoAddress => Insert("protocol_address", s.ProtocolAddress, 3) \in MetaInserts(s)
    BY <1>2
  <2> HIDE DEF rows, row
  <2>4. QED
    BY <1>1, <1>3, <2>1, <2>2, <2>3
<1>5. \A r \in rows : \/ r = row("height", s.Height)
                      \/ r = row("block_hash", s.BlockHash) /\ s.BlockHash # NoHash
                      \/ r = row("protocol_address", s.ProtocolAddress) /\ s.ProtocolAddress # NoAddress
  <2> HIDE DEF rows, row
  <2>1. QED
    BY <1>1, <1>2, <1>3
<1> HIDE DEF rows
<1>6. ASSUME NEW k, NEW v, NEW d, \A r \in rows : r.key = k => r.val = v /\ (k # "height" => v # d),
             row(k, v) \in rows \/ v = d
      PROVE  ValueOf(rows, k, d) = v
  <2>1. CASE \E r \in rows : r.key = k
    BY <1>6, <2>1 DEF ValueOf
  <2>2. CASE ~\E r \in rows : r.key = k
    <3>1. row(k, v) \notin rows
      BY <2>2
    <3>2. QED
      BY <1>6, <2>2, <3>1 DEF ValueOf
  <2>3. QED
    BY <2>1, <2>2
<1>7. \A r \in rows : /\ r.key = "height" => r.val = s.Height
                      /\ r.key = "block_hash" => r.val = s.BlockHash /\ s.BlockHash # NoHash
                      /\ r.key = "protocol_address" => r.val = s.ProtocolAddress /\ s.ProtocolAddress # NoAddress
  BY <1>5
<1> HIDE DEF row
<1>8. ValueOf(rows, "height", 0) = s.Height
  BY <1>4, <1>6, <1>7
<1>9. ValueOf(rows, "block_hash", NoHash) = s.BlockHash
  BY <1>4, <1>6, <1>7
<1>10. ValueOf(rows, "protocol_address", NoAddress) = s.ProtocolAddress
  BY <1>4, <1>6, <1>7
<1>11. QED
  BY <1>8, <1>9, <1>10 DEF rows

\* What is read at each place, if there is just one element.
LEMMA EventAtPlace ==
  ASSUME NEW S, NEW k \in 1..Cardinality(S), NEW e \in S,
         Cardinality({d \in S : EventBefore(d, e)}) = k - 1,
         \A x \in S : Cardinality({d \in S : EventBefore(d, x)}) = k - 1 => x = e
  PROVE  Ordered(S, EventBefore)[k] = e
<1> DEFINE P(x) == Cardinality({d \in S : EventBefore(d, x)}) = k - 1
<1>1. Ordered(S, EventBefore)[k] = CHOOSE x \in S : P(x)
  BY DEF Ordered
<1>2. P(e) /\ \A x \in S : P(x) => x = e
  OBVIOUS
<1> HIDE DEF P
<1>3. QED
  BY <1>1, <1>2

\* The same for the rows of the log.
LEMMA RowAtPlace ==
  ASSUME NEW S, NEW k \in 1..Cardinality(S), NEW e \in S,
         Cardinality({d \in S : RowBefore(d, e)}) = k - 1,
         \A x \in S : Cardinality({d \in S : RowBefore(d, x)}) = k - 1 => x = e
  PROVE  Ordered(S, RowBefore)[k] = e
<1> DEFINE P(x) == Cardinality({d \in S : RowBefore(d, x)}) = k - 1
<1>1. Ordered(S, RowBefore)[k] = CHOOSE x \in S : P(x)
  BY DEF Ordered
<1>2. P(e) /\ \A x \in S : P(x) => x = e
  OBVIOUS
<1> HIDE DEF P
<1>3. QED
  BY <1>1, <1>2

\* The same for the transactions of a name.
LEMMA TxIDAtPlace ==
  ASSUME NEW S, NEW k \in 1..Cardinality(S), NEW e \in S,
         Cardinality({d \in S : ByPosition(d, e)}) = k - 1,
         \A x \in S : Cardinality({d \in S : ByPosition(d, x)}) = k - 1 => x = e
  PROVE  Ordered(S, ByPosition)[k] = e
<1> DEFINE P(x) == Cardinality({d \in S : ByPosition(d, x)}) = k - 1
<1>1. Ordered(S, ByPosition)[k] = CHOOSE x \in S : P(x)
  BY DEF Ordered
<1>2. P(e) /\ \A x \in S : P(x) => x = e
  OBVIOUS
<1> HIDE DEF P
<1>3. QED
  BY <1>1, <1>2

\* The transactions of a name come back in the order of their positions.
LEMMA TxIDsLoaded ==
  ASSUME NEW s, Proper(s), NEW n \in DOMAIN s.Names
  PROVE  TxIDsOf(Rows(s), n) = s.Names[n].SourceTxIDs
<1> DEFINE q == s.Names[n].SourceTxIDs
           rowAt(i) == [key |-> <<n, q[i]>>, val |-> i - 1]
           Q == {rowAt(i) : i \in 1..Len(q)}
           f == [i \in 1..Len(q) |-> rowAt(i)]
<1>1. q \in Seq(TxIDs) /\ Len(q) \in Nat /\ DOMAIN q = 1..Len(q)
  BY DEF Proper, Entries
<1>2. {row \in Rows(s)["name_txids"] : row.key[1] = n} = Q
  <2>1. ASSUME NEW row, row \in Rows(s)["name_txids"], row.key[1] = n PROVE row \in Q
    <3>1. PICK x \in TxIDInserts(s) : row = Row(x)
      BY <2>1, TableRows
    <3>a. PICK m \in DOMAIN s.Names :
            x \in {Insert(<<m, s.Names[m].SourceTxIDs[i]>>, i - 1, i) : i \in DOMAIN s.Names[m].SourceTxIDs}
      BY DEF TxIDInserts
    <3>2. PICK i \in DOMAIN s.Names[m].SourceTxIDs : x = Insert(<<m, s.Names[m].SourceTxIDs[i]>>, i - 1, i)
      BY <3>a
    <3>3. row = [key |-> <<m, s.Names[m].SourceTxIDs[i]>>, val |-> i - 1]
      BY <3>1, <3>2 DEF Row, Insert
    <3>4. m = n
      BY <2>1, <3>3
    <3>5. i \in 1..Len(q) /\ row = rowAt(i)
      BY <1>1, <3>2, <3>3, <3>4
    <3> HIDE DEF rowAt
    <3>6. QED
      BY <3>5
  <2>2. ASSUME NEW i \in 1..Len(q) PROVE rowAt(i) \in Rows(s)["name_txids"] /\ rowAt(i).key[1] = n
    <3>1. Insert(<<n, q[i]>>, i - 1, i) \in TxIDInserts(s)
      <4>1. Insert(<<n, q[i]>>, i - 1, i) \in
              {Insert(<<n, s.Names[n].SourceTxIDs[j]>>, j - 1, j) : j \in DOMAIN s.Names[n].SourceTxIDs}
        BY <1>1
      <4> HIDE DEF q
      <4>2. QED
        BY <4>1 DEF TxIDInserts
    <3>2. Row(Insert(<<n, q[i]>>, i - 1, i)) = rowAt(i)
      BY DEF Row, Insert
    <3>3. rowAt(i).key[1] = n
      OBVIOUS
    <3> HIDE DEF rowAt
    <3>4. QED
      BY <3>1, <3>2, <3>3, TableRows
  <2> HIDE DEF rowAt
  <2>3. QED
    BY <2>1, <2>2
<1>3. \A i \in 1..Len(q) : /\ rowAt(i) \in Q /\ rowAt(i).val = i - 1 /\ rowAt(i).key[2] = q[i]
  OBVIOUS
<1>4. \A row \in Q : \E i \in 1..Len(q) : row = rowAt(i)
  OBVIOUS
<1> HIDE DEF rowAt, Q
<1>5. f \in Bijection(1..Len(q), Q)
  <2>1. \A i, j \in 1..Len(q) : rowAt(i) = rowAt(j) => i = j
    BY <1>1, <1>3
  <2>2. QED
    BY <1>3, <1>4, <2>1 DEF Bijection, Injection, Surjection, IsInjective
<1>6. IsFiniteSet(Q) /\ Cardinality(Q) = Len(q)
  <2>1. IsFiniteSet(1..Len(q)) /\ Cardinality(1..Len(q)) = Len(q)
    BY <1>1, FS_Interval
  <2> HIDE DEF f
  <2>2. QED
    BY <1>5, <2>1, FS_Bijection DEF ExistsBijection
<1>7. ASSUME NEW i \in 1..Len(q)
      PROVE  Cardinality({d \in Q : ByPosition(d, rowAt(i))}) = i - 1
  <2> DEFINE B == {d \in Q : ByPosition(d, rowAt(i))}
             g == [j \in 1..(i - 1) |-> rowAt(j)]
  <2>1. \A j \in 1..Len(q) : ByPosition(rowAt(j), rowAt(i)) <=> j \in 1..(i - 1)
    BY <1>1, <1>3 DEF ByPosition
  <2>2. \A j \in 1..(i - 1) : j \in 1..Len(q)
    BY <1>1
  <2>3. g \in Bijection(1..(i - 1), B)
    <3>1. \A j \in 1..(i - 1) : rowAt(j) \in B
      BY <1>3, <2>1, <2>2
    <3>2. \A d \in B : \E j \in 1..(i - 1) : rowAt(j) = d
      BY <1>4, <2>1
    <3>3. \A j, k \in 1..(i - 1) : rowAt(j) = rowAt(k) => j = k
      BY <1>1, <1>3, <2>2, SMTT(30)
    <3> HIDE DEF B
    <3>4. QED
      BY <3>1, <3>2, <3>3 DEF Bijection, Injection, Surjection, IsInjective
  <2>4. IsFiniteSet(1..(i - 1)) /\ Cardinality(1..(i - 1)) = i - 1
    <3>1. i - 1 \in Int /\ 1 \in Int /\ i \in Nat
      BY <1>1
    <3>2. QED
      BY <3>1, FS_Interval
  <2> HIDE DEF B, g
  <2>5. Cardinality(B) = i - 1
    BY <2>3, <2>4, FS_Bijection DEF ExistsBijection
  <2>6. QED
    BY <2>5 DEF B
<1>8. ASSUME NEW k \in 1..Len(q) PROVE Ordered(Q, ByPosition)[k] = rowAt(k)
  <2>1. \A x \in Q : Cardinality({d \in Q : ByPosition(d, x)}) = k - 1 => x = rowAt(k)
    <3> SUFFICES ASSUME NEW x \in Q, Cardinality({d \in Q : ByPosition(d, x)}) = k - 1
                 PROVE  x = rowAt(k)
      OBVIOUS
    <3>1. PICK i \in 1..Len(q) : x = rowAt(i)
      BY <1>4
    <3>2. i - 1 = k - 1
      BY <1>7, <3>1
    <3>3. i = k
      BY <1>1, <3>2
    <3>4. QED
      BY <3>1, <3>3
  <2>2. k \in 1..Cardinality(Q) /\ rowAt(k) \in Q
    BY <1>3, <1>6
  <2>3. QED
    BY <1>7, <2>1, <2>2, TxIDAtPlace, ZenonT(40)
<1>9. DOMAIN Ordered(Q, ByPosition) = 1..Len(q)
  BY <1>6 DEF Ordered
<1>10. TxIDsOf(Rows(s), n) = [k \in 1..Len(q) |-> Ordered(Q, ByPosition)[k].key[2]]
  BY <1>2, <1>9 DEF TxIDsOf
<1>11. \A k \in 1..Len(q) : Ordered(Q, ByPosition)[k].key[2] = q[k]
  BY <1>3, <1>8
<1>12. q = [k \in 1..Len(q) |-> q[k]]
  BY <1>1
<1> HIDE DEF q
<1>13. QED
  BY <1>10, <1>11, <1>12 DEF q

\* All entries come back as they were.
LEMMA NamesLoaded ==
  ASSUME NEW s, Proper(s)
  PROVE  EntriesOf(Rows(s)) = s.Names
<1> DEFINE rows == Rows(s)["names"]
           rowOf(n) == [key |-> n, val |-> Columns(s.Names[n])]
<1>1. rows = {rowOf(n) : n \in DOMAIN s.Names}
  <2>1. \A n : Row(Insert(n, Columns(s.Names[n]), 1)) = rowOf(n)
    BY DEF Row, Insert
  <2>2. rows = {Row(x) : x \in NameInserts(s)}
    BY TableRows
  <2> HIDE DEF rowOf
  <2>3. QED
    BY <2>1, <2>2 DEF NameInserts
<1>2. \A n : rowOf(n).key = n /\ rowOf(n).val = Columns(s.Names[n])
  OBVIOUS
<1> HIDE DEF rows, rowOf
<1>3. {row.key : row \in rows} = DOMAIN s.Names
  BY <1>1, <1>2
<1>4. ASSUME NEW n \in DOMAIN s.Names
      PROVE  ValueOf(rows, n, Null) = Columns(s.Names[n])
  <2>1. rowOf(n) \in rows /\ rowOf(n).key = n
    BY <1>1, <1>2
  <2>2. \A row \in rows : row.key = n => row.val = Columns(s.Names[n])
    BY <1>1, <1>2
  <2>3. QED
    BY <2>1, <2>2 DEF ValueOf
<1> DEFINE entry(n) == LET columns == ValueOf(rows, n, Null)
                       IN [OwnerKey         |-> columns.OwnerKey,
                           ExpirationHeight |-> columns.ExpirationHeight,
                           FirstClaimHeight |-> columns.FirstClaimHeight,
                           LastUpdateHeight |-> columns.LastUpdateHeight,
                           SourceTxIDs      |-> TxIDsOf(Rows(s), n)]
<1>5. EntriesOf(Rows(s)) = [n \in DOMAIN s.Names |-> entry(n)]
  BY <1>3 DEF EntriesOf, rows
<1>6. ASSUME NEW n \in DOMAIN s.Names PROVE entry(n) = s.Names[n]
  <2>1. s.Names[n] \in Entries(TxIDs)
    BY DEF Proper
  <2>2. s.Names[n] = [OwnerKey         |-> s.Names[n].OwnerKey,
                      ExpirationHeight |-> s.Names[n].ExpirationHeight,
                      FirstClaimHeight |-> s.Names[n].FirstClaimHeight,
                      LastUpdateHeight |-> s.Names[n].LastUpdateHeight,
                      SourceTxIDs      |-> s.Names[n].SourceTxIDs]
    BY <2>1 DEF Entries
  <2>3. TxIDsOf(Rows(s), n) = s.Names[n].SourceTxIDs
    BY TxIDsLoaded
  <2>4. QED
    BY <1>4, <2>2, <2>3 DEF Columns
<1> HIDE DEF entry
<1>7. QED
  BY <1>5, <1>6 DEF Proper

-----------------------------------------------------------------------------
(* The log.                                                                *)

EventRow(e) ==
  [key |-> e.TxID,
   val |-> [Height |-> e.Height, Amount |-> e.Amount, Payload |-> e.Payload, Action |-> e.Action,
            ExpirationHeight |-> NullUint(e.ExpirationHeight)]]

\* An event comes back from its row, and rows are ordered as their events are.
LEMMA RowOfEvent ==
  ASSUME NEW e \in Events(TxIDs)
  PROVE  /\ EventIn(EventRow(e)) = e
         /\ EventRow(e).key = e.TxID /\ EventRow(e).val.Height = e.Height
<1>1. e = [TxID |-> e.TxID, Height |-> e.Height, Amount |-> e.Amount, Payload |-> e.Payload,
           Action |-> e.Action, ExpirationHeight |-> e.ExpirationHeight]
      /\ e.ExpirationHeight \in Nat
  BY DEF Events
<1>2. (IF NullUint(e.ExpirationHeight) = Null THEN 0 ELSE NullUint(e.ExpirationHeight)) = e.ExpirationHeight
  BY <1>1, NullAssumption DEF NullUint
<1>3. /\ EventRow(e).key = e.TxID /\ EventRow(e).val.Height = e.Height
      /\ EventRow(e).val.Amount = e.Amount /\ EventRow(e).val.Payload = e.Payload
      /\ EventRow(e).val.Action = e.Action
      /\ EventRow(e).val.ExpirationHeight = NullUint(e.ExpirationHeight)
  BY DEF EventRow
<1>4. QED
  BY <1>1, <1>2, <1>3 DEF EventIn

\* The rows of a log without a repeated transaction.
LEMMA LogRows ==
  ASSUME NEW s, Proper(s), KeysDiffer(s)
  PROVE  /\ Rows(s)["events"] = {EventRow(e) : e \in ToSet(s.Events)}
         /\ ToSet(s.Events) \subseteq Events(TxIDs)
         /\ IsFiniteSet(ToSet(s.Events))
         /\ \A d, e \in ToSet(s.Events) : d.TxID = e.TxID => d = e
<1> DEFINE E == ToSet(s.Events)
           q == s.Events
           insertOf(i) == Insert(q[i].TxID,
                            [Height |-> q[i].Height, Amount |-> q[i].Amount,
                             Payload |-> q[i].Payload, Action |-> q[i].Action,
                             ExpirationHeight |-> NullUint(q[i].ExpirationHeight)], i)
<1>1. q \in Seq(Events(TxIDs)) /\ Len(q) \in Nat /\ DOMAIN q = 1..Len(q)
  BY DEF Proper
<1>2. E = {q[i] : i \in 1..Len(q)} /\ E \subseteq Events(TxIDs)
  BY <1>1 DEF ToSet
<1>3. EventInserts(s) = {insertOf(i) : i \in 1..Len(q)}
  BY <1>1 DEF EventInserts
<1>4. \A i : /\ Row(insertOf(i)) = EventRow(q[i])
             /\ insertOf(i).key = q[i].TxID /\ insertOf(i).place = i
  BY DEF Row, Insert, EventRow
<1> HIDE DEF insertOf, E
<1>5. Rows(s)["events"] = {EventRow(e) : e \in E}
  <2>1. Rows(s)["events"] = {Row(x) : x \in EventInserts(s)}
    BY TableRows
  <2> HIDE DEF q
  <2>2. QED
    BY <1>2, <1>3, <1>4, <2>1
<1>6. IsFiniteSet(E)
  <2> DEFINE f == [i \in 1..Len(q) |-> q[i]]
  <2>1. f \in Surjection(1..Len(q), E)
    BY <1>1, <1>2 DEF Surjection
  <2>2. IsFiniteSet(1..Len(q))
    BY <1>1, FS_Interval
  <2> HIDE DEF f
  <2>3. QED
    BY <2>1, <2>2, FS_Surjection
<1>7. ASSUME NEW d \in E, NEW e \in E, d.TxID = e.TxID PROVE d = e
  <2>1. PICK i \in 1..Len(q), j \in 1..Len(q) : d = q[i] /\ e = q[j]
    BY <1>2
  <2>2. insertOf(i) \in Inserts(s)["events"] /\ insertOf(j) \in Inserts(s)["events"]
    BY <1>3, TableRows
  <2>3. insertOf(i).key = insertOf(j).key
    BY <1>4, <1>7, <2>1
  <2>4. insertOf(i) = insertOf(j)
    BY <2>2, <2>3 DEF KeysDiffer, Tables
  <2>5. i = j
    BY <1>4, <2>4
  <2>6. QED
    BY <2>1, <2>5
<1>8. QED
  BY <1>2, <1>5, <1>6, <1>7 DEF E

\* The log comes back by height and transaction.
LEMMA LogLoaded ==
  ASSUME NEW s, Proper(s), KeysDiffer(s)
  PROVE  EventsOf(Rows(s)) = Ordered(ToSet(s.Events), EventBefore)
<1> DEFINE E == ToSet(s.Events)
           T == Rows(s)["events"]
           Q == {p \in T \X T : RowBefore(p[1], p[2])}
           R == {p \in E \X E : EventBefore(p[1], p[2])}
           f == [e \in E |-> EventRow(e)]
<1>1. /\ T = {EventRow(e) : e \in E} /\ IsFiniteSet(E)
      /\ E \subseteq Events(TxIDs)
      /\ \A d, e \in E : d.TxID = e.TxID => d = e
  BY LogRows
<1> HIDE DEF E, T
<1>2. \A e \in E : /\ e.TxID \in Nat /\ e.Height \in Nat
                   /\ EventIn(EventRow(e)) = e
                   /\ EventRow(e).key = e.TxID /\ EventRow(e).val.Height = e.Height
  <2> SUFFICES ASSUME NEW e \in E
               PROVE  /\ e.TxID \in Nat /\ e.Height \in Nat
                      /\ EventIn(EventRow(e)) = e
                      /\ EventRow(e).key = e.TxID /\ EventRow(e).val.Height = e.Height
    OBVIOUS
  <2>1. e \in Events(TxIDs)
    BY <1>1
  <2>2. e.TxID \in TxIDs /\ e.Height \in Nat
    BY <2>1 DEF Events
  <2>3. QED
    BY <2>1, <2>2, TxIDsAssumption, RowOfEvent
<1>3. f \in Bijection(E, T)
  <2>1. \A d, e \in E : EventRow(d) = EventRow(e) => d = e
    BY <1>2
  <2>2. QED
    BY <1>1, <2>1 DEF Bijection, Injection, Surjection, IsInjective
<1>4. \A d, e \in E : RowBefore(EventRow(d), EventRow(e)) <=> EventBefore(d, e)
  BY <1>2 DEF RowBefore, EventBefore
<1>5. \A d, e \in E : <<d, e>> \in R <=> EventBefore(d, e)
  OBVIOUS
<1>6. \A d, e \in T : <<d, e>> \in Q <=> RowBefore(d, e)
  OBVIOUS
<1>7. \A e \in E : f[e] \in T /\ f[e] = EventRow(e)
  BY <1>1
<1>8. \A t \in T : \E e \in E : t = EventRow(e)
  BY <1>1
<1> HIDE DEF Q, R, f
<1>9. KeepsOrder(f, E, R, Q)
  BY <1>4, <1>5, <1>6, <1>7 DEF KeepsOrder
<1>10. IsOrder(E, R)
  <2>1. \A e \in E : <<e, e>> \notin R
    BY <1>2, <1>5 DEF EventBefore
  <2>2. \A d, e \in E : d = e \/ <<d, e>> \in R \/ <<e, d>> \in R
    <3> SUFFICES ASSUME NEW d \in E, NEW e \in E, d # e
                 PROVE  <<d, e>> \in R \/ <<e, d>> \in R
      OBVIOUS
    <3>1. d.TxID # e.TxID
      BY <1>1
    <3>2. d.TxID \in Nat /\ e.TxID \in Nat /\ d.Height \in Nat /\ e.Height \in Nat
      BY <1>2
    <3>3. EventBefore(d, e) \/ EventBefore(e, d)
      BY <3>1, <3>2 DEF EventBefore
    <3>4. QED
      BY <1>5, <3>3
  <2>3. \A d, e, g \in E : <<d, e>> \in R /\ <<e, g>> \in R => <<d, g>> \in R
    BY <1>2, <1>5 DEF EventBefore
  <2>4. QED
    BY <2>1, <2>2, <2>3 DEF IsOrder
<1>11. \A e \in E : Below(E, R, e) = {d \in E : EventBefore(d, e)}
  BY <1>5 DEF Below
<1>12. \A e \in T : Below(T, Q, e) = {d \in T : RowBefore(d, e)}
  BY <1>6 DEF Below
<1>13. Cardinality(T) = Cardinality(E)
  BY <1>1, <1>3, FS_Bijection DEF ExistsBijection
<1>14. ASSUME NEW k \in 1..Cardinality(E)
       PROVE  EventIn(Ordered(T, RowBefore)[k]) = Ordered(E, EventBefore)[k]
  <2>1. PICK e \in E : /\ Cardinality(Below(E, R, e)) = k - 1
                       /\ \A d \in E : Cardinality(Below(E, R, d)) = k - 1 => d = e
    BY <1>1, <1>10, OneAtEachPlace
  <2>2. Ordered(E, EventBefore)[k] = e
    <3>1. Cardinality({d \in E : EventBefore(d, e)}) = k - 1
      BY <1>11, <2>1
    <3>2. \A x \in E : Cardinality({d \in E : EventBefore(d, x)}) = k - 1 => x = e
      BY <1>11, <2>1
    <3>3. QED
      BY <3>1, <3>2, EventAtPlace
  <2>3. ASSUME NEW d \in E
        PROVE  Cardinality(Below(T, Q, f[d])) = Cardinality(Below(E, R, d))
    <3>1. IsFiniteSet(E)
      BY <1>1
    <3>2. QED
      BY <1>3, <1>9, <3>1, PlacesKept
  <2>4. Cardinality({d \in T : RowBefore(d, f[e])}) = k - 1
    BY <1>7, <1>12, <2>1, <2>3
  <2>5. \A t \in T : Cardinality({d \in T : RowBefore(d, t)}) = k - 1 => t = f[e]
    <3> SUFFICES ASSUME NEW t \in T, Cardinality({d \in T : RowBefore(d, t)}) = k - 1
                 PROVE  t = f[e]
      OBVIOUS
    <3>1. PICK d \in E : t = f[d]
      BY <1>7, <1>8
    <3>2. Cardinality(Below(E, R, d)) = k - 1
      BY <1>12, <2>3, <3>1
    <3>3. QED
      BY <2>1, <3>1, <3>2
  <2>6. Ordered(T, RowBefore)[k] = f[e]
    BY <1>7, <1>13, <2>4, <2>5, RowAtPlace
  <2>7. QED
    BY <1>2, <1>7, <2>2, <2>6
<1>15. DOMAIN Ordered(T, RowBefore) = 1..Cardinality(E)
  BY <1>13 DEF Ordered
<1>16. EventsOf(Rows(s)) = [k \in 1..Cardinality(E) |-> EventIn(Ordered(T, RowBefore)[k])]
  BY <1>15 DEF EventsOf, T
<1>17. Ordered(E, EventBefore) = [k \in 1..Cardinality(E) |-> Ordered(E, EventBefore)[k]]
  <2> DEFINE at(k) == CHOOSE e \in E : Cardinality({d \in E : EventBefore(d, e)}) = k - 1
  <2>1. Ordered(E, EventBefore) = [k \in 1..Cardinality(E) |-> at(k)]
    BY DEF Ordered
  <2> HIDE DEF at
  <2>2. QED
    BY <2>1
<1>18. QED
  BY <1>14, <1>16, <1>17 DEF E

\* Load gives back the snapshot whose rows the tables hold, its log sorted.
LEMMA SnapshotLoaded ==
  ASSUME NEW s, Proper(s), KeysDiffer(s)
  PROVE  Load(Rows(s)) = Sorted(s)
<1>1. s = [Height |-> s.Height, BlockHash |-> s.BlockHash, ProtocolAddress |-> s.ProtocolAddress,
           Names |-> s.Names, Events |-> s.Events]
  BY DEF Proper
<1>2. Sorted(s) = [Height |-> s.Height, BlockHash |-> s.BlockHash, ProtocolAddress |-> s.ProtocolAddress,
                   Names |-> s.Names, Events |-> Ordered(ToSet(s.Events), EventBefore)]
  BY <1>1 DEF Sorted
<1>3. QED
  BY <1>2, MetaLoaded, NamesLoaded, LogLoaded DEF Load

\* Of empty tables Load makes the empty snapshot.
LEMMA NothingLoaded == Load(NoRows) = Empty
<1>1. /\ NoRows["meta"] = {} /\ NoRows["names"] = {} /\ NoRows["events"] = {}
  BY DEF NoRows, Tables
<1>2. \A k, d : ValueOf({}, k, d) = d
  BY DEF ValueOf
<1>3. EntriesOf(NoRows) = NewRegistry
  <2>1. {row.key : row \in NoRows["names"]} = {}
    BY <1>1
  <2>2. QED
    BY <2>1 DEF EntriesOf, NewRegistry
<1>4. EventsOf(NoRows) = <<>>
  <2>1. Cardinality({}) = 0
    BY FS_EmptySet
  <2>2. DOMAIN Ordered({}, RowBefore) = {}
    BY <2>1 DEF Ordered
  <2>3. EventsOf(NoRows) = [k \in {} |-> EventIn(Ordered({}, RowBefore)[k])]
    BY <1>1, <2>2 DEF EventsOf
  <2>4. QED
    BY <2>3
<1>5. QED
  BY <1>1, <1>2, <1>3, <1>4 DEF Load, Empty

-----------------------------------------------------------------------------
(* Refinement.                                                             *)

\* A database is foreign to a process exactly when it holds something that was
\* not saved for its network.
LEMMA StaleIsForeign ==
  ASSUME Whole, NEW n \in Networks
  PROVE  Stale(Load(disk), n) <=> Load(disk) # Empty /\ Load(disk).ProtocolAddress # n
<1>0. n # NoAddress
  BY AddressAssumption
<1>1. CASE disk = NoRows
  <2>1. Load(disk) = Empty
    BY <1>1, NothingLoaded
  <2>2. ~Stale(Empty, n)
    BY DEF Stale, Empty, NewRegistry
  <2>3. QED
    BY <2>1, <2>2
<1>2. ASSUME NEW s \in Legacy \cup Saveable, KeysDiffer(s), disk = Rows(s)
      PROVE  Stale(Load(disk), n) <=> Load(disk) # Empty /\ Load(disk).ProtocolAddress # n
  <2>1. Load(disk) = Sorted(s) /\ Proper(s)
    BY <1>2, SavedIsProper, SnapshotLoaded
  <2> DEFINE L == Sorted(s)
  <2>2. /\ L = [Height |-> L.Height, BlockHash |-> L.BlockHash, ProtocolAddress |-> L.ProtocolAddress,
                Names |-> L.Names, Events |-> L.Events]
        /\ L.ProtocolAddress = s.ProtocolAddress /\ L.Names = s.Names
        /\ L.Height = s.Height /\ L.BlockHash = s.BlockHash
    BY <2>1 DEF Proper, Sorted
  <2>3. L.Height = 0 => L.BlockHash = NoHash
    BY <2>1, <2>2 DEF Proper
  <2>4. DOMAIN L.Names = {} => L.Names = NewRegistry
    BY <2>1, <2>2 DEF Proper, NewRegistry
  <2>5. L.ProtocolAddress \in Networks \/ L.ProtocolAddress = NoAddress
    BY <2>2, SavedIsProper
  <2> HIDE DEF L
  <2>6. Stale(L, n) => L # Empty /\ L.ProtocolAddress # n
    <3>1. /\ Empty.ProtocolAddress = NoAddress /\ Empty.Height = 0
          /\ DOMAIN Empty.Names = {} /\ Empty.Events = <<>>
      BY DEF Empty, NewRegistry
    <3>2. QED
      BY <3>1 DEF Stale
  <2>7. L # Empty /\ L.ProtocolAddress # n => Stale(L, n)
    <3> SUFFICES ASSUME L.ProtocolAddress # n, ~Stale(L, n) PROVE L = Empty
      OBVIOUS
    <3>1. L.ProtocolAddress = NoAddress /\ L.Height = 0 /\ DOMAIN L.Names = {} /\ L.Events = <<>>
      BY DEF Stale
    <3>2. QED
      BY <2>2, <2>3, <2>4, <3>1 DEF Empty
  <2>8. QED
    BY <2>1, <2>6, <2>7 DEF L
<1>3. QED
  BY <1>1, <1>2 DEF Whole

\* What is being saved is for the running network; files are removed only when
\* they are foreign to it.
Tenant ==
  /\ phase = "saving" => saving.ProtocolAddress = network
  /\ phase = "stale" => Stale(Load(disk), network)

LEMMA KeepsTenant ==
  ASSUME Tenant, [Next]_vars
  PROVE  Tenant'
<1>1. CASE \E n \in Networks : Start(n)
  <2>1. PICK n \in Networks : Start(n)
    BY <1>1
  <2>2. CASE Stale(Load(disk), n)
    BY <2>1, <2>2 DEF Start, Tenant
  <2>3. CASE ~Stale(Load(disk), n)
    BY <2>1, <2>3 DEF Start, Tenant
  <2>4. QED
    BY <2>2, <2>3
<1>2. CASE \E s \in Snapshots : Begin(s)
  BY <1>2 DEF Begin, Addressed, Tenant
<1>3. CASE phase' \notin {"saving", "stale"}
  BY <1>3 DEF Tenant
<1>4. CASE DeleteRows \/ \E t \in Tables : \E insert \in left[t] : InsertRow(t, insert)
  BY <1>4 DEF DeleteRows, InsertRow, Tenant
<1>5. CASE UNCHANGED vars
  BY <1>5 DEF vars, Tenant
<1>6. QED
  BY <1>1, <1>2, <1>3, <1>4, <1>5, Steps DEF RemoveFiles, Refused, Commit, SaveFails, Stop

\* A step of the database is a step of the store of snapshots, or none.
LEMMA StepsArePromised ==
  ASSUME Shape, ProcessTypes, SavingInv, Whole, Tenant, [Next]_vars
  PROVE  [Promise!Next]_(Promise!vars)
<1> DEFINE N == IF Running THEN network ELSE NoAddress
           Given == IF Running THEN loaded ELSE Empty
<1>a. ASSUME UNCHANGED disk, N' = N, Given' = Given PROVE UNCHANGED Promise!vars
  BY <1>a DEF Promise!vars
<1>b. network = NoAddress <=> phase = "down"
  BY DEF ProcessTypes
<1>1. CASE \E n \in Networks : Start(n)
  <2>1. PICK n \in Networks : Start(n)
    BY <1>1
  <2>2. n # NoAddress /\ ~Running /\ disk' = disk /\ network' = n
    BY <2>1, AddressAssumption DEF Start, Running
  <2>3. CASE Stale(Load(disk), n)
    <3>1. ~Running'
      BY <2>1, <2>3 DEF Start, Running
    <3>2. QED
      BY <1>a, <2>2, <3>1
  <2>4. CASE ~Stale(Load(disk), n)
    <3>1. Running' /\ loaded' = Load(disk)
      BY <2>1, <2>4 DEF Start, Running
    <3>2. ~(Load(disk) # Empty /\ Load(disk).ProtocolAddress # n)
      BY <2>4, StaleIsForeign
    <3>3. N = NoAddress /\ N' = n /\ Given' = Load(disk) /\ Load(disk)' = Load(disk)
      BY <2>2, <3>1
    <3>4. Promise!Start(n)
      BY <3>2, <3>3 DEF Promise!Start, Promise!Foreign
    <3>5. QED
      BY <3>4 DEF Promise!Next
  <2>5. QED
    BY <2>3, <2>4
<1>2. CASE RemoveFiles
  <2>1. ~Running /\ Running' /\ network' = network /\ loaded' = Empty /\ disk' = NoRows /\ phase = "stale"
    BY <1>2 DEF RemoveFiles, Running
  <2>2. network \in Networks
    BY <2>1 DEF ProcessTypes
  <2>3. Load(disk) # Empty /\ Load(disk).ProtocolAddress # network
    BY <2>1, <2>2, StaleIsForeign DEF Tenant
  <2>4. Load(disk)' = Empty
    BY <2>1, NothingLoaded
  <2>5. N = NoAddress /\ N' = network /\ Given' = Empty
    BY <2>1
  <2>6. Promise!Start(network)
    BY <2>3, <2>4, <2>5 DEF Promise!Start, Promise!Foreign
  <2>7. QED
    BY <2>2, <2>6 DEF Promise!Next
<1>3. CASE Commit
  <2>1. saving \in Saveable /\ KeysDiffer(saving) /\ disk' = Rows(saving)
    BY <1>3, CommittedRows
  <2>2. Load(disk)' = Sorted(saving)
    BY <2>1, SavedIsProper, SnapshotLoaded
  <2>3. saving.ProtocolAddress = network /\ Running /\ Running' /\ network' = network /\ loaded' = loaded
        /\ network # NoAddress
    BY <1>3, <1>b DEF Commit, Tenant, Running
  <2>4. Sorted(saving).ProtocolAddress = saving.ProtocolAddress
    BY <2>1, SavedIsProper DEF Sorted, Proper
  <2>5. N = network /\ N' = N /\ Given' = Given
    BY <2>3
  <2>6. Promise!Save(Sorted(saving))
    BY <2>2, <2>3, <2>4, <2>5 DEF Promise!Save
  <2>7. QED
    BY <2>1, <2>6 DEF Promise!Next
<1>4. CASE Stop
  <2>1. ~Running' /\ disk' = disk
    BY <1>4 DEF Stop, Running
  <2>2. CASE Running
    <3>1. N # NoAddress /\ N' = NoAddress /\ Given' = Empty /\ Load(disk)' = Load(disk)
      BY <1>b, <2>1, <2>2 DEF Running
    <3>2. Promise!Stop
      BY <3>1 DEF Promise!Stop
    <3>3. QED
      BY <3>2 DEF Promise!Next
  <2>3. CASE ~Running
    BY <1>a, <2>1, <2>3
  <2>4. QED
    BY <2>2, <2>3
<1>5. CASE UNCHANGED vars
  BY <1>5, <1>a DEF vars, Running
<1>6. CASE disk' = disk /\ network' = network /\ loaded' = loaded /\ Running /\ Running'
  BY <1>6, <1>a
<1>7. QED
  BY <1>1, <1>2, <1>3, <1>4, <1>5, <1>6, Steps
     DEF Begin, DeleteRows, InsertRow, Refused, SaveFails, Running

\* Statement by statement, with failures and deaths in between, the database is
\* a store of whole snapshots (Save, Load, Run).
THEOREM StoreImplementsPromise == Spec => ImplementsPromise
<1>1. Init => Promise!Init
  <2> SUFFICES ASSUME Init PROVE Promise!Init
    OBVIOUS
  <2>1. ~Running
    BY DEF Init, Running
  <2>2. CASE disk = NoRows
    BY <2>1, <2>2, NothingLoaded DEF Promise!Init
  <2>3. ASSUME NEW s \in Legacy, disk = Rows(s) PROVE Promise!Init
    <3>1. KeysDiffer(s)
      BY DEF Legacy
    <3>2. Load(disk) = Sorted(s)
      BY <2>3, <3>1, SavedIsProper, SnapshotLoaded
    <3>3. QED
      BY <2>1, <3>1, <3>2 DEF Promise!Init
  <2>4. QED
    BY <2>2, <2>3 DEF Init
<1>2. Init => Tenant
  BY DEF Init, Tenant
<1>3. Shape /\ ProcessTypes /\ SavingInv /\ Whole /\ Tenant /\ [Next]_vars
        => [Promise!Next]_(Promise!vars)
  BY StepsArePromised
<1>4. Init => SavingInv
  BY DEF Init, SavingInv
<1>5. QED
  BY <1>1, <1>2, <1>3, <1>4, InitShape, KeepsShape, InitProcess, KeepsProcessTypes, KeepsSavingInv,
     KeepsTenant, DiskIsWhole, PTL DEF Spec, ImplementsPromise, Promise!Spec
=============================================================================
