------------------------------- MODULE Store -------------------------------
(***************************************************************************)
(* The indexer's database (pkg/store/store.go): Save replaces the rows of  *)
(* four tables one statement at a time inside a transaction, Load reads    *)
(* them back when a process starts (indexer.go:100-122).  Any statement    *)
(* and the commit can fail, a key can refuse a row, and the process can    *)
(* die between two statements.                                             *)
(*                                                                         *)
(* A table is its set of rows, a row its primary key and the other         *)
(* columns.  Nobody else writes: the wallet's lock keeps a second indexer  *)
(* out before it gets to the database.                                     *)
(***************************************************************************)
EXTENDS Registry, SequencesExt

CONSTANTS
  TxIDs,      \* transactions, as numbers: the order of their hexadecimal texts
  Snapshots,  \* what the indexer saves: height, block hash, names and events
  Networks,   \* protocol addresses, one for each network
  NoAddress,  \* the empty address
  NoHash,     \* the empty block hash, saved when no block is durable
  Null        \* SQL's NULL

ASSUME TxIDsAssumption == TxIDs \subseteq Nat

ASSUME AddressAssumption == NoAddress \notin Networks

\* What scanOnce returns: without a durable block there is no hash.
ASSUME SnapshotsAssumption ==
  \A s \in Snapshots :
    /\ s.Height = 0 => s.BlockHash = NoHash
    /\ \E names \in SUBSET Names : s.Names \in [names -> Entries(TxIDs)]
    /\ s.Events \in Seq(Events(TxIDs))

ASSUME NullAssumption == Null \notin Nat

VARIABLES
  disk,     \* the committed tables
  work,     \* the tables as the open transaction sees them
  deletes,  \* the tables that Save has yet to empty, in order
  left,     \* the rows that Save has yet to insert
  saving,   \* the snapshot being saved
  phase,    \* where the process is
  network,  \* the network it runs for
  loaded    \* what it was given when it started

vars == <<disk, work, deletes, left, saving, phase, network, loaded>>

Phases == {"down", "stale", "serving", "saving"}

Tables == {"meta", "names", "name_txids", "events"}

NoRows == [t \in Tables |-> {}]

Addressed(s, address) ==
  [Height |-> s.Height, BlockHash |-> s.BlockHash, ProtocolAddress |-> address,
   Names |-> s.Names, Events |-> s.Events]

Empty == [Height |-> 0, BlockHash |-> NoHash, ProtocolAddress |-> NoAddress,
          Names |-> NewRegistry, Events |-> <<>>]

Saveable == {Addressed(s, n) : s \in Snapshots, n \in Networks}

-----------------------------------------------------------------------------
\* The statements of Save.  Each insert has a place among those of its kind.

Insert(key, val, place) == [key |-> key, val |-> val, place |-> place]

MetaInserts(s) ==
  {Insert("height", s.Height, 1)}
    \cup {Insert("block_hash", h, 2) : h \in {s.BlockHash} \ {NoHash}}
    \cup {Insert("protocol_address", a, 3) : a \in {s.ProtocolAddress} \ {NoAddress}}

Columns(entry) == [OwnerKey         |-> entry.OwnerKey,
                   ExpirationHeight |-> entry.ExpirationHeight,
                   FirstClaimHeight |-> entry.FirstClaimHeight,
                   LastUpdateHeight |-> entry.LastUpdateHeight]

NameInserts(s) == {Insert(n, Columns(s.Names[n]), 1) : n \in DOMAIN s.Names}

TxIDInserts(s) ==
  UNION {{Insert(<<n, s.Names[n].SourceTxIDs[i]>>, i - 1, i) :
            i \in DOMAIN s.Names[n].SourceTxIDs} : n \in DOMAIN s.Names}

NullUint(n) == IF n = 0 THEN Null ELSE n

EventInserts(s) ==
  {Insert(s.Events[i].TxID,
          [Height |-> s.Events[i].Height, Amount |-> s.Events[i].Amount,
           Payload |-> s.Events[i].Payload, Action |-> s.Events[i].Action,
           ExpirationHeight |-> NullUint(s.Events[i].ExpirationHeight)],
          i) : i \in DOMAIN s.Events}

Inserts(s) == [t \in Tables |-> CASE t = "meta"       -> MetaInserts(s)
                                  [] t = "names"      -> NameInserts(s)
                                  [] t = "name_txids" -> TxIDInserts(s)
                                  [] t = "events"     -> EventInserts(s)]

Row(insert) == [key |-> insert.key, val |-> insert.val]

Rows(s) == [t \in Tables |-> {Row(insert) : insert \in Inserts(s)[t]}]

\* No primary key would refuse a row of s.
KeysDiffer(s) ==
  \A t \in Tables : \A a, b \in Inserts(s)[t] : a.key = b.key => a = b

\* A version that wrote no protocol address saved what is still on disk: the
\* case indexer.go:111 is there for.
Legacy == {s \in {Addressed(r, NoAddress) : r \in Snapshots} : KeysDiffer(s)}

\* The log is not emptied before it is written again.
LogNotDeleted == <<"name_txids", "names", "meta">>

Deletes == <<"name_txids", "names", "events", "meta">>

\* Names come in any order (a map), each with its transactions right after it.
Due(t, insert) ==
  /\ \A other \in left[t] :
       (t = "name_txids" => other.key[1] = insert.key[1]) => insert.place <= other.place
  /\ t # "meta" => left["meta"] = {}
  /\ t = "names" =>
       \A other \in left["name_txids"] : \E n \in left["names"] : n.key = other.key[1]
  /\ t = "name_txids" => \A n \in left["names"] : n.key # insert.key[1]
  /\ t = "events" => left["names"] = {} /\ left["name_txids"] = {}

\* The row's primary key is free, and the name it refers to exists.
Accepts(t, insert) ==
  /\ \A row \in work[t] : row.key # insert.key
  /\ t = "name_txids" => \E row \in work["names"] : row.key = insert.key[1]

-----------------------------------------------------------------------------
\* Load: the snapshot that some tables hold.

ValueOf(rows, key, default) ==
  IF \E row \in rows : row.key = key
  THEN (CHOOSE row \in rows : row.key = key).val ELSE default

\* ORDER BY: each element at the place that the number of those before it
\* gives.  No two are equal in any of the orders asked for.
Ordered(set, Before(_, _)) ==
  [k \in 1..Cardinality(set) |->
     CHOOSE e \in set : Cardinality({d \in set : Before(d, e)}) = k - 1]

\* Ordered by transaction instead of position.
ByText(a, b) == a.key[2] < b.key[2]

TxIDsByText(tables, n) ==
  LET sorted == Ordered({row \in tables["name_txids"] : row.key[1] = n}, ByText)
  IN [i \in DOMAIN sorted |-> sorted[i].key[2]]

ByPosition(a, b) == a.val < b.val

TxIDsOf(tables, n) ==
  LET sorted == Ordered({row \in tables["name_txids"] : row.key[1] = n}, ByPosition)
  IN [i \in DOMAIN sorted |-> sorted[i].key[2]]

EntriesOf(tables) ==
  [n \in {row.key : row \in tables["names"]} |->
     LET columns == ValueOf(tables["names"], n, Null)
     IN [OwnerKey         |-> columns.OwnerKey,
         ExpirationHeight |-> columns.ExpirationHeight,
         FirstClaimHeight |-> columns.FirstClaimHeight,
         LastUpdateHeight |-> columns.LastUpdateHeight,
         SourceTxIDs      |-> TxIDsOf(tables, n)]]

RowBefore(a, b) ==
  a.val.Height < b.val.Height \/ (a.val.Height = b.val.Height /\ a.key < b.key)

EventIn(row) ==
  [TxID |-> row.key, Height |-> row.val.Height, Amount |-> row.val.Amount,
   Payload |-> row.val.Payload, Action |-> row.val.Action,
   ExpirationHeight |-> IF row.val.ExpirationHeight = Null THEN 0 ELSE row.val.ExpirationHeight]

EventsOf(tables) ==
  LET sorted == Ordered(tables["events"], RowBefore)
  IN [i \in DOMAIN sorted |-> EventIn(sorted[i])]

Load(tables) ==
  [Height          |-> ValueOf(tables["meta"], "height", 0),
   BlockHash       |-> ValueOf(tables["meta"], "block_hash", NoHash),
   ProtocolAddress |-> ValueOf(tables["meta"], "protocol_address", NoAddress),
   Names           |-> EntriesOf(tables),
   Events          |-> EventsOf(tables)]

Stale(s, n) ==
  /\ s.ProtocolAddress # n
  /\ \/ s.ProtocolAddress # NoAddress
     \/ s.Height # 0
     \/ DOMAIN s.Names # {}
     \/ s.Events # <<>>

-----------------------------------------------------------------------------
Init == /\ disk \in {NoRows} \cup {Rows(s) : s \in Legacy}
        /\ work = NoRows
        /\ deletes = <<>>
        /\ left = NoRows
        /\ saving = Empty
        /\ phase = "down"
        /\ network = NoAddress
        /\ loaded = Empty

\* Open and Load.
Start(n) ==
  /\ phase = "down"
  /\ network' = n
  /\ IF Stale(Load(disk), n)
     THEN phase' = "stale" /\ UNCHANGED loaded
     ELSE phase' = "serving" /\ loaded' = Load(disk)
  /\ UNCHANGED <<disk, work, deletes, left, saving>>

\* removeDBFiles and Open once more.
RemoveFiles ==
  /\ phase = "stale"
  /\ disk' = NoRows
  /\ loaded' = Empty
  /\ phase' = "serving"
  /\ UNCHANGED <<work, deletes, left, saving, network>>

Begin(s) ==
  /\ phase = "serving"
  /\ saving' = Addressed(s, network)
  /\ work' = disk
  /\ deletes' = Deletes
  /\ left' = Inserts(saving')
  /\ phase' = "saving"
  /\ UNCHANGED <<disk, network, loaded>>

\* DELETE FROM the next table; the transactions of a deleted name go with it.
DeleteRows ==
  /\ phase = "saving"
  /\ deletes # <<>>
  /\ work' = [t \in Tables |-> IF \/ t = Head(deletes)
                                  \/ t = "name_txids" /\ Head(deletes) = "names"
                               THEN {} ELSE work[t]]
  /\ deletes' = Tail(deletes)
  /\ UNCHANGED <<disk, left, saving, phase, network, loaded>>

InsertRow(t, insert) ==
  /\ phase = "saving"
  /\ deletes = <<>>
  /\ Due(t, insert)
  /\ Accepts(t, insert)
  /\ work' = [work EXCEPT ![t] = @ \cup {Row(insert)}]
  /\ left' = [left EXCEPT ![t] = @ \ {insert}]
  /\ UNCHANGED <<disk, deletes, saving, phase, network, loaded>>

\* The transaction is over, one way or the other.
EndTransaction ==
  /\ work' = NoRows
  /\ deletes' = <<>>
  /\ left' = NoRows
  /\ saving' = Empty

Commit ==
  /\ phase = "saving"
  /\ deletes = <<>>
  /\ left = NoRows
  /\ disk' = work
  /\ EndTransaction
  /\ phase' = "serving"
  /\ UNCHANGED <<network, loaded>>

\* The row due next is refused, and Save rolls back.
Refused(t, insert) ==
  /\ phase = "saving"
  /\ deletes = <<>>
  /\ Due(t, insert)
  /\ ~Accepts(t, insert)
  /\ EndTransaction
  /\ phase' = "serving"
  /\ UNCHANGED <<disk, network, loaded>>

\* A statement or the commit fails, and Save rolls back.
SaveFails ==
  /\ phase = "saving"
  /\ EndTransaction
  /\ phase' = "serving"
  /\ UNCHANGED <<disk, network, loaded>>

\* The next process goes on as the last one.
StopInPlace ==
  /\ phase # "down"
  /\ phase' = "down"
  /\ UNCHANGED <<disk, work, deletes, left, saving, network, loaded>>

\* The process ends, wherever it is; what was not committed is gone.
Stop ==
  /\ phase # "down"
  /\ EndTransaction
  /\ phase' = "down"
  /\ network' = NoAddress
  /\ loaded' = Empty
  /\ UNCHANGED disk

Next == \/ \E n \in Networks : Start(n)
        \/ RemoveFiles
        \/ \E s \in Snapshots : Begin(s)
        \/ DeleteRows
        \/ \E t \in Tables : \E insert \in left[t] : InsertRow(t, insert)
        \/ \E t \in Tables : \E insert \in left[t] : Refused(t, insert)
        \/ Commit
        \/ SaveFails
        \/ Stop

Spec == Init /\ [][Next]_vars

-----------------------------------------------------------------------------
\* Every variable has its type.
TypeOK ==
  /\ DOMAIN disk = Tables /\ DOMAIN work = Tables /\ DOMAIN left = Tables
  /\ deletes \in Seq(Tables)
  /\ saving \in Saveable \cup {Empty}
  /\ phase \in Phases
  /\ network \in Networks \cup {NoAddress}
  /\ phase # "down" <=> network # NoAddress

\* The tables on disk are those of one snapshot, whatever failed and wherever
\* the process died: not the names of one with the log of another, and no row
\* too many or too few (Save, store.go:185-247).
Whole ==
  \/ disk = NoRows
  \/ \E s \in Legacy \cup Saveable : KeysDiffer(s) /\ disk = Rows(s)

\* No row of a snapshot is refused by a primary key: when nothing fails, what a
\* scan found is saved (store.go:62-68).
NoRowRefused ==
  phase = "saving" /\ deletes = <<>> =>
    \A t \in Tables : \A insert \in left[t] : Due(t, insert) => Accepts(t, insert)

-----------------------------------------------------------------------------
\* The log of a snapshot as it comes back: by height and transaction.
EventBefore(a, b) == a.Height < b.Height \/ (a.Height = b.Height /\ a.TxID < b.TxID)

Sorted(s) == [s EXCEPT !.Events = Ordered(ToSet(@), EventBefore)]

Running == phase \in {"serving", "saving"}

Promise == INSTANCE SnapshotStore WITH
  Snapshots <- {Sorted(s) : s \in {r \in Legacy \cup Saveable : KeysDiffer(r)}} \cup {Empty},
  NoProcess <- NoAddress,
  snapshot  <- Load(disk),
  network   <- IF Running THEN network ELSE NoAddress,
  loaded    <- IF Running THEN loaded ELSE Empty

\* Statement by statement, with failures and deaths in between, the database
\* is a store of whole snapshots: what is loaded is the last snapshot committed,
\* entry by entry, with the source transactions in the order they were applied
\* and the log in order of height (Save, Load, Run).
ImplementsPromise == Promise!Spec
=============================================================================
