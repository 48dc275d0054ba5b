----------------------------- MODULE ScanProofs -----------------------------
(***************************************************************************)
(* Theorems about Scan, for any transactions, blocks, confirmations and    *)
(* bounds on the environment: the types, what a lookup may rely on, what   *)
(* one scan brings in, and what the database holds.                        *)
(***************************************************************************)
EXTENDS Scan, RegistryProofs, SequenceTheorems, WellFoundedInduction

-----------------------------------------------------------------------------
(* Chains and transfers.                                                   *)

\* A part of a chain from its beginning is a chain.
LEMMA HashType ==
  ASSUME NEW c \in Chains, NEW h \in 0..Len(c)
  PROVE  /\ Hash(c, h) \in Chains
         /\ Len(Hash(c, h)) = h
<1>1. Len(c) \in Nat /\ h \in Nat /\ \A i \in 1..h : c[i] \in Seq(TxIDs)
  BY DEF Chains
<1>2. QED
  BY <1>1, SubSeqProperties DEF Hash, Chains

\* A wallet that has scanned c lists transactions, each in one of its blocks.
LEMMA ReceivedType ==
  ASSUME NEW c \in Chains
  PROVE  Received(c) \subseteq [txid : TxIDs, height : Nat]
<1> SUFFICES ASSUME NEW h \in DOMAIN c, NEW i \in DOMAIN c[h]
             PROVE  [txid |-> c[h][i], height |-> h] \in [txid : TxIDs, height : Nat]
  BY DEF Received
<1>1. h \in Nat /\ c[h] \in Seq(TxIDs)
  BY DEF Chains
<1>2. c[h][i] \in TxIDs
  BY <1>1
<1>3. QED
  BY <1>1, <1>2

LEMMA TransferType ==
  ASSUME NEW r \in [txid : TxIDs, height : Nat]
  PROVE  /\ Transfer(r.txid, r.height) \in Transfers(TxIDs)
         /\ Transfer(r.txid, r.height).height = r.height
BY ContentAssumption DEF Transfer, Transfers

LEMMA ReplayedType ==
  ASSUME NEW reg, ReplayOK(reg), NEW t \in Transfers(TxIDs)
  PROVE  ReplayOK(Replayed(reg, t))
<1>1. IsRegistry(reg.names, TxIDs) /\ reg.events \in Seq(Events(TxIDs))
  BY DEF ReplayOK
<1>2. IsRegistry(NamesAfter(reg.names, t), TxIDs)
  BY <1>1, NamesAfterType
<1>3. Append(reg.events, EventOf(reg.names, t)) \in Seq(Events(TxIDs))
  BY <1>1, EventType
<1>4. QED
  BY <1>2, <1>3 DEF ReplayOK, Replayed

LEMMA NoScanType == ScanOK(NoScan)
<1>1. ReplayOK(NewReplay)
  BY DEF ReplayOK, NewReplay, NewRegistry, IsRegistry
<1>2. QED
  BY <1>1 DEF ScanOK, NoScan, Chains

-----------------------------------------------------------------------------
(* Types.  The daemon's chain never gets shorter than what the wallet has  *)
(* scanned or a scan has read, which is why every hash a scan asks for     *)
(* exists.                                                                 *)

DaemonIsAhead ==
  /\ Len(wallet.chain) <= Len(chain)
  /\ scan.walletHeight <= Len(chain) + 1
  /\ pc \notin {"idle", "refresh", "rebuild", "walletHeight"} => scan.walletHeight > 0

Typed == TypeOK /\ DaemonIsAhead

\* A call that fails ends the scan in a typed state.
LEMMA GiveUpType == Typed /\ GiveUp => Typed'
<1> SUFFICES ASSUME Typed, GiveUp PROVE Typed'
  OBVIOUS
<1>1. ScanOK(scan') /\ scan'.walletHeight = 0
  BY NoScanType DEF GiveUp, NoScan
<1>2. QED
  BY <1>1 DEF Typed, TypeOK, DaemonIsAhead, GiveUp, environment, served, Chains

\* A call that succeeds has to care about the data of the scan only.
LEMMA GoOnType ==
  ASSUME Typed, NEW next, GoOn(next),
         next \in {"refresh", "tip", "transfers", "blocks", "replay", "recheck", "save"},
         ScanOK(scan'), scan'.walletHeight <= Len(chain) + 1,
         next = "refresh" \/ scan'.walletHeight > 0
  PROVE  Typed'
BY DEF Typed, TypeOK, DaemonIsAhead, GoOn, environment, served

LEMMA StepType == Typed /\ Step => Typed'
<1> SUFFICES ASSUME Typed, Step PROVE Typed'
  OBVIOUS
<1> USE DEF Typed
<1>0. /\ chain \in Chains /\ wallet.chain \in Chains /\ ScanOK(scan)
      /\ Len(chain) \in Nat /\ Len(wallet.chain) \in Nat
      /\ scan.walletHeight \in Nat
      /\ Len(wallet.chain) <= Len(chain)
      /\ scan.walletHeight <= Len(chain) + 1
  BY DEF TypeOK, DaemonIsAhead, ScanOK, Chains
<1>1. CASE StartScan
  BY <1>0, <1>1, GoOnType DEF StartScan
<1>2. CASE Refresh
  <2>1. wallet' = [up |-> wallet.up, chain |-> chain]
    BY <1>2 DEF Refresh, TypeOK
  <2>2. ScanOK(scan') /\ scan'.walletHeight = scan.walletHeight
    BY <1>0, <1>2 DEF Refresh, ScanOK, NoScan
  <2>3. QED
    BY <1>0, <1>2, <2>1, <2>2 DEF Refresh, TypeOK, DaemonIsAhead, environment, served
<1>3. CASE RefreshTooDeep
  <2>1. CASE GiveUp
    BY <2>1, GiveUpType
  <2>2. CASE ~scan.again
    BY <1>3, <2>2 DEF RefreshTooDeep, TypeOK, DaemonIsAhead, environment
  <2>3. QED
    BY <1>3, <2>1, <2>2 DEF RefreshTooDeep
<1>4. CASE RebuildWallet
  <2>1. /\ ScanOK([NoScan EXCEPT !.again = TRUE])
        /\ [NoScan EXCEPT !.again = TRUE].walletHeight = 0
    BY NoScanType DEF ScanOK, NoScan
  <2>2. <<>> \in Chains /\ Len(<<>>) = 0
    BY DEF Chains
  <2>3. QED
    BY <1>0, <1>4, <2>1, <2>2 DEF RebuildWallet, TypeOK, DaemonIsAhead, environment, served
<1>5. CASE WalletUnreachable
  BY <1>5, GiveUpType DEF WalletUnreachable
<1>6. CASE ReadWalletHeight
  <2>1. ScanOK(scan') /\ scan'.walletHeight = Len(wallet.chain) + 1
    BY <1>0, <1>6 DEF ReadWalletHeight, ScanOK, NoScan
  <2>2. QED
    BY <1>0, <1>6, <2>1, GoOnType DEF ReadWalletHeight
<1>7. CASE ReadTip
  <2>1. scan.walletHeight > 0 /\ scan.walletHeight - 1 \in 0..Len(chain)
    BY <1>0, <1>7 DEF ReadTip, DaemonIsAhead
  <2>2. Hash(chain, scan.walletHeight - 1) \in Chains
    BY <1>0, <2>1, HashType
  <2>3. ScanOK(scan') /\ scan'.walletHeight = scan.walletHeight
    BY <1>0, <1>7, <2>2 DEF ReadTip, ScanOK, NoScan
  <2>4. QED
    BY <1>0, <1>7, <2>1, <2>3, GoOnType DEF ReadTip
<1>8. CASE GetTransfers
  <2>1. CASE GiveUp
    BY <2>1, GiveUpType
  <2>2. CASE GoOn("blocks") /\ scan' = [scan EXCEPT !.found = Received(wallet.chain)]
    <3>1. ScanOK(scan') /\ scan'.walletHeight = scan.walletHeight
      BY <1>0, <2>2, ReceivedType DEF ScanOK, NoScan
    <3>2. QED
      BY <1>0, <1>8, <2>2, <3>1, GoOnType DEF GetTransfers, DaemonIsAhead
  <2>3. QED
    BY <1>8, <2>1, <2>2 DEF GetTransfers
<1>9. ASSUME NEW h \in HeightsToFetch, CheckBlock(h) PROVE Typed'
  <2>1. CASE GiveUp
    BY <2>1, GiveUpType
  <2>2. CASE /\ \A r \in scan.found : r.height = h => h <= Len(chain) /\ Contains(chain[h], r.txid)
             /\ scan' = [scan EXCEPT !.blocks = Put(@, h, Hash(chain, h))]
             /\ GoOn("blocks")
    <3>1. h \in 0..Len(chain)
      BY <1>0, <2>2 DEF HeightsToFetch, ScanOK
    <3>2. Hash(chain, h) \in Chains
      BY <1>0, <3>1, HashType
    <3>3. \A k \in DOMAIN Put(scan.blocks, h, Hash(chain, h)) :
            Put(scan.blocks, h, Hash(chain, h))[k] \in Chains
      BY <1>0, <3>2 DEF Put, ScanOK
    <3>4. ScanOK(scan') /\ scan'.walletHeight = scan.walletHeight
      BY <1>0, <2>2, <3>3 DEF ScanOK, NoScan
    <3>5. QED
      BY <1>0, <1>9, <2>2, <3>4, GoOnType DEF CheckBlock, DaemonIsAhead
  <2>3. QED
    BY <1>9, <2>1, <2>2 DEF CheckBlock
<1>10. CASE SortTransfers
  BY <1>0, <1>10, GoOnType DEF SortTransfers, DaemonIsAhead
<1>11. ASSUME NEW r \in scan.found, ReplayTransfer(r) PROVE Typed'
  <2>1. CASE GiveUp
    BY <2>1, GiveUpType
  <2>2. CASE GoOn("replay") /\ InCanonicalBlock(r)
    <3> DEFINE t == Transfer(r.txid, r.height)
    <3>1. t \in Transfers(TxIDs)
      BY <1>0, TransferType DEF ScanOK
    <3>2. ReplayOK(Replayed(scan.visible, t)) /\ ReplayOK(Replayed(scan.durable, t))
      BY <1>0, <3>1, ReplayedType DEF ScanOK
    <3>3. scan' = [scan EXCEPT
                     !.found   = @ \ {r},
                     !.visible = Replayed(@, t),
                     !.durable = IF r.height <= DurableHeight(scan.walletHeight)
                                 THEN Replayed(@, t) ELSE @]
      BY <1>11, <2>2 DEF ReplayTransfer
    <3>4. ScanOK(scan') /\ scan'.walletHeight = scan.walletHeight
      BY <1>0, <3>2, <3>3 DEF ScanOK, NoScan
    <3>5. QED
      BY <1>0, <1>11, <2>2, <3>4, GoOnType DEF ReplayTransfer, DaemonIsAhead
  <2>3. QED
    BY <1>11, <2>1, <2>2 DEF ReplayTransfer
<1>12. CASE ReadDurableHash
  <2> DEFINE h == DurableHeight(scan.walletHeight)
             anchor == IF h \in DOMAIN scan.blocks THEN scan.blocks[h] ELSE Hash(chain, h)
  <2>1. scan.walletHeight > 0
    BY <1>12 DEF ReadDurableHash, DaemonIsAhead
  <2>2. h \in 0..Len(chain)
    BY <1>0, <2>1, BoundsAssumption DEF DurableHeight
  <2>3. anchor \in Chains
    BY <1>0, <2>2, HashType DEF ScanOK
  <2>4. scan' = [scan EXCEPT !.anchor = anchor]
    BY <1>12 DEF ReadDurableHash
  <2>5. ScanOK(scan') /\ scan'.walletHeight = scan.walletHeight
    BY <1>0, <2>3, <2>4 DEF ScanOK, NoScan
  <2>6. QED
    BY <1>0, <1>12, <2>1, <2>5, GoOnType DEF ReadDurableHash
<1>13. CASE RecheckTip
  BY <1>0, <1>13, GiveUpType, GoOnType DEF RecheckTip, DaemonIsAhead
<1>14. CASE Save
  <2>1. DurableHeight(scan.walletHeight) \in Nat
    BY <1>0, BoundsAssumption DEF DurableHeight
  <2>2. db'.height \in Nat /\ db'.hash \in Chains /\ ReplayOK(db')
    BY <1>0, <1>14, <2>1 DEF Save, ScanOK, ReplayOK
  <2>3. QED
    BY <1>14, <2>2 DEF Save, TypeOK, DaemonIsAhead, environment, served
<1>15. CASE Publish
  <2>1. ScanOK(scan') /\ scan'.walletHeight = 0
    BY <1>15, NoScanType DEF Publish, NoScan
  <2>2. state'.height \in Nat /\ ReplayOK(state')
    BY <1>0, <1>15 DEF Publish, ScanOK, ReplayOK
  <2>3. QED
    BY <1>0, <1>15, <2>1, <2>2 DEF Publish, TypeOK, DaemonIsAhead, environment
<1>16. QED
  BY <1>1, <1>2, <1>3, <1>4, <1>5, <1>6, <1>7, <1>8, <1>9, <1>10, <1>11, <1>12,
     <1>13, <1>14, <1>15 DEF Step

LEMMA EnvironmentType == Typed /\ Environment => Typed'
<1> SUFFICES ASSUME Typed, Environment PROVE Typed'
  OBVIOUS
<1> USE DEF Typed
<1>0. /\ chain \in Chains /\ wallet.chain \in Chains /\ ScanOK(scan)
      /\ Len(chain) \in Nat /\ Len(wallet.chain) \in Nat
      /\ scan.walletHeight \in Nat /\ reorgs \in Nat /\ faults \in Nat
      /\ Len(wallet.chain) <= Len(chain)
      /\ scan.walletHeight <= Len(chain) + 1
  BY DEF TypeOK, DaemonIsAhead, ScanOK, Chains
<1>1. CASE Mine
  <2>1. PICK b \in Blocks : chain' = Append(chain, b)
    BY <1>1 DEF Mine
  <2>2. b \in Seq(TxIDs)
    BY ContentAssumption
  <2>3. chain' \in Chains /\ Len(chain') = Len(chain) + 1
    BY <1>0, <2>1, <2>2 DEF Chains
  <2>4. QED
    BY <1>0, <1>1, <2>3 DEF Mine, TypeOK, DaemonIsAhead, served
<1>2. ASSUME NEW d \in 1..MaxReorg, Reorg(d) PROVE Typed'
  <2>1. PICK m \in {d, d + 1} : \E fork \in [1..m -> Blocks] :
           chain' = SubSeq(chain, 1, Len(chain) - d) \o fork
    BY <1>2 DEF Reorg
  <2>2. PICK fork \in [1..m -> Blocks] :
           chain' = SubSeq(chain, 1, Len(chain) - d) \o fork
    BY <2>1
  <2>3. d \in Nat /\ m \in Nat /\ m >= d /\ d <= Len(chain)
    <3>1. d \in Nat /\ m \in Nat /\ m >= d
      BY <2>1, BoundsAssumption
    <3>2. d <= Len(chain)
      BY <1>2, Zenon DEF Reorg
    <3>3. QED
      BY <3>1, <3>2
  <2>4. fork \in Chains /\ Len(fork) = m
    <3>1. Blocks \subseteq Seq(TxIDs)
      BY ContentAssumption
    <3>2. fork \in [1..m -> Seq(TxIDs)]
      BY <2>2, <3>1
    <3>3. QED
      BY <2>3, <3>2 DEF Chains
  <2>5. /\ SubSeq(chain, 1, Len(chain) - d) \in Chains
        /\ Len(SubSeq(chain, 1, Len(chain) - d)) = Len(chain) - d
    BY <1>0, <2>3, HashType DEF Hash
  <2>6. chain' \in Chains /\ Len(chain') \in Nat /\ Len(chain') >= Len(chain)
    <3>1. \A a, b \in Chains : a \o b \in Chains /\ Len(a \o b) = Len(a) + Len(b)
      BY DEF Chains
    <3>2. chain' \in Chains /\ Len(chain') = Len(chain) - d + m
      BY <2>2, <2>4, <2>5, <3>1
    <3>3. QED
      BY <1>0, <2>3, <3>2
  <2>7. ScanOK(scan') /\ scan'.walletHeight = scan.walletHeight
    <3>1. CASE scan' = scan
      BY <1>0, <3>1
    <3>2. CASE scan' = [scan EXCEPT !.reorged = @ + 1]
      BY <1>0, <3>2 DEF ScanOK, NoScan
    <3>3. QED
      BY <1>2, <3>1, <3>2 DEF Reorg
  <2>8. reorgs' \in Nat /\ UNCHANGED <<wallet, pc, db, state, ready, faults>>
    <3>1. reorgs' = reorgs + 1 /\ UNCHANGED <<wallet, pc, db, served, faults>>
      BY <1>2, Zenon DEF Reorg
    <3>2. QED
      BY <1>0, <3>1 DEF served
  <2>9. QED
    BY <1>0, <2>3, <2>6, <2>7, <2>8 DEF TypeOK, DaemonIsAhead
<1>3. CASE AutoRefresh
  <2>1. wallet' = [up |-> wallet.up, chain |-> chain]
    BY <1>3 DEF AutoRefresh, TypeOK
  <2>2. QED
    BY <1>0, <1>3, <2>1 DEF AutoRefresh, TypeOK, DaemonIsAhead, environment, served
<1>4. CASE RebuildFails
  <2>1. ScanOK(scan')
    BY <1>4, NoScanType DEF RebuildFails
  <2>2. scan'.walletHeight = 0
    BY <1>4 DEF RebuildFails, NoScan
  <2>3. wallet' \in [up : BOOLEAN, chain : Chains] /\ wallet'.chain = wallet.chain
    BY <1>4 DEF RebuildFails, TypeOK
  <2>4. faults' \in Nat /\ pc' = "idle" /\ UNCHANGED <<chain, reorgs, db, state, ready>>
    BY <1>0, <1>4 DEF RebuildFails, served
  <2>5. QED
    BY <1>0, <2>1, <2>2, <2>3, <2>4 DEF TypeOK, DaemonIsAhead
<1>5. CASE CallFails
  <2>1. ScanOK(scan')
    BY <1>5, NoScanType DEF CallFails
  <2>2. scan'.walletHeight = 0
    BY <1>5 DEF CallFails, NoScan
  <2>3. QED
    BY <1>0, <1>5, <2>1, <2>2 DEF CallFails, TypeOK, DaemonIsAhead, served
<1>6. CASE WalletDies
  <2>1. wallet' \in [up : BOOLEAN, chain : Chains] /\ wallet'.chain = wallet.chain
    BY <1>6 DEF WalletDies, TypeOK
  <2>2. faults' \in Nat /\ UNCHANGED <<chain, pc, scan, db, state, ready, reorgs>>
    BY <1>0, <1>6 DEF WalletDies, served
  <2>3. QED
    BY <1>0, <2>1, <2>2 DEF TypeOK, DaemonIsAhead
<1>7. CASE Restart
  <2>1. PICK k \in 0..Len(wallet.chain) :
           wallet' = [up |-> TRUE, chain |-> SubSeq(wallet.chain, 1, k)]
    BY <1>7 DEF Restart
  <2>2. wallet' \in [up : BOOLEAN, chain : Chains] /\ Len(wallet'.chain) <= Len(chain)
    BY <1>0, <2>1, HashType DEF Hash
  <2>3. state'.height \in Nat /\ ReplayOK(state')
    <3>1. NoState.height \in Nat /\ ReplayOK(NoState)
      BY DEF NoState, ReplayOK, IsRegistry, NewRegistry, Chains
    <3>2. CASE state' = NoState
      BY <3>1, <3>2
    <3>3. CASE state' = [height |-> db.height, names |-> db.names, events |-> db.events]
      BY <3>3 DEF TypeOK, ReplayOK
    <3>4. QED
      BY <1>7, <3>2, <3>3 DEF Restart
  <2>4. ScanOK(scan')
    BY <1>7, NoScanType DEF Restart
  <2>5. scan'.walletHeight = 0
    BY <1>7 DEF Restart, NoScan
  <2>6. faults' \in Nat /\ pc' = "idle" /\ ready' = FALSE /\ UNCHANGED <<chain, db, reorgs>>
    BY <1>0, <1>7 DEF Restart
  <2>7. TypeOK'
    BY <1>0, <2>2, <2>3, <2>4, <2>6 DEF TypeOK
  <2>8. DaemonIsAhead'
    BY <1>0, <2>2, <2>5, <2>6 DEF DaemonIsAhead
  <2>9. QED
    BY <2>7, <2>8
<1>8. QED
  BY <1>1, <1>2, <1>3, <1>4, <1>5, <1>6, <1>7 DEF Environment

LEMMA StaysTyped == Typed /\ [Next]_vars => Typed'
<1>1. Typed /\ UNCHANGED vars => Typed'
  BY DEF Typed, TypeOK, DaemonIsAhead, vars
<1>2. QED
  BY <1>1, StepType, EnvironmentType DEF Next

\* Every variable keeps its type, and the daemon stays ahead.
LEMMA AlwaysTyped == Spec => []Typed
<1>1. Init => Typed
  <2> SUFFICES ASSUME Init PROVE Typed
    OBVIOUS
  <2>1. <<>> \in Chains /\ Len(<<>>) = 0
    BY DEF Chains
  <2>2. ScanOK(scan) /\ scan.walletHeight = 0
    BY NoScanType DEF Init, NoScan
  <2>3. wallet = [up |-> TRUE, chain |-> <<>>] /\ chain = <<>> /\ pc = "idle"
    BY DEF Init
  <2>4. /\ db.height \in Nat /\ db.hash \in Chains /\ ReplayOK(db)
        /\ state.height \in Nat /\ ReplayOK(state)
    BY <2>1 DEF Init, NoSnapshot, NoState, ReplayOK, IsRegistry, NewRegistry
  <2>5. ready \in BOOLEAN /\ reorgs \in Nat /\ faults \in Nat
    BY DEF Init
  <2>6. QED
    BY <2>1, <2>2, <2>3, <2>4, <2>5 DEF Typed, TypeOK, DaemonIsAhead
<1>2. Typed /\ [Next]_vars => Typed'
  BY StaysTyped
<1>3. QED
  BY <1>1, <1>2, PTL DEF Spec

\* Every variable keeps its type, under any behaviour of the environment.
THEOREM TypeCorrect == Spec => []TypeOK
BY AlwaysTyped, PTL DEF Typed

-----------------------------------------------------------------------------
(* The kinds of steps, by what they do to the two copies of the registry,  *)
(* the database and the published state.                                   *)

\* Calls during which nothing has been replayed yet.
Gathering == {"idle", "refresh", "rebuild", "walletHeight", "tip", "transfers", "blocks"}

NothingOpened == UNCHANGED <<db, state>> /\ ready' \in {ready, FALSE}

\* The scan's data is thrown away.
Drops ==
  /\ scan'.visible = NewReplay /\ scan'.durable = NewReplay
  /\ pc' \in Gathering \ {"blocks"}
  /\ pc = "publish" => ready' = FALSE
  /\ NothingOpened

\* The scan's data is kept.
Keeps ==
  /\ scan'.visible = scan.visible /\ scan'.durable = scan.durable
  /\ scan'.found = scan.found /\ scan'.walletHeight = scan.walletHeight
  /\ pc' \in Gathering => pc \in Gathering
  /\ pc' \in {"blocks", "replay"} => pc \in {"blocks", "replay"}
  /\ pc' = "publish" <=> pc = "publish"
  /\ NothingOpened

\* The height to work with is read.
Measures ==
  /\ scan'.visible = scan.visible /\ scan'.durable = scan.durable
  /\ pc = "walletHeight" /\ pc' = "tip"
  /\ NothingOpened

\* The transfers are listed, all below that height.
Lists ==
  /\ scan' = [scan EXCEPT !.found = Received(wallet.chain)]
  /\ \A r \in Received(wallet.chain) : ~(r.height >= scan.walletHeight)
  /\ pc = "transfers" /\ pc' = "blocks"
  /\ NothingOpened

\* A transfer is replayed.
Replays(r) ==
  /\ scan' = [scan EXCEPT
       !.found   = @ \ {r},
       !.visible = Replayed(@, Transfer(r.txid, r.height)),
       !.durable = IF r.height <= DurableHeight(scan.walletHeight)
                   THEN Replayed(@, Transfer(r.txid, r.height)) ELSE @]
  /\ \A s \in scan.found : ~Before(scan.blocks, s, r)
  /\ pc = "replay" /\ pc' = "replay"
  /\ NothingOpened

\* The process starts again.
Restarts == /\ scan' = NoScan /\ pc' = "idle" /\ ready' = FALSE
            /\ db' = db
            /\ state' \in {NoState, [height |-> db.height, names |-> db.names, events |-> db.events]}

LEMMA GiveUpDrops == pc # "publish" /\ GiveUp => Drops
BY DEF GiveUp, Drops, NothingOpened, Gathering, NoScan, served

LEMMA StepKinds ==
  ASSUME Typed, [Next]_vars
  PROVE  \/ Drops \/ Keeps \/ Measures \/ Lists \/ (\E r \in scan.found : Replays(r))
         \/ Save \/ Publish \/ Restarts
<1>0. ScanOK(scan)
  BY DEF Typed, TypeOK
<1> USE DEF NothingOpened, Gathering
<1>1. CASE StartScan
  BY <1>1 DEF StartScan, GoOn, Keeps, served
<1>2. CASE Refresh
  <2>1. /\ scan'.visible = scan.visible /\ scan'.durable = scan.durable
        /\ scan'.found = scan.found /\ scan'.walletHeight = scan.walletHeight
    BY <1>0, <1>2 DEF Refresh, ScanOK, NoScan
  <2>2. Keeps
    BY <1>2, <2>1 DEF Refresh, Keeps, served
  <2>3. QED
    BY <2>2
<1>3. CASE RefreshTooDeep
  <2>1. CASE GiveUp
    BY <1>3, <2>1, GiveUpDrops DEF RefreshTooDeep
  <2>2. CASE ~scan.again
    BY <1>3, <2>2 DEF RefreshTooDeep, Keeps
  <2>3. QED
    BY <1>3, <2>1, <2>2 DEF RefreshTooDeep
<1>4. CASE RebuildWallet
  <2>1. scan'.visible = NewReplay /\ scan'.durable = NewReplay
    BY <1>4 DEF RebuildWallet, NoScan
  <2>2. Drops
    BY <1>4, <2>1 DEF RebuildWallet, Drops, served
  <2>3. QED
    BY <2>2
<1>5. CASE WalletUnreachable
  BY <1>5, GiveUpDrops DEF WalletUnreachable
<1>6. CASE ReadWalletHeight
  <2>1. scan'.visible = scan.visible /\ scan'.durable = scan.durable
    BY <1>0, <1>6 DEF ReadWalletHeight, ScanOK, NoScan
  <2>2. QED
    BY <1>6, <2>1 DEF ReadWalletHeight, GoOn, Measures, served
<1>7. CASE ReadTip
  <2>1. /\ scan'.visible = scan.visible /\ scan'.durable = scan.durable
        /\ scan'.found = scan.found /\ scan'.walletHeight = scan.walletHeight
    BY <1>0, <1>7 DEF ReadTip, ScanOK, NoScan
  <2>2. QED
    BY <1>7, <2>1 DEF ReadTip, GoOn, Keeps, served
<1>8. CASE GetTransfers
  <2>1. CASE GiveUp
    BY <1>8, <2>1, GiveUpDrops DEF GetTransfers
  <2>2. CASE GoOn("blocks")
    BY <1>8, <2>2 DEF GetTransfers, GoOn, GiveUp, Lists, served
  <2>3. QED
    BY <1>8, <2>1, <2>2 DEF GetTransfers
<1>9. ASSUME NEW h \in HeightsToFetch, CheckBlock(h) PROVE Drops \/ Keeps
  <2>1. CASE GiveUp
    BY <1>9, <2>1, GiveUpDrops DEF CheckBlock
  <2>2. CASE scan' = [scan EXCEPT !.blocks = Put(@, h, Hash(chain, h))] /\ GoOn("blocks")
    <3>1. /\ scan'.visible = scan.visible /\ scan'.durable = scan.durable
          /\ scan'.found = scan.found /\ scan'.walletHeight = scan.walletHeight
      BY <1>0, <2>2 DEF ScanOK, NoScan
    <3>2. QED
      BY <1>9, <2>2, <3>1 DEF CheckBlock, GoOn, Keeps, served
  <2>3. QED
    BY <1>9, <2>1, <2>2 DEF CheckBlock
<1>10. CASE SortTransfers
  BY <1>10 DEF SortTransfers, GoOn, Keeps, served
<1>11. ASSUME NEW r \in scan.found, ReplayTransfer(r) PROVE Drops \/ Replays(r)
  <2>1. CASE GiveUp
    BY <1>11, <2>1, GiveUpDrops DEF ReplayTransfer
  <2>2. CASE InCanonicalBlock(r)
    BY <1>11, <2>2 DEF ReplayTransfer, GoOn, Replays, served
  <2>3. QED
    BY <1>11, <2>1, <2>2 DEF ReplayTransfer
<1>12. CASE ReadDurableHash
  <2>1. /\ scan'.visible = scan.visible /\ scan'.durable = scan.durable
        /\ scan'.found = scan.found /\ scan'.walletHeight = scan.walletHeight
    BY <1>0, <1>12 DEF ReadDurableHash, ScanOK, NoScan
  <2>2. QED
    BY <1>12, <2>1 DEF ReadDurableHash, GoOn, Keeps, served
<1>13. CASE RecheckTip
  <2>1. CASE GiveUp
    BY <1>13, <2>1, GiveUpDrops DEF RecheckTip
  <2>2. CASE GoOn("save") /\ UNCHANGED scan
    BY <1>13, <2>2 DEF RecheckTip, GoOn, Keeps, served
  <2>3. QED
    BY <1>13, <2>1, <2>2 DEF RecheckTip
<1>14. CASE Mine
  BY <1>14 DEF Mine, Keeps, served
<1>15. ASSUME NEW d \in 1..MaxReorg, Reorg(d) PROVE Keeps
  <2>1. /\ UNCHANGED <<wallet, pc, db, served, faults>>
        /\ scan' = scan \/ scan' = [scan EXCEPT !.reorged = @ + 1]
    BY <1>15, Zenon DEF Reorg
  <2>2. /\ scan'.visible = scan.visible /\ scan'.durable = scan.durable
        /\ scan'.found = scan.found /\ scan'.walletHeight = scan.walletHeight
    BY <1>0, <2>1 DEF ScanOK, NoScan
  <2>3. QED
    BY <2>1, <2>2 DEF Keeps, served
<1>16. CASE AutoRefresh
  BY <1>16 DEF AutoRefresh, Keeps, served
<1>17. CASE RebuildFails
  BY <1>17 DEF RebuildFails, Drops, NoScan, served
<1>18. CASE CallFails
  BY <1>18 DEF CallFails, Drops, NoScan, served
<1>19. CASE WalletDies
  BY <1>19 DEF WalletDies, Keeps, served
<1>20. CASE Restart
  BY <1>20 DEF Restart, Restarts
<1>21. CASE UNCHANGED vars
  BY <1>21 DEF vars, Keeps
<1>22. QED
  BY <1>1, <1>2, <1>3, <1>4, <1>5, <1>6, <1>7, <1>8, <1>9, <1>10, <1>11, <1>12, <1>13,
     <1>14, <1>15, <1>16, <1>17, <1>18, <1>19, <1>20, <1>21 DEF Next, Step, Environment

-----------------------------------------------------------------------------
(* Heights.  Every entry was last updated at or below the height of the    *)
(* registry it is in: the scan's, the stored one's, the published one's.   *)

UpTo(names, h) == \A n \in DOMAIN names : names[n].LastUpdateHeight <= h

HeightsInOrder ==
  /\ pc \in Gathering => scan.visible = NewReplay /\ scan.durable = NewReplay
  /\ pc \in {"blocks", "replay"} => \A r \in scan.found : r.height < scan.walletHeight
  /\ UpTo(scan.visible.names, scan.walletHeight)
  /\ UpTo(scan.durable.names, DurableHeight(scan.walletHeight))
  /\ UpTo(db.names, db.height)
  /\ NoHeightWraps

LEMMA EmptyUpTo == ASSUME NEW h PROVE UpTo(NewReplay.names, h) /\ UpTo(NoState.names, h)
BY DEF UpTo, NewReplay, NoState, NewRegistry

\* Replaying a transfer keeps a registry below any height that its transfers
\* are below.
LEMMA ReplayedUpTo ==
  ASSUME NEW reg, ReplayOK(reg), NEW t \in Transfers(TxIDs), NEW h \in Nat,
         UpTo(reg.names, h), t.height <= h
  PROVE  UpTo(Replayed(reg, t).names, h)
<1>1. Replayed(reg, t).names = NamesAfter(reg.names, t)
  BY DEF Replayed
<1>2. \A n \in DOMAIN NamesAfter(reg.names, t) :
        \/ n \in DOMAIN reg.names /\ NamesAfter(reg.names, t)[n] = reg.names[n]
        \/ NamesAfter(reg.names, t)[n].LastUpdateHeight = t.height
  BY LastUpdate DEF ReplayOK
<1>3. QED
  BY <1>1, <1>2 DEF UpTo

\* What a replayed transfer does to the scan.
LEMMA ReplayedScan ==
  ASSUME Typed, NEW r \in scan.found, Replays(r)
  PROVE  LET t == Transfer(r.txid, r.height)
         IN /\ t \in Transfers(TxIDs) /\ t.height = r.height /\ r.height \in Nat
            /\ scan'.found = scan.found \ {r}
            /\ scan'.walletHeight = scan.walletHeight
            /\ scan'.visible = Replayed(scan.visible, t)
            /\ scan'.durable = IF r.height <= DurableHeight(scan.walletHeight)
                               THEN Replayed(scan.durable, t) ELSE scan.durable
<1>1. ScanOK(scan)
  BY DEF Typed, TypeOK
<1>2. r \in [txid : TxIDs, height : Nat]
  BY <1>1 DEF ScanOK
<1>3. QED
  BY <1>1, <1>2, TransferType DEF Replays, ScanOK, NoScan

LEMMA HeightsStayInOrder ==
  ASSUME Typed, HeightsInOrder, [Next]_vars
  PROVE  HeightsInOrder'
<1>0. /\ ScanOK(scan) /\ scan.walletHeight \in Nat
      /\ DurableHeight(scan.walletHeight) \in Nat
  <2>1. ScanOK(scan) /\ scan.walletHeight \in Nat
    BY DEF Typed, TypeOK, ScanOK
  <2>2. QED
    BY <2>1, BoundsAssumption DEF DurableHeight
<1>1. CASE Drops
  BY <1>1, EmptyUpTo DEF Drops, NothingOpened, Gathering, HeightsInOrder, NoHeightWraps
<1>2. CASE Keeps
  BY <1>2 DEF Keeps, NothingOpened, HeightsInOrder, NoHeightWraps
<1>3. CASE Measures
  BY <1>3, EmptyUpTo DEF Measures, NothingOpened, Gathering, HeightsInOrder, NoHeightWraps
<1>4. CASE Lists
  <2>1. /\ scan'.visible = scan.visible /\ scan'.durable = scan.durable
        /\ scan'.walletHeight = scan.walletHeight /\ scan'.found = Received(wallet.chain)
    BY <1>0, <1>4 DEF Lists, ScanOK, NoScan
  <2>2. \A r \in Received(wallet.chain) : r.height < scan.walletHeight
    <3>1. Received(wallet.chain) \subseteq [txid : TxIDs, height : Nat]
      BY ReceivedType DEF Typed, TypeOK
    <3>2. QED
      BY <1>0, <1>4, <3>1 DEF Lists
  <2>3. QED
    BY <1>4, <2>1, <2>2 DEF Lists, NothingOpened, Gathering, HeightsInOrder, NoHeightWraps
<1>5. ASSUME NEW r \in scan.found, Replays(r) PROVE HeightsInOrder'
  <2> DEFINE t == Transfer(r.txid, r.height)
  <2>1. /\ t \in Transfers(TxIDs) /\ t.height = r.height /\ r.height \in Nat
        /\ scan'.found = scan.found \ {r} /\ scan'.walletHeight = scan.walletHeight
        /\ scan'.visible = Replayed(scan.visible, t)
        /\ scan'.durable = IF r.height <= DurableHeight(scan.walletHeight)
                           THEN Replayed(scan.durable, t) ELSE scan.durable
    BY <1>5, ReplayedScan
  <2>2. pc = "replay" /\ pc' = "replay" /\ NothingOpened
    BY <1>5 DEF Replays
  <2>3. r.height < scan.walletHeight /\ \A s \in scan'.found : s.height < scan'.walletHeight
    BY <2>1, <2>2 DEF HeightsInOrder
  <2>4. ReplayOK(scan.visible) /\ ReplayOK(scan.durable)
    BY <1>0 DEF ScanOK
  <2>5. UpTo(scan'.visible.names, scan'.walletHeight)
    <3>1. UpTo(scan.visible.names, scan.walletHeight) /\ t.height <= scan.walletHeight
      BY <1>0, <2>1, <2>3 DEF HeightsInOrder
    <3>2. UpTo(Replayed(scan.visible, t).names, scan.walletHeight)
      BY <1>0, <2>1, <2>4, <3>1, ReplayedUpTo
    <3>3. QED
      BY <2>1, <3>2
  <2>6. UpTo(scan'.durable.names, DurableHeight(scan'.walletHeight))
    <3>1. UpTo(scan.durable.names, DurableHeight(scan.walletHeight))
      BY DEF HeightsInOrder
    <3>2. CASE r.height <= DurableHeight(scan.walletHeight)
      <4>1. UpTo(Replayed(scan.durable, t).names, DurableHeight(scan.walletHeight))
        BY <1>0, <2>1, <2>4, <3>1, <3>2, ReplayedUpTo
      <4>2. QED
        BY <2>1, <3>2, <4>1
    <3>3. CASE ~(r.height <= DurableHeight(scan.walletHeight))
      BY <2>1, <3>1, <3>3
    <3>4. QED
      BY <3>2, <3>3
  <2>7. QED
    BY <2>2, <2>3, <2>5, <2>6 DEF NothingOpened, Gathering, HeightsInOrder, NoHeightWraps
<1>6. CASE Save
  <2>1. db'.names = scan.durable.names /\ db'.height = DurableHeight(scan.walletHeight)
    BY <1>6 DEF Save
  <2>2. pc' = "publish" /\ scan' = scan /\ state' = state
    BY <1>6 DEF Save, served
  <2>3. QED
    BY <2>1, <2>2 DEF Gathering, HeightsInOrder, NoHeightWraps
<1>7. CASE Publish
  <2>1. state'.names = scan.visible.names /\ state'.height = scan.walletHeight
    BY <1>7 DEF Publish
  <2>2. NoHeightWraps'
    BY <2>1 DEF HeightsInOrder, UpTo, NoHeightWraps
  <2>3. scan' = NoScan /\ pc' = "idle" /\ db' = db
    BY <1>7 DEF Publish
  <2>4. scan'.visible = NewReplay /\ scan'.durable = NewReplay
    BY <2>3 DEF NoScan
  <2>5. QED
    BY <2>2, <2>3, <2>4, EmptyUpTo DEF HeightsInOrder
<1>8. CASE Restarts
  <2>1. scan'.visible = NewReplay /\ scan'.durable = NewReplay /\ pc' = "idle" /\ db' = db
    BY <1>8 DEF Restarts, NoScan
  <2>2. CASE state' = NoState
    <3>1. NoHeightWraps'
      BY <2>2 DEF NoHeightWraps, NoState, NewRegistry
    <3>2. QED
      BY <2>1, <3>1, EmptyUpTo DEF HeightsInOrder
  <2>3. CASE state' = [height |-> db.height, names |-> db.names, events |-> db.events]
    <3>1. NoHeightWraps'
      BY <2>3 DEF NoHeightWraps, HeightsInOrder, UpTo
    <3>2. QED
      BY <2>1, <3>1, EmptyUpTo DEF HeightsInOrder
  <2>4. QED
    BY <1>8, <2>2, <2>3 DEF Restarts
<1>9. QED
  BY <1>1, <1>2, <1>3, <1>4, <1>5, <1>6, <1>7, <1>8, StepKinds

LEMMA HeightsAlwaysInOrder == Spec => []HeightsInOrder
<1>1. Init => HeightsInOrder
  <2> SUFFICES ASSUME Init PROVE HeightsInOrder
    OBVIOUS
  <2>1. scan.visible = NewReplay /\ scan.durable = NewReplay
    BY DEF Init, NoScan
  <2>2. db.names = NewReplay.names /\ state.names = NewReplay.names /\ pc = "idle"
    BY DEF Init, NoSnapshot, NoState, NewReplay
  <2>3. NoHeightWraps
    BY <2>2 DEF NoHeightWraps, NewReplay, NewRegistry
  <2>4. QED
    BY <2>1, <2>2, <2>3, EmptyUpTo DEF HeightsInOrder
<1>2. Typed /\ HeightsInOrder /\ [Next]_vars => HeightsInOrder'
  BY HeightsStayInOrder
<1>3. QED
  BY <1>1, <1>2, AlwaysTyped, PTL DEF Spec

\* No lookup is answered from an entry last updated above the height it is
\* answered at, so height - LastUpdateHeight (indexer.go:672) does not wrap.
THEOREM HeightsDoNotWrap == Spec => []NoHeightWraps
BY HeightsAlwaysInOrder, PTL DEF HeightsInOrder

-----------------------------------------------------------------------------
(* The two copies.  They are replayed side by side until the first         *)
(* transfer above the durable height, and from then on only the visible    *)
(* one goes on: so they agree on every entry last updated at or below it.  *)

Covers(names, copy, h) ==
  \A n \in DOMAIN names :
    names[n].LastUpdateHeight <= h => n \in DOMAIN copy /\ copy[n] = names[n]

CopiesAgree ==
  /\ pc = "replay" =>
       \/ scan.visible = scan.durable
       \/ \A r \in scan.found : r.height > DurableHeight(scan.walletHeight)
  /\ Covers(scan.visible.names, scan.durable.names, DurableHeight(scan.walletHeight))
  /\ pc = "publish" => db.names = scan.durable.names
  /\ FinalizedIsStored

LEMMA CopiesStayInAgreement ==
  ASSUME Typed, HeightsInOrder, CopiesAgree, [Next]_vars
  PROVE  CopiesAgree'
<1>0. /\ ScanOK(scan) /\ scan.walletHeight \in Nat
      /\ DurableHeight(scan.walletHeight) \in Nat
  <2>1. ScanOK(scan) /\ scan.walletHeight \in Nat
    BY DEF Typed, TypeOK, ScanOK
  <2>2. QED
    BY <2>1, BoundsAssumption DEF DurableHeight
<1>a. \A h : Covers(NewReplay.names, NewReplay.names, h)
  BY DEF Covers, NewReplay, NewRegistry
\* While nothing is opened or stored, lookups stay as good as they were.
<1>b. ASSUME NothingOpened, pc = "publish" => ready' = FALSE \/ pc' = "publish"
      PROVE  FinalizedIsStored'
  BY <1>b DEF NothingOpened, CopiesAgree, FinalizedIsStored, Finalized
<1>1. CASE Drops
  <2>1. FinalizedIsStored'
    BY <1>1, <1>b DEF Drops
  <2>2. QED
    BY <1>1, <1>a, <2>1 DEF Drops, Gathering, CopiesAgree
<1>2. CASE Keeps
  <2>1. FinalizedIsStored'
    BY <1>2, <1>b DEF Keeps
  <2>2. ASSUME pc' = "replay", pc = "blocks" PROVE scan'.visible = scan'.durable
    BY <1>2, <2>2 DEF Keeps, Gathering, HeightsInOrder
  <2>3. QED
    BY <1>2, <2>1, <2>2 DEF Keeps, NothingOpened, CopiesAgree
<1>3. CASE Measures
  <2>1. FinalizedIsStored'
    BY <1>3, <1>b DEF Measures
  <2>2. scan'.visible = NewReplay /\ scan'.durable = NewReplay
    BY <1>3 DEF Measures, Gathering, HeightsInOrder
  <2>3. QED
    BY <1>3, <1>a, <2>1, <2>2 DEF Measures, CopiesAgree
<1>4. CASE Lists
  <2>1. FinalizedIsStored'
    BY <1>4, <1>b DEF Lists
  <2>2. scan'.visible = scan.visible /\ scan'.durable = scan.durable
    BY <1>0, <1>4 DEF Lists, ScanOK, NoScan
  <2>3. scan.visible = NewReplay /\ scan.durable = NewReplay
    BY <1>4 DEF Lists, Gathering, HeightsInOrder
  <2>4. QED
    BY <1>4, <1>a, <2>1, <2>2, <2>3 DEF Lists, CopiesAgree
<1>5. ASSUME NEW r \in scan.found, Replays(r) PROVE CopiesAgree'
  <2> DEFINE t == Transfer(r.txid, r.height)
             d == DurableHeight(scan.walletHeight)
  <2>1. /\ t \in Transfers(TxIDs) /\ t.height = r.height /\ r.height \in Nat
        /\ scan'.found = scan.found \ {r} /\ scan'.walletHeight = scan.walletHeight
        /\ scan'.visible = Replayed(scan.visible, t)
        /\ scan'.durable = IF r.height <= d THEN Replayed(scan.durable, t) ELSE scan.durable
    BY <1>5, ReplayedScan
  <2>2. pc = "replay" /\ pc' = "replay"
    BY <1>5 DEF Replays
  <2>3. FinalizedIsStored'
    BY <1>5, <1>b DEF Replays
  <2>4. CASE r.height <= d
    <3>1. scan.visible = scan.durable
      BY <1>0, <2>1, <2>2, <2>4 DEF CopiesAgree
    <3>2. scan'.visible = scan'.durable
      BY <2>1, <2>4, <3>1
    <3>3. Covers(scan'.visible.names, scan'.durable.names, DurableHeight(scan'.walletHeight))
      BY <3>2 DEF Covers
    <3>4. QED
      BY <2>2, <2>3, <3>2, <3>3 DEF CopiesAgree
  <2>5. CASE r.height > d
    <3>1. \A s \in scan'.found : s.height > DurableHeight(scan'.walletHeight)
      <4>1. \A s \in scan.found : s.height \in Nat
        BY <1>0 DEF ScanOK
      <4>2. \A s \in scan.found : ~(s.height < r.height)
        BY <1>5 DEF Replays, Before
      <4>3. \A s \in scan.found : s.height > d
        BY <1>0, <2>1, <2>5, <4>1, <4>2
      <4>4. QED
        BY <2>1, <4>3
    <3>2. Covers(scan'.visible.names, scan'.durable.names, DurableHeight(scan'.walletHeight))
      <4>1. scan'.durable = scan.durable /\ scan'.visible.names = NamesAfter(scan.visible.names, t)
        BY <1>0, <2>1, <2>5 DEF Replayed
      <4>2. \A n \in DOMAIN scan'.visible.names :
              \/ n \in DOMAIN scan.visible.names /\ scan'.visible.names[n] = scan.visible.names[n]
              \/ scan'.visible.names[n].LastUpdateHeight = r.height
        BY <1>0, <2>1, <4>1, LastUpdate DEF ScanOK, ReplayOK
      <4>3. Covers(scan.visible.names, scan.durable.names, d)
        BY DEF CopiesAgree
      <4>4. ~(r.height <= d)
        BY <1>0, <2>1, <2>5
      <4>5. Covers(scan'.visible.names, scan'.durable.names, d)
        BY <4>1, <4>2, <4>3, <4>4 DEF Covers
      <4>6. QED
        BY <2>1, <4>5
    <3>3. QED
      BY <2>2, <2>3, <3>1, <3>2 DEF CopiesAgree
  <2>6. QED
    BY <1>0, <2>1, <2>4, <2>5
<1>6. CASE Save
  <2>1. db'.names = scan.durable.names /\ pc' = "publish" /\ scan' = scan
    BY <1>6 DEF Save
  <2>2. FinalizedIsStored'
    BY <2>1 DEF FinalizedIsStored
  <2>3. QED
    BY <2>1, <2>2 DEF CopiesAgree
<1>7. CASE Publish
  <2>1. state'.names = scan.visible.names /\ state'.height = scan.walletHeight
    BY <1>7 DEF Publish
  <2>2. scan' = NoScan /\ pc' = "idle" /\ db' = db /\ pc = "publish"
    BY <1>7 DEF Publish
  <2>3. db'.names = scan.durable.names
    BY <2>2 DEF CopiesAgree
  <2>4. ASSUME NEW n \in DOMAIN state'.names, Finalized(state', n)
        PROVE  n \in DOMAIN db'.names /\ db'.names[n] = state'.names[n]
    <3>1. scan.walletHeight - scan.visible.names[n].LastUpdateHeight >= Confirmations
      BY <2>1, <2>4 DEF Finalized
    <3>2. scan.visible.names[n].LastUpdateHeight \in Nat
      BY <1>0, <2>1 DEF ScanOK, ReplayOK, IsRegistry, Entries
    <3>3. scan.visible.names[n].LastUpdateHeight <= DurableHeight(scan.walletHeight)
      BY <1>0, <3>1, <3>2, BoundsAssumption DEF DurableHeight
    <3>4. QED
      BY <2>1, <2>3, <3>3 DEF CopiesAgree, Covers
  <2>5. FinalizedIsStored'
    BY <2>4 DEF FinalizedIsStored, Finalized
  <2>6. scan'.visible = NewReplay /\ scan'.durable = NewReplay
    BY <2>2 DEF NoScan
  <2>7. QED
    BY <1>a, <2>2, <2>5, <2>6 DEF CopiesAgree
<1>8. CASE Restarts
  <2>1. /\ scan'.visible = NewReplay /\ scan'.durable = NewReplay
        /\ pc' = "idle" /\ ready' = FALSE
    BY <1>8 DEF Restarts, NoScan
  <2>2. FinalizedIsStored'
    BY <2>1 DEF FinalizedIsStored
  <2>3. QED
    BY <1>a, <2>1, <2>2 DEF CopiesAgree
<1>9. QED
  BY <1>1, <1>2, <1>3, <1>4, <1>5, <1>6, <1>7, <1>8, StepKinds

LEMMA CopiesAlwaysAgree == Spec => []CopiesAgree
<1>1. Init => CopiesAgree
  <2> SUFFICES ASSUME Init PROVE CopiesAgree
    OBVIOUS
  <2>1. scan.visible = NewReplay /\ scan.durable = NewReplay /\ pc = "idle" /\ ready = FALSE
    BY DEF Init, NoScan
  <2>2. FinalizedIsStored
    BY <2>1 DEF FinalizedIsStored
  <2>3. Covers(NewReplay.names, NewReplay.names, DurableHeight(scan.walletHeight))
    BY DEF Covers, NewReplay, NewRegistry
  <2>4. QED
    BY <2>1, <2>2, <2>3 DEF CopiesAgree
<1>2. Typed /\ HeightsInOrder /\ CopiesAgree /\ [Next]_vars => CopiesAgree'
  BY CopiesStayInAgreement
<1>3. QED
  BY <1>1, <1>2, AlwaysTyped, HeightsAlwaysInOrder, PTL DEF Spec

\* What a lookup calls final is in the database, in exactly that form
\* (indexer.go:475, 484, 672), whatever the environment does.
THEOREM FinalIsStored == Spec => []FinalizedIsStored
BY CopiesAlwaysAgree, PTL DEF CopiesAgree

-----------------------------------------------------------------------------
(* The logs.  What one copy has logged, the other one has logged first.    *)

LogsAgree ==
  /\ IsPrefix(scan.durable.events, scan.visible.events)
  /\ pc = "publish" => db.events = scan.durable.events
  /\ PublishedExtendsStored

LEMMA PrefixFacts ==
  ASSUME NEW S, NEW s \in Seq(S), NEW t \in Seq(S), NEW e \in S
  PROVE  /\ IsPrefix(s, s)
         /\ IsPrefix(s, t) => IsPrefix(s, Append(t, e))
<1>1. ASSUME IsPrefix(s, t) PROVE IsPrefix(s, Append(t, e))
  <2>1. Len(s) <= Len(t) /\ SubSeq(s, 1, Len(s)) = SubSeq(t, 1, Len(s))
    BY <1>1 DEF IsPrefix
  <2>2. Len(Append(t, e)) = Len(t) + 1 /\ Len(s) \in Nat /\ Len(t) \in Nat
    OBVIOUS
  <2>3. SubSeq(Append(t, e), 1, Len(s)) = SubSeq(t, 1, Len(s))
    BY <2>1, <2>2
  <2>4. QED
    BY <2>1, <2>2, <2>3 DEF IsPrefix
<1>2. QED
  BY <1>1 DEF IsPrefix

LEMMA LogsStayInAgreement ==
  ASSUME Typed, HeightsInOrder, CopiesAgree, LogsAgree, [Next]_vars
  PROVE  LogsAgree'
<1>0. /\ ScanOK(scan) /\ scan.walletHeight \in Nat
      /\ DurableHeight(scan.walletHeight) \in Nat
      /\ scan.visible.events \in Seq(Events(TxIDs)) /\ scan.durable.events \in Seq(Events(TxIDs))
  <2>1. ScanOK(scan) /\ scan.walletHeight \in Nat
    BY DEF Typed, TypeOK, ScanOK
  <2>2. QED
    BY <2>1, BoundsAssumption DEF DurableHeight, ScanOK, ReplayOK
<1>a. IsPrefix(NewReplay.events, NewReplay.events)
  BY DEF IsPrefix, NewReplay
<1>b. ASSUME NothingOpened, pc = "publish" => ready' = FALSE \/ pc' = "publish"
      PROVE  PublishedExtendsStored'
  BY <1>b DEF NothingOpened, LogsAgree, PublishedExtendsStored
<1>1. CASE Drops
  <2>1. PublishedExtendsStored'
    BY <1>1, <1>b DEF Drops
  <2>2. QED
    BY <1>1, <1>a, <2>1 DEF Drops, Gathering, LogsAgree
<1>2. CASE Keeps
  <2>1. PublishedExtendsStored'
    BY <1>2, <1>b DEF Keeps
  <2>2. QED
    BY <1>2, <2>1 DEF Keeps, NothingOpened, LogsAgree
<1>3. CASE Measures
  <2>1. PublishedExtendsStored'
    BY <1>3, <1>b DEF Measures
  <2>2. QED
    BY <1>3, <2>1 DEF Measures, LogsAgree
<1>4. CASE Lists
  <2>1. PublishedExtendsStored'
    BY <1>4, <1>b DEF Lists
  <2>2. scan'.visible = scan.visible /\ scan'.durable = scan.durable
    BY <1>0, <1>4 DEF Lists, ScanOK, NoScan
  <2>3. QED
    BY <1>4, <2>1, <2>2 DEF Lists, LogsAgree
<1>5. ASSUME NEW r \in scan.found, Replays(r) PROVE LogsAgree'
  <2> DEFINE t == Transfer(r.txid, r.height)
             d == DurableHeight(scan.walletHeight)
             ev == EventOf(scan.visible.names, t)
  <2>1. /\ t \in Transfers(TxIDs) /\ r.height \in Nat
        /\ scan'.visible = Replayed(scan.visible, t)
        /\ scan'.durable = IF r.height <= d THEN Replayed(scan.durable, t) ELSE scan.durable
    BY <1>5, ReplayedScan
  <2>2. pc = "replay" /\ pc' = "replay"
    BY <1>5 DEF Replays
  <2>3. PublishedExtendsStored'
    BY <1>5, <1>b DEF Replays
  <2>4. ev \in Events(TxIDs) /\ scan'.visible.events = Append(scan.visible.events, ev)
    BY <1>0, <2>1, EventType DEF ScanOK, ReplayOK, Replayed
  <2>5. CASE r.height <= d
    <3>1. scan.visible = scan.durable
      BY <1>0, <1>5, <2>1, <2>2, <2>5 DEF CopiesAgree
    <3>2. scan'.durable.events = scan'.visible.events
      BY <2>1, <2>5, <3>1
    <3>3. scan'.visible.events \in Seq(Events(TxIDs))
      BY <1>0, <2>4
    <3>4. IsPrefix(scan'.visible.events, scan'.visible.events)
      BY <2>4, <3>3, PrefixFacts
    <3>5. QED
      BY <2>2, <2>3, <3>2, <3>4 DEF LogsAgree
  <2>6. CASE ~(r.height <= d)
    <3>1. IsPrefix(scan.durable.events, scan.visible.events)
      BY DEF LogsAgree
    <3>2. IsPrefix(scan.durable.events, Append(scan.visible.events, ev))
      BY <1>0, <2>4, <3>1, PrefixFacts
    <3>3. QED
      BY <2>1, <2>2, <2>3, <2>4, <2>6, <3>2 DEF LogsAgree
  <2>7. QED
    BY <2>5, <2>6
<1>6. CASE Save
  <2>1. db'.events = scan.durable.events /\ pc' = "publish" /\ scan' = scan
    BY <1>6 DEF Save
  <2>2. QED
    BY <2>1 DEF LogsAgree, PublishedExtendsStored
<1>7. CASE Publish
  <2>1. /\ state'.events = scan.visible.events /\ scan' = NoScan /\ pc' = "idle"
        /\ db' = db /\ pc = "publish"
    BY <1>7 DEF Publish
  <2>2. scan'.visible = NewReplay /\ scan'.durable = NewReplay
    BY <2>1 DEF NoScan
  <2>3. IsPrefix(db'.events, state'.events)
    BY <2>1 DEF LogsAgree
  <2>4. QED
    BY <1>a, <2>1, <2>2, <2>3 DEF LogsAgree, PublishedExtendsStored
<1>8. CASE Restarts
  <2>1. /\ scan'.visible = NewReplay /\ scan'.durable = NewReplay
        /\ pc' = "idle" /\ ready' = FALSE
    BY <1>8 DEF Restarts, NoScan
  <2>2. QED
    BY <1>a, <2>1 DEF LogsAgree, PublishedExtendsStored
<1>9. QED
  BY <1>1, <1>2, <1>3, <1>4, <1>5, <1>6, <1>7, <1>8, StepKinds

\* Once lookups are open, the log they are answered from continues the stored
\* one (indexer.go:402-411), whatever the environment does.
THEOREM StoredLogIsPublished == Spec => []PublishedExtendsStored
<1>1. Init => LogsAgree
  <2> SUFFICES ASSUME Init PROVE LogsAgree
    OBVIOUS
  <2>1. scan.visible = NewReplay /\ scan.durable = NewReplay /\ pc = "idle" /\ ready = FALSE
    BY DEF Init, NoScan
  <2>2. QED
    BY <2>1 DEF LogsAgree, PublishedExtendsStored, NewReplay, IsPrefix
<1>2. Typed /\ HeightsInOrder /\ CopiesAgree /\ LogsAgree /\ [Next]_vars => LogsAgree'
  BY LogsStayInAgreement
<1>3. LogsAgree => PublishedExtendsStored
  BY DEF LogsAgree
<1>4. QED
  BY <1>1, <1>2, <1>3, AlwaysTyped, HeightsAlwaysInOrder, CopiesAlwaysAgree, PTL DEF Spec

-----------------------------------------------------------------------------
(* The chain under a scan.  A scan at work reads one thing after another,  *)
(* while blocks are added to the chain or replaced near its end.           *)

Working == {"tip", "transfers", "blocks", "replay", "recheck", "save", "publish"}

\* What the hash of a block says of the chain up to it.
LEMMA HashAt ==
  ASSUME NEW c \in Chains, NEW n \in 0..Len(c)
  PROVE  /\ Hash(c, n) \in Chains
         /\ Len(Hash(c, n)) = n /\ DOMAIN Hash(c, n) = 1..n
         /\ \A h \in 1..n : Hash(c, n)[h] = c[h] /\ c[h] \in Seq(TxIDs)
         /\ \A m \in 0..n : Hash(Hash(c, n), m) = Hash(c, m)
<1>1. c \in Seq(Seq(TxIDs)) /\ Len(c) \in Nat /\ n \in Nat
  BY DEF Chains
<1>2. Hash(c, n) \in Chains /\ Len(Hash(c, n)) = n
  BY HashType
<1>3. DOMAIN Hash(c, n) = 1..n
  BY <1>2 DEF Chains
<1>4. \A h \in 1..n : Hash(c, n)[h] = c[h] /\ c[h] \in Seq(TxIDs)
  BY <1>1, SubSeqProperties DEF Hash
<1>5. ASSUME NEW m \in 0..n PROVE Hash(Hash(c, n), m) = Hash(c, m)
  <2>1. m \in 0..Len(c) /\ m \in 0..Len(Hash(c, n))
    BY <1>1, <1>2
  <2>2. /\ Hash(Hash(c, n), m) \in Seq(Seq(TxIDs)) /\ Len(Hash(Hash(c, n), m)) = m
        /\ Hash(c, m) \in Seq(Seq(TxIDs)) /\ Len(Hash(c, m)) = m
    BY <1>2, <2>1, HashType DEF Chains
  <2>3. \A h \in 1..m : Hash(Hash(c, n), m)[h] = Hash(c, m)[h]
    BY <1>1, <1>2, <1>4, <2>1, SubSeqProperties DEF Hash, Chains
  <2>4. QED
    BY <2>2, <2>3, SeqEqual
<1>6. QED
  BY <1>2, <1>3, <1>4, <1>5

\* Blocks put after the first m of a chain change nothing up to there.
LEMMA HashBefore ==
  ASSUME NEW c \in Chains, NEW m \in 0..Len(c), NEW rest \in Chains, NEW n \in 0..m
  PROVE  Hash(SubSeq(c, 1, m) \o rest, n) = Hash(c, n)
<1> DEFINE d == SubSeq(c, 1, m) \o rest
<1>1. Hash(c, m) \in Seq(Seq(TxIDs)) /\ Len(Hash(c, m)) = m /\ \A h \in 1..m : Hash(c, m)[h] = c[h]
  BY HashAt DEF Chains
<1>2. rest \in Seq(Seq(TxIDs)) /\ c \in Seq(Seq(TxIDs))
  BY DEF Chains
<1>3. /\ d \in Seq(Seq(TxIDs)) /\ Len(d) = m + Len(rest)
      /\ \A h \in 1..m : d[h] = c[h]
  BY <1>1, <1>2 DEF Hash
<1> HIDE DEF d
<1>4. d \in Chains /\ n \in 0..Len(d) /\ n \in 0..Len(c)
  BY <1>2, <1>3 DEF Chains
<1>5. /\ Hash(d, n) \in Seq(Seq(TxIDs)) /\ Len(Hash(d, n)) = n
      /\ Hash(c, n) \in Seq(Seq(TxIDs)) /\ Len(Hash(c, n)) = n
      /\ \A h \in 1..n : Hash(d, n)[h] = d[h] /\ Hash(c, n)[h] = c[h]
  BY <1>4, HashAt DEF Chains
<1>6. Hash(d, n) = Hash(c, n)
  <2>1. Len(c) \in Nat /\ \A h \in 1..n : h \in 1..m
    BY <1>2
  <2>2. \A h \in 1..n : Hash(d, n)[h] = Hash(c, n)[h]
    BY <1>3, <1>5, <2>1
  <2>3. QED
    BY <1>5, <2>2, SeqEqual
<1>7. QED
  BY <1>6 DEF d

\* The environment leaves the scan as it is.
Waits ==
  /\ pc' = pc /\ scan' = scan
  /\ \A n \in 0..Len(chain) : Hash(chain', n) = Hash(chain, n)

\* The chain is reorganised under the scan.
Forks ==
  /\ pc' = pc /\ scan' = [scan EXCEPT !.reorged = @ + 1]
  /\ \A n \in Nat : n + MaxReorg <= Len(chain) => Hash(chain', n) = Hash(chain, n)

\* A block is fetched.
Fetches(h) ==
  /\ h \in HeightsToFetch
  /\ scan' = [scan EXCEPT !.blocks = Put(@, h, Hash(chain, h))]
  /\ pc = "blocks" /\ pc' = "blocks"

\* The tip is still there.
Rechecks == pc = "recheck" /\ Hash(chain, scan.walletHeight - 1) = scan.tip /\ GoOn("save") /\ scan' = scan

LEMMA ChainSteps ==
  ASSUME Typed, [Next]_vars
  PROVE  \/ chain' = chain
         \/ /\ UNCHANGED <<wallet, pc, scan, db>>
            /\ OncePerChain(chain')
            /\ chain' \in Chains /\ Len(chain') >= Len(chain)
            /\ \A n \in 0..Len(chain) : Hash(chain', n) = Hash(chain, n)
         \/ /\ UNCHANGED <<wallet, pc, db>>
            /\ scan' = IF pc = "idle" THEN scan ELSE [scan EXCEPT !.reorged = @ + 1]
            /\ OncePerChain(chain')
            /\ chain' \in Chains /\ Len(chain') >= Len(chain)
            /\ \A n \in Nat : n + MaxReorg <= Len(chain) => Hash(chain', n) = Hash(chain, n)
<1>0. chain \in Chains /\ Len(chain) \in Nat
  BY DEF Typed, TypeOK, Chains
<1>1. CASE Mine
  <2>1. PICK b \in Blocks : chain' = Append(chain, b) /\ OncePerChain(chain')
    BY <1>1 DEF Mine
  <2>2. b \in Seq(TxIDs)
    BY ContentAssumption
  <2>3. <<b>> \in Chains /\ chain' = SubSeq(chain, 1, Len(chain)) \o <<b>>
    BY <1>0, <2>1, <2>2 DEF Chains
  <2>4. \A n \in 0..Len(chain) : Hash(chain', n) = Hash(chain, n)
    BY <1>0, <2>3, HashBefore
  <2>5. chain' \in Chains /\ Len(chain') >= Len(chain)
    BY <1>0, <2>1, <2>2 DEF Chains
  <2>6. QED
    BY <1>1, <2>1, <2>4, <2>5 DEF Mine
<1>2. ASSUME NEW d \in 1..MaxReorg, Reorg(d)
      PROVE  /\ UNCHANGED <<wallet, pc, db>>
             /\ scan' = IF pc = "idle" THEN scan ELSE [scan EXCEPT !.reorged = @ + 1]
             /\ OncePerChain(chain')
             /\ chain' \in Chains /\ Len(chain') >= Len(chain)
             /\ \A n \in Nat : n + MaxReorg <= Len(chain) => Hash(chain', n) = Hash(chain, n)
  <2>1. PICK m \in {d, d + 1} : \E fork \in [1..m -> Blocks] :
           /\ chain' = SubSeq(chain, 1, Len(chain) - d) \o fork
           /\ OncePerChain(chain')
    BY <1>2 DEF Reorg
  <2>2. PICK fork \in [1..m -> Blocks] :
           /\ chain' = SubSeq(chain, 1, Len(chain) - d) \o fork
           /\ OncePerChain(chain')
    BY <2>1
  <2>3. d <= Len(chain)
    BY <1>2, Zenon DEF Reorg
  <2>4. d \in Nat /\ m \in Nat /\ m >= d /\ d <= MaxReorg /\ MaxReorg \in Nat
    BY <2>1, BoundsAssumption
  <2>5. fork \in Chains /\ Len(fork) = m
    <3>1. fork \in [1..m -> Seq(TxIDs)]
      BY <2>2, ContentAssumption
    <3>2. QED
      BY <2>4, <3>1 DEF Chains
  <2>6. Len(chain) - d \in 0..Len(chain)
    BY <1>0, <2>3, <2>4
  <2>7. \A n \in 0..(Len(chain) - d) : Hash(chain', n) = Hash(chain, n)
    BY <1>0, <2>2, <2>5, <2>6, HashBefore
  <2>8. \A n \in Nat : n + MaxReorg <= Len(chain) => n \in 0..(Len(chain) - d)
    BY <1>0, <2>4
  <2>9. chain' \in Chains /\ Len(chain') >= Len(chain)
    <3>1. /\ SubSeq(chain, 1, Len(chain) - d) \in Chains
          /\ Len(SubSeq(chain, 1, Len(chain) - d)) = Len(chain) - d
      BY <1>0, <2>6, HashType DEF Hash
    <3>2. QED
      BY <1>0, <2>2, <2>4, <2>5, <3>1, SMTT(30) DEF Chains
  <2>10. /\ UNCHANGED <<wallet, pc, db>>
         /\ scan' = IF pc = "idle" THEN scan ELSE [scan EXCEPT !.reorged = @ + 1]
    BY <1>2, Zenon DEF Reorg
  <2>11. QED
    BY <2>2, <2>7, <2>8, <2>9, <2>10
<1>3. CASE ~Mine /\ ~(\E d \in 1..MaxReorg : Reorg(d))
  BY <1>3 DEF Next, vars, Step, Environment, environment, GoOn, GiveUp,
     StartScan, Refresh, RefreshTooDeep, RebuildWallet, WalletUnreachable, ReadWalletHeight,
     ReadTip, GetTransfers, CheckBlock, SortTransfers, ReplayTransfer, ReadDurableHash,
     RecheckTip, Save, Publish, AutoRefresh, RebuildFails, CallFails, WalletDies, Restart
<1>4. QED
  BY <1>1, <1>2, <1>3

\* What a step that leaves a scan at work has done.
LEMMA WorkSteps ==
  ASSUME Typed, [Next]_vars, pc' \in Working
  PROVE  \/ Waits \/ Forks
         \/ /\ chain' = chain
            /\ \/ ReadWalletHeight \/ ReadTip \/ Lists
               \/ \E h \in HeightsToFetch : Fetches(h)
               \/ SortTransfers
               \/ \E r \in scan.found : Replays(r) /\ InCanonicalBlock(r)
               \/ ReadDurableHash \/ Rechecks \/ Save
<1> USE DEF Working
<1>1. CASE chain' # chain
  <2>1. CASE /\ UNCHANGED <<wallet, pc, scan, db>>
             /\ \A n \in 0..Len(chain) : Hash(chain', n) = Hash(chain, n)
    BY <2>1 DEF Waits
  <2>2. CASE /\ UNCHANGED <<wallet, pc, db>>
             /\ scan' = IF pc = "idle" THEN scan ELSE [scan EXCEPT !.reorged = @ + 1]
             /\ \A n \in Nat : n + MaxReorg <= Len(chain) => Hash(chain', n) = Hash(chain, n)
    BY <2>2 DEF Forks
  <2>3. QED
    BY <1>1, <2>1, <2>2, ChainSteps
<1>2. CASE chain' = chain
  <2>1. CASE pc' = pc /\ scan' = scan
    BY <1>2, <2>1 DEF Waits
  <2>2. CASE pc' = pc /\ scan' = [scan EXCEPT !.reorged = @ + 1]
    BY <1>2, <2>2 DEF Forks
  <2>3. CASE Step
    <3>1. ~GiveUp /\ ~StartScan /\ ~Refresh /\ ~RefreshTooDeep /\ ~RebuildWallet /\ ~WalletUnreachable /\ ~Publish
      BY DEF GiveUp, StartScan, GoOn, Refresh, RefreshTooDeep, RebuildWallet, WalletUnreachable, Publish
    <3>2. GetTransfers => Lists
      BY <3>1 DEF GetTransfers, Lists, GoOn, NothingOpened, served
    <3>3. \A h \in HeightsToFetch : CheckBlock(h) => Fetches(h)
      BY <3>1 DEF CheckBlock, Fetches, GoOn
    <3>4. \A r \in scan.found : ReplayTransfer(r) => Replays(r) /\ InCanonicalBlock(r)
      BY <3>1 DEF ReplayTransfer, Replays, GoOn, NothingOpened, served
    <3>5. RecheckTip => Rechecks
      BY <3>1 DEF RecheckTip, Rechecks
    <3>6. QED
      BY <1>2, <2>3, <3>1, <3>2, <3>3, <3>4, <3>5 DEF Step
  <2>4. CASE Environment
    <3>1. ~RebuildFails /\ ~CallFails /\ ~Restart
      BY DEF RebuildFails, CallFails, Restart
    <3>2. Mine \/ AutoRefresh \/ WalletDies => pc' = pc /\ scan' = scan
      BY DEF Mine, AutoRefresh, WalletDies
    <3>3. \A d \in 1..MaxReorg : Reorg(d) =>
            pc' = pc /\ scan' = IF pc = "idle" THEN scan ELSE [scan EXCEPT !.reorged = @ + 1]
      BY Zenon DEF Reorg
    <3>4. QED
      BY <2>1, <2>2, <2>4, <3>1, <3>2, <3>3 DEF Environment
  <2>5. CASE UNCHANGED vars
    BY <2>1, <2>5 DEF vars
  <2>6. QED
    BY <2>3, <2>4, <2>5 DEF Next
<1>3. QED
  BY <1>1, <1>2

-----------------------------------------------------------------------------
(* One reorganisation.  A hash names the whole chain up to its block, so   *)
(* as long as the tip is where it was read, each transfer that was found   *)
(* in a canonical block is in the chain of the tip.  One reorganisation    *)
(* can take the tip away but not bring it back.                            *)

Tip == Hash(chain, scan.walletHeight - 1)

\* The blocks an event log names hold its transactions.
LoggedIn(events, c) ==
  \A i \in DOMAIN events : [txid |-> events[i].TxID, height |-> events[i].Height] \in Received(c)

Confirming == {"transfers", "blocks", "replay", "recheck"}

TipIsWatched ==
  /\ pc \in Confirming /\ scan.reorged = 0 => scan.tip = Tip
  /\ pc \in Confirming /\ scan.reorged <= 1 /\ scan.tip = Tip => LoggedIn(scan.visible.events, scan.tip)
  /\ pc \in {"blocks", "replay"} => \A r \in scan.found : r.height > 0
  /\ OneReorgIsNoticed

\* A transfer in one of the first n blocks of a chain is in the chain up to n.
LEMMA ReceivedUpTo ==
  ASSUME NEW c \in Chains, NEW n \in 0..Len(c), NEW r \in Received(c), r.height <= n
  PROVE  r \in Received(Hash(c, n))
<1>1. PICK h \in DOMAIN c : \E i \in DOMAIN c[h] : r = [txid |-> c[h][i], height |-> h]
  BY DEF Received
<1>2. PICK i \in DOMAIN c[h] : r = [txid |-> c[h][i], height |-> h]
  BY <1>1
<1>3. h \in 1..n
  <2>1. DOMAIN c = 1..Len(c) /\ Len(c) \in Nat
    BY DEF Chains
  <2>2. r.height = h
    BY <1>2
  <2>3. QED
    BY <2>1, <2>2
<1>4. h \in DOMAIN Hash(c, n) /\ Hash(c, n)[h] = c[h]
  BY <1>3, HashAt
<1>5. QED
  BY <1>2, <1>4 DEF Received

\* A transaction in a canonical block is a transfer of the chain.
LEMMA CanonicalIsReceived ==
  ASSUME Typed, NEW r \in scan.found, r.height > 0, InCanonicalBlock(r)
  PROVE  r \in Received(chain)
<1>1. r \in [txid : TxIDs, height : Nat] /\ chain \in Seq(Seq(TxIDs))
  BY DEF Typed, TypeOK, ScanOK, Chains
<1>2. r.height \in DOMAIN chain /\ chain[r.height] \in Seq(TxIDs)
  BY <1>1 DEF InCanonicalBlock
<1>3. PICK i \in DOMAIN chain[r.height] : chain[r.height][i] = r.txid
  BY <1>2 DEF InCanonicalBlock, Contains
<1>4. r = [txid |-> chain[r.height][i], height |-> r.height]
  BY <1>1, <1>3
<1>5. QED
  BY <1>2, <1>3, <1>4 DEF Received

\* The genesis block holds no transfers.
LEMMA ReceivedAboveGenesis ==
  ASSUME NEW c \in Chains, NEW r \in Received(c)
  PROVE  r.height > 0
<1>1. PICK h \in DOMAIN c : \E i \in DOMAIN c[h] : r = [txid |-> c[h][i], height |-> h]
  BY DEF Received
<1>2. r.height = h /\ h \in 1..Len(c) /\ Len(c) \in Nat
  BY <1>1 DEF Chains
<1>3. QED
  BY <1>2

LEMMA TipStaysWatched ==
  ASSUME Typed, HeightsInOrder, TipIsWatched, [Next]_vars
  PROVE  TipIsWatched'
<1>0. /\ ScanOK(scan) /\ scan.walletHeight \in Nat /\ scan.reorged \in Nat
      /\ chain \in Chains /\ wallet.chain \in Chains /\ Len(chain) \in Nat
  BY DEF Typed, TypeOK, ScanOK, Chains
<1>a. \A c : LoggedIn(NewReplay.events, c)
  BY DEF LoggedIn, NewReplay
<1>b. pc \in Working => scan.walletHeight - 1 \in 0..Len(chain)
  BY <1>0 DEF Typed, DaemonIsAhead, Working
<1>c. ASSUME pc' \in {"blocks", "recheck"}, pc \in Confirming, chain' = chain,
             scan'.tip = scan.tip, scan'.visible = scan.visible,
             scan'.reorged = scan.reorged, scan'.walletHeight = scan.walletHeight,
             pc' = "blocks" => \A r \in scan'.found : r.height > 0
      PROVE  TipIsWatched'
  BY <1>c DEF TipIsWatched, Tip, OneReorgIsNoticed
<1>1. CASE pc' \notin Working
  BY <1>1 DEF TipIsWatched, Working, Confirming, OneReorgIsNoticed
<1>2. CASE Waits
  <2>1. pc \in Confirming => Tip' = Tip
    BY <1>b, <1>2 DEF Waits, Tip, Working, Confirming
  <2>2. QED
    BY <1>2, <2>1 DEF Waits, TipIsWatched, LoggedIn, OneReorgIsNoticed
<1>3. CASE Forks
  <2>1. /\ scan'.reorged = scan.reorged + 1 /\ scan'.tip = scan.tip /\ scan'.found = scan.found
        /\ scan'.visible = scan.visible /\ pc' = pc
    BY <1>0, <1>3 DEF Forks, ScanOK, NoScan
  <2>2. scan'.reorged <= 1 => scan.reorged = 0
    BY <1>0, <2>1
  <2>3. pc \in Confirming /\ scan'.reorged <= 1 => LoggedIn(scan.visible.events, scan.tip)
    BY <2>2 DEF TipIsWatched
  <2>4. scan'.reorged # 0
    BY <1>0, <2>1
  <2>5. OneReorgIsNoticed'
    BY <2>1, <2>2 DEF TipIsWatched, OneReorgIsNoticed
  <2>6. QED
    BY <2>1, <2>3, <2>4, <2>5 DEF TipIsWatched
<1>4. CASE ReadWalletHeight
  BY <1>4 DEF ReadWalletHeight, GoOn, TipIsWatched, Confirming, OneReorgIsNoticed
<1>5. CASE ReadTip
  <2>1. pc = "tip" /\ pc' = "transfers" /\ chain' = chain
    BY <1>5 DEF ReadTip, GoOn, environment
  <2>2. scan'.visible = scan.visible /\ scan'.tip = Tip /\ scan'.walletHeight = scan.walletHeight
    BY <1>0, <1>5 DEF ReadTip, Tip, ScanOK, NoScan
  <2>3. scan'.visible = NewReplay /\ scan'.tip = Tip'
    BY <2>1, <2>2 DEF HeightsInOrder, Gathering, Tip
  <2>4. QED
    BY <1>a, <2>1, <2>3 DEF TipIsWatched, OneReorgIsNoticed
<1>6. CASE chain' = chain /\ Lists
  <2>1. /\ scan'.found = Received(wallet.chain) /\ scan'.tip = scan.tip
        /\ scan'.visible = scan.visible /\ scan'.reorged = scan.reorged
        /\ scan'.walletHeight = scan.walletHeight /\ pc = "transfers" /\ pc' = "blocks"
    BY <1>0, <1>6 DEF Lists, ScanOK, NoScan
  <2>2. QED
    BY <1>0, <1>6, <1>c, <2>1, ReceivedAboveGenesis DEF Confirming
<1>7. ASSUME NEW h \in HeightsToFetch, Fetches(h), chain' = chain PROVE TipIsWatched'
  <2>1. /\ scan'.found = scan.found /\ scan'.tip = scan.tip
        /\ scan'.visible = scan.visible /\ scan'.reorged = scan.reorged
        /\ scan'.walletHeight = scan.walletHeight /\ pc = "blocks" /\ pc' = "blocks"
    BY <1>0, <1>7 DEF Fetches, ScanOK, NoScan
  <2>2. QED
    BY <1>7, <1>c, <2>1 DEF TipIsWatched, Confirming
<1>8. CASE SortTransfers
  BY <1>8 DEF SortTransfers, GoOn, environment, TipIsWatched, Tip, Confirming, OneReorgIsNoticed
<1>9. ASSUME NEW r \in scan.found, Replays(r), InCanonicalBlock(r), chain' = chain PROVE TipIsWatched'
  <2> DEFINE t == Transfer(r.txid, r.height)
             ev == EventOf(scan.visible.names, t)
  <2>1. /\ t \in Transfers(TxIDs) /\ r.height \in Nat
        /\ scan'.found = scan.found \ {r} /\ scan'.walletHeight = scan.walletHeight
        /\ scan'.visible = Replayed(scan.visible, t)
    BY <1>9, ReplayedScan
  <2>2. scan'.tip = scan.tip /\ scan'.reorged = scan.reorged /\ pc = "replay" /\ pc' = "replay"
    BY <1>0, <1>9 DEF Replays, ScanOK, NoScan
  <2>3. r \in [txid : TxIDs, height : Nat] /\ r.height < scan.walletHeight /\ r.height > 0
    BY <1>0, <2>2 DEF ScanOK, HeightsInOrder, TipIsWatched
  <2>4. r \in Received(Tip)
    <3>1. r \in Received(chain)
      BY <1>9, <2>3, CanonicalIsReceived
    <3>2. r.height <= scan.walletHeight - 1
      BY <1>0, <2>1, <2>3
    <3>3. QED
      BY <1>0, <1>b, <2>2, <3>1, <3>2, ReceivedUpTo DEF Tip, Working
  <2>5. [txid |-> ev.TxID, height |-> ev.Height] = r
    BY <2>3 DEF EventOf, Transfer
  <2>6. /\ scan'.visible.events = Append(scan.visible.events, ev)
        /\ scan.visible.events \in Seq(Events(TxIDs)) /\ ev \in Events(TxIDs)
    BY <1>0, <2>1, EventType DEF ScanOK, ReplayOK, Replayed
  <2>7. ASSUME scan.reorged <= 1, scan.tip = Tip
        PROVE  LoggedIn(scan'.visible.events, scan'.tip)
    <3>1. LoggedIn(scan.visible.events, scan.tip)
      BY <2>2, <2>7 DEF TipIsWatched, Confirming
    <3>2. \A i \in DOMAIN scan'.visible.events :
            \/ i \in DOMAIN scan.visible.events /\ scan'.visible.events[i] = scan.visible.events[i]
            \/ scan'.visible.events[i] = ev
      BY <2>6
    <3>3. QED
      BY <2>2, <2>4, <2>5, <2>7, <3>1, <3>2 DEF LoggedIn
  <2>8. Tip' = Tip
    BY <1>9, <2>1 DEF Tip
  <2>9. QED
    BY <2>1, <2>2, <2>7, <2>8 DEF TipIsWatched, OneReorgIsNoticed
<1>10. CASE ReadDurableHash
  <2>1. /\ scan'.tip = scan.tip /\ scan'.visible = scan.visible /\ scan'.reorged = scan.reorged
        /\ scan'.walletHeight = scan.walletHeight /\ pc = "replay" /\ pc' = "recheck" /\ chain' = chain
    BY <1>0, <1>10 DEF ReadDurableHash, GoOn, environment, ScanOK, NoScan
  <2>2. QED
    BY <1>c, <2>1 DEF Confirming
<1>11. CASE Rechecks
  <2>1. pc = "recheck" /\ pc' = "save" /\ scan' = scan /\ scan.tip = Tip
    BY <1>11 DEF Rechecks, GoOn, Tip
  <2>2. scan.reorged <= 1 => LoggedIn(scan.visible.events, scan.tip)
    BY <2>1 DEF TipIsWatched, Confirming
  <2>3. QED
    BY <2>1, <2>2 DEF TipIsWatched, LoggedIn, OneReorgIsNoticed, Confirming
<1>12. CASE Save
  <2>1. pc = "save" /\ pc' = "publish" /\ scan' = scan
    BY <1>12 DEF Save
  <2>2. QED
    BY <2>1 DEF TipIsWatched, OneReorgIsNoticed, Confirming
<1>13. QED
  BY <1>1, <1>2, <1>3, <1>4, <1>5, <1>6, <1>7, <1>8, <1>9, <1>10, <1>11, <1>12, WorkSteps

\* Whatever one reorganisation does between the calls of a scan, the scan hands
\* over no transfer that is not in the chain of the tip it verified: the checks
\* against the canonical blocks and the second look at the tip leave no gap
\* (indexer.go:502-508, 560, 616).
THEOREM OneReorgLeavesNoTrace == Spec => []OneReorgIsNoticed
<1>1. Init => TipIsWatched
  BY DEF Init, TipIsWatched, Confirming, OneReorgIsNoticed
<1>2. Typed /\ HeightsInOrder /\ TipIsWatched /\ [Next]_vars => TipIsWatched'
  BY TipStaysWatched
<1>3. TipIsWatched => OneReorgIsNoticed
  BY DEF TipIsWatched
<1>4. QED
  BY <1>1, <1>2, <1>3, AlwaysTyped, HeightsAlwaysInOrder, PTL DEF Spec

-----------------------------------------------------------------------------
(* The registry of a chain.  The operators that define it are recursive    *)
(* functions: that there is such a function, and only one, is proved by    *)
(* induction over the sets of the indices at which a statement is true.    *)

\* A set of numbers that has 0, and with each number the next, has them all.
LEMMA Induction ==
  ASSUME NEW N \in Nat, NEW T, 0 \in T, \A k \in 0..(N - 1) : k \in T => k + 1 \in T
  PROVE  \A k \in 0..N : k \in T
<1> DEFINE Missing == {k \in 0..N : k \notin T}
           R == OpToRel(<, Nat)
<1>1. SUFFICES Missing = {}
  OBVIOUS
<1>2. SUFFICES ASSUME Missing # {} PROVE FALSE
  OBVIOUS
<1>3. IsWellFoundedOn(R, Nat)
  BY NatLessThanWellFounded
<1>4. \A j, k \in Nat : j < k => <<j, k>> \in R
  BY DEF R, OpToRel
<1>5. Missing \subseteq Nat
  OBVIOUS
<1> HIDE DEF R
<1>6. PICK k \in Missing : \A j \in Missing : ~(<<j, k>> \in R)
  <2> HIDE DEF Missing
  <2>1. QED
    BY <1>2, <1>3, <1>5, WFMin
<1>7. k \in 0..N /\ k \notin T /\ k - 1 \in 0..(N - 1) /\ (k - 1) + 1 = k
  OBVIOUS
<1>8. k - 1 \in Missing
  BY <1>7
<1>9. <<k - 1, k>> \in R
  BY <1>4, <1>7
<1>10. QED
  BY <1>6, <1>8, <1>9

\* Two functions that start alike and go on alike are alike.
GoAlike(f, g, N) == f[0] = g[0] /\ \A i \in 1..N : f[i - 1] = g[i - 1] => f[i] = g[i]

LEMMA SameRun ==
  ASSUME NEW N \in Nat, NEW f, NEW g, GoAlike(f, g, N)
  PROVE  f[N] = g[N]
<1> USE DEF GoAlike
<1> DEFINE T == {i \in 0..N : f[i] = g[i]}
<1>1. 0 \in T
  OBVIOUS
<1>2. ASSUME NEW k \in 0..(N - 1), k \in T PROVE k + 1 \in T
  <2>1. k + 1 \in 1..N /\ (k + 1) - 1 = k
    OBVIOUS
  <2>2. f[(k + 1) - 1] = g[(k + 1) - 1]
    BY <1>2, <2>1
  <2>3. f[k + 1] = g[k + 1]
    BY <2>1, <2>2
  <2>4. QED
    BY <2>1, <2>3
<1> HIDE DEF T
<1>3. \A i \in 0..N : i \in T
  BY <1>1, <1>2, Induction
<1>4. QED
  BY <1>3 DEF T

\* The registries after each of the transfers of a block.
IsBlockRun(f, reg, b, h) ==
  f[0] = reg /\ \A i \in 1..Len(b) : f[i] = Replayed(f[i - 1], Transfer(b[i], h))

LEMMA BlockRun ==
  ASSUME NEW reg, NEW b \in Seq(TxIDs), NEW h
  PROVE  \E f : IsBlockRun(f, reg, b, h) /\ ReplayedBlock(reg, b, h) = f[Len(b)]
<1> DEFINE Def(f, n) ==
      f = [i \in 0..n |-> IF i = 0 THEN reg ELSE Replayed(f[i - 1], Transfer(b[i], h))]
           T == {n \in 0..Len(b) : \E f : Def(f, n)}
<1>1. Len(b) \in Nat
  OBVIOUS
<1>2. 0 \in T
  <2> DEFINE f == [i \in 0..0 |-> reg]
  <2>1. f = [i \in 0..0 |-> IF i = 0 THEN reg ELSE Replayed(f[i - 1], Transfer(b[i], h))]
    OBVIOUS
  <2> HIDE DEF f
  <2>2. Def(f, 0)
    BY <2>1
  <2>3. QED
    BY <1>1, <2>2
<1>3. ASSUME NEW k \in 0..(Len(b) - 1), k \in T PROVE k + 1 \in T
  <2>1. PICK f : Def(f, k)
    BY <1>3
  <2> DEFINE g == [i \in 0..(k + 1) |-> IF i = k + 1 THEN Replayed(f[k], Transfer(b[k + 1], h)) ELSE f[i]]
  <2>2. ASSUME NEW i \in 0..(k + 1)
        PROVE  g[i] = IF i = 0 THEN reg ELSE Replayed(g[i - 1], Transfer(b[i], h))
    <3>1. CASE i = k + 1
      <4>1. i - 1 = k /\ k \in 0..(k + 1) /\ k # k + 1 /\ i # 0
        BY <1>1, <3>1
      <4>2. g[i] = Replayed(f[k], Transfer(b[k + 1], h)) /\ g[k] = f[k]
        BY <3>1, <4>1
      <4>3. QED
        BY <3>1, <4>1, <4>2
    <3>2. CASE i # k + 1
      <4>1. i \in 0..k
        BY <1>1, <3>2
      <4>2. g[i] = f[i]
        BY <3>2
      <4>3. i # 0 => i - 1 \in 0..(k + 1) /\ i - 1 # k + 1
        BY <1>1, <4>1
      <4>4. i # 0 => g[i - 1] = f[i - 1]
        BY <4>3
      <4>5. f[i] = IF i = 0 THEN reg ELSE Replayed(f[i - 1], Transfer(b[i], h))
        BY <2>1, <4>1
      <4> HIDE DEF g
      <4>6. QED
        BY <4>2, <4>4, <4>5
    <3>3. QED
      BY <3>1, <3>2
  <2>3. g = [i \in 0..(k + 1) |-> g[i]]
    OBVIOUS
  <2> HIDE DEF g
  <2>4. Def(g, k + 1)
    BY <2>2, <2>3
  <2>5. k + 1 \in 0..Len(b)
    BY <1>1
  <2> HIDE DEF Def
  <2>6. QED
    BY <2>4, <2>5
<1>4. \E f : Def(f, Len(b))
  <2>1. \A k \in 0..Len(b) : k \in T
    <3> HIDE DEF T
    <3>1. QED
      BY <1>1, <1>2, <1>3, Induction
  <2>2. Len(b) \in T
    BY <1>1, <2>1
  <2>3. QED
    BY <2>2
<1> DEFINE f == CHOOSE f : Def(f, Len(b))
<1>5. Def(f, Len(b))
  <2> HIDE DEF Def
  <2>1. QED
    BY <1>4
<1>6. ReplayedBlock(reg, b, h) = f[Len(b)]
  BY DEF ReplayedBlock
<1> HIDE DEF f
<1>7. IsBlockRun(f, reg, b, h)
  <2>1. 0 \in 0..Len(b) /\ \A i \in 1..Len(b) : i \in 0..Len(b) /\ i # 0
    BY <1>1
  <2>2. QED
    BY <1>5, <2>1 DEF IsBlockRun
<1>8. QED
  BY <1>6, <1>7

\* A block is replayed transfer by transfer.
LEMMA BlockStep ==
  ASSUME NEW reg, NEW b \in Seq(TxIDs), NEW h
  PROVE  /\ ReplayedBlock(reg, <<>>, h) = reg
         /\ \A i \in 1..Len(b) :
              ReplayedBlock(reg, SubSeq(b, 1, i), h) =
                Replayed(ReplayedBlock(reg, SubSeq(b, 1, i - 1), h), Transfer(b[i], h))
<1>1. ReplayedBlock(reg, <<>>, h) = reg
  <2> DEFINE empty == <<>>
  <2>1. empty \in Seq(TxIDs) /\ Len(empty) = 0
    OBVIOUS
  <2> HIDE DEF empty
  <2>2. PICK f : IsBlockRun(f, reg, empty, h) /\ ReplayedBlock(reg, empty, h) = f[Len(empty)]
    BY <2>1, BlockRun
  <2>3. QED
    BY <2>1, <2>2 DEF empty, IsBlockRun
<1>2. ASSUME NEW i \in 1..Len(b)
      PROVE  ReplayedBlock(reg, SubSeq(b, 1, i), h) =
               Replayed(ReplayedBlock(reg, SubSeq(b, 1, i - 1), h), Transfer(b[i], h))
  <2> DEFINE long == SubSeq(b, 1, i)
             short == SubSeq(b, 1, i - 1)
  <2>1. /\ long \in Seq(TxIDs) /\ Len(long) = i /\ \A j \in 1..i : long[j] = b[j]
        /\ short \in Seq(TxIDs) /\ Len(short) = i - 1 /\ \A j \in 1..(i - 1) : short[j] = b[j]
        /\ i \in Nat /\ i - 1 \in Nat
    OBVIOUS
  <2> HIDE DEF long, short
  <2>2. PICK f : IsBlockRun(f, reg, long, h) /\ ReplayedBlock(reg, long, h) = f[Len(long)]
    BY <2>1, BlockRun
  <2>3. PICK g : IsBlockRun(g, reg, short, h) /\ ReplayedBlock(reg, short, h) = g[Len(short)]
    BY <2>1, BlockRun
  <2>4. ASSUME NEW j \in 1..(i - 1), f[j - 1] = g[j - 1] PROVE f[j] = g[j]
    <3>1. j \in 1..i
      BY <2>1
    <3>2. f[j] = Replayed(f[j - 1], Transfer(b[j], h)) /\ g[j] = Replayed(g[j - 1], Transfer(b[j], h))
      BY <2>1, <2>2, <2>3, <3>1 DEF IsBlockRun
    <3>3. QED
      BY <2>4, <3>2
  <2>5. f[i - 1] = g[i - 1]
    <3>1. i - 1 \in Nat /\ GoAlike(f, g, i - 1)
      BY <2>1, <2>2, <2>3, <2>4 DEF GoAlike, IsBlockRun
    <3>2. QED
      BY <3>1, SameRun
  <2>6. i \in 1..i
    OBVIOUS
  <2>7. f[i] = Replayed(f[i - 1], Transfer(b[i], h))
    BY <2>1, <2>2, <2>6 DEF IsBlockRun
  <2>8. QED
    BY <2>1, <2>2, <2>3, <2>5, <2>7 DEF long, short
<1>3. QED
  BY <1>1, <1>2

\* The registries after each of the blocks of a chain.
IsChainRun(f, c) ==
  f[0] = NewReplay /\ \A h \in 1..Len(c) : f[h] = ReplayedBlock(f[h - 1], c[h], h)

LEMMA ChainRun ==
  ASSUME NEW c \in Chains
  PROVE  \E f : IsChainRun(f, c) /\ CanonicalReplay(c) = f[Len(c)]
<1> DEFINE Def(f, n) ==
      f = [h \in 0..n |-> IF h = 0 THEN NewReplay ELSE ReplayedBlock(f[h - 1], c[h], h)]
           T == {n \in 0..Len(c) : \E f : Def(f, n)}
<1>1. Len(c) \in Nat
  BY DEF Chains
<1>2. 0 \in T
  <2> DEFINE f == [h \in 0..0 |-> NewReplay]
  <2>1. f = [h \in 0..0 |-> IF h = 0 THEN NewReplay ELSE ReplayedBlock(f[h - 1], c[h], h)]
    OBVIOUS
  <2> HIDE DEF f
  <2>2. Def(f, 0)
    BY <2>1
  <2>3. QED
    BY <1>1, <2>2
<1>3. ASSUME NEW k \in 0..(Len(c) - 1), k \in T PROVE k + 1 \in T
  <2>1. PICK f : Def(f, k)
    BY <1>3
  <2> DEFINE g == [h \in 0..(k + 1) |-> IF h = k + 1 THEN ReplayedBlock(f[k], c[k + 1], k + 1) ELSE f[h]]
  <2>2. ASSUME NEW h \in 0..(k + 1)
        PROVE  g[h] = IF h = 0 THEN NewReplay ELSE ReplayedBlock(g[h - 1], c[h], h)
    <3>1. CASE h = k + 1
      <4>1. h - 1 = k /\ k \in 0..(k + 1) /\ k # k + 1 /\ h # 0
        BY <1>1, <3>1
      <4>2. g[h] = ReplayedBlock(f[k], c[k + 1], k + 1) /\ g[k] = f[k]
        BY <3>1, <4>1
      <4>3. QED
        BY <3>1, <4>1, <4>2
    <3>2. CASE h # k + 1
      <4>1. h \in 0..k
        BY <1>1, <3>2
      <4>2. g[h] = f[h]
        BY <3>2
      <4>3. h # 0 => h - 1 \in 0..(k + 1) /\ h - 1 # k + 1
        BY <1>1, <4>1
      <4>4. h # 0 => g[h - 1] = f[h - 1]
        BY <4>3
      <4>5. f[h] = IF h = 0 THEN NewReplay ELSE ReplayedBlock(f[h - 1], c[h], h)
        BY <2>1, <4>1
      <4> HIDE DEF g
      <4>6. QED
        BY <4>2, <4>4, <4>5
    <3>3. QED
      BY <3>1, <3>2
  <2>3. g = [h \in 0..(k + 1) |-> g[h]]
    OBVIOUS
  <2> HIDE DEF g
  <2>4. Def(g, k + 1)
    BY <2>2, <2>3
  <2>5. k + 1 \in 0..Len(c)
    BY <1>1
  <2> HIDE DEF Def
  <2>6. QED
    BY <2>4, <2>5
<1>4. \E f : Def(f, Len(c))
  <2>1. \A k \in 0..Len(c) : k \in T
    <3> HIDE DEF T
    <3>1. QED
      BY <1>1, <1>2, <1>3, Induction
  <2>2. Len(c) \in T
    BY <1>1, <2>1
  <2>3. QED
    BY <2>2
<1> DEFINE f == CHOOSE f : Def(f, Len(c))
<1>5. Def(f, Len(c))
  <2> HIDE DEF Def
  <2>1. QED
    BY <1>4
<1>6. CanonicalReplay(c) = f[Len(c)]
  BY DEF CanonicalReplay
<1> HIDE DEF f
<1>7. IsChainRun(f, c)
  <2>1. 0 \in 0..Len(c) /\ \A h \in 1..Len(c) : h \in 0..Len(c) /\ h # 0
    BY <1>1
  <2>2. QED
    BY <1>5, <2>1 DEF IsChainRun
<1>8. QED
  BY <1>6, <1>7

\* A chain is replayed block by block.
LEMMA ChainStep ==
  ASSUME NEW c \in Chains
  PROVE  /\ CanonicalReplay(Hash(c, 0)) = NewReplay
         /\ \A k \in 1..Len(c) :
              CanonicalReplay(Hash(c, k)) = ReplayedBlock(CanonicalReplay(Hash(c, k - 1)), c[k], k)
<1>0. Len(c) \in Nat
  BY DEF Chains
<1>1. CanonicalReplay(Hash(c, 0)) = NewReplay
  <2>1. 0 \in 0..Len(c)
    BY <1>0
  <2>2. Hash(c, 0) \in Chains /\ Len(Hash(c, 0)) = 0
    BY <2>1, HashAt
  <2>3. QED
    BY <2>2, ChainRun DEF IsChainRun
<1>2. ASSUME NEW k \in 1..Len(c)
      PROVE  CanonicalReplay(Hash(c, k)) = ReplayedBlock(CanonicalReplay(Hash(c, k - 1)), c[k], k)
  <2> DEFINE long == Hash(c, k)
             short == Hash(c, k - 1)
  <2>0. k \in 0..Len(c) /\ k - 1 \in 0..Len(c) /\ k \in Nat /\ k - 1 \in Nat
    BY <1>0
  <2>1. /\ long \in Chains /\ Len(long) = k /\ \A j \in 1..k : long[j] = c[j]
        /\ short \in Chains /\ Len(short) = k - 1 /\ \A j \in 1..(k - 1) : short[j] = c[j]
    BY <2>0, HashAt
  <2> HIDE DEF long, short
  <2>2. PICK f : IsChainRun(f, long) /\ CanonicalReplay(long) = f[Len(long)]
    BY <2>1, ChainRun
  <2>3. PICK g : IsChainRun(g, short) /\ CanonicalReplay(short) = g[Len(short)]
    BY <2>1, ChainRun
  <2>4. ASSUME NEW j \in 1..(k - 1), f[j - 1] = g[j - 1] PROVE f[j] = g[j]
    <3>1. j \in 1..k
      BY <2>0
    <3>2. f[j] = ReplayedBlock(f[j - 1], c[j], j) /\ g[j] = ReplayedBlock(g[j - 1], c[j], j)
      BY <2>1, <2>2, <2>3, <3>1 DEF IsChainRun
    <3>3. QED
      BY <2>4, <3>2
  <2>5. f[k - 1] = g[k - 1]
    <3>1. k - 1 \in Nat /\ GoAlike(f, g, k - 1)
      BY <2>0, <2>2, <2>3, <2>4 DEF GoAlike, IsChainRun
    <3>2. QED
      BY <3>1, SameRun
  <2>6. k \in 1..k
    OBVIOUS
  <2>7. f[k] = ReplayedBlock(f[k - 1], c[k], k)
    BY <2>1, <2>2, <2>6 DEF IsChainRun
  <2>8. QED
    BY <2>1, <2>2, <2>3, <2>5, <2>7 DEF long, short
<1>3. QED
  BY <1>1, <1>2

-----------------------------------------------------------------------------
(* Replaying towards the registry of a chain.  A position says how far a   *)
(* replay has got: k blocks and i transfers of the next one.               *)

IsPosition(c, k, i) ==
  k \in 0..Len(c) /\ i \in Nat /\ (i # 0 => k < Len(c) /\ i <= Len(c[k + 1]))

ReplayedTo(c, k, i) ==
  IF i = 0 THEN CanonicalReplay(Hash(c, k))
  ELSE ReplayedBlock(CanonicalReplay(Hash(c, k)), SubSeq(c[k + 1], 1, i), k + 1)

\* The j-th transfer of the block at height h comes after the position.
IsAfter(k, i, h, j) == h > k + 1 \/ (h = k + 1 /\ j > i)

At(c, h, j) == [txid |-> c[h][j], height |-> h]

IsLeft(c, k, i, r) ==
  \E h \in DOMAIN c : \E j \in DOMAIN c[h] : r = At(c, h, j) /\ IsAfter(k, i, h, j)

\* What was found in the chain is what the replay has left to do there.
Tracks(c, reg, found) ==
  \E k, i : /\ IsPosition(c, k, i)
            /\ reg = ReplayedTo(c, k, i)
            /\ \A r : (r \in found /\ r.height <= Len(c)) <=> IsLeft(c, k, i, r)

LEMMA ChainFacts ==
  ASSUME NEW c \in Chains
  PROVE  /\ Len(c) \in Nat /\ DOMAIN c = 1..Len(c) /\ Hash(c, Len(c)) = c
         /\ \A h \in 1..Len(c) : c[h] \in Seq(TxIDs) /\ Len(c[h]) \in Nat /\ DOMAIN c[h] = 1..Len(c[h])
         /\ \A h \in 1..Len(c) : \A j \in DOMAIN c[h] : c[h][j] \in TxIDs
<1>1. Len(c) \in Nat /\ DOMAIN c = 1..Len(c) /\ \A h \in 1..Len(c) : c[h] \in Seq(TxIDs)
  BY DEF Chains
<1>2. Hash(c, Len(c)) = c
  <2>1. Len(c) \in 0..Len(c)
    BY <1>1
  <2>2. /\ Hash(c, Len(c)) \in Seq(Seq(TxIDs)) /\ Len(Hash(c, Len(c))) = Len(c)
        /\ \A h \in 1..Len(c) : Hash(c, Len(c))[h] = c[h]
    BY <2>1, HashAt DEF Chains
  <2>3. c \in Seq(Seq(TxIDs))
    BY DEF Chains
  <2>4. QED
    BY <2>2, <2>3, SeqEqual
<1>3. QED
  BY <1>1, <1>2

\* One more transfer of the block in progress.
LEMMA NextInBlock ==
  ASSUME NEW c \in Chains, NEW k \in 0..(Len(c) - 1), NEW i \in Nat, i + 1 <= Len(c[k + 1])
  PROVE  ReplayedTo(c, k, i + 1) = Replayed(ReplayedTo(c, k, i), Transfer(c[k + 1][i + 1], k + 1))
<1> DEFINE b == c[k + 1]
           reg == CanonicalReplay(Hash(c, k))
<1>1. b \in Seq(TxIDs) /\ Len(b) \in Nat
  BY ChainFacts
<1> HIDE DEF reg
<1>2. i + 1 \in 1..Len(b) /\ (i + 1) - 1 = i /\ i + 1 # 0
  BY <1>1
<1> HIDE DEF b
<1>3. ReplayedBlock(reg, SubSeq(b, 1, i + 1), k + 1) =
        Replayed(ReplayedBlock(reg, SubSeq(b, 1, i), k + 1), Transfer(b[i + 1], k + 1))
  BY <1>1, <1>2, BlockStep
<1>4. i = 0 => ReplayedBlock(reg, SubSeq(b, 1, i), k + 1) = reg
  <2>1. i = 0 => SubSeq(b, 1, i) = <<>>
    BY <1>1
  <2>2. ReplayedBlock(reg, <<>>, k + 1) = reg
    BY <1>1, BlockStep
  <2>3. QED
    BY <2>1, <2>2
<1>5. QED
  BY <1>2, <1>3, <1>4 DEF ReplayedTo, b, reg

\* Blocks without transfers do not change a registry.
LEMMA SkipEmpty ==
  ASSUME NEW c \in Chains, NEW k, NEW i, IsPosition(c, k, i), NEW g \in (k + 1)..Len(c),
         \A h \in DOMAIN c : \A j \in DOMAIN c[h] : IsAfter(k, i, h, j) => h > g
  PROVE  ReplayedTo(c, k, i) = CanonicalReplay(Hash(c, g))
<1> DEFINE R(h) == CanonicalReplay(Hash(c, h))
           T == {m \in 0..(g - k - 1) : ReplayedTo(c, k, i) = R(k + 1 + m)}
<1>0. /\ Len(c) \in Nat /\ k \in 0..Len(c) /\ i \in Nat /\ g \in Nat /\ k < Len(c) /\ k < g
      /\ k \in Nat /\ g <= Len(c)
  BY ChainFacts DEF IsPosition
<1>1. /\ k + 1 \in 1..Len(c) /\ (k + 1) - 1 = k
      /\ c[k + 1] \in Seq(TxIDs) /\ Len(c[k + 1]) \in Nat /\ i <= Len(c[k + 1])
  <2>1. k + 1 \in 1..Len(c) /\ (k + 1) - 1 = k
    BY <1>0
  <2>2. c[k + 1] \in Seq(TxIDs) /\ Len(c[k + 1]) \in Nat
    BY <2>1, ChainFacts
  <2>3. QED
    BY <1>0, <2>1, <2>2 DEF IsPosition
<1>2. i = Len(c[k + 1])
  <2> SUFFICES ASSUME i < Len(c[k + 1]) PROVE FALSE
    BY <1>0, <1>1
  <2>1. i + 1 \in DOMAIN c[k + 1] /\ k + 1 \in DOMAIN c
    BY <1>0, <1>1, ChainFacts
  <2>2. IsAfter(k, i, k + 1, i + 1)
    BY <1>0 DEF IsAfter
  <2>3. k + 1 > g
    BY <2>1, <2>2
  <2>4. QED
    BY <1>0, <2>3
<1>3. 0 \in T
  <2>1. R(k + 1) = ReplayedBlock(R(k), c[k + 1], k + 1)
    BY <1>1, ChainStep
  <2>2. i = 0 => c[k + 1] = <<>>
    BY <1>1, <1>2, EmptySeq
  <2>3. ReplayedBlock(R(k), <<>>, k + 1) = R(k)
    BY <1>1, BlockStep
  <2>4. SubSeq(c[k + 1], 1, i) = c[k + 1]
    BY <1>1, <1>2, SubSeqFull
  <2>5. ReplayedTo(c, k, i) = R(k + 1)
    BY <2>1, <2>2, <2>3, <2>4 DEF ReplayedTo
  <2>6. 0 \in 0..(g - k - 1) /\ k + 1 + 0 = k + 1
    BY <1>0
  <2> HIDE DEF R
  <2>7. QED
    BY <2>5, <2>6
<1>4. ASSUME NEW m \in 0..((g - k - 1) - 1), m \in T PROVE m + 1 \in T
  <2> DEFINE h == k + 1 + m + 1
  <2>1. h \in 1..Len(c) /\ h <= g /\ h > k + 1 /\ h - 1 = k + 1 + m /\ m + 1 \in 0..(g - k - 1)
        /\ k + 1 + (m + 1) = h
    BY <1>0
  <2> HIDE DEF h
  <2>2. c[h] = <<>>
    <3>1. c[h] \in Seq(TxIDs) /\ h \in DOMAIN c /\ DOMAIN c[h] = 1..Len(c[h]) /\ Len(c[h]) \in Nat
      BY <2>1, ChainFacts
    <3>2. \A j \in DOMAIN c[h] : IsAfter(k, i, h, j)
      BY <2>1 DEF IsAfter
    <3>3. \A j \in DOMAIN c[h] : h > g
      BY <3>1, <3>2
    <3>4. h \in Nat
      BY <2>1, ChainFacts
    <3>5. Len(c[h]) = 0
      <4>1. 1 \notin DOMAIN c[h]
        BY <1>0, <2>1, <3>3, <3>4, SMTT(30)
      <4>2. QED
        BY <3>1, <4>1
    <3>6. QED
      BY <3>1, <3>5
  <2>3. R(h) = ReplayedBlock(R(h - 1), c[h], h)
    BY <2>1, ChainStep
  <2>4. ReplayedBlock(R(h - 1), <<>>, h) = R(h - 1)
    <3>1. <<>> \in Seq(TxIDs)
      OBVIOUS
    <3>2. QED
      BY <3>1, BlockStep
  <2>5. R(h) = R(k + 1 + m)
    BY <2>1, <2>2, <2>3, <2>4
  <2> HIDE DEF R
  <2>6. QED
    BY <1>4, <2>1, <2>5
<1>5. g - k - 1 \in T
  <2> DEFINE N == g - k - 1
  <2>1. N \in Nat
    BY <1>0
  <2>2. \A m \in 0..(N - 1) : m \in T => m + 1 \in T
    BY <1>4
  <2> HIDE DEF T, N
  <2>3. \A m \in 0..N : m \in T
    BY <1>3, <2>1, <2>2, Induction
  <2>4. QED
    BY <2>1, <2>3 DEF N
<1>6. k + 1 + (g - k - 1) = g
  BY <1>0
<1> HIDE DEF R
<1>7. ReplayedTo(c, k, i) = R(g)
  BY <1>5, <1>6
<1>8. QED
  BY <1>7 DEF R

\* The transfers come in the order of the chain: the one that no other comes
\* before is the next one the replay has to do.
LEMMA FirstIsNext ==
  ASSUME NEW c \in Chains, OncePerChain(c), NEW blocks, NEW found, NEW r \in found, NEW k, NEW i,
         \A s \in found : s.height <= Len(c) => blocks[s.height] = Hash(c, s.height),
         \A s \in found : ~Before(blocks, s, r),
         \A s : (s \in found /\ s.height <= Len(c)) <=> IsLeft(c, k, i, s),
         NEW h \in DOMAIN c, NEW j \in DOMAIN c[h], r = At(c, h, j), IsAfter(k, i, h, j)
  PROVE  \A g \in DOMAIN c : \A l \in DOMAIN c[g] :
           IsAfter(k, i, g, l) => g > h \/ (g = h /\ l >= j)
<1> DEFINE Key(t) == CHOOSE l \in DOMAIN blocks[t.height][t.height] :
                       blocks[t.height][t.height][l] = t.txid
<1>1. Len(c) \in Nat /\ DOMAIN c = 1..Len(c)
  BY ChainFacts
<1>2. ASSUME NEW g \in DOMAIN c, NEW l \in DOMAIN c[g], IsAfter(k, i, g, l)
      PROVE  /\ At(c, g, l) \in found /\ At(c, g, l).height = g /\ At(c, g, l).txid = c[g][l]
             /\ Key(At(c, g, l)) = l
  <2>1. IsLeft(c, k, i, At(c, g, l))
    BY <1>2 DEF IsLeft
  <2>2. At(c, g, l) \in found /\ At(c, g, l).height <= Len(c)
    BY <2>1
  <2>3. At(c, g, l).height = g /\ At(c, g, l).txid = c[g][l]
    BY DEF At
  <2>4. blocks[g] = Hash(c, g)
    BY <2>2, <2>3
  <2>5. g \in 0..Len(c) /\ g \in 1..g
    BY <1>1
  <2>6. blocks[g][g] = c[g]
    BY <2>4, <2>5, HashAt
  <2>7. \A m \in DOMAIN c[g] : c[g][m] = c[g][l] => m = l
    BY DEF OncePerChain
  <2>8. (CHOOSE m \in DOMAIN c[g] : c[g][m] = c[g][l]) = l
    BY <2>7
  <2>9. QED
    BY <2>2, <2>3, <2>6, <2>8
<1>3. r.height = h /\ Key(r) = j
  BY <1>2
<1>4. ASSUME NEW g \in DOMAIN c, NEW l \in DOMAIN c[g], IsAfter(k, i, g, l)
      PROVE  g > h \/ (g = h /\ l >= j)
  <2>1. ~Before(blocks, At(c, g, l), r)
    BY <1>2, <1>4
  <2>2. ~(g < h) /\ ~(g = h /\ l < j)
    <3>1. At(c, g, l).height = g /\ Key(At(c, g, l)) = l
      BY <1>2, <1>4
    <3>2. QED
      BY <1>3, <2>1, <3>1 DEF Before
  <2>3. g \in Nat /\ h \in Nat /\ l \in Nat /\ j \in Nat
    <3>1. DOMAIN c[g] = 1..Len(c[g]) /\ DOMAIN c[h] = 1..Len(c[h])
          /\ Len(c[g]) \in Nat /\ Len(c[h]) \in Nat
      BY <1>1, ChainFacts
    <3>2. QED
      BY <1>1, <3>1
  <2>4. QED
    BY <2>2, <2>3
<1>5. QED
  BY <1>4

\* A replay that has done everything up to a height has the next transfer in the
\* block after it.
LEMMA NextBlock ==
  ASSUME NEW c \in Chains, NEW k, NEW i, IsPosition(c, k, i), NEW g \in (k + 1)..Len(c),
         \A h \in DOMAIN c : \A j \in DOMAIN c[h] : IsAfter(k, i, h, j) => h > g
  PROVE  /\ IsPosition(c, g, 0)
         /\ ReplayedTo(c, g, 0) = ReplayedTo(c, k, i)
         /\ \A s : IsLeft(c, g, 0, s) <=> IsLeft(c, k, i, s)
<1>0. Len(c) \in Nat /\ k \in Nat /\ i \in Nat /\ g \in Nat /\ g > k /\ g <= Len(c) /\ DOMAIN c = 1..Len(c)
  BY ChainFacts DEF IsPosition
<1>1. IsPosition(c, g, 0)
  BY <1>0 DEF IsPosition
<1>2. ReplayedTo(c, g, 0) = ReplayedTo(c, k, i)
  BY SkipEmpty DEF ReplayedTo
<1>3. ASSUME NEW h \in DOMAIN c, NEW j \in DOMAIN c[h]
      PROVE  IsAfter(g, 0, h, j) <=> IsAfter(k, i, h, j)
  <2>1. h \in Nat /\ j \in Nat /\ j > 0
    <3>1. DOMAIN c[h] = 1..Len(c[h]) /\ Len(c[h]) \in Nat
      BY <1>0, ChainFacts
    <3>2. QED
      BY <1>0, <3>1
  <2>2. IsAfter(k, i, h, j) => h > g
    OBVIOUS
  <2>3. QED
    BY <1>0, <2>1, <2>2 DEF IsAfter
<1>4. QED
  BY <1>1, <1>2, <1>3 DEF IsLeft

\* A replay of the block that the next transfer is in.
LEMMA TrackBlock ==
  ASSUME NEW c \in Chains, OncePerChain(c), NEW reg, NEW found, NEW r, NEW i,
         NEW h \in DOMAIN c, NEW j \in DOMAIN c[h], r = At(c, h, j),
         IsPosition(c, h - 1, i), IsAfter(h - 1, i, h, j), reg = ReplayedTo(c, h - 1, i),
         \A s : (s \in found /\ s.height <= Len(c)) <=> IsLeft(c, h - 1, i, s),
         \A g \in DOMAIN c : \A l \in DOMAIN c[g] :
           IsAfter(h - 1, i, g, l) => g > h \/ (g = h /\ l >= j)
  PROVE  Tracks(c, Replayed(reg, Transfer(r.txid, r.height)), found \ {r})
<1>0. /\ Len(c) \in Nat /\ DOMAIN c = 1..Len(c) /\ h \in 1..Len(c) /\ h \in Nat /\ i \in Nat
      /\ DOMAIN c[h] = 1..Len(c[h]) /\ Len(c[h]) \in Nat /\ j \in Nat /\ (h - 1) + 1 = h
      /\ h - 1 \in 0..(Len(c) - 1)
  <2>1. Len(c) \in Nat /\ DOMAIN c = 1..Len(c) /\ h \in 1..Len(c)
    BY ChainFacts
  <2>2. DOMAIN c[h] = 1..Len(c[h]) /\ Len(c[h]) \in Nat
    BY <2>1, ChainFacts
  <2>3. QED
    BY <2>1, <2>2 DEF IsPosition
<1>1. j = i + 1
  <2>1. j > i
    BY <1>0 DEF IsAfter
  <2> SUFFICES ASSUME i + 1 < j PROVE FALSE
    BY <1>0, <2>1
  <2>2. i + 1 \in DOMAIN c[h] /\ IsAfter(h - 1, i, h, i + 1)
    BY <1>0 DEF IsAfter
  <2>3. h > h \/ (h = h /\ i + 1 >= j)
    BY <2>2
  <2>4. QED
    BY <1>0, <2>3
<1>2. IsPosition(c, h - 1, j)
  BY <1>0 DEF IsPosition
<1>3. ReplayedTo(c, h - 1, j) = Replayed(reg, Transfer(r.txid, r.height))
  <2>1. r.txid = c[h][j] /\ r.height = h
    BY DEF At
  <2>2. i + 1 <= Len(c[(h - 1) + 1])
    BY <1>0, <1>1
  <2>3. ReplayedTo(c, h - 1, i + 1) =
          Replayed(ReplayedTo(c, h - 1, i), Transfer(c[(h - 1) + 1][i + 1], (h - 1) + 1))
    BY <1>0, <2>2, NextInBlock
  <2>4. QED
    BY <1>0, <1>1, <2>1, <2>3
<1>4. ASSUME NEW g \in DOMAIN c, NEW l \in DOMAIN c[g]
      PROVE  IsAfter(h - 1, j, g, l) <=> (IsAfter(h - 1, i, g, l) /\ At(c, g, l) # r)
  <2>1. g \in Nat /\ l \in Nat
    <3>1. DOMAIN c[g] = 1..Len(c[g]) /\ Len(c[g]) \in Nat
      BY <1>0, ChainFacts
    <3>2. QED
      BY <1>0, <3>1
  <2>2. At(c, g, l) = r <=> g = h /\ l = j
    <3>1. At(c, g, l) = r => c[g][l] = c[h][j]
      BY DEF At
    <3>2. c[g][l] = c[h][j] => g = h /\ l = j
      BY DEF OncePerChain
    <3>3. QED
      BY <3>1, <3>2
  <2>3. QED
    BY <1>0, <1>1, <2>1, <2>2 DEF IsAfter
<1>5. ASSUME NEW s
      PROVE  (s \in found \ {r} /\ s.height <= Len(c)) <=> IsLeft(c, h - 1, j, s)
  <2>1. IsLeft(c, h - 1, j, s) <=> IsLeft(c, h - 1, i, s) /\ s # r
    BY <1>4 DEF IsLeft
  <2>2. QED
    BY <2>1
<1>6. QED
  BY <1>2, <1>3, <1>5 DEF Tracks

\* Replaying the first transfer that was found keeps track.
LEMMA TracksOn ==
  ASSUME NEW c \in Chains, OncePerChain(c), NEW blocks, NEW reg, NEW found, NEW r \in found,
         r.height <= Len(c),
         \A s \in found : s.height <= Len(c) => blocks[s.height] = Hash(c, s.height),
         \A s \in found : ~Before(blocks, s, r),
         Tracks(c, reg, found)
  PROVE  Tracks(c, Replayed(reg, Transfer(r.txid, r.height)), found \ {r})
<1>1. PICK k, i : /\ IsPosition(c, k, i)
                  /\ reg = ReplayedTo(c, k, i)
                  /\ \A s : (s \in found /\ s.height <= Len(c)) <=> IsLeft(c, k, i, s)
  BY DEF Tracks
<1>2. PICK h \in DOMAIN c : \E j \in DOMAIN c[h] : r = At(c, h, j) /\ IsAfter(k, i, h, j)
  BY <1>1 DEF IsLeft
<1>3. PICK j \in DOMAIN c[h] : r = At(c, h, j) /\ IsAfter(k, i, h, j)
  BY <1>2
<1>4. \A g \in DOMAIN c : \A l \in DOMAIN c[g] : IsAfter(k, i, g, l) => g > h \/ (g = h /\ l >= j)
  BY <1>1, <1>3, FirstIsNext
<1>5. /\ Len(c) \in Nat /\ DOMAIN c = 1..Len(c) /\ h \in 1..Len(c) /\ h \in Nat /\ j \in Nat /\ j > 0
      /\ k \in Nat /\ i \in Nat
  <2>1. Len(c) \in Nat /\ DOMAIN c = 1..Len(c) /\ h \in 1..Len(c)
    BY ChainFacts
  <2>2. DOMAIN c[h] = 1..Len(c[h]) /\ Len(c[h]) \in Nat
    BY <2>1, ChainFacts
  <2>3. QED
    BY <1>1, <2>1, <2>2 DEF IsPosition
<1>6. CASE h = k + 1
  <2>1. h - 1 = k
    BY <1>5, <1>6
  <2>2. QED
    BY <1>1, <1>3, <1>4, <2>1, TrackBlock
<1>7. CASE h # k + 1
  <2>1. h - 1 \in (k + 1)..Len(c)
    BY <1>3, <1>5, <1>7 DEF IsAfter
  <2>2. \A g \in DOMAIN c : \A l \in DOMAIN c[g] : IsAfter(k, i, g, l) => g > h - 1
    <3>1. \A g \in DOMAIN c : g \in Nat
      BY <1>5
    <3>2. QED
      BY <1>4, <1>5, <3>1
  <2>3. /\ IsPosition(c, h - 1, 0)
        /\ ReplayedTo(c, h - 1, 0) = ReplayedTo(c, k, i)
        /\ \A s : IsLeft(c, h - 1, 0, s) <=> IsLeft(c, k, i, s)
    BY <1>1, <2>1, <2>2, NextBlock
  <2>4. IsAfter(h - 1, 0, h, j)
    BY <1>5 DEF IsAfter
  <2>5. \A s : (s \in found /\ s.height <= Len(c)) <=> IsLeft(c, h - 1, 0, s)
    BY <1>1, <2>3
  <2>6. \A g \in DOMAIN c : \A l \in DOMAIN c[g] :
          IsAfter(h - 1, 0, g, l) => g > h \/ (g = h /\ l >= j)
    <3> SUFFICES ASSUME NEW g \in DOMAIN c, NEW l \in DOMAIN c[g], IsAfter(h - 1, 0, g, l)
                 PROVE  g > h \/ (g = h /\ l >= j)
      OBVIOUS
    <3>1. IsLeft(c, k, i, At(c, g, l))
      BY <2>3 DEF IsLeft
    <3>2. PICK g2 \in DOMAIN c : \E l2 \in DOMAIN c[g2] :
             At(c, g, l) = At(c, g2, l2) /\ IsAfter(k, i, g2, l2)
      BY <3>1 DEF IsLeft
    <3>3. PICK l2 \in DOMAIN c[g2] : At(c, g, l) = At(c, g2, l2) /\ IsAfter(k, i, g2, l2)
      BY <3>2
    <3>4. c[g][l] = c[g2][l2]
      BY <3>3 DEF At
    <3>5. g = g2 /\ l = l2
      BY <3>4 DEF OncePerChain
    <3>6. QED
      BY <1>4, <3>3, <3>5
  <2>7. QED
    BY <1>1, <1>3, <2>3, <2>4, <2>5, <2>6, TrackBlock
<1>8. QED
  BY <1>6, <1>7

\* A transfer from above the chain is none of its business.
LEMMA TracksPast ==
  ASSUME NEW c, NEW reg, NEW found, NEW r, ~(r.height <= Len(c)), Tracks(c, reg, found)
  PROVE  Tracks(c, reg, found \ {r})
<1>1. PICK k, i : /\ IsPosition(c, k, i)
                  /\ reg = ReplayedTo(c, k, i)
                  /\ \A s : (s \in found /\ s.height <= Len(c)) <=> IsLeft(c, k, i, s)
  BY DEF Tracks
<1>2. \A s : (s \in found \ {r} /\ s.height <= Len(c)) <=> IsLeft(c, k, i, s)
  BY <1>1
<1>3. QED
  BY <1>1, <1>2 DEF Tracks

\* A replay that has nothing left to do has reached the registry of the chain.
LEMMA TracksToTheEnd ==
  ASSUME NEW c \in Chains, NEW reg, Tracks(c, reg, {})
  PROVE  reg = CanonicalReplay(c)
<1>1. PICK k, i : /\ IsPosition(c, k, i)
                  /\ reg = ReplayedTo(c, k, i)
                  /\ \A s : (s \in {} /\ s.height <= Len(c)) <=> IsLeft(c, k, i, s)
  BY DEF Tracks
<1>2. Len(c) \in Nat /\ Hash(c, Len(c)) = c /\ k \in 0..Len(c) /\ i \in Nat
  BY <1>1, ChainFacts DEF IsPosition
<1>3. \A h \in DOMAIN c : \A j \in DOMAIN c[h] : ~IsAfter(k, i, h, j)
  BY <1>1 DEF IsLeft
<1>4. CASE k = Len(c)
  <2>1. i = 0
    BY <1>1, <1>2, <1>4 DEF IsPosition
  <2>2. QED
    BY <1>1, <1>2, <1>4, <2>1 DEF ReplayedTo
<1>5. CASE k # Len(c)
  <2>1. Len(c) \in (k + 1)..Len(c)
    BY <1>2, <1>5
  <2>2. ReplayedTo(c, k, i) = CanonicalReplay(Hash(c, Len(c)))
    BY <1>1, <1>3, <2>1, SkipEmpty
  <2>3. QED
    BY <1>1, <1>2, <2>2
<1>6. QED
  BY <1>4, <1>5

\* At the beginning everything is left to do.
LEMMA TracksFromTheStart ==
  ASSUME NEW w \in Chains, NEW n \in 0..Len(w)
  PROVE  Tracks(Hash(w, n), NewReplay, Received(w))
<1> DEFINE c == Hash(w, n)
<1>1. /\ Len(w) \in Nat /\ DOMAIN w = 1..Len(w) /\ n \in Nat /\ n <= Len(w)
      /\ c \in Chains /\ Len(c) = n /\ DOMAIN c = 1..n /\ \A h \in 1..n : c[h] = w[h]
  BY ChainFacts, HashAt
<1>2. IsPosition(c, 0, 0) /\ NewReplay = ReplayedTo(c, 0, 0)
  <2>1. CanonicalReplay(Hash(c, 0)) = NewReplay
    BY <1>1, ChainStep
  <2> HIDE DEF c
  <2>2. QED
    BY <1>1, <2>1 DEF IsPosition, ReplayedTo
<1> HIDE DEF c
<1>3. ASSUME NEW h \in DOMAIN c, NEW j \in DOMAIN c[h] PROVE IsAfter(0, 0, h, j)
  <2>1. h \in 1..n /\ DOMAIN c[h] = 1..Len(c[h]) /\ Len(c[h]) \in Nat
    BY <1>1, ChainFacts
  <2>2. QED
    BY <1>1, <2>1 DEF IsAfter
<1>4. ASSUME NEW s PROVE (s \in Received(w) /\ s.height <= Len(c)) <=> IsLeft(c, 0, 0, s)
  <2>1. s \in Received(w) <=> \E h \in DOMAIN w : \E j \in DOMAIN w[h] : s = At(w, h, j)
    BY DEF Received, At
  <2>2. IsLeft(c, 0, 0, s) <=> \E h \in DOMAIN c : \E j \in DOMAIN c[h] : s = At(c, h, j)
    BY <1>3 DEF IsLeft
  <2>3. \A h \in DOMAIN c : h \in DOMAIN w /\ c[h] = w[h] /\ h <= Len(c)
    BY <1>1
  <2>4. \A h \in DOMAIN w : h <= Len(c) => h \in DOMAIN c
    BY <1>1
  <2>5. \A h \in DOMAIN w : \A j \in DOMAIN w[h] : At(w, h, j).height = h
    BY DEF At
  <2>6. \A h \in DOMAIN c : \A j \in DOMAIN c[h] : At(c, h, j) = At(w, h, j)
    BY <2>3 DEF At
  <2>7. IsLeft(c, 0, 0, s) => s \in Received(w) /\ s.height <= Len(c)
    BY <2>1, <2>2, <2>3, <2>5, <2>6
  <2>8. ASSUME s \in Received(w), s.height <= Len(c) PROVE IsLeft(c, 0, 0, s)
    <3>1. PICK h \in DOMAIN w : \E j \in DOMAIN w[h] : s = At(w, h, j)
      BY <2>1, <2>8
    <3>2. PICK j \in DOMAIN w[h] : s = At(w, h, j)
      BY <3>1
    <3>3. h \in DOMAIN c /\ j \in DOMAIN c[h] /\ s = At(c, h, j)
      BY <2>3, <2>4, <2>5, <2>6, <2>8, <3>2
    <3>4. QED
      BY <2>2, <3>3
  <2>9. QED
    BY <2>7, <2>8
<1>5. QED
  BY <1>2, <1>4 DEF Tracks, c

-----------------------------------------------------------------------------
(* The wallet's chain and the daemon's.  The wallet follows the daemon, so *)
(* that what is deeper than any reorganisation is the same in both; and    *)
(* until the first reorganisation after its refresh, all of it is.         *)

ChainsAgree ==
  /\ OncePerChain(chain)
  /\ \A n \in 0..Len(wallet.chain) :
       n + MaxReorg <= Len(wallet.chain) => Hash(wallet.chain, n) = Hash(chain, n)
  /\ pc \in Working \cup {"walletHeight"} /\ scan.reorged = 0 =>
       Hash(chain, Len(wallet.chain)) = wallet.chain
  /\ pc \in Working => scan.walletHeight - 1 <= Len(wallet.chain)

LEMMA WalletSteps ==
  ASSUME Typed, [Next]_vars
  PROVE  \/ /\ wallet'.chain = wallet.chain
            /\ \/ pc' \notin Working \cup {"walletHeight"}
               \/ /\ pc' \in Working /\ pc \in Working \cup {"walletHeight"}
                  /\ scan'.reorged = 0 => scan.reorged = 0
                  /\ ReadWalletHeight \/ (pc \in Working /\ scan'.walletHeight = scan.walletHeight)
               \/ /\ pc = "walletHeight" /\ pc' = "walletHeight"
                  /\ scan'.reorged = 0 => scan.reorged = 0
         \/ /\ wallet'.chain = chain /\ chain' = chain
            /\ pc' \in Working => pc \in Working /\ scan' = scan
         \/ /\ wallet'.chain = <<>> /\ pc' = "refresh" /\ chain' = chain
         \/ /\ \E k \in 0..Len(wallet.chain) : wallet'.chain = Hash(wallet.chain, k)
            /\ pc' = "idle" /\ chain' = chain
<1>0. ScanOK(scan) /\ scan.reorged \in Nat /\ wallet \in [up : BOOLEAN, chain : Chains]
  BY DEF Typed, TypeOK, ScanOK
<1> USE DEF Working
<1>1. CASE Refresh
  <2>1. wallet'.chain = chain /\ chain' = chain /\ pc' = "walletHeight"
    BY <1>0, <1>1 DEF Refresh, environment
  <2>2. QED
    BY <2>1
<1>2. CASE AutoRefresh
  <2>1. wallet'.chain = chain /\ chain' = chain /\ pc' = pc /\ scan' = scan
    BY <1>0, <1>2 DEF AutoRefresh, environment
  <2>2. QED
    BY <2>1
<1>3. CASE RebuildWallet
  <2>1. wallet'.chain = <<>> /\ pc' = "refresh" /\ chain' = chain
    BY <1>3 DEF RebuildWallet, environment
  <2>2. QED
    BY <2>1
<1>4. CASE Restart
  <2>1. PICK k \in 0..Len(wallet.chain) : wallet' = [up |-> TRUE, chain |-> SubSeq(wallet.chain, 1, k)]
    BY <1>4 DEF Restart
  <2>2. wallet'.chain = Hash(wallet.chain, k) /\ pc' = "idle" /\ chain' = chain
    BY <1>4, <2>1 DEF Restart, Hash
  <2>3. QED
    BY <2>2
<1>5. CASE ~Refresh /\ ~AutoRefresh /\ ~RebuildWallet /\ ~Restart
  <2>1. wallet'.chain = wallet.chain
    <3>1. \A d \in 1..MaxReorg : Reorg(d) => wallet' = wallet
      BY Zenon DEF Reorg
    <3>2. RebuildFails \/ WalletDies => wallet'.chain = wallet.chain
      BY <1>0 DEF RebuildFails, WalletDies
    <3>3. Mine \/ CallFails \/ UNCHANGED vars => wallet' = wallet
      BY DEF Mine, CallFails, vars
    <3>4. Step => wallet' = wallet
      BY <1>5 DEF Step, GoOn, GiveUp,
         StartScan, RefreshTooDeep, WalletUnreachable, ReadWalletHeight,
         ReadTip, GetTransfers, CheckBlock, SortTransfers, ReplayTransfer, ReadDurableHash,
         RecheckTip, Save, Publish
    <3>5. QED
      BY <1>5, <3>1, <3>2, <3>3, <3>4 DEF Next, Environment
  <2>2. ASSUME pc' \in Working
        PROVE  /\ pc \in Working \cup {"walletHeight"}
               /\ scan'.reorged = 0 => scan.reorged = 0
               /\ ReadWalletHeight \/ (pc \in Working /\ scan'.walletHeight = scan.walletHeight)
    <3>1. CASE Waits
      BY <2>2, <3>1 DEF Waits
    <3>2. CASE Forks
      <4>1. scan'.reorged = scan.reorged + 1 /\ scan'.walletHeight = scan.walletHeight /\ pc' = pc
        BY <1>0, <3>2 DEF Forks, ScanOK, NoScan
      <4>2. QED
        BY <1>0, <2>2, <4>1
    <3>3. CASE ReadWalletHeight
      BY <1>0, <3>3 DEF ReadWalletHeight, ScanOK, NoScan
    <3>4. CASE ReadTip \/ Lists \/ SortTransfers \/ ReadDurableHash \/ Rechecks \/ Save
      BY <1>0, <3>4 DEF ReadTip, Lists, SortTransfers, ReadDurableHash, Rechecks, Save, ScanOK, NoScan
    <3>5. ASSUME NEW h \in HeightsToFetch, Fetches(h)
          PROVE  pc \in Working /\ scan'.reorged = scan.reorged /\ scan'.walletHeight = scan.walletHeight
      BY <1>0, <3>5 DEF Fetches, ScanOK, NoScan
    <3>6. ASSUME NEW r \in scan.found, Replays(r)
          PROVE  pc \in Working /\ scan'.reorged = scan.reorged /\ scan'.walletHeight = scan.walletHeight
      BY <1>0, <3>6 DEF Replays, ScanOK, NoScan
    <3>7. QED
      BY <2>2, <3>1, <3>2, <3>3, <3>4, <3>5, <3>6, WorkSteps
  <2>3. ASSUME pc' = "walletHeight"
        PROVE  pc = "walletHeight" /\ (scan'.reorged = 0 => scan.reorged = 0)
    <3>1. ~Step
      BY <1>5, <2>3 DEF Step, GoOn, GiveUp,
         StartScan, RefreshTooDeep, WalletUnreachable, ReadWalletHeight,
         ReadTip, GetTransfers, CheckBlock, SortTransfers, ReplayTransfer, ReadDurableHash,
         RecheckTip, Save, Publish
    <3>2. ~RebuildFails /\ ~CallFails
      BY <2>3 DEF RebuildFails, CallFails
    <3>3. ASSUME NEW d \in 1..MaxReorg, Reorg(d) PROVE pc = "walletHeight" /\ scan'.reorged # 0
      <4>1. pc' = pc /\ scan' = IF pc = "idle" THEN scan ELSE [scan EXCEPT !.reorged = @ + 1]
        BY <3>3, Zenon DEF Reorg
      <4>2. scan'.reorged = scan.reorged + 1
        BY <1>0, <2>3, <4>1 DEF ScanOK, NoScan
      <4>3. QED
        BY <1>0, <2>3, <4>1, <4>2
    <3>4. Mine \/ WalletDies \/ UNCHANGED vars => pc' = pc /\ scan' = scan
      BY DEF Mine, WalletDies, vars
    <3>5. QED
      BY <1>5, <2>3, <3>1, <3>2, <3>3, <3>4 DEF Next, Environment
  <2>4. QED
    BY <2>1, <2>2, <2>3
<1>6. QED
  BY <1>1, <1>2, <1>3, <1>4, <1>5

LEMMA ChainsStayInAgreement ==
  ASSUME Typed, ChainsAgree, [Next]_vars
  PROVE  ChainsAgree'
<1>0. /\ chain \in Chains /\ wallet.chain \in Chains /\ Len(chain) \in Nat /\ Len(wallet.chain) \in Nat
      /\ Len(wallet.chain) <= Len(chain) /\ MaxReorg \in Nat
      /\ scan.walletHeight \in Nat /\ scan.reorged \in Nat /\ ScanOK(scan)
  BY BoundsAssumption DEF Typed, TypeOK, DaemonIsAhead, ScanOK, Chains
<1> DEFINE Reading == Working \cup {"walletHeight"}
<1>1. CASE chain' # chain
  <2>1. CASE /\ UNCHANGED <<wallet, pc, scan, db>>
             /\ OncePerChain(chain')
             /\ \A n \in 0..Len(chain) : Hash(chain', n) = Hash(chain, n)
    <3>1. \A n \in 0..Len(wallet.chain) : Hash(chain', n) = Hash(chain, n)
      BY <1>0, <2>1
    <3>2. Len(wallet.chain) \in 0..Len(wallet.chain)
      BY <1>0
    <3>3. \A n \in 0..Len(wallet.chain) :
            n + MaxReorg <= Len(wallet.chain) => Hash(wallet.chain, n) = Hash(chain', n)
      BY <3>1 DEF ChainsAgree
    <3>4. pc \in Working \cup {"walletHeight"} /\ scan.reorged = 0 =>
            Hash(chain', Len(wallet.chain)) = wallet.chain
      BY <3>1, <3>2 DEF ChainsAgree
    <3>5. QED
      BY <2>1, <3>3, <3>4 DEF ChainsAgree
  <2>2. CASE /\ UNCHANGED <<wallet, pc, db>>
             /\ scan' = IF pc = "idle" THEN scan ELSE [scan EXCEPT !.reorged = @ + 1]
             /\ OncePerChain(chain')
             /\ \A n \in Nat : n + MaxReorg <= Len(chain) => Hash(chain', n) = Hash(chain, n)
    <3>1. \A n \in 0..Len(wallet.chain) :
            n + MaxReorg <= Len(wallet.chain) => Hash(chain', n) = Hash(chain, n)
      BY <1>0, <2>2
    <3>2. \A n \in 0..Len(wallet.chain) :
            n + MaxReorg <= Len(wallet.chain) => Hash(wallet.chain, n) = Hash(chain', n)
      BY <3>1 DEF ChainsAgree
    <3>3. pc # "idle" => scan'.reorged = scan.reorged + 1 /\ scan'.walletHeight = scan.walletHeight
      BY <1>0, <2>2 DEF ScanOK, NoScan
    <3>4. pc # "idle" => scan'.reorged # 0 /\ scan'.walletHeight = scan.walletHeight
      BY <1>0, <3>3
    <3>5. QED
      BY <2>2, <3>2, <3>4 DEF ChainsAgree, Working
  <2>3. QED
    BY <1>1, <2>1, <2>2, ChainSteps
<1>2. CASE chain' = chain
  <2>1. CASE /\ wallet'.chain = wallet.chain
             /\ \/ pc' \notin Reading
                \/ /\ pc' \in Working /\ pc \in Reading
                   /\ scan'.reorged = 0 => scan.reorged = 0
                   /\ ReadWalletHeight \/ (pc \in Working /\ scan'.walletHeight = scan.walletHeight)
                \/ /\ pc = "walletHeight" /\ pc' = "walletHeight"
                   /\ scan'.reorged = 0 => scan.reorged = 0
    <3>1. CASE pc' \notin Reading
      BY <1>2, <2>1, <3>1 DEF ChainsAgree
    <3>2. CASE /\ pc' \in Working /\ pc \in Reading
               /\ scan'.reorged = 0 => scan.reorged = 0
               /\ ReadWalletHeight \/ (pc \in Working /\ scan'.walletHeight = scan.walletHeight)
      <4>1. scan'.walletHeight - 1 <= Len(wallet.chain)
        <5>1. CASE ReadWalletHeight
          <6>1. scan'.walletHeight = Len(wallet.chain) + 1
            BY <1>0, <5>1 DEF ReadWalletHeight, ScanOK, NoScan
          <6>2. QED
            BY <1>0, <6>1
        <5>2. CASE pc \in Working /\ scan'.walletHeight = scan.walletHeight
          BY <5>2 DEF ChainsAgree
        <5>3. QED
          BY <3>2, <5>1, <5>2
      <4>2. QED
        BY <1>2, <2>1, <3>2, <4>1 DEF ChainsAgree
    <3>3. CASE pc = "walletHeight" /\ pc' = "walletHeight" /\ (scan'.reorged = 0 => scan.reorged = 0)
      BY <1>2, <2>1, <3>3 DEF ChainsAgree, Working
    <3>4. QED
      BY <2>1, <3>1, <3>2, <3>3
  <2>2. CASE wallet'.chain = chain /\ (pc' \in Working => pc \in Working /\ scan' = scan)
    <3>1. Hash(chain, Len(chain)) = chain
      BY <1>0, ChainFacts
    <3>2. pc' \in Working => scan'.walletHeight - 1 <= Len(chain)
      BY <1>0, <2>2 DEF Typed, DaemonIsAhead
    <3>3. QED
      BY <1>2, <2>2, <3>1, <3>2 DEF ChainsAgree
  <2>3. CASE wallet'.chain = <<>> /\ pc' = "refresh"
    <3>1. wallet'.chain \in Chains /\ Len(wallet'.chain) = 0
      BY <2>3 DEF Chains
    <3>2. \A n \in 0..Len(wallet'.chain) : n = 0
      BY <3>1
    <3>3. Hash(wallet'.chain, 0) = Hash(chain, 0)
      BY <1>0, SubSeqEmpty DEF Hash
    <3>4. QED
      BY <1>2, <2>3, <3>2, <3>3 DEF ChainsAgree, Working
  <2>4. CASE /\ \E k \in 0..Len(wallet.chain) : wallet'.chain = Hash(wallet.chain, k)
             /\ pc' = "idle"
    <3>1. PICK k \in 0..Len(wallet.chain) : wallet'.chain = Hash(wallet.chain, k)
      BY <2>4
    <3>2. Len(wallet'.chain) = k /\ \A m \in 0..k : Hash(wallet'.chain, m) = Hash(wallet.chain, m)
      <4>1. wallet.chain \in Chains
        BY <1>0
      <4>2. /\ Len(Hash(wallet.chain, k)) = k
            /\ \A m \in 0..k : Hash(Hash(wallet.chain, k), m) = Hash(wallet.chain, m)
        BY <4>1, HashAt
      <4>3. QED
        BY <3>1, <4>2, Zenon
    <3>3. \A n \in 0..k : n + MaxReorg <= k => n \in 0..Len(wallet.chain) /\ n + MaxReorg <= Len(wallet.chain)
      BY <1>0
    <3>4. QED
      BY <1>2, <2>4, <3>2, <3>3 DEF ChainsAgree, Working
  <2>5. QED
    BY <1>2, <2>1, <2>2, <2>3, <2>4, WalletSteps
<1>3. QED
  BY <1>1, <1>2

LEMMA ChainsAlwaysAgree == Spec => []ChainsAgree
<1>1. Init => ChainsAgree
  <2> SUFFICES ASSUME Init PROVE ChainsAgree
    OBVIOUS
  <2>1. chain = <<>> /\ wallet.chain = <<>> /\ pc = "idle" /\ chain \in Chains
    BY DEF Init, Chains
  <2>2. DOMAIN chain = {}
    BY <2>1
  <2>3. OncePerChain(chain)
    BY <2>2 DEF OncePerChain
  <2>4. QED
    BY <2>1, <2>3 DEF ChainsAgree, Working
<1>2. Typed /\ ChainsAgree /\ [Next]_vars => ChainsAgree'
  BY ChainsStayInAgreement
<1>3. QED
  BY <1>1, <1>2, AlwaysTyped, PTL DEF Spec

-----------------------------------------------------------------------------
(* One copy of the registry, on its way to the registry of a chain that    *)
(* the daemon and the wallet agree on and keep.                            *)

\* Before the transfers are listed no block has been fetched.
NothingFetched == pc \in Gathering \ {"blocks"} => scan.blocks = NoScan.blocks

LEMMA StillNothingFetched ==
  ASSUME Typed, NothingFetched, [Next]_vars
  PROVE  NothingFetched'
<1>0. ScanOK(scan)
  BY DEF Typed, TypeOK
<1> USE DEF Working, Gathering, NothingFetched
<1>1. CASE pc' \in Working
  <2>1. CASE Waits
    BY <2>1 DEF Waits
  <2>2. CASE Forks
    <3>1. scan'.blocks = scan.blocks /\ pc' = pc
      BY <1>0, <2>2 DEF Forks, ScanOK, NoScan
    <3>2. QED
      BY <3>1
  <2>3. CASE ReadWalletHeight
    <3>1. scan'.blocks = scan.blocks /\ pc = "walletHeight"
      BY <1>0, <2>3 DEF ReadWalletHeight, ScanOK, NoScan
    <3>2. QED
      BY <3>1
  <2>4. CASE ReadTip
    <3>1. scan'.blocks = scan.blocks /\ pc = "tip"
      BY <1>0, <2>4 DEF ReadTip, ScanOK, NoScan
    <3>2. QED
      BY <3>1
  <2>5. CASE Lists \/ SortTransfers \/ ReadDurableHash \/ Rechecks \/ Save
    BY <2>5 DEF Lists, SortTransfers, ReadDurableHash, Rechecks, Save, GoOn
  <2>6. ASSUME NEW h \in HeightsToFetch, Fetches(h) PROVE NothingFetched'
    BY <2>6 DEF Fetches
  <2>7. ASSUME NEW r \in scan.found, Replays(r) PROVE NothingFetched'
    BY <2>7 DEF Replays
  <2>8. QED
    BY <1>1, <2>1, <2>2, <2>3, <2>4, <2>5, <2>6, <2>7, WorkSteps
<1>2. CASE pc' \notin Working
  <2>1. ASSUME scan' = NoScan PROVE NothingFetched'
    BY <2>1
  <2>2. GiveUp \/ Publish \/ RebuildFails \/ CallFails \/ Restart => NothingFetched'
    BY <2>1 DEF GiveUp, Publish, RebuildFails, CallFails, Restart
  <2>3. Mine \/ AutoRefresh \/ WalletDies \/ UNCHANGED vars => NothingFetched'
    BY <1>2 DEF Mine, AutoRefresh, WalletDies, vars
  <2>4. ASSUME NEW d \in 1..MaxReorg, Reorg(d) PROVE NothingFetched'
    <3>1. pc' = pc /\ scan' = IF pc = "idle" THEN scan ELSE [scan EXCEPT !.reorged = @ + 1]
      BY <2>4, Zenon DEF Reorg
    <3>2. scan'.blocks = scan.blocks
      BY <1>0, <3>1 DEF ScanOK, NoScan
    <3>3. QED
      BY <3>1, <3>2
  <2>5. CASE RebuildWallet
    <3>1. scan'.blocks = NoScan.blocks
      BY <2>5 DEF RebuildWallet, NoScan
    <3>2. QED
      BY <3>1
  <2>6. CASE Refresh
    <3>1. scan'.blocks = scan.blocks /\ pc = "refresh"
      BY <1>0, <2>6 DEF Refresh, ScanOK, NoScan
    <3>2. QED
      BY <3>1
  <2>7. CASE Step /\ ~RebuildWallet /\ ~Refresh /\ ~Publish /\ ~GiveUp
    <3>1. pc \in Gathering \ {"blocks"} /\ scan' = scan
      BY <1>2, <2>7 DEF Step, GoOn, StartScan, RefreshTooDeep, WalletUnreachable, ReadWalletHeight,
         ReadTip, GetTransfers, CheckBlock, SortTransfers, ReplayTransfer, ReadDurableHash,
         RecheckTip, Save
    <3>2. QED
      BY <3>1
  <2>8. QED
    BY <2>2, <2>3, <2>4, <2>5, <2>6, <2>7 DEF Next, Environment
<1>3. QED
  BY <1>1, <1>2

\* A scan that is at p has still to replay of the chain c what it found and not
\* yet replayed, or has the registry of c.
Follows(p, found, blocks, reg, c) ==
  /\ p \in {"blocks", "replay"} =>
       /\ Tracks(c, reg, found)
       /\ \A h \in DOMAIN blocks : h \in 0..Len(c) => blocks[h] = Hash(c, h)
  /\ p = "replay" => \A s \in found : s.height \in DOMAIN blocks
  /\ p \in {"recheck", "save", "publish"} => reg = CanonicalReplay(c)

LEMMA FollowsOn ==
  ASSUME Typed, NothingFetched, [Next]_vars, pc' \in Working, ~ReadWalletHeight,
         NEW c \in Chains, OncePerChain(c),
         Len(c) <= Len(chain), Hash(chain, Len(c)) = c,
         Len(c) <= Len(wallet.chain), Hash(wallet.chain, Len(c)) = c,
         NEW reg, NEW reg2,
         pc \in Gathering => reg = NewReplay,
         \A r \in scan.found : Replays(r) =>
           reg2 = IF r.height <= Len(c) THEN Replayed(reg, Transfer(r.txid, r.height)) ELSE reg,
         (\A r \in scan.found : ~Replays(r)) => reg2 = reg,
         Follows(pc, scan.found, scan.blocks, reg, c)
  PROVE  Follows(pc', scan'.found, scan'.blocks, reg2, c)
<1>0. /\ ScanOK(scan) /\ scan.found \subseteq [txid : TxIDs, height : Nat]
      /\ chain \in Chains /\ wallet.chain \in Chains /\ Len(c) \in Nat
      /\ Len(chain) \in Nat /\ Len(wallet.chain) \in Nat
      /\ Len(c) \in 0..Len(chain) /\ Len(c) \in 0..Len(wallet.chain)
  BY ChainFacts DEF Typed, TypeOK, ScanOK
<1>a. ASSUME pc' # "replay" \/ pc # "replay" PROVE reg2 = reg
  BY <1>a DEF Replays
<1>1. CASE Waits
  <2>1. \A r \in scan.found : ~Replays(r)
    <3>1. ASSUME NEW r \in scan.found, Replays(r) PROVE FALSE
      BY <1>1, <3>1, ReplayedScan DEF Waits
    <3>2. QED
      BY <3>1
  <2>2. QED
    BY <1>1, <2>1 DEF Waits
<1>2. CASE Forks
  <2>1. scan'.found = scan.found /\ scan'.blocks = scan.blocks /\ pc' = pc
    BY <1>0, <1>2 DEF Forks, ScanOK, NoScan
  <2>2. \A r \in scan.found : ~Replays(r)
    <3>1. ASSUME NEW r \in scan.found, Replays(r) PROVE FALSE
      BY <2>1, <3>1, ReplayedScan
    <3>2. QED
      BY <3>1
  <2>3. QED
    BY <2>1, <2>2
<1>3. CASE ReadTip
  BY <1>3 DEF ReadTip, GoOn, Follows
<1>4. CASE Lists
  <2>1. /\ scan'.found = Received(wallet.chain) /\ scan'.blocks = scan.blocks
        /\ pc = "transfers" /\ pc' = "blocks"
    BY <1>0, <1>4 DEF Lists, ScanOK, NoScan
  <2>2. reg2 = NewReplay
    BY <1>a, <2>1 DEF Gathering
  <2>3. Tracks(c, NewReplay, Received(wallet.chain))
    BY <1>0, TracksFromTheStart
  <2>4. DOMAIN scan'.blocks = {}
    BY <2>1 DEF NothingFetched, Gathering, NoScan
  <2>5. QED
    BY <2>1, <2>2, <2>3, <2>4 DEF Follows
<1>5. ASSUME NEW h \in HeightsToFetch, Fetches(h) PROVE Follows(pc', scan'.found, scan'.blocks, reg2, c)
  <2>1. /\ scan'.found = scan.found /\ scan'.blocks = Put(scan.blocks, h, Hash(chain, h))
        /\ pc = "blocks" /\ pc' = "blocks"
    BY <1>0, <1>5 DEF Fetches, ScanOK, NoScan
  <2>2. h \in 0..Len(c) => Hash(chain, h) = Hash(c, h)
    BY <1>0, HashAt
  <2>3. \A k \in DOMAIN scan'.blocks : k \in 0..Len(c) => scan'.blocks[k] = Hash(c, k)
    BY <2>1, <2>2 DEF Put, Follows
  <2>4. reg2 = reg
    BY <1>a, <2>1
  <2>5. QED
    BY <2>1, <2>3, <2>4 DEF Follows
<1>6. CASE SortTransfers
  <2>1. pc = "blocks" /\ pc' = "replay" /\ scan' = scan /\ HeightsToFetch = {}
    BY <1>6 DEF SortTransfers, GoOn
  <2>2. \A s \in scan.found : s.height \in DOMAIN scan.blocks
    BY <2>1 DEF HeightsToFetch
  <2>3. reg2 = reg
    BY <1>a, <2>1
  <2>4. QED
    BY <2>1, <2>2, <2>3 DEF Follows
<1>7. ASSUME NEW r \in scan.found, Replays(r) PROVE Follows(pc', scan'.found, scan'.blocks, reg2, c)
  <2>1. /\ scan'.found = scan.found \ {r} /\ scan'.blocks = scan.blocks
        /\ pc = "replay" /\ pc' = "replay" /\ \A s \in scan.found : ~Before(scan.blocks, s, r)
    BY <1>0, <1>7 DEF Replays, ScanOK, NoScan
  <2>2. reg2 = IF r.height <= Len(c) THEN Replayed(reg, Transfer(r.txid, r.height)) ELSE reg
    BY <1>7
  <2>3. Tracks(c, reg, scan.found)
    BY <2>1 DEF Follows
  <2>4. Tracks(c, reg2, scan'.found)
    <3>1. CASE r.height <= Len(c)
      <4>1. \A s \in scan.found : s.height <= Len(c) => s.height \in 0..Len(c)
        BY <1>0
      <4>2. \A s \in scan.found : s.height <= Len(c) => scan.blocks[s.height] = Hash(c, s.height)
        BY <2>1, <4>1 DEF Follows
      <4>3. Tracks(c, Replayed(reg, Transfer(r.txid, r.height)), scan.found \ {r})
        BY <2>1, <2>3, <3>1, <4>2, TracksOn
      <4>4. QED
        BY <2>1, <2>2, <3>1, <4>3
    <3>2. CASE ~(r.height <= Len(c))
      BY <2>1, <2>2, <2>3, <3>2, TracksPast
    <3>3. QED
      BY <3>1, <3>2
  <2>5. QED
    BY <2>1, <2>4 DEF Follows
<1>8. CASE ReadDurableHash
  <2>1. pc = "replay" /\ pc' = "recheck" /\ scan.found = {}
    BY <1>8 DEF ReadDurableHash, GoOn
  <2>2. reg2 = reg
    BY <1>a, <2>1
  <2>3. reg = CanonicalReplay(c)
    BY <2>1, TracksToTheEnd DEF Follows
  <2>4. QED
    BY <2>1, <2>2, <2>3 DEF Follows
<1>9. CASE Rechecks \/ Save
  <2>1. pc \in {"recheck", "save"} /\ pc' \in {"save", "publish"}
    BY <1>9 DEF Rechecks, Save, GoOn
  <2>2. reg2 = reg
    BY <1>a, <2>1
  <2>3. QED
    BY <2>1, <2>2 DEF Follows
<1>10. QED
  BY <1>1, <1>2, <1>3, <1>4, <1>5, <1>6, <1>7, <1>8, <1>9, WorkSteps

\* Only a replayed transfer changes the copies of a scan at work.
LEMMA CopiesKept ==
  ASSUME Typed, [Next]_vars, pc' \in Working, \A r \in scan.found : ~Replays(r)
  PROVE  scan'.visible = scan.visible /\ scan'.durable = scan.durable
<1>0. ScanOK(scan)
  BY DEF Typed, TypeOK
<1>1. CASE Waits \/ SortTransfers \/ Rechecks \/ Save
  BY <1>1 DEF Waits, SortTransfers, Rechecks, Save
<1>2. CASE Forks
  BY <1>0, <1>2 DEF Forks, ScanOK, NoScan
<1>3. CASE ReadWalletHeight \/ ReadTip
  BY <1>0, <1>3 DEF ReadWalletHeight, ReadTip, ScanOK, NoScan
<1>4. CASE Lists
  BY <1>0, <1>4 DEF Lists, ScanOK, NoScan
<1>5. CASE ReadDurableHash
  BY <1>0, <1>5 DEF ReadDurableHash, ScanOK, NoScan
<1>6. ASSUME NEW h \in HeightsToFetch, Fetches(h)
      PROVE  scan'.visible = scan.visible /\ scan'.durable = scan.durable
  BY <1>0, <1>6 DEF Fetches, ScanOK, NoScan
<1>7. QED
  BY <1>1, <1>2, <1>3, <1>4, <1>5, <1>6, WorkSteps

\* A transaction that is in a chain once is in any part of it at most once.
LEMMA OnceUpTo ==
  ASSUME NEW c \in Chains, OncePerChain(c), NEW n \in 0..Len(c)
  PROVE  OncePerChain(Hash(c, n))
<1>1. Len(c) \in Nat /\ DOMAIN c = 1..Len(c)
  BY ChainFacts
<1>2. DOMAIN Hash(c, n) = 1..n /\ \A h \in 1..n : h \in DOMAIN c /\ Hash(c, n)[h] = c[h]
  BY <1>1, HashAt
<1>3. QED
  BY <1>2 DEF OncePerChain

\* What the height a scan works with says of the chains.
LEMMA HeightFacts ==
  ASSUME Typed, ChainsAgree, pc \in Working
  PROVE  /\ chain \in Chains /\ wallet.chain \in Chains /\ Len(chain) \in Nat /\ Len(wallet.chain) \in Nat
         /\ scan.walletHeight - 1 \in 0..Len(wallet.chain)
         /\ scan.walletHeight - 1 \in 0..Len(chain)
BY SMTT(30) DEF Typed, TypeOK, ScanOK, DaemonIsAhead, ChainsAgree, Working, Chains

\* While the chain is not reorganised, the visible copy is on its way to the
\* registry of the chain up to the height that was read.
QuietlyFollows ==
  pc \in Working /\ scan.reorged = 0 => Follows(pc, scan.found, scan.blocks, scan.visible, Tip)

LEMMA QuietlyFollowsOn ==
  ASSUME Typed, HeightsInOrder, ChainsAgree, NothingFetched, QuietlyFollows, [Next]_vars
  PROVE  QuietlyFollows'
<1> SUFFICES ASSUME pc' \in Working, scan'.reorged = 0
             PROVE  Follows(pc', scan'.found, scan'.blocks, scan'.visible, Tip')
  BY DEF QuietlyFollows
<1>0. ScanOK(scan) /\ scan.reorged \in Nat /\ scan.walletHeight \in Nat
  BY DEF Typed, TypeOK, ScanOK
<1>1. CASE ReadWalletHeight
  BY <1>1 DEF ReadWalletHeight, GoOn, Follows
<1>2. CASE ~ReadWalletHeight
  <2>1. /\ pc \in Working /\ scan.reorged = 0 /\ scan'.walletHeight = scan.walletHeight
    <3>1. pc \in Working /\ scan'.walletHeight = scan.walletHeight
      BY <1>2, WalletSteps DEF Working
    <3>2. scan.reorged = 0
      BY WalletSteps DEF Working
    <3>3. QED
      BY <3>1, <3>2
  <2> DEFINE n == scan.walletHeight - 1
  <2>2. /\ chain \in Chains /\ wallet.chain \in Chains /\ Len(chain) \in Nat /\ Len(wallet.chain) \in Nat
        /\ n \in 0..Len(wallet.chain) /\ n \in 0..Len(chain)
    BY <2>1, HeightFacts
  <2>3. PICK c \in Chains : c = Tip
    BY <2>2, HashAt DEF Tip
  <2>4. Len(c) = n /\ OncePerChain(c)
    BY <2>2, <2>3, HashAt, OnceUpTo DEF Tip, ChainsAgree
  <2>5. Hash(wallet.chain, n) = c
    <3>1. Hash(chain, Len(wallet.chain)) = wallet.chain
      BY <2>1 DEF ChainsAgree
    <3>2. Len(wallet.chain) \in 0..Len(chain)
      BY <2>2 DEF Typed, DaemonIsAhead
    <3>3. Hash(Hash(chain, Len(wallet.chain)), n) = Hash(chain, n)
      BY <2>2, <3>2, HashAt
    <3>4. QED
      BY <2>3, <3>1, <3>3 DEF Tip
  <2>6. Tip' = c
    <3>1. Hash(chain', n) = Hash(chain, n)
      <4>1. CASE chain' = chain
        BY <4>1
      <4>2. CASE \A m \in 0..Len(chain) : Hash(chain', m) = Hash(chain, m)
        BY <2>2, <4>2
      <4>3. CASE scan' = IF pc = "idle" THEN scan ELSE [scan EXCEPT !.reorged = @ + 1]
        <5>1. scan'.reorged = scan.reorged + 1
          BY <1>0, <2>1, <4>3 DEF Working, ScanOK, NoScan
        <5>2. QED
          BY <1>0, <5>1
      <4>4. QED
        BY <4>1, <4>2, <4>3, ChainSteps
    <3>2. QED
      BY <2>1, <2>3, <3>1 DEF Tip
  <2>7. Follows(pc, scan.found, scan.blocks, scan.visible, c)
    BY <2>1, <2>3 DEF QuietlyFollows
  <2>8. \A r \in scan.found : Replays(r) =>
          scan'.visible = IF r.height <= Len(c) THEN Replayed(scan.visible, Transfer(r.txid, r.height))
                          ELSE scan.visible
    <3> SUFFICES ASSUME NEW r \in scan.found, Replays(r)
                 PROVE  r.height <= Len(c) /\ scan'.visible = Replayed(scan.visible, Transfer(r.txid, r.height))
      OBVIOUS
    <3>1. scan'.visible = Replayed(scan.visible, Transfer(r.txid, r.height)) /\ r.height \in Nat
      BY ReplayedScan
    <3>2. r.height < scan.walletHeight
      BY DEF Replays, HeightsInOrder
    <3>3. QED
      BY <1>0, <2>4, <3>1, <3>2
  <2>9. (\A r \in scan.found : ~Replays(r)) => scan'.visible = scan.visible
    BY CopiesKept
  <2>10. pc \in Gathering => scan.visible = NewReplay
    BY DEF HeightsInOrder
  <2>11. /\ Len(c) <= Len(chain) /\ Hash(chain, Len(c)) = c
         /\ Len(c) <= Len(wallet.chain) /\ Hash(wallet.chain, Len(c)) = c
    BY <2>2, <2>3, <2>4, <2>5 DEF Tip
  <2>12. Follows(pc', scan'.found, scan'.blocks, scan'.visible, c)
    BY <1>2, <2>4, <2>7, <2>8, <2>9, <2>10, <2>11, FollowsOn
  <2>13. QED
    BY <2>6, <2>12
<1>3. QED
  BY <1>1, <1>2

LEMMA NothingIsFetchedEarly == Spec => []NothingFetched
<1>1. Init => NothingFetched
  BY DEF Init, NothingFetched
<1>2. Typed /\ NothingFetched /\ [Next]_vars => NothingFetched'
  BY StillNothingFetched
<1>3. QED
  BY <1>1, <1>2, AlwaysTyped, PTL DEF Spec

\* A scan during which the chain was not reorganised hands over exactly the
\* registry of the chain up to the height it read: no transfer missing, none
\* from a block mined since, none out of order, whatever the wallet, the miners
\* and the faults do meanwhile (scanOnce, indexer.go:432-513).
THEOREM QuietScansAreExact == Spec => []QuietScanIsExact
<1>1. Init => QuietlyFollows
  BY DEF Init, QuietlyFollows, Working
<1>2. Typed /\ HeightsInOrder /\ ChainsAgree /\ NothingFetched /\ QuietlyFollows /\ [Next]_vars
        => QuietlyFollows'
  BY QuietlyFollowsOn
<1>3. QuietlyFollows => QuietScanIsExact
  BY DEF QuietlyFollows, QuietScanIsExact, Follows, Working, Tip, Hash
<1>4. QED
  BY <1>1, <1>2, <1>3, AlwaysTyped, HeightsAlwaysInOrder, ChainsAlwaysAgree, NothingIsFetchedEarly,
     PTL DEF Spec

-----------------------------------------------------------------------------
(* What is final stays.  A registry that took in more transfers than       *)
(* another one continues it: each entry is still its owner's, or was given *)
(* to somebody after its expiry.                                           *)

ContinuesNames(names, before) ==
  \A n \in DOMAIN before :
    /\ n \in DOMAIN names
    /\ names[n].ExpirationHeight >= before[n].ExpirationHeight
    /\ \/ /\ names[n].OwnerKey = before[n].OwnerKey
          /\ names[n].FirstClaimHeight = before[n].FirstClaimHeight
       \/ names[n].FirstClaimHeight >= before[n].ExpirationHeight

\* The heights that are compared are numbers.
LEMMA EntryHeights ==
  ASSUME NEW names, IsRegistry(names, TxIDs), NEW n \in DOMAIN names
  PROVE  /\ n \in Names
         /\ names[n].OwnerKey \in Owners
         /\ names[n].ExpirationHeight \in Nat
         /\ names[n].FirstClaimHeight \in Nat
BY DEF IsRegistry, Entries

LEMMA ContinuesItself ==
  ASSUME NEW names, IsRegistry(names, TxIDs)
  PROVE  ContinuesNames(names, names)
BY EntryHeights DEF ContinuesNames

\* An owner who was followed by somebody after his expiry stays followed.
LEMMA ContinuesTransitive ==
  ASSUME NEW a, NEW b, NEW c,
         IsRegistry(a, TxIDs), IsRegistry(b, TxIDs), IsRegistry(c, TxIDs),
         ContinuesNames(b, a), ContinuesNames(c, b)
  PROVE  ContinuesNames(c, a)
<1> SUFFICES ASSUME NEW n \in DOMAIN a
             PROVE  /\ n \in DOMAIN c
                    /\ c[n].ExpirationHeight >= a[n].ExpirationHeight
                    /\ \/ /\ c[n].OwnerKey = a[n].OwnerKey
                          /\ c[n].FirstClaimHeight = a[n].FirstClaimHeight
                       \/ c[n].FirstClaimHeight >= a[n].ExpirationHeight
  BY DEF ContinuesNames
<1>1. /\ n \in DOMAIN b
      /\ b[n].ExpirationHeight >= a[n].ExpirationHeight
      /\ \/ b[n].OwnerKey = a[n].OwnerKey /\ b[n].FirstClaimHeight = a[n].FirstClaimHeight
         \/ b[n].FirstClaimHeight >= a[n].ExpirationHeight
  BY DEF ContinuesNames
<1>2. /\ n \in DOMAIN c
      /\ c[n].ExpirationHeight >= b[n].ExpirationHeight
      /\ \/ c[n].OwnerKey = b[n].OwnerKey /\ c[n].FirstClaimHeight = b[n].FirstClaimHeight
         \/ c[n].FirstClaimHeight >= b[n].ExpirationHeight
  BY <1>1 DEF ContinuesNames
<1>3. /\ a[n].ExpirationHeight \in Nat /\ b[n].ExpirationHeight \in Nat
      /\ c[n].ExpirationHeight \in Nat /\ c[n].FirstClaimHeight \in Nat
  BY <1>1, <1>2, EntryHeights
<1>4. QED
  BY <1>1, <1>2, <1>3

\* A transfer takes a name only at its expiry or later.
LEMMA TransferContinues ==
  ASSUME NEW names, IsRegistry(names, TxIDs), NEW t \in Transfers(TxIDs)
  PROVE  ContinuesNames(NamesAfter(names, t), names)
<1> SUFFICES ASSUME NEW n \in DOMAIN names
             PROVE  LET after == NamesAfter(names, t) IN
                    /\ n \in DOMAIN after
                    /\ after[n].ExpirationHeight >= names[n].ExpirationHeight
                    /\ \/ /\ after[n].OwnerKey = names[n].OwnerKey
                          /\ after[n].FirstClaimHeight = names[n].FirstClaimHeight
                       \/ after[n].FirstClaimHeight >= names[n].ExpirationHeight
  BY DEF ContinuesNames
<1> DEFINE m == t.payload.name
<1>0. /\ names[n] \in Entries(TxIDs) /\ names[n].ExpirationHeight \in Nat
      /\ t.height \in Nat
      /\ Valid(t) => Extension(t.amount) \in Nat
  BY TransferFacts, ValidFacts DEF IsRegistry, Entries
<1>1. CASE n # m \/ NamesAfter(names, t) = names
  <2>1. n \in DOMAIN NamesAfter(names, t) /\ NamesAfter(names, t)[n] = names[n]
    BY <1>1, ApplyCases DEF Put
  <2>2. QED
    BY <1>0, <2>1
<1>2. CASE /\ n = m /\ Claims(names, t)
           /\ NamesAfter(names, t) = Put(names, m, Claimed(t))
  <2>1. n \in DOMAIN NamesAfter(names, t) /\ NamesAfter(names, t)[n] = Claimed(t)
    BY <1>2 DEF Put
  <2>2. names[n].ExpirationHeight <= t.height /\ Extension(t.amount) \in Nat
    BY <1>0, <1>2 DEF Claims, Free
  <2>3. /\ Claimed(t).FirstClaimHeight = t.height
        /\ Claimed(t).ExpirationHeight = t.height + Extension(t.amount)
    BY DEF Claimed
  <2>4. QED
    BY <1>0, <2>1, <2>2, <2>3
<1>3. CASE /\ n = m /\ Renews(names, t)
           /\ NamesAfter(names, t) = Put(names, m, Renewed(names[m], t))
  <2>1. n \in DOMAIN NamesAfter(names, t) /\ NamesAfter(names, t)[n] = Renewed(names[n], t)
    BY <1>3 DEF Put
  <2>2. /\ Renewed(names[n], t).OwnerKey = names[n].OwnerKey
        /\ Renewed(names[n], t).FirstClaimHeight = names[n].FirstClaimHeight
        /\ Renewed(names[n], t).ExpirationHeight = names[n].ExpirationHeight + Extension(t.amount)
    BY <1>0 DEF Renewed, Entries
  <2>3. Extension(t.amount) \in Nat
    BY <1>0, <1>3 DEF Renews
  <2>4. QED
    BY <1>0, <2>1, <2>2, <2>3
<1>4. QED
  BY <1>1, <1>2, <1>3, ApplyCases

-----------------------------------------------------------------------------
(* The registry of a longer chain extends that of a shorter one: its log    *)
(* goes on, and so do the terms of the names.                              *)

IsReplay(reg) == reg = [names |-> reg.names, events |-> reg.events] /\ ReplayOK(reg)

LEMMA PrefixByElements ==
  ASSUME NEW S, NEW s \in Seq(S), NEW t \in Seq(S)
  PROVE  IsPrefix(s, t) <=> Len(s) <= Len(t) /\ \A i \in 1..Len(s) : s[i] = t[i]
<1>0. Len(s) \in Nat /\ Len(t) \in Nat
  OBVIOUS
<1>1. ASSUME Len(s) <= Len(t)
      PROVE  SubSeq(s, 1, Len(s)) = SubSeq(t, 1, Len(s)) <=> \A i \in 1..Len(s) : s[i] = t[i]
  <2> DEFINE u == SubSeq(t, 1, Len(s))
  <2>1. SubSeq(s, 1, Len(s)) = s
    BY SubSeqFull
  <2>2. u \in Seq(S) /\ Len(u) = Len(s) /\ \A i \in 1..Len(s) : u[i] = t[i]
    BY <1>0, <1>1
  <2> HIDE DEF u
  <2>3. (\A i \in 1..Len(s) : s[i] = t[i]) => s = u
    <3>1. ASSUME \A i \in 1..Len(s) : s[i] = t[i] PROVE \A i \in 1..Len(s) : s[i] = u[i]
      BY <2>2, <3>1
    <3>2. QED
      BY <2>2, <3>1, SeqEqual
  <2>4. QED
    BY <2>1, <2>2, <2>3 DEF u
<1>2. QED
  BY <1>1 DEF IsPrefix

LEMMA PrefixTransitive ==
  ASSUME NEW S, NEW s \in Seq(S), NEW t \in Seq(S), NEW u \in Seq(S), IsPrefix(s, t), IsPrefix(t, u)
  PROVE  IsPrefix(s, u)
<1>1. Len(s) <= Len(t) /\ \A i \in 1..Len(s) : s[i] = t[i]
  BY PrefixByElements
<1>2. Len(t) <= Len(u) /\ \A i \in 1..Len(t) : t[i] = u[i]
  BY PrefixByElements
<1>3. Len(s) \in Nat /\ Len(t) \in Nat /\ Len(u) \in Nat
  OBVIOUS
<1>4. Len(s) <= Len(u) /\ \A i \in 1..Len(s) : s[i] = u[i]
  BY <1>1, <1>2, <1>3
<1>5. QED
  BY <1>4, PrefixByElements

Extends(reg, before) ==
  /\ IsPrefix(before.events, reg.events)
  /\ ContinuesNames(reg.names, before.names)

LEMMA ExtendsItself ==
  ASSUME NEW reg, IsReplay(reg)
  PROVE  Extends(reg, reg)
<1>1. IsPrefix(reg.events, reg.events)
  BY DEF IsPrefix
<1>2. ContinuesNames(reg.names, reg.names)
  BY ContinuesItself DEF IsReplay, ReplayOK
<1>3. QED
  BY <1>1, <1>2 DEF Extends

LEMMA ExtendsTransitive ==
  ASSUME NEW a, NEW b, NEW c, IsReplay(a), IsReplay(b), IsReplay(c), Extends(b, a), Extends(c, b)
  PROVE  Extends(c, a)
<1>1. /\ a.events \in Seq(Events(TxIDs)) /\ IsRegistry(a.names, TxIDs)
      /\ b.events \in Seq(Events(TxIDs)) /\ IsRegistry(b.names, TxIDs)
      /\ c.events \in Seq(Events(TxIDs)) /\ IsRegistry(c.names, TxIDs)
  BY DEF IsReplay, ReplayOK
<1>2. IsPrefix(a.events, c.events)
  BY <1>1, PrefixTransitive DEF Extends
<1>3. ContinuesNames(c.names, a.names)
  BY <1>1, ContinuesTransitive DEF Extends
<1>4. QED
  BY <1>2, <1>3 DEF Extends

\* One transfer adds one event to the log.
LEMMA ReplayedGrows ==
  ASSUME NEW reg, IsReplay(reg), NEW x \in TxIDs, NEW h \in Nat
  PROVE  /\ IsReplay(Replayed(reg, Transfer(x, h)))
         /\ Extends(Replayed(reg, Transfer(x, h)), reg)
<1> DEFINE r == [txid |-> x, height |-> h]
           t == Transfer(x, h)
<1>1. t \in Transfers(TxIDs)
  <2>1. r \in [txid : TxIDs, height : Nat] /\ r.txid = x /\ r.height = h
    OBVIOUS
  <2>2. Transfer(r.txid, r.height) \in Transfers(TxIDs)
    BY <2>1, TransferType
  <2>3. QED
    BY <2>1, <2>2
<1> HIDE DEF t
<1>2. ReplayOK(Replayed(reg, t))
  BY <1>1, ReplayedType DEF IsReplay
<1>3. Replayed(reg, t) = [names |-> Replayed(reg, t).names, events |-> Replayed(reg, t).events]
  BY DEF Replayed
<1>4. reg.events \in Seq(Events(TxIDs)) /\ EventOf(reg.names, t) \in Events(TxIDs)
  BY <1>1, EventType DEF IsReplay, ReplayOK
<1>5. IsPrefix(reg.events, reg.events)
  BY DEF IsPrefix
<1>6. IsPrefix(reg.events, Append(reg.events, EventOf(reg.names, t)))
  BY <1>4, <1>5, PrefixFacts
<1>7. /\ Replayed(reg, t).events = Append(reg.events, EventOf(reg.names, t))
      /\ Replayed(reg, t).names = NamesAfter(reg.names, t)
  BY DEF Replayed
<1>8. ContinuesNames(NamesAfter(reg.names, t), reg.names)
  BY <1>1, TransferContinues DEF IsReplay, ReplayOK
<1>9. QED
  BY <1>2, <1>3, <1>6, <1>7, <1>8 DEF IsReplay, Extends, t

LEMMA NextTransfer ==
  ASSUME NEW reg, NEW b \in Seq(TxIDs), NEW h \in Nat, NEW k \in 0..(Len(b) - 1)
  PROVE  ReplayedBlock(reg, SubSeq(b, 1, k + 1), h) =
           Replayed(ReplayedBlock(reg, SubSeq(b, 1, k), h), Transfer(b[k + 1], h))
<1>1. ASSUME NEW n \in 1..Len(b)
      PROVE  ReplayedBlock(reg, SubSeq(b, 1, n), h) =
               Replayed(ReplayedBlock(reg, SubSeq(b, 1, n - 1), h), Transfer(b[n], h))
  BY BlockStep
<1>2. k + 1 \in 1..Len(b) /\ (k + 1) - 1 = k
  OBVIOUS
<1>3. ReplayedBlock(reg, SubSeq(b, 1, k + 1), h) =
        Replayed(ReplayedBlock(reg, SubSeq(b, 1, (k + 1) - 1), h), Transfer(b[k + 1], h))
  BY <1>1, <1>2
<1>4. QED
  BY <1>2, <1>3

\* A block adds its events to the log.
LEMMA BlockGrows ==
  ASSUME NEW reg, IsReplay(reg), NEW b \in Seq(TxIDs), NEW h \in Nat
  PROVE  /\ IsReplay(ReplayedBlock(reg, b, h))
         /\ Extends(ReplayedBlock(reg, b, h), reg)
<1> DEFINE R(i) == ReplayedBlock(reg, SubSeq(b, 1, i), h)
           T == {i \in 0..Len(b) : IsReplay(R(i)) /\ Extends(R(i), reg)}
<1>0. Len(b) \in Nat /\ SubSeq(b, 1, 0) = <<>> /\ SubSeq(b, 1, Len(b)) = b
  BY SubSeqEmpty, SubSeqFull
<1>1. 0 \in T
  <2>1. R(0) = reg
    BY <1>0, BlockStep
  <2>2. Extends(reg, reg)
    BY ExtendsItself
  <2> HIDE DEF R
  <2>3. QED
    BY <1>0, <2>1, <2>2
<1>2. ASSUME NEW k \in 0..(Len(b) - 1), k \in T PROVE k + 1 \in T
  <2>1. k + 1 \in 1..Len(b) /\ (k + 1) - 1 = k /\ b[k + 1] \in TxIDs /\ k + 1 \in 0..Len(b)
    BY <1>0
  <2>2. R(k + 1) = Replayed(R(k), Transfer(b[k + 1], h))
    BY NextTransfer
  <2> HIDE DEF R
  <2>3. IsReplay(R(k)) /\ Extends(R(k), reg)
    BY <1>2
  <2>4. IsReplay(R(k + 1)) /\ Extends(R(k + 1), R(k))
    BY <2>1, <2>2, <2>3, ReplayedGrows
  <2>5. Extends(R(k + 1), reg)
    BY <2>3, <2>4, ExtendsTransitive
  <2>6. QED
    BY <2>1, <2>4, <2>5
<1>3. Len(b) \in T
  <2> HIDE DEF T
  <2>1. \A i \in 0..Len(b) : i \in T
    BY <1>0, <1>1, <1>2, Induction
  <2>2. QED
    BY <1>0, <2>1
<1>4. R(Len(b)) = ReplayedBlock(reg, b, h)
  BY <1>0
<1> HIDE DEF R
<1>5. QED
  BY <1>3, <1>4

\* The registry of a chain is a registry.
LEMMA CanonicalType ==
  ASSUME NEW c \in Chains, NEW k \in 0..Len(c)
  PROVE  IsReplay(CanonicalReplay(Hash(c, k)))
<1> DEFINE R(h) == CanonicalReplay(Hash(c, h))
           T == {h \in 0..Len(c) : IsReplay(R(h))}
<1>0. Len(c) \in Nat
  BY ChainFacts
<1>1. 0 \in T
  <2>1. R(0) = NewReplay
    BY ChainStep
  <2>2. IsReplay(NewReplay)
    BY DEF IsReplay, ReplayOK, NewReplay, NewRegistry, IsRegistry
  <2> HIDE DEF R
  <2>3. QED
    BY <1>0, <2>1, <2>2
<1>2. ASSUME NEW m \in 0..(Len(c) - 1), m \in T PROVE m + 1 \in T
  <2>1. m + 1 \in 1..Len(c) /\ (m + 1) - 1 = m /\ m + 1 \in 0..Len(c) /\ m + 1 \in Nat
    BY <1>0
  <2>2. c[m + 1] \in Seq(TxIDs)
    BY <2>1, ChainFacts
  <2>3. R(m + 1) = ReplayedBlock(R((m + 1) - 1), c[m + 1], m + 1)
    BY <2>1, ChainStep
  <2> HIDE DEF R
  <2>4. IsReplay(R(m + 1))
    BY <1>2, <2>1, <2>2, <2>3, BlockGrows
  <2>5. QED
    BY <2>1, <2>4
<1>3. k \in T
  <2> HIDE DEF T
  <2>1. \A h \in 0..Len(c) : h \in T
    BY <1>0, <1>1, <1>2, Induction
  <2>2. QED
    BY <2>1
<1>4. QED
  BY <1>3

\* So the registry of a chain extends that of each of its parts.
LEMMA CanonicalGrows ==
  ASSUME NEW c \in Chains, NEW k \in 0..Len(c)
  PROVE  Extends(CanonicalReplay(c), CanonicalReplay(Hash(c, k)))
<1> DEFINE R(h) == CanonicalReplay(Hash(c, h))
           T == {h \in 0..Len(c) : k <= h => Extends(R(h), R(k))}
<1>0. Len(c) \in Nat /\ Hash(c, Len(c)) = c /\ k \in Nat /\ k <= Len(c)
  BY ChainFacts
<1>a. \A h \in 0..Len(c) : IsReplay(R(h))
  BY CanonicalType
<1>b. Extends(R(k), R(k))
  BY <1>a, ExtendsItself
<1>1. 0 \in T
  <2>1. k <= 0 => k = 0
    BY <1>0
  <2> HIDE DEF R
  <2>2. QED
    BY <1>0, <1>b, <2>1
<1>2. ASSUME NEW m \in 0..(Len(c) - 1), m \in T PROVE m + 1 \in T
  <2>1. m + 1 \in 1..Len(c) /\ (m + 1) - 1 = m /\ m + 1 \in 0..Len(c) /\ m + 1 \in Nat
    BY <1>0
  <2>2. c[m + 1] \in Seq(TxIDs)
    BY <2>1, ChainFacts
  <2>3. R(m + 1) = ReplayedBlock(R(m), c[m + 1], m + 1)
    <3>1. R(m + 1) = ReplayedBlock(R((m + 1) - 1), c[m + 1], m + 1)
      BY <2>1, ChainStep
    <3>2. QED
      BY <2>1, <3>1
  <2> HIDE DEF R
  <2>4. IsReplay(R(m)) /\ m \in 0..Len(c)
    BY <1>0, <1>a
  <2>5. Extends(R(m + 1), R(m))
    BY <2>1, <2>2, <2>3, <2>4, BlockGrows
  <2>6. ASSUME k <= m + 1 PROVE Extends(R(m + 1), R(k))
    <3>1. CASE k = m + 1
      BY <1>b, <3>1
    <3>2. CASE k <= m
      <4>1. Extends(R(m), R(k))
        BY <1>2, <3>2
      <4>2. IsReplay(R(k)) /\ IsReplay(R(m)) /\ IsReplay(R(m + 1))
        BY <1>a, <2>1, <2>4
      <4>3. QED
        BY <2>5, <4>1, <4>2, ExtendsTransitive
    <3>3. QED
      BY <1>0, <2>1, <2>6, <3>1, <3>2
  <2>7. QED
    BY <2>1, <2>6
<1>3. Len(c) \in T
  <2> HIDE DEF T
  <2>1. \A h \in 0..Len(c) : h \in T
    BY <1>0, <1>1, <1>2, Induction
  <2>2. QED
    BY <1>0, <2>1
<1>4. R(Len(c)) = CanonicalReplay(c)
  BY <1>0
<1> HIDE DEF R
<1>5. QED
  BY <1>0, <1>3, <1>4 DEF R

-----------------------------------------------------------------------------
(* The stored registry, as long as no reorganisation is as deep as the     *)
(* confirmations.  What is durable is then below anything that a           *)
(* reorganisation can still replace.                                       *)

ReorgsAreShallow == MaxReorg < Confirmations

DurableTip == Hash(chain, DurableHeight(scan.walletHeight))

\* What is known of a durable height: all blocks up to it are there to stay.
LEMMA DurableIsDeep ==
  ASSUME ReorgsAreShallow, NEW h \in Nat \ {0}, NEW c \in Chains, h - 1 <= Len(c)
  PROVE  /\ DurableHeight(h) \in 0..Len(c) /\ DurableHeight(h) <= h - 1
         /\ DurableHeight(h) = 0 \/ DurableHeight(h) + MaxReorg <= Len(c)
<1>1. Len(c) \in Nat /\ Confirmations \in Nat \ {0} /\ MaxReorg \in Nat /\ MaxReorg < Confirmations
  BY ChainFacts, BoundsAssumption DEF ReorgsAreShallow
<1>2. QED
  BY <1>1 DEF DurableHeight

\* A step never changes blocks that are that deep.
LEMMA DeepBlocksStay ==
  ASSUME Typed, [Next]_vars, NEW n \in 0..Len(chain), n = 0 \/ n + MaxReorg <= Len(chain)
  PROVE  Hash(chain', n) = Hash(chain, n) /\ Len(chain') >= Len(chain)
<1>0. Len(chain) \in Nat /\ n \in Nat
  BY DEF Typed, TypeOK, Chains
<1>1. CASE chain' = chain
  BY <1>0, <1>1
<1>2. CASE /\ Len(chain') >= Len(chain)
           /\ \A m \in 0..Len(chain) : Hash(chain', m) = Hash(chain, m)
  BY <1>2
<1>3. CASE /\ Len(chain') >= Len(chain)
           /\ \A m \in Nat : m + MaxReorg <= Len(chain) => Hash(chain', m) = Hash(chain, m)
  <2>1. CASE n = 0
    <3>1. Hash(chain', n) = <<>> /\ Hash(chain, n) = <<>>
      BY <2>1, SubSeqEmpty DEF Hash
    <3>2. QED
      BY <1>3, <3>1
  <2>2. CASE n + MaxReorg <= Len(chain)
    BY <1>0, <1>3, <2>2
  <2>3. QED
    BY <2>1, <2>2
<1>4. QED
  BY <1>1, <1>2, <1>3, ChainSteps

\* The durable copy is on its way to the registry of the chain up to the
\* durable height, and the hash stored with it is the one of that block.
DurablyFollows ==
  /\ pc \in Working => Follows(pc, scan.found, scan.blocks, scan.durable, DurableTip)
  /\ pc \in {"recheck", "save", "publish"} => scan.anchor = DurableTip

LEMMA DurableFacts ==
  ASSUME ReorgsAreShallow, Typed, ChainsAgree, [Next]_vars, pc \in Working
  PROVE  LET d == DurableHeight(scan.walletHeight)
         IN /\ d \in 0..Len(chain) /\ d \in 0..Len(wallet.chain) /\ d \in Nat
            /\ DurableTip \in Chains /\ Len(DurableTip) = d /\ OncePerChain(DurableTip)
            /\ Hash(wallet.chain, d) = DurableTip
            /\ Hash(chain', d) = DurableTip
            /\ d = 0 \/ d + MaxReorg <= Len(chain)
<1> DEFINE d == DurableHeight(scan.walletHeight)
<1>1. /\ chain \in Chains /\ wallet.chain \in Chains /\ Len(chain) \in Nat /\ Len(wallet.chain) \in Nat
      /\ scan.walletHeight - 1 \in 0..Len(wallet.chain) /\ scan.walletHeight - 1 \in 0..Len(chain)
  BY HeightFacts
<1>2. scan.walletHeight \in Nat \ {0}
  <2>1. scan.walletHeight \in Nat
    BY DEF Typed, TypeOK, ScanOK
  <2>2. QED
    BY <1>1, <2>1
<1>3. /\ d \in 0..Len(chain) /\ d \in 0..Len(wallet.chain)
      /\ d = 0 \/ d + MaxReorg <= Len(chain)
      /\ d = 0 \/ d + MaxReorg <= Len(wallet.chain)
  BY <1>1, <1>2, DurableIsDeep
<1> HIDE DEF d
<1>4. Hash(chain, d) \in Chains /\ Len(Hash(chain, d)) = d /\ OncePerChain(Hash(chain, d))
  BY <1>1, <1>3, HashAt, OnceUpTo DEF ChainsAgree
<1>5. Hash(wallet.chain, d) = Hash(chain, d)
  <2>1. CASE d = 0
    BY <2>1, SubSeqEmpty DEF Hash
  <2>2. CASE d + MaxReorg <= Len(wallet.chain)
    BY <1>3, <2>2 DEF ChainsAgree
  <2>3. QED
    BY <1>3, <2>1, <2>2
<1>6. Hash(chain', d) = Hash(chain, d)
  BY <1>3, DeepBlocksStay
<1>7. d \in Nat
  BY <1>1, <1>3
<1>8. QED
  BY <1>3, <1>4, <1>5, <1>6, <1>7 DEF d, DurableTip

LEMMA DurablyFollowsOn ==
  ASSUME ReorgsAreShallow, Typed, HeightsInOrder, ChainsAgree, NothingFetched, DurablyFollows, [Next]_vars
  PROVE  DurablyFollows'
<1> SUFFICES ASSUME pc' \in Working
             PROVE  /\ Follows(pc', scan'.found, scan'.blocks, scan'.durable, DurableTip')
                    /\ pc' \in {"recheck", "save", "publish"} => scan'.anchor = DurableTip'
  BY DEF DurablyFollows, Working
<1>0. ScanOK(scan)
  BY DEF Typed, TypeOK
<1>1. CASE ReadWalletHeight
  BY <1>1 DEF ReadWalletHeight, GoOn, Follows
<1>2. CASE ~ReadWalletHeight
  <2>1. pc \in Working /\ scan'.walletHeight = scan.walletHeight
    BY <1>2, WalletSteps DEF Working
  <2> DEFINE d == DurableHeight(scan.walletHeight)
  <2>2. PICK c : c = DurableTip
    OBVIOUS
  <2>3. /\ d \in 0..Len(chain) /\ d \in 0..Len(wallet.chain) /\ d \in Nat
        /\ c \in Chains /\ Len(c) = d /\ OncePerChain(c)
        /\ Hash(wallet.chain, d) = c /\ Hash(chain', d) = c /\ Hash(chain, d) = c
    BY <2>1, <2>2, DurableFacts DEF DurableTip
  <2>4. DurableTip' = c
    BY <2>1, <2>3 DEF DurableTip
  <2>5. Follows(pc, scan.found, scan.blocks, scan.durable, c)
    BY <2>1, <2>2 DEF DurablyFollows
  <2>6. \A r \in scan.found : Replays(r) =>
          scan'.durable = IF r.height <= Len(c) THEN Replayed(scan.durable, Transfer(r.txid, r.height))
                          ELSE scan.durable
    BY <2>3, ReplayedScan
  <2>7. (\A r \in scan.found : ~Replays(r)) => scan'.durable = scan.durable
    BY CopiesKept
  <2>8. pc \in Gathering => scan.durable = NewReplay
    BY DEF HeightsInOrder
  <2>9. /\ Len(c) <= Len(chain) /\ Hash(chain, Len(c)) = c
        /\ Len(c) <= Len(wallet.chain) /\ Hash(wallet.chain, Len(c)) = c
    <3>1. Len(chain) \in Nat /\ Len(wallet.chain) \in Nat
      BY <2>1, HeightFacts
    <3>2. QED
      BY <2>3, <3>1
  <2>10. Follows(pc', scan'.found, scan'.blocks, scan'.durable, c)
    BY <1>2, <2>3, <2>5, <2>6, <2>7, <2>8, <2>9, FollowsOn
  <2>11. ASSUME pc' \in {"recheck", "save", "publish"} PROVE scan'.anchor = c
    <3>1. CASE ReadDurableHash
      <4>1. scan'.anchor = IF d \in DOMAIN scan.blocks THEN scan.blocks[d] ELSE Hash(chain, d)
        BY <1>0, <3>1 DEF ReadDurableHash, ScanOK, NoScan
      <4>2. pc = "replay" /\ d \in 0..Len(c)
        BY <2>3, <3>1 DEF ReadDurableHash
      <4>3. d \in DOMAIN scan.blocks => scan.blocks[d] = Hash(c, d)
        BY <2>5, <4>2 DEF Follows
      <4>4. Hash(c, d) = c
        BY <2>3, ChainFacts
      <4>5. QED
        BY <2>3, <4>1, <4>3, <4>4
    <3>2. CASE ~ReadDurableHash
      <4>1. pc \in {"recheck", "save", "publish"} /\ scan'.anchor = scan.anchor
        <5>1. CASE Waits
          BY <2>11, <5>1 DEF Waits
        <5>2. CASE Forks
          BY <1>0, <2>11, <5>2 DEF Forks, ScanOK, NoScan
        <5>3. CASE Rechecks \/ Save
          BY <5>3 DEF Rechecks, Save
        <5>4. ~ReadTip /\ ~Lists /\ ~SortTransfers
              /\ (\A h \in HeightsToFetch : ~Fetches(h)) /\ (\A r \in scan.found : ~Replays(r))
          BY <2>11 DEF ReadTip, Lists, SortTransfers, Fetches, Replays, GoOn
        <5>5. QED
          BY <1>2, <3>2, <5>1, <5>2, <5>3, <5>4, WorkSteps
      <4>2. QED
        BY <2>2, <4>1 DEF DurablyFollows
    <3>3. QED
      BY <3>1, <3>2
  <2>12. QED
    BY <2>4, <2>10, <2>11
<1>3. QED
  BY <1>1, <1>2

StoredIsDeep ==
  /\ StoredIsCanonical
  /\ db.height = 0 \/ db.height + MaxReorg <= Len(chain)

LEMMA StoredStaysDeep ==
  ASSUME ReorgsAreShallow, Typed, ChainsAgree, DurablyFollows, StoredIsDeep, [Next]_vars
  PROVE  StoredIsDeep'
<1>0. chain \in Chains /\ Len(chain) \in Nat /\ Len(chain') \in Nat /\ db.height \in Nat /\ MaxReorg \in Nat
  <2>1. chain \in Chains /\ db.height \in Nat /\ Len(chain) \in Nat
    BY DEF Typed, TypeOK, Chains
  <2>2. Len(chain') \in Nat
    BY <2>1, ChainSteps DEF Chains
  <2>3. QED
    BY <2>1, <2>2, BoundsAssumption
<1>1. CASE Save
  <2> DEFINE d == DurableHeight(scan.walletHeight)
  <2>1. pc \in Working /\ pc = "save" /\ chain' = chain
    BY <1>1 DEF Save, Working, environment
  <2>2. /\ d \in 0..Len(chain) /\ DurableTip = Hash(chain, d)
        /\ d = 0 \/ d + MaxReorg <= Len(chain)
    BY <2>1, DurableFacts DEF DurableTip
  <2>3. scan.durable = CanonicalReplay(DurableTip) /\ scan.anchor = DurableTip
    BY <2>1 DEF DurablyFollows, Follows
  <2>4. /\ db'.height = d /\ db'.hash = scan.anchor
        /\ db'.names = scan.durable.names /\ db'.events = scan.durable.events
    BY <1>1 DEF Save
  <2> HIDE DEF d
  <2>5. [names |-> db'.names, events |-> db'.events] = scan.durable
    <3>1. DurableTip \in Chains
      BY <2>1, DurableFacts
    <3>2. IsReplay(CanonicalReplay(DurableTip))
      <4>1. Len(DurableTip) \in 0..Len(DurableTip) /\ Hash(DurableTip, Len(DurableTip)) = DurableTip
        BY <3>1, ChainFacts
      <4>2. QED
        BY <3>1, <4>1, CanonicalType
    <3>3. QED
      BY <2>3, <2>4, <3>2 DEF IsReplay
  <2>6. QED
    BY <1>0, <2>1, <2>2, <2>3, <2>4, <2>5 DEF StoredIsDeep, StoredIsCanonical
<1>2. CASE ~Save
  <2>1. db' = db
    BY <1>2, StepKinds DEF Drops, Keeps, Measures, Lists, Replays, Publish, Restarts, NothingOpened
  <2>2. db.height \in 0..Len(chain) /\ (db.height = 0 \/ db.height + MaxReorg <= Len(chain))
    BY <1>0 DEF StoredIsDeep, StoredIsCanonical
  <2>3. Hash(chain', db.height) = Hash(chain, db.height) /\ Len(chain') >= Len(chain)
    BY <2>2, DeepBlocksStay
  <2>4. QED
    BY <1>0, <2>1, <2>2, <2>3 DEF StoredIsDeep, StoredIsCanonical
<1>3. QED
  BY <1>1, <1>2

LEMMA DurablyAlwaysFollows ==
  ASSUME ReorgsAreShallow
  PROVE  Spec => []DurablyFollows
<1>1. Init => DurablyFollows
  BY DEF Init, DurablyFollows, Working
<1>2. Typed /\ HeightsInOrder /\ ChainsAgree /\ NothingFetched /\ DurablyFollows /\ [Next]_vars
        => DurablyFollows'
  BY ReorgsAreShallow, DurablyFollowsOn
<1>3. QED
  BY <1>1, <1>2, AlwaysTyped, HeightsAlwaysInOrder, ChainsAlwaysAgree, NothingIsFetchedEarly,
     PTL DEF Spec

LEMMA StoredIsAlwaysDeep ==
  ASSUME ReorgsAreShallow
  PROVE  Spec => []StoredIsDeep
<1>1. Init => StoredIsDeep
  <2> SUFFICES ASSUME Init PROVE StoredIsDeep
    OBVIOUS
  <2>1. Len(chain) = 0 /\ chain \in Chains /\ 0 \in 0..Len(chain)
    BY DEF Init, Chains
  <2>2. db = NoSnapshot /\ Hash(chain, 0) = <<>>
    BY <2>1, SubSeqEmpty DEF Init, Hash
  <2>3. CanonicalReplay(Hash(chain, 0)) = NewReplay
    BY <2>1, ChainStep
  <2>4. QED
    BY <2>1, <2>2, <2>3 DEF StoredIsDeep, StoredIsCanonical, NoSnapshot, NewReplay
<1>2. Typed /\ ChainsAgree /\ DurablyFollows /\ StoredIsDeep /\ [Next]_vars => StoredIsDeep'
  BY ReorgsAreShallow, StoredStaysDeep
<1>3. QED
  BY <1>1, <1>2, AlwaysTyped, ChainsAlwaysAgree, DurablyAlwaysFollows, ReorgsAreShallow, PTL DEF Spec

\* The stored snapshot is the registry of the chain up to its anchor, at any
\* time, if no reorganisation replaces as many blocks as there are
\* confirmations (snapshotMatchesChain, indexer.go:188-201).
THEOREM StoredRegistryIsCanonical ==
  ASSUME ReorgsAreShallow
  PROVE  Spec => []StoredIsCanonical
<1>1. StoredIsDeep => StoredIsCanonical
  BY DEF StoredIsDeep
<1>2. QED
  BY <1>1, StoredIsAlwaysDeep, ReorgsAreShallow, PTL

-----------------------------------------------------------------------------
(* The stored log only grows: no scan is saved with a durable height below *)
(* the stored one, however far back a restart has put the wallet.          *)

NeverShallower ==
  /\ db.height <= DurableHeight(Len(chain) + 1)
  /\ pc = "walletHeight" => db.height <= DurableHeight(Len(wallet.chain) + 1)
  /\ pc \in Working => db.height <= DurableHeight(scan.walletHeight)

LEMMA DurableHeightGrows ==
  ASSUME NEW h \in Nat, NEW g \in Nat, h <= g
  PROVE  DurableHeight(h) \in Nat /\ DurableHeight(h) <= DurableHeight(g)
BY BoundsAssumption DEF DurableHeight

LEMMA StaysNeverShallower ==
  ASSUME Typed, ChainsAgree, NeverShallower, [Next]_vars
  PROVE  NeverShallower'
<1>0. /\ Len(chain) \in Nat /\ Len(chain') \in Nat /\ Len(chain') >= Len(chain)
      /\ Len(wallet.chain) \in Nat /\ db.height \in Nat
  <2>1. /\ chain \in Chains /\ Len(chain) \in Nat /\ db.height \in Nat
        /\ wallet.chain \in Chains /\ Len(wallet.chain) \in Nat
    BY DEF Typed, TypeOK, Chains
  <2>2. chain' = chain \/ (chain' \in Chains /\ Len(chain') >= Len(chain))
    BY ChainSteps
  <2>3. Len(chain') \in Nat /\ Len(chain') >= Len(chain)
    BY <2>1, <2>2 DEF Chains
  <2>4. QED
    BY <2>1, <2>3
<1>a. DurableHeight(Len(chain) + 1) <= DurableHeight(Len(chain') + 1)
      /\ DurableHeight(Len(chain) + 1) \in Nat /\ DurableHeight(Len(chain') + 1) \in Nat
  <2>1. Len(chain) + 1 \in Nat /\ Len(chain') + 1 \in Nat /\ Len(chain) + 1 <= Len(chain') + 1
    BY <1>0
  <2>2. QED
    BY <2>1, DurableHeightGrows
<1>1. CASE Save
  <2>1. /\ pc \in Working /\ chain' = chain /\ pc' = "publish" /\ scan' = scan
        /\ db'.height = DurableHeight(scan.walletHeight)
    BY <1>1 DEF Save, Working, environment
  <2>2. scan.walletHeight \in Nat /\ scan.walletHeight <= Len(chain) + 1
    <3>1. scan.walletHeight \in Nat
      BY DEF Typed, TypeOK, ScanOK
    <3>2. scan.walletHeight - 1 \in 0..Len(chain)
      BY <2>1, HeightFacts
    <3>3. QED
      BY <1>0, <3>1, <3>2
  <2>3. DurableHeight(scan.walletHeight) \in Nat
        /\ DurableHeight(scan.walletHeight) <= DurableHeight(Len(chain) + 1)
    BY <1>0, <2>2, DurableHeightGrows
  <2>4. QED
    BY <2>1, <2>3 DEF NeverShallower
<1>2. CASE ~Save
  <2>1. db' = db
    BY <1>2, StepKinds DEF Drops, Keeps, Measures, Lists, Replays, Publish, Restarts, NothingOpened
  <2>2. db'.height <= DurableHeight(Len(chain') + 1)
    BY <1>0, <1>a, <2>1 DEF NeverShallower
  <2>3. ASSUME pc' = "walletHeight" PROVE db'.height <= DurableHeight(Len(wallet'.chain) + 1)
    <3>1. pc' \notin Working
      BY <2>3 DEF Working
    <3>2. \/ pc = "walletHeight" /\ wallet'.chain = wallet.chain
          \/ wallet'.chain = chain
      BY <2>3, <3>1, WalletSteps
    <3>3. QED
      BY <2>1, <3>2 DEF NeverShallower
  <2>4. ASSUME pc' \in Working PROVE db'.height <= DurableHeight(scan'.walletHeight)
    <3>1. CASE ReadWalletHeight
      <4>1. pc = "walletHeight" /\ scan'.walletHeight = Len(wallet.chain) + 1
        <5>1. ScanOK(scan)
          BY DEF Typed, TypeOK
        <5>2. QED
          BY <3>1, <5>1 DEF ReadWalletHeight, ScanOK, NoScan
      <4>2. QED
        BY <2>1, <4>1 DEF NeverShallower
    <3>2. CASE ~ReadWalletHeight
      <4>1. pc \in Working /\ scan'.walletHeight = scan.walletHeight
        BY <2>4, <3>2, WalletSteps DEF Working
      <4>2. QED
        BY <2>1, <4>1 DEF NeverShallower
    <3>3. QED
      BY <3>1, <3>2
  <2>5. QED
    BY <2>2, <2>3, <2>4 DEF NeverShallower
<1>3. QED
  BY <1>1, <1>2

\* No durable height is ever stored below an earlier one: this needs no bound
\* on the reorganisations.
LEMMA NeverStoredShallower == Spec => []NeverShallower
<1>1. Init => NeverShallower
  BY BoundsAssumption DEF Init, NeverShallower, NoSnapshot, Working, DurableHeight
<1>2. Typed /\ ChainsAgree /\ NeverShallower /\ [Next]_vars => NeverShallower'
  BY StaysNeverShallower
<1>3. QED
  BY <1>1, <1>2, AlwaysTyped, ChainsAlwaysAgree, PTL DEF Spec

\* What a scan saves has everything that was stored, and in the same order.
LEMMA SavedContinuesStored ==
  ASSUME ReorgsAreShallow, Typed, ChainsAgree, DurablyFollows, StoredIsDeep, NeverShallower,
         [Next]_vars
  PROVE  Extends(db', db)
<1>1. CASE Save
  <2> DEFINE d == DurableHeight(scan.walletHeight)
             k == db.height
  <2>1. /\ pc \in Working /\ pc = "save"
        /\ db'.events = scan.durable.events /\ db'.names = scan.durable.names
    BY <1>1 DEF Save, Working
  <2>2. PICK c : c = DurableTip
    OBVIOUS
  <2>3. c \in Chains /\ Len(c) = d /\ c = Hash(chain, d) /\ d \in 0..Len(chain)
    BY <2>1, <2>2, DurableFacts DEF DurableTip
  <2>4. scan.durable = CanonicalReplay(c)
    BY <2>1, <2>2 DEF DurablyFollows, Follows
  <2>5. k \in 0..d
    <3>1. k \in Nat /\ Len(c) \in Nat
      BY <2>3, ChainFacts DEF Typed, TypeOK
    <3>2. k <= d
      BY <2>1 DEF NeverShallower
    <3>3. QED
      BY <2>3, <3>1, <3>2
  <2> HIDE DEF d, k
  <2>6. Hash(c, k) = Hash(chain, k)
    <3>1. chain \in Chains
      BY DEF Typed, TypeOK
    <3>2. QED
      BY <2>3, <2>5, <3>1, HashAt
  <2>7. /\ db.events = CanonicalReplay(Hash(c, k)).events
        /\ db.names = CanonicalReplay(Hash(c, k)).names
    <3>1. [names |-> db.names, events |-> db.events] = CanonicalReplay(Hash(chain, k))
      BY DEF StoredIsDeep, StoredIsCanonical, k
    <3>2. QED
      BY <2>6, <3>1
  <2>8. Extends(CanonicalReplay(c), CanonicalReplay(Hash(c, k)))
    BY <2>3, <2>5, CanonicalGrows
  <2>9. QED
    BY <2>1, <2>4, <2>7, <2>8 DEF Extends
<1>2. CASE ~Save
  <2>1. db' = db
    BY <1>2, StepKinds DEF Drops, Keeps, Measures, Lists, Replays, Publish, Restarts, NothingOpened
  <2>2. ContinuesNames(db.names, db.names)
    BY ContinuesItself DEF Typed, TypeOK, ReplayOK
  <2>3. QED
    BY <2>1, <2>2 DEF Extends, IsPrefix
<1>3. QED
  BY <1>1, <1>2

\* Under the same condition no scan, restart or rebuilt wallet ever takes back
\* an event once it was stored (db.Save, indexer.go:400).
THEOREM StoredIsNeverTakenBack ==
  ASSUME ReorgsAreShallow
  PROVE  Spec => StoredLogGrows
<1>1. Typed /\ ChainsAgree /\ DurablyFollows /\ StoredIsDeep /\ NeverShallower /\ [Next]_vars
        => [IsPrefix(db.events, db'.events)]_vars
  BY ReorgsAreShallow, SavedContinuesStored DEF Extends
<1>2. QED
  BY <1>1, AlwaysTyped, ChainsAlwaysAgree, DurablyAlwaysFollows, StoredIsAlwaysDeep,
     NeverStoredShallower, ReorgsAreShallow, PTL DEF Spec, StoredLogGrows

-----------------------------------------------------------------------------
(* The promise.  What is published continues what was stored just before,  *)
(* whatever the chain does; what is stored next continues it as long as    *)
(* reorganisations are shallow.                                            *)

VisibleGoesOn == ContinuesNames(scan.visible.names, scan.durable.names)

LEMMA VisibleStillGoesOn ==
  ASSUME Typed, HeightsInOrder, CopiesAgree, VisibleGoesOn, [Next]_vars
  PROVE  VisibleGoesOn'
<1>0. /\ ScanOK(scan) /\ scan.walletHeight \in Nat
      /\ DurableHeight(scan.walletHeight) \in Nat
      /\ IsRegistry(scan.visible.names, TxIDs) /\ IsRegistry(scan.durable.names, TxIDs)
  <2>1. ScanOK(scan) /\ scan.walletHeight \in Nat
    BY DEF Typed, TypeOK, ScanOK
  <2>2. QED
    BY <2>1, BoundsAssumption DEF DurableHeight, ScanOK, ReplayOK
<1>a. ContinuesNames(NewReplay.names, NewReplay.names)
  BY DEF ContinuesNames, NewReplay, NewRegistry
<1>1. CASE Drops
  BY <1>1, <1>a DEF Drops, VisibleGoesOn
<1>2. CASE Keeps \/ Measures
  BY <1>2 DEF Keeps, Measures, VisibleGoesOn
<1>3. CASE Lists
  BY <1>0, <1>3 DEF Lists, ScanOK, NoScan, VisibleGoesOn
<1>4. ASSUME NEW r \in scan.found, Replays(r) PROVE VisibleGoesOn'
  <2> DEFINE t == Transfer(r.txid, r.height)
             d == DurableHeight(scan.walletHeight)
             after == NamesAfter(scan.visible.names, t)
  <2>1. /\ t \in Transfers(TxIDs) /\ r.height \in Nat
        /\ scan'.visible = Replayed(scan.visible, t)
        /\ scan'.durable = IF r.height <= d THEN Replayed(scan.durable, t) ELSE scan.durable
    BY <1>4, ReplayedScan
  <2>2. /\ scan'.visible.names = after
        /\ IsRegistry(after, TxIDs)
        /\ ContinuesNames(after, scan.visible.names)
        /\ ContinuesNames(after, after)
    BY <1>0, <2>1, NamesAfterType, TransferContinues, ContinuesItself DEF Replayed
  <2>3. CASE r.height <= d
    <3>1. scan.visible = scan.durable
      BY <1>0, <1>4, <2>1, <2>3 DEF Replays, CopiesAgree
    <3>2. scan'.durable = scan'.visible
      BY <2>1, <2>3, <3>1
    <3>3. QED
      BY <2>2, <3>2 DEF VisibleGoesOn
  <2>4. CASE ~(r.height <= d)
    <3>1. scan'.durable = scan.durable
      BY <2>1, <2>4
    <3>2. ContinuesNames(after, scan.durable.names)
      BY <1>0, <2>2, ContinuesTransitive DEF VisibleGoesOn
    <3>3. QED
      BY <2>2, <3>1, <3>2 DEF VisibleGoesOn
  <2>5. QED
    BY <2>3, <2>4
<1>5. CASE Save
  BY <1>5 DEF Save, VisibleGoesOn
<1>6. CASE Publish \/ Restarts
  BY <1>6, <1>a DEF Publish, Restarts, NoScan, VisibleGoesOn
<1>7. QED
  BY <1>1, <1>2, <1>3, <1>4, <1>5, <1>6, StepKinds

LEMMA VisibleAlwaysGoesOn == Spec => []VisibleGoesOn
<1>1. Init => VisibleGoesOn
  BY DEF Init, NoScan, VisibleGoesOn, ContinuesNames, NewReplay, NewRegistry
<1>2. Typed /\ HeightsInOrder /\ CopiesAgree /\ VisibleGoesOn /\ [Next]_vars => VisibleGoesOn'
  BY VisibleStillGoesOn
<1>3. QED
  BY <1>1, <1>2, AlwaysTyped, HeightsAlwaysInOrder, CopiesAlwaysAgree, PTL DEF Spec

\* The terms of a registry are a register, and continue what it continues.
LEMMA RegisterOfNames ==
  ASSUME NEW names, IsRegistry(names, TxIDs)
  PROVE  Promise!IsRegister(TermsOf(names))
<1>1. DOMAIN TermsOf(names) = DOMAIN names
  BY DEF TermsOf
<1>2. ASSUME NEW n \in DOMAIN names
      PROVE  TermsOf(names)[n] \in [owner : Owners, since : Nat, until : Nat]
  BY EntryHeights DEF TermsOf
<1>3. QED
  BY <1>1, <1>2 DEF Promise!IsRegister, IsRegistry

LEMMA TermsContinue ==
  ASSUME NEW names, NEW before, ContinuesNames(names, before)
  PROVE  Promise!Continues(TermsOf(names), TermsOf(before))
<1>1. /\ DOMAIN TermsOf(before) = DOMAIN before /\ DOMAIN TermsOf(names) = DOMAIN names
      /\ \A n \in DOMAIN before :
           /\ TermsOf(before)[n].owner = before[n].OwnerKey
           /\ TermsOf(before)[n].since = before[n].FirstClaimHeight
           /\ TermsOf(before)[n].until = before[n].ExpirationHeight
      /\ \A n \in DOMAIN names :
           /\ TermsOf(names)[n].owner = names[n].OwnerKey
           /\ TermsOf(names)[n].since = names[n].FirstClaimHeight
           /\ TermsOf(names)[n].until = names[n].ExpirationHeight
  BY DEF TermsOf
<1>2. QED
  BY <1>1 DEF ContinuesNames, Promise!Continues

LEMMA StepKeepsPromise ==
  ASSUME Typed, CopiesAgree, VisibleGoesOn, Extends(db', db), [Next]_vars
  PROVE  Promise!Next \/ UNCHANGED Promise!vars
<1>0. /\ IsRegistry(db'.names, TxIDs) /\ IsRegistry(state'.names, TxIDs)
      /\ ready \in BOOLEAN /\ ready' \in BOOLEAN
  BY StaysTyped DEF Typed, TypeOK, ReplayOK
<1>1. Promise!IsRegister(TermsOf(db'.names)) /\ Promise!IsRegister(TermsOf(state'.names))
  BY <1>0, RegisterOfNames
<1>2. Promise!Continues(TermsOf(db'.names), TermsOf(db.names))
  BY TermsContinue DEF Extends
<1>3. CASE NothingOpened
  <2>1. CASE ready' = ready
    BY <1>3, <2>1 DEF NothingOpened, Promise!vars
  <2>2. CASE ready' = FALSE
    BY <1>1, <1>3, <2>2 DEF NothingOpened, Promise!Next, Promise!Close
  <2>3. QED
    BY <1>3, <2>1, <2>2 DEF NothingOpened
<1>4. CASE Save
  <2>1. state' = state /\ ready' = ready
    BY <1>4 DEF Save, served
  <2>2. Promise!Keep
    BY <1>1, <1>2, <2>1 DEF Promise!Keep
  <2>3. QED
    BY <2>2 DEF Promise!Next
<1>5. CASE Publish
  <2>1. pc = "publish" /\ db' = db /\ ready' = TRUE /\ state'.names = scan.visible.names
    BY <1>5 DEF Publish
  <2>2. ContinuesNames(state'.names, db.names)
    BY <2>1 DEF CopiesAgree, VisibleGoesOn
  <2>3. Promise!Open
    BY <1>1, <2>1, <2>2, TermsContinue DEF Promise!Open
  <2>4. QED
    BY <2>3 DEF Promise!Next
<1>6. CASE Restarts
  BY <1>1, <1>6 DEF Restarts, Promise!Next, Promise!Close
<1>7. QED
  BY <1>3, <1>4, <1>5, <1>6, StepKinds DEF Drops, Keeps, Measures, Lists, Replays

\* A name that was stored, and so every answer that was called final, stays its
\* owner's until its term is over and the term is never cut short, in the
\* database and in lookups, across restarts, rebuilt wallets and any number of
\* reorganisations less deep than the confirmations (indexer.go:124-149, 388-411).
THEOREM ScanImplementsFinalNames ==
  ASSUME ReorgsAreShallow
  PROVE  Spec => ImplementsFinalNames
<1>1. Init => Promise!Init
  BY DEF Init, NoSnapshot, NoState, NewRegistry, TermsOf, Promise!Init
<1>2. Typed /\ CopiesAgree /\ VisibleGoesOn /\ ChainsAgree /\ DurablyFollows /\ StoredIsDeep
      /\ NeverShallower /\ [Next]_vars
        => [Promise!Next]_(Promise!vars)
  BY ReorgsAreShallow, SavedContinuesStored, StepKeepsPromise
<1>3. QED
  BY <1>1, <1>2, AlwaysTyped, CopiesAlwaysAgree, VisibleAlwaysGoesOn, ChainsAlwaysAgree,
     DurablyAlwaysFollows, StoredIsAlwaysDeep, NeverStoredShallower, ReorgsAreShallow,
     PTL DEF Spec, ImplementsFinalNames, Promise!Spec
-----------------------------------------------------------------------------
(* The answers.  A term that is final in the published registry was stored *)
(* in just that form; what was stored since continues it.                  *)

FinalNow ==
  Restrict(state.names, {n \in DOMAIN state.names : Finalized(state, n)})

FinalContinued == ready => ContinuesNames(db.names, FinalNow)

FinalNowTyped ==
  /\ IsRegistry(FinalNow, TxIDs)
  /\ \A n \in DOMAIN FinalNow :
       n \in DOMAIN state.names /\ Finalized(state, n) /\ FinalNow[n] = state.names[n]

LEMMA FinalNowType == Typed => FinalNowTyped
<1> SUFFICES ASSUME Typed PROVE FinalNowTyped
  OBVIOUS
<1>1. IsRegistry(state.names, TxIDs)
  BY DEF Typed, TypeOK, ReplayOK
<1>2. \A n \in DOMAIN FinalNow : /\ n \in DOMAIN state.names /\ Finalized(state, n)
                                 /\ FinalNow[n] = state.names[n]
  BY DEF FinalNow, Restrict
<1>3. QED
  BY <1>1, <1>2 DEF IsRegistry, FinalNowTyped

LEMMA FinalStaysContinued ==
  ASSUME Typed, HeightsInOrder, CopiesAgree, FinalContinued, Extends(db', db), [Next]_vars
  PROVE  FinalContinued'
<1>0. /\ IsRegistry(db.names, TxIDs) /\ IsRegistry(db'.names, TxIDs)
      /\ FinalNowTyped /\ FinalNowTyped'
  <2>1. Typed'
    BY StaysTyped
  <2>2. FinalNowTyped'
    BY <2>1, FinalNowType, PTL
  <2>. QED
    BY <2>1, <2>2, FinalNowType DEF Typed, TypeOK, ReplayOK
<1>1. CASE NothingOpened
  BY <1>1 DEF NothingOpened, FinalContinued, FinalNow, Finalized
<1>2. CASE Save
  <2>1. state' = state /\ ready' = ready /\ FinalNow' = FinalNow
    BY <1>2 DEF Save, served, FinalNow, Finalized
  <2>2. ContinuesNames(db'.names, db.names)
    BY DEF Extends
  <2>3. ASSUME ready PROVE ContinuesNames(db'.names, FinalNow)
    BY <1>0, <2>2, <2>3, ContinuesTransitive DEF FinalContinued, FinalNowTyped
  <2>4. QED
    BY <2>1, <2>3 DEF FinalContinued
<1>3. CASE Publish
  <2>1. pc' = "idle" /\ ready' = TRUE
    BY <1>3 DEF Publish
  <2>2. FinalizedIsStored'
    BY CopiesStayInAgreement DEF CopiesAgree
  <2>3. /\ IsRegistry(FinalNow', TxIDs)
        /\ \A n \in DOMAIN FinalNow' :
             /\ n \in DOMAIN state'.names /\ Finalized(state', n)
             /\ FinalNow'[n] = state'.names[n]
    BY <1>0 DEF FinalNowTyped
  <2>4. \A n \in DOMAIN FinalNow' : n \in DOMAIN db'.names /\ db'.names[n] = FinalNow'[n]
    BY <2>1, <2>2, <2>3 DEF FinalizedIsStored, Finalized
  <2>5. ContinuesNames(FinalNow', FinalNow')
    BY <2>3, ContinuesItself
  <2>6. ContinuesNames(db'.names, FinalNow')
    BY <2>4, <2>5 DEF ContinuesNames
  <2>. QED
    BY <2>6 DEF FinalContinued
<1>4. CASE Restarts
  <2>1. ready' = FALSE
    BY <1>4 DEF Restarts
  <2>. QED
    BY <2>1 DEF FinalContinued
<1>5. NothingOpened \/ Save \/ Publish \/ Restarts
  <2>1. Drops \/ Keeps \/ Measures \/ Lists => NothingOpened
    BY Zenon DEF Drops, Keeps, Measures, Lists
  <2>2. \A r \in scan.found : Replays(r) => NothingOpened
    BY Zenon DEF Replays
  <2>. QED
    BY <2>1, <2>2, StepKinds
<1>6. QED
  BY <1>1, <1>2, <1>3, <1>4, <1>5

\* The database continues every term that lookups call final, at any moment,
\* between Save and the new state too, as long as reorganisations are less deep
\* than the confirmations (indexer.go:400-411, 672).
THEOREM FinalTermsAlwaysStand ==
  ASSUME ReorgsAreShallow
  PROVE  Spec => []FinalTermsStand
<1>1. Init => FinalContinued
  BY DEF Init, FinalContinued
<1>2. Typed /\ HeightsInOrder /\ CopiesAgree /\ ChainsAgree /\ DurablyFollows /\ StoredIsDeep
      /\ NeverShallower /\ FinalContinued /\ [Next]_vars
        => FinalContinued'
  BY ReorgsAreShallow, SavedContinuesStored, FinalStaysContinued
<1>3. FinalContinued => FinalTermsStand
  <2>1. FinalTerms = TermsOf(FinalNow)
    BY DEF FinalTerms, FinalNow
  <2>. QED
    BY <2>1, TermsContinue DEF FinalContinued, FinalTermsStand
<1>4. QED
  BY <1>1, <1>2, <1>3, AlwaysTyped, HeightsAlwaysInOrder, CopiesAlwaysAgree, ChainsAlwaysAgree,
     DurablyAlwaysFollows, StoredIsAlwaysDeep, NeverStoredShallower, ReorgsAreShallow, PTL DEF Spec
=============================================================================
