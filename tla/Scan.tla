-------------------------------- MODULE Scan --------------------------------
(***************************************************************************)
(* The indexer's scan (indexer.go:388-641): a scan reads the wallet's view *)
(* of the chain and the daemon's chain through one call after another,     *)
(* rebuilds the registry from the transfers it found, saves the part that  *)
(* is deep enough and then publishes all of it for lookups.  Between any   *)
(* two calls the chain can grow or be reorganised, the wallet can refresh  *)
(* by itself, a call can fail, and the process can die and start again.    *)
(*                                                                         *)
(* A block is the sequence of its transactions that pay the protocol       *)
(* address, in the order of their same-block keys (indexer.go:593-602);    *)
(* the genesis block is left out, so block h is chain[h] and a chain of n  *)
(* blocks has height n + 1.  The hash of a block is the chain up to it.    *)
(***************************************************************************)
EXTENDS Registry, SequencesExt

CONSTANTS
  TxIDs,          \* transactions that pay the protocol address
  AmountOf,       \* what each of them pays
  PayloadOf,      \* what payloadForTx decodes for each of them
  Blocks,         \* the possible contents of a block
  Confirmations,  \* the depth of durable and finalized entries (10 in the code)
  MaxWalletReorg, \* the deepest reorganisation the wallet follows
  MaxReorg,       \* bound: the blocks one reorganisation replaces
  MaxLen,         \* bound: the blocks of a chain
  MaxReorgs,      \* bound: the reorganisations of a behaviour
  MaxFaults,      \* bound: failed calls, failed rebuilds, wallet deaths, restarts
  WalletDeaths    \* whether a wallet process may die by itself

ASSUME ContentAssumption ==
  /\ AmountOf \in [TxIDs -> Nat]
  /\ PayloadOf \in [TxIDs -> Payloads \cup {NoPayload}]
  /\ Blocks \subseteq Seq(TxIDs)

ASSUME BoundsAssumption ==
  /\ Confirmations \in Nat \ {0} /\ MaxWalletReorg \in Nat /\ MaxReorg \in Nat
  /\ MaxLen \in Nat /\ MaxReorgs \in Nat /\ MaxFaults \in Nat
  /\ WalletDeaths \in BOOLEAN

VARIABLES
  chain,   \* the daemon's chain
  wallet,  \* the wallet process: is it running, and the chain it has scanned
  pc,      \* the next call of the scan in progress
  scan,    \* what the scan in progress has read and computed
  db,      \* the stored snapshot
  state,   \* Server.state, what lookups are answered from
  ready,   \* Server.ready
  reorgs, faults  \* how often the environment has misbehaved

vars == <<chain, wallet, pc, scan, db, state, ready, reorgs, faults>>

-----------------------------------------------------------------------------
\* Chains

Hash(c, h) == SubSeq(c, 1, h)

\* The transfers get_transfers lists for a wallet that has scanned c.
Received(c) == UNION {{[txid |-> c[h][i], height |-> h] : i \in DOMAIN c[h]} : h \in DOMAIN c}

Transfer(txid, h) ==
  [txid |-> txid, height |-> h, amount |-> AmountOf[txid], payload |-> PayloadOf[txid]]

OncePerChain(c) ==
  \A h, g \in DOMAIN c : \A i \in DOMAIN c[h], j \in DOMAIN c[g] :
    c[h][i] = c[g][j] => h = g /\ i = j

\* How many blocks of w the chain c has replaced.
ReorgDepth(w, c) == Len(w) - Len(LongestCommonPrefix({w, c}))

-----------------------------------------------------------------------------
\* Replaying transfers

NewReplay == [names |-> NewRegistry, events |-> <<>>]

Replayed(reg, t) == [names  |-> NamesAfter(reg.names, t),
                     events |-> Append(reg.events, EventOf(reg.names, t))]

\* The transfers of the block at height h, in the order of their keys.
ReplayedBlock(reg, block, h) ==
  LET after[i \in 0..Len(block)] ==
        IF i = 0 THEN reg ELSE Replayed(after[i - 1], Transfer(block[i], h))
  IN after[Len(block)]

\* What a registry is by definition: the transfers of a chain, block by block.
CanonicalReplay(c) ==
  LET upTo[h \in 0..Len(c)] ==
        IF h = 0 THEN NewReplay ELSE ReplayedBlock(upTo[h - 1], c[h], h)
  IN upTo[Len(c)]

\* Without its guard the subtraction leaves the naturals (and wraps in the code).
DurableUnguarded(walletHeight) == walletHeight - Confirmations

\* The last block counted as durable is one confirmation too young.
DurableOneTooHigh(walletHeight) ==
  IF walletHeight <= Confirmations THEN 0 ELSE walletHeight - Confirmations + 1

DurableHeight(walletHeight) ==
  IF walletHeight <= Confirmations THEN 0 ELSE walletHeight - Confirmations

\* Only the heights decide; within a block the order is left open.
BeforeByHeight(blocks, r, s) == r.height < s.height

\* r is replayed before s, given the blocks fetched for their heights: by
\* height, then by the key that the hash of the block gives each transaction.
Before(blocks, r, s) ==
  LET Key(t) == CHOOSE i \in DOMAIN blocks[t.height][t.height] :
                  blocks[t.height][t.height][i] = t.txid
  IN \/ r.height < s.height
     \/ r.height = s.height /\ Key(r) < Key(s)

-----------------------------------------------------------------------------
\* Initial states and helpers of the actions

NoScan ==
  [again        |-> FALSE,        \* the second scanOnce of a scan
   reorged      |-> 0,            \* history: reorganisations since its refresh
   walletHeight |-> 0,
   tip          |-> <<>>,         \* tipHash
   found        |-> {},           \* transfers still to be replayed
   blocks       |-> <<>>,         \* fetched blocks, by height, as their hashes
   visible      |-> NewReplay,
   durable      |-> NewReplay,
   anchor       |-> <<>>]         \* durableHash

NoState == [height |-> 0, names |-> NewRegistry, events |-> <<>>]

NoSnapshot == [height |-> 0, hash |-> <<>>, names |-> NewRegistry, events |-> <<>>]

Init ==
  /\ chain = <<>>
  /\ wallet = [up |-> TRUE, chain |-> <<>>]
  /\ pc = "idle"
  /\ scan = NoScan
  /\ db = NoSnapshot
  /\ state = NoState
  /\ ready = FALSE
  /\ reorgs = 0 /\ faults = 0

environment == <<chain, reorgs, faults>>
served == <<state, ready>>

\* The scan goes on to its next call, having changed nothing but its own data.
GoOn(next) == pc' = next /\ UNCHANGED <<environment, wallet, db, served>>

\* The scan returns an error; the next tick starts another one.
GiveUp == /\ pc' = "idle"
          /\ scan' = NoScan
          /\ UNCHANGED <<environment, wallet, db, served>>

-----------------------------------------------------------------------------
\* The scan.  A tick that finds one in progress is skipped (TryLock).

StartScan == pc = "idle" /\ GoOn("refresh") /\ UNCHANGED scan

\* The wallet catches up with the daemon.
Refresh ==
  /\ pc = "refresh" /\ wallet.up
  /\ ReorgDepth(wallet.chain, chain) <= MaxWalletReorg
  /\ wallet' = [wallet EXCEPT !.chain = chain]
  /\ scan' = [scan EXCEPT !.reorged = 0]
  /\ pc' = "walletHeight"
  /\ UNCHANGED <<environment, db, served>>

\* The refusal is an error like any other, and the wallet is kept.
RefreshNeverRebuilds ==
  /\ pc = "refresh" /\ wallet.up
  /\ ReorgDepth(wallet.chain, chain) > MaxWalletReorg
  /\ GiveUp

\* The wallet refuses to: lookups are closed and the wallet rebuilt, once.
RefreshTooDeep ==
  /\ pc = "refresh" /\ wallet.up
  /\ ReorgDepth(wallet.chain, chain) > MaxWalletReorg
  /\ IF scan.again THEN GiveUp
     ELSE /\ ready' = FALSE
          /\ pc' = "rebuild"
          /\ UNCHANGED <<environment, wallet, scan, db, state>>

RebuildWallet ==
  /\ pc = "rebuild"
  /\ wallet' = [up |-> TRUE, chain |-> <<>>]
  /\ scan' = [NoScan EXCEPT !.again = TRUE]
  /\ pc' = "refresh"
  /\ UNCHANGED <<environment, db, served>>

\* The old wallet is stopped, the new one did not start: the server keeps the
\* client of the old one.
RebuildFails ==
  /\ pc = "rebuild" /\ faults < MaxFaults
  /\ faults' = faults + 1
  /\ wallet' = [wallet EXCEPT !.up = FALSE]
  /\ pc' = "idle"
  /\ scan' = NoScan
  /\ UNCHANGED <<chain, reorgs, db, served>>

\* A call to a wallet that is not running fails.
WalletUnreachable ==
  /\ pc \in {"refresh", "walletHeight", "transfers"}
  /\ ~wallet.up
  /\ GiveUp

ReadWalletHeight ==
  /\ pc = "walletHeight" /\ wallet.up
  /\ scan' = [scan EXCEPT !.walletHeight = Len(wallet.chain) + 1]
  /\ GoOn("tip")

\* GetHeight and BlockHash(tipHeight), two calls to the daemon.  Its chain only
\* ever gets longer, so the wallet cannot be ahead of it (line 445).
ReadTip ==
  /\ pc = "tip"
  /\ scan.walletHeight <= Len(chain) + 1
  /\ scan' = [scan EXCEPT !.tip = Hash(chain, scan.walletHeight - 1)]
  /\ GoOn("transfers")

\* The height check of sortTransfers is missing.
GetTransfersUnchecked ==
  /\ pc = "transfers" /\ wallet.up
  /\ scan' = [scan EXCEPT !.found = Received(wallet.chain)]
  /\ GoOn("blocks")

\* get_transfers; sortTransfers refuses a transfer above the wallet height read
\* before, which a wallet that refreshed in between can list.
GetTransfers ==
  /\ pc = "transfers" /\ wallet.up
  /\ IF \E r \in Received(wallet.chain) : r.height >= scan.walletHeight
     THEN GiveUp
     ELSE /\ scan' = [scan EXCEPT !.found = Received(wallet.chain)]
          /\ GoOn("blocks")

HeightsToFetch == {r.height : r \in scan.found} \ DOMAIN scan.blocks

\* sortTransfers fetches the block at h, once, and finds all its transfers in it.
CheckBlock(h) ==
  /\ pc = "blocks" /\ h \in HeightsToFetch
  /\ IF \A r \in scan.found : r.height = h => h <= Len(chain) /\ Contains(chain[h], r.txid)
     THEN /\ scan' = [scan EXCEPT !.blocks = Put(@, h, Hash(chain, h))]
          /\ GoOn("blocks")
     ELSE GiveUp

\* The transfers are in replay order from here on.
SortTransfers == pc = "blocks" /\ HeightsToFetch = {} /\ GoOn("replay") /\ UNCHANGED scan

\* The canonical-block check of payloadForTx, by the daemon's chain of now.
InCanonicalBlock(r) == r.height <= Len(chain) /\ Contains(chain[r.height], r.txid)

\* The first transfer not yet replayed is applied to the visible registry, and
\* to the durable one if it is deep enough.
ReplayTransfer(r) ==
  /\ pc = "replay" /\ r \in scan.found
  /\ \A s \in scan.found : ~Before(scan.blocks, s, r)
  /\ IF InCanonicalBlock(r)
     THEN /\ LET t == Transfer(r.txid, r.height) IN
               scan' = [scan EXCEPT
                 !.found   = @ \ {r},
                 !.visible = Replayed(@, t),
                 !.durable = IF r.height <= DurableHeight(scan.walletHeight)
                             THEN Replayed(@, t) ELSE @]
          /\ GoOn("replay")
     ELSE GiveUp

\* The hash of the durable block, from the fetched blocks if it is among them.
ReadDurableHash ==
  /\ pc = "replay" /\ scan.found = {}
  /\ LET h == DurableHeight(scan.walletHeight) IN
       scan' = [scan EXCEPT !.anchor = IF h \in DOMAIN scan.blocks THEN scan.blocks[h]
                                       ELSE Hash(chain, h)]
  /\ GoOn("recheck")

\* The end of the scan does not look at the tip again.
RecheckNothing == pc = "recheck" /\ GoOn("save") /\ UNCHANGED scan

\* "chain changed during scan" unless the tip block is still there.
RecheckTip ==
  /\ pc = "recheck"
  /\ IF Hash(chain, scan.walletHeight - 1) = scan.tip
     THEN GoOn("save") /\ UNCHANGED scan
     ELSE GiveUp

\* db.Save replaces the snapshot in one transaction.
Save ==
  /\ pc = "save"
  /\ db' = [height |-> DurableHeight(scan.walletHeight), hash |-> scan.anchor,
            names |-> scan.durable.names, events |-> scan.durable.events]
  /\ pc' = "publish"
  /\ UNCHANGED <<environment, wallet, scan, served>>

Publish ==
  /\ pc = "publish"
  /\ state' = [height |-> scan.walletHeight,
               names |-> scan.visible.names, events |-> scan.visible.events]
  /\ ready' = TRUE
  /\ pc' = "idle"
  /\ scan' = NoScan
  /\ UNCHANGED <<environment, wallet, db>>

Step ==
  \/ StartScan \/ Refresh \/ RefreshTooDeep \/ RebuildWallet \/ WalletUnreachable
  \/ ReadWalletHeight \/ ReadTip \/ GetTransfers
  \/ \E h \in HeightsToFetch : CheckBlock(h)
  \/ SortTransfers
  \/ \E r \in scan.found : ReplayTransfer(r)
  \/ ReadDurableHash \/ RecheckTip \/ Save \/ Publish

-----------------------------------------------------------------------------
\* The environment

Mine ==
  /\ Len(chain) < MaxLen
  /\ \E b \in Blocks : chain' = Append(chain, b) /\ OncePerChain(chain')
  /\ UNCHANGED <<wallet, pc, scan, db, served, reorgs, faults>>

\* The last d blocks give way to at least as many others.
Reorg(d) ==
  /\ reorgs < MaxReorgs /\ d <= Len(chain)
  /\ \E m \in {d, d + 1} : \E fork \in [1..m -> Blocks] :
       /\ chain' = SubSeq(chain, 1, Len(chain) - d) \o fork
       /\ fork[1] # chain[Len(chain) - d + 1]
       /\ Len(chain') <= MaxLen /\ OncePerChain(chain')
  /\ reorgs' = reorgs + 1
  /\ scan' = IF pc = "idle" THEN scan ELSE [scan EXCEPT !.reorged = @ + 1]
  /\ UNCHANGED <<wallet, pc, db, served, faults>>

\* monero-wallet-rpc refreshes by itself from time to time.
AutoRefresh ==
  /\ wallet.up /\ wallet.chain # chain
  /\ ReorgDepth(wallet.chain, chain) <= MaxWalletReorg
  /\ wallet' = [wallet EXCEPT !.chain = chain]
  /\ UNCHANGED <<environment, pc, scan, db, served>>

\* A call to the wallet, to the daemon or to the database returns an error.
CallFails ==
  /\ pc \notin {"idle", "rebuild", "publish"} /\ faults < MaxFaults
  /\ faults' = faults + 1
  /\ pc' = "idle"
  /\ scan' = NoScan
  /\ UNCHANGED <<chain, wallet, db, served, reorgs>>

\* The wallet process exits; nothing in the server starts it again.
WalletDies ==
  /\ WalletDeaths /\ wallet.up /\ faults < MaxFaults
  /\ faults' = faults + 1
  /\ wallet' = [wallet EXCEPT !.up = FALSE]
  /\ UNCHANGED <<chain, pc, scan, db, served, reorgs>>

\* Lookups are open as soon as the process is up again.
RestartServing ==
  /\ faults < MaxFaults
  /\ faults' = faults + 1
  /\ pc' = "idle"
  /\ scan' = NoScan
  /\ ready' = TRUE
  /\ \/ state' = NoState
     \/ /\ db.height <= Len(chain) /\ Hash(chain, db.height) = db.hash
        /\ state' = [height |-> db.height, names |-> db.names, events |-> db.events]
  /\ \E k \in 0..Len(wallet.chain) :
       wallet' = [up |-> TRUE, chain |-> SubSeq(wallet.chain, 1, k)]
  /\ UNCHANGED <<chain, db, reorgs>>

\* The process dies at any point and Run starts it again.  The wallet has what
\* it last stored.  The snapshot becomes the state if its block is still in the
\* chain, but lookups stay closed until the first scan is through.
\* NoState stands for a changed block as well as for a daemon that does not tell.
Restart ==
  /\ faults < MaxFaults
  /\ faults' = faults + 1
  /\ pc' = "idle"
  /\ scan' = NoScan
  /\ ready' = FALSE
  /\ \/ state' = NoState
     \/ /\ db.height <= Len(chain) /\ Hash(chain, db.height) = db.hash
        /\ state' = [height |-> db.height, names |-> db.names, events |-> db.events]
  /\ \E k \in 0..Len(wallet.chain) :
       wallet' = [up |-> TRUE, chain |-> SubSeq(wallet.chain, 1, k)]
  /\ UNCHANGED <<chain, db, reorgs>>

Environment ==
  \/ Mine \/ (\E d \in 1..MaxReorg : Reorg(d)) \/ AutoRefresh
  \/ RebuildFails \/ CallFails \/ WalletDies \/ Restart

Next == Step \/ Environment

Spec == Init /\ [][Next]_vars

\* The ticker fires every 30 seconds and every call returns within the timeout
\* of its client, so a scan that can go on does; nothing is assumed of the
\* environment.
FairSpec == Spec /\ WF_vars(Step)

-----------------------------------------------------------------------------
\* What a lookup says

\* A lookup that calls an entry final one confirmation too early.
FinalizedEarly(st, n) == st.height - st.names[n].LastUpdateHeight >= Confirmations - 1

\* The "finalized" of a lookup's answer.
Finalized(st, n) == st.height - st.names[n].LastUpdateHeight >= Confirmations

-----------------------------------------------------------------------------
\* Properties

ReplayOK(reg) == IsRegistry(reg.names, TxIDs) /\ reg.events \in Seq(Events(TxIDs))

Chains == Seq(Seq(TxIDs))

ScanOK(s) ==
  /\ DOMAIN s = DOMAIN NoScan
  /\ s.again \in BOOLEAN
  /\ s.reorged \in Nat /\ s.walletHeight \in Nat
  /\ s.tip \in Chains /\ s.anchor \in Chains
  /\ s.found \subseteq [txid : TxIDs, height : Nat]
  /\ \A h \in DOMAIN s.blocks : s.blocks[h] \in Chains
  /\ ReplayOK(s.visible) /\ ReplayOK(s.durable)

\* Every variable has its type.  The proofs rest on it.
TypeOK ==
  /\ chain \in Chains
  /\ wallet \in [up : BOOLEAN, chain : Chains]
  /\ pc \in {"idle", "refresh", "rebuild", "walletHeight", "tip", "transfers",
             "blocks", "replay", "recheck", "save", "publish"}
  /\ ScanOK(scan)
  /\ db.height \in Nat /\ db.hash \in Chains /\ ReplayOK(db)
  /\ state.height \in Nat /\ ReplayOK(state)
  /\ ready \in BOOLEAN
  /\ reorgs \in Nat /\ faults \in Nat

\* A scan during which the chain was not reorganised hands over exactly the
\* registry of the chain it verified, whatever the wallet, the miners and other
\* scans do meanwhile: no transfer missing, none from a block mined since the
\* heights were read, none out of order (scanOnce, indexer.go:432-513).
QuietScanIsExact ==
  pc \in {"save", "publish"} /\ scan.reorged = 0 =>
    scan.visible = CanonicalReplay(SubSeq(chain, 1, scan.walletHeight - 1))

\* One reorganisation in the middle of a scan cannot bring a transfer into the
\* registry that is not in the chain of the verified tip: the checks against
\* the canonical blocks and the second look at the tip leave no gap
\* (indexer.go:502-508, 560, 616).
OneReorgIsNoticed ==
  pc \in {"save", "publish"} /\ scan.reorged <= 1 =>
    \A i \in DOMAIN scan.visible.events :
      [txid |-> scan.visible.events[i].TxID, height |-> scan.visible.events[i].Height]
        \in Received(scan.tip)

\* As long as reorganisations are not deeper than the confirmations allow, the
\* stored snapshot is the registry of the chain up to its anchor, at any time
\* after any scan, crash or fault: what snapshotMatchesChain trusts a single
\* block hash for (indexer.go:188-201).
StoredIsCanonical ==
  /\ db.height <= Len(chain)
  /\ db.hash = Hash(chain, db.height)
  /\ [names |-> db.names, events |-> db.events] = CanonicalReplay(Hash(chain, db.height))

\* Under the same condition the stored log only grows: no scan, restart or
\* rebuilt wallet ever takes back an event once it was stored.
StoredLogGrows == [][IsPrefix(db.events, db'.events)]_vars

\* What lookups call final is what the database holds: the 10 of handleLookup
\* (indexer.go:672) and the 10 of scanOnce (line 475) mean the same depth, and
\* no answer is given from a registry whose durable part was not saved.
FinalizedIsStored ==
  ready /\ pc # "publish" =>
    \A n \in DOMAIN state.names :
      Finalized(state, n) => n \in DOMAIN db.names /\ db.names[n] = state.names[n]

\* The published log continues the stored one.
PublishedExtendsStored ==
  ready /\ pc # "publish" => IsPrefix(db.events, state.events)

\* height - LastUpdateHeight (indexer.go:672) does not wrap: no entry was last
\* updated above the height it is served at, however far the wallet had got
\* ahead of the scan.
NoHeightWraps ==
  \A n \in DOMAIN state.names : state.names[n].LastUpdateHeight <= state.height

\* Once the chain stands still, faults stop and the wallet runs, lookups are
\* answered from the registry of the whole chain, after a deep reorganisation
\* too (scan, indexer.go:417-430).
InSync ==
  /\ ready
  /\ state.height = Len(chain) + 1
  /\ [names |-> state.names, events |-> state.events] = CanonicalReplay(chain)

Converges == <>[](~wallet.up \/ InSync)

\* What README.md:19 says of Monero, that it is "the only source of truth":
\* what the scan hands over is the registry of the chain whose tip it verified.
TipIsTheTruth ==
  pc \in {"save", "publish"} => scan.visible = CanonicalReplay(scan.tip)

\* What a registry says of its names, without transactions.
TermsOf(names) ==
  [n \in DOMAIN names |-> [owner |-> names[n].OwnerKey,
                           since |-> names[n].FirstClaimHeight,
                           until |-> names[n].ExpirationHeight]]

Promise == INSTANCE FinalNames
             WITH final <- TermsOf(db.names), answers <- TermsOf(state.names), open <- ready

\* As long as reorganisations are not deeper than the confirmations allow, a
\* name that was stored is never taken from its owner before its term is over,
\* nor its term cut short: not by a later save, not by an answer of any later
\* scan, and not by a restart, after which lookups stay closed until a scan has
\* brought back at least what was stored (indexer.go:124-149, 388-411).
ImplementsFinalNames == Promise!Spec

\* The terms that are final in the registry lookups are answered from, those
\* that are over by its height among them.
FinalTerms ==
  TermsOf(Restrict(state.names, {n \in DOMAIN state.names : Finalized(state, n)}))

\* Under the same condition the database never contradicts a term that lookups
\* call final, at any moment: they stay open while a scan goes on, and between
\* Save and the new state they are answered from a registry that is older than
\* the database (indexer.go:400-411).  By then the name may have been renewed,
\* or taken by somebody else, but not before the term is over.
FinalTermsStand == ready => Promise!Continues(TermsOf(db.names), FinalTerms)

\* "indexer is synchronizing" (indexer.go:659) is a passing state.
ReadyAgain == []<>ready
=============================================================================
