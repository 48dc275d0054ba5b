# XNS in TLA+

A verification project for the Go code of this repository: TLA+ modules of the
name registry, of the indexer that rebuilds it from Monero, of its database, of the
command that pays for a name and of the bytes between them, TLC runs on small
instances, and proofs checked by TLAPS for every value of the constants.
`PROJECT.json` lists the runs, the mutants that show each property can fail, the
hazards, the theorems, and for each definition the lines of `src/` it models.

    tlc -workers 2 -config MCReplay.cfg MCReplay.tla      # a run
    tlapm ReplayProofs.tla                                # the proofs of a module

## The system

XNS sells names for Monero payments. A payment to the protocol address whose
transaction extra carries a payload (name, owner key) claims or renews the name
for one year per 0.01 XMR. There is no server of record: everybody can replay the
payments from the chain and gets the same registry. The parts:

| part | state | operations | correct when |
|---|---|---|---|
| registry (`pkg/xns/registry.go`, `protocol.go`) | `Registry.Names`, the events returned so far | `Apply` (claim, renew, ignore), `YearsFromAmount` | a running term is never taken or shortened; owners never overlap; the log explains the entries; lookups agree with `Apply` on the expiry block; heights do not wrap |
| indexer, scan (`pkg/indexer/indexer.go`) | `state`, `ready`, the wallet process, the data of the scan in progress | `scanAndStore`, `scan`, `scanOnce`, `sortTransfers`, `payloadForTx`, `rebuildWallet` | what is published is the registry of a real chain; what is stored stays true; what is called final is stored; it recovers |
| indexer, lookup | reads `state`, `ready` | `handleLookup` | no wrapped height, `finalized` only for stored entries, 503 only for a while |
| indexer, start and stop | the loaded snapshot, the processes, the scan goroutines | `Run`, `snapshotMatchesChain`, `protocolWallet`, `rpcProcess.stop` | a restart serves nothing wrong; nothing runs on a closed database |
| store (`pkg/store`) | tables `meta`, `names`, `name_txids`, `events` | `Open`, `Load`, `Save` | `Save` is all or nothing; `Load` returns what was saved, to a process of the same network |
| claim (`pkg/claim`) | two wallet processes, a copied cache, the transaction | `run` | the payment buys what the user asked for; a payment made twice counts twice; no wallet is left running |
| transaction set (`pkg/monero/txset.go`) | bytes | decrypt, locate, patch, encrypt | only the extra changes |
| transaction extra (`pkg/xns/extra.go`) | bytes | `ExtractPayloads` | one payload or none, on any bytes |
| names, payloads, keys (`protocol.go`, `edwards.go`) | none | encode, decode, validate | encoding and decoding are inverse; a key is in the prime-order subgroup |
| Monero clients, lookup client, command line, addresses | none | one request each, constants | |

How they interact: `Run` starts a wallet process and a ticker; every 30 seconds a
scan makes some twenty calls to the wallet and to the daemon, two different
processes that each have their own idea of the chain, then saves and publishes.
`xns claim` is a run of its own: it starts two wallets on the user's files, has one build a
transaction, writes the payload into its bytes, has the other sign and submit it. Claim and
indexer meet only on the chain, in the bytes of a transaction's extra.
HTTP handlers read `state` and `ready` under a lock while this goes on. The hard
part is that nothing holds still between two calls: blocks are mined, the chain
is reorganised, the wallet refreshes by itself, calls fail, processes die.

## Modules

    NameLease    what a name is to its owners (abstract)
      ^ implemented by
    Replay    --> Registry    RegistryProofs, ReplayProofs    MCReplay

    FinalNames    what of a name can be relied on (abstract)
      ^ implemented by
    Scan      --> Registry    ScanProofs                      MCScan

    Claim     --> Registry    ClaimProofs                     MCClaim

    Lifecycle                 LifecycleProofs                 MCLifecycle

    SnapshotStore    what the indexer expects of its database (abstract)
      ^ implemented by
    Store     --> Registry    StoreProofs                     MCStore

    Wire --> NameCodec --> Edwards    EdwardsProofs, WireProofs    MCWire
      \ --> TxSet

**Registry** is `Apply` and the comparisons of `handleLookup` as operators: a
registry is a function from the names claimed so far to entries, and
`NamesAfter(names, t)`, `EventOf(names, t)` are what `Apply` leaves and returns
for a transfer `t`. `Free` is the condition of registry.go:49, `Claims` and `Renews` the
two paths that change an entry; everything else is ignored. A payload is a pair
of model values, or `NoPayload` when `payloadForTx` finds none or more than one.
An event's `Years` and `PreviousExpirationHeight`, which are functions of the
rest, and its `Reason` are left out. Numbers are naturals of any size;
`PaidForExpiry` shows that they stay far below 2^64.

**Replay** is the replay loop of `scanOnce` on one registry: one action, `Apply(t)`,
for transfers in the order `sortTransfers` gives them, so at heights that never
decrease, each transaction once (one that is listed twice is looked at in `Store`, where it fails). Amount and payload are arbitrary, anyone may
pay for any name. `paid`, the sum of all payments, is a history variable.

**NameLease** says what that promises: a name is nobody's or is held until a
height; it may be granted to anyone when it is not held, its holder's term may be
extended, time passes. `Replay` implements it (property and theorem).

**Scan** is the scan and everything around it. The variables: `chain`, the daemon's
chain; `wallet`, whether the wallet process runs and the chain it has scanned; `pc`
and `scan`, the call a scan makes next and what it has read and computed; `db`, the
stored snapshot; `state` and `ready` of the server. One action per remote call, and
one for each way it can go wrong:

| action | code |
|---|---|
| `StartScan` | the ticker and `scanAndStore`'s `TryLock` (a tick during a scan does nothing) |
| `Refresh`, `RefreshTooDeep`, `RebuildWallet`, `RebuildFails` | `refresh`, and `scan`'s retry after "reorg exceeds maximum allowed depth" |
| `ReadWalletHeight`, `ReadTip`, `GetTransfers` | the three reads of `scanOnce` |
| `CheckBlock(h)`, `SortTransfers` | `sortTransfers`, a block per height, then the order |
| `ReplayTransfer(r)` | `payloadForTx` and both `Apply` calls |
| `ReadDurableHash`, `RecheckTip` | the end of `scanOnce` |
| `Save`, `Publish` | the end of `scanAndStore` |
| `WalletUnreachable`, `CallFails` | any `return err` |
| `Mine`, `Reorg(d)`, `AutoRefresh`, `WalletDies` | the daemon and monero-wallet-rpc |
| `Restart` | death of the process at any point, then `Run` |

How the data is abstracted:

- A block is the sequence of its transactions that pay the protocol address, in the
  order of their same-block keys; that order depends on the block's hash, so two
  blocks with the same transactions in another order are different blocks.
- The hash of a block is the chain up to it. The genesis block pays nobody and is
  left out: block `h` is `chain[h]`, and `get_height` answers `Len(chain) + 1`.
- A reorganisation of depth `d` replaces the last `d` blocks by `d` or `d + 1` others:
  Monero adopts a chain only when it has more work, so the daemon's height does not
  decrease. For the same reason the second half of the condition at indexer.go:445
  holds whenever it is evaluated, which is the theorem behind `ReadTip`'s guard.
- `GetHeight` and the following `BlockHash` are one step, since nothing but that
  condition uses the height.
- A wallet after a restart has some part of the chain it had before; after a rebuild
  it has none. It follows reorganisations up to `MaxWalletReorg` and refuses deeper ones.
- A log is compared with a chain's through `CanonicalReplay`, a recursive function that takes the
  same `Apply` through the chain, block by block: what the registry is by definition.

**FinalNames** says what that promises to the owner of a name: there is a final register of who has each name,
since when and until when, which another one replaces only if it continues it (each name is still its owner's, for at
least as long, or was given away after its expiry), and lookups are answered from a register that continues the final one, or
closed. `Scan` implements it, when reorganisations are shallow, under final := the stored names, answers := the names in `state`,
open := `ready`. Payments, chains, scans and restarts are all gone from it: a restart is a `Close`.

**Lifecycle** is `Run` from start to stop with the wallet processes and the wallet's
files; what a scan computes is left to `Scan`. A scan is a second thread here: `pc.main` is
where `Run` is, `pc.scan` where the goroutine with the scan is. Both call
`protocolWallet`, one at the start and one in `rebuildWallet`, so its steps take the caller
`c` as a parameter. The variables: `cache` and `keys` (the files), `running` and `opened` (the wallet
processes, and which of them has the wallet open), `held`, `first`, `current` (the variables
`proc` of `protocolWallet` and of `Run`, and `Server.walletRPC`), `ticking`, `cancelled`, `dbOpen`.

| action | code |
|---|---|
| `Spawn`, `Wait`, `AddressMatches`, `AddressDiffers`, `Generate`, `OpenFails` | `protocolWallet` call by call |
| `RemoveFile`, `RemoveFails` | `removeWalletFiles`, file by file |
| `Tick`, `LoopEnds` | `loop`; `TryLock` |
| `Refreshed`, `TooDeep`, `StopOld`, `Scanned`, `Saved`, `ScanFails` | `scanAndStore`, `scan`, `rebuildWallet` |
| `Start`, `Serve`, `DBFails`, `Signal`, `ListenFails`, `Interrupted`, `Shutdown`, `ShutdownTimesOut`, `ScansWait` | the body of `Run` |
| `StopCurrent`, `CloseDB`, `StopFirst` | its deferred calls, last one first |
| `WalletStores`, `WalletDies`, `Crash` | monero-wallet-rpc and the machine |

What the model takes monero-wallet-rpc to do, none of which is in `src/`: it locks the keys of
the wallet it has open, and another one that finds them locked exits; it may store its
cache at any time and when it is interrupted; `generate_from_keys` does not overwrite a cache.
`rpcProcess.stop` returns when the process has ended and is one step. A crash is the
machine's and takes the wallet processes with it. Three history variables name what the code does not promise: `late`
(the ticker started one more scan after the context was done: `select` chooses at random), `hasty`
(`Shutdown` timed out and `Run` does not wait for its scans), `cut` (the deferred calls met a scan in progress).
The address file is removed and never looked at. Database files of another network, removed
between two `store.Open`, are part of `Serve` and `DBFails`.

**Store** is the database statement by statement. A table is its set of rows, a row its primary
key and its other columns. `disk` is what is committed; `work` what the open transaction
sees; `deletes` and `left` the statements that `Save` still has to execute, for the snapshot `saving`.

| action | code |
|---|---|
| `Start(n)`, `RemoveFiles` | indexer.go:100-122 for network `n`: `Open`, `Load`, and `removeDBFiles` for another network's database |
| `Begin(s)`, `DeleteRows`, `InsertRow`, `Commit` | `Save`; names come in any order, as Go's maps do, each followed by its transactions |
| `Refused` | a primary key or the foreign key refuses the next row: `Save` rolls back |
| `SaveFails` | any statement or the commit fails: the same |
| `Stop` | the process ends at any point; what was not committed is gone (SQLite's write-ahead log, `_synchronous=FULL`) |

A database may have been left by a version that wrote no protocol address (`Legacy`), the case that
the second half of indexer.go:111 is there for. A transaction is a number, the order of its hexadecimal
text. `Years`, `PreviousExpirationHeight` and `Reason` of an event are left out as in `Registry`.

**SnapshotStore** says what that promises: one snapshot, replaced as a whole, handed to
every process of its network and dropped when one of another network starts. `Store` implements
it under snapshot := `Load(disk)`, so the refinement is about `Load` too: it goes through the
rows in the order the queries ask for (`Ordered`: each row is at the place that the number of rows before it gives). What comes back is the snapshot that was saved with its
log sorted by height and transaction (`Sorted`): the order of one block's events is not kept.

**Claim** is `run` of `claim.go`. `pc` is the next call; `running` and `deferred` are the wallet
processes and those whose `stop` is deferred; `full`, `cacheFile`, `watchFile`, `watch` what the two
wallets and their files know (a height and the coins taken to be unspent), `txset` the transaction between the two.
The chain is reduced to `tip`, `unspent`, `seen`, the payments relayed (`paid`), and what `Registry`'s
`Apply` makes of them as they are mined (`events`, `names`).

| action | code |
|---|---|
| `Run`, `StartFull`, `StartWatch`, `Reopen` | `run`'s beginning, `freePort`, the three `startWalletRPC` |
| `Answered` | the calls that change nothing (`Quiet` lists them): `waitWallet`, `sender`, `store` of the first watch wallet, `auto_refresh`, `sign_transfer` |
| `Refresh`, `Store`, `Generate`, `StopWatch`, `Copy`, `Import`, `Compare`, `Transfer`, `Patch` | one call each |
| `Submit`, `SubmitUnanswered` | `submit_transfer`, with and without its answer |
| `Error` | every `return Result{}, err`; `Return` is the deferred stops and those the early error paths make |
| `Killed`, `Reap` | claim has no signal handler; the user ends what it left |
| `WalletDies`, `WatchRefreshes`, `SpendElsewhere`, `Mine` | monero-wallet-rpc, another copy of the wallet, the chain |

Coins are worth the same, so a balance is a number of coins and `Transfer` spends one. `samePort` is the
case that `freePort` returned one port twice: the watch process exits, and what answers is the full wallet.
`disturbed` is a history variable: something happened for which a run may fail.

**Edwards**, **NameCodec** and **TxSet** are the pure code as operators, on bytes: point decoding and
scalar multiplication of edwards.go for a prime, a curve and a subgroup that are constants;
names, keys and payloads of protocol.go; `patchTxSetPlaintext` and `locateDefaultExtra` of txset.go.
Sizes of fields are constants. `Edwards` ends with the reference it is compared with: the curve by its
equation, the subgroup as the multiples of the cofactor.

**Wire** composes them: a claim's payload is built, put into a transaction set, and its extra walked by
`ExtractPayloads`, one action for each kind of field, with `i`, `out` and `verdict`. Or the extra is one that
somebody else made. `Signed` is Go's `int`: it wraps at `Word`. Of an offset below 0
nothing follows, since the program stops there.

`MCReplay`, `MCScan`, `MCLifecycle`, `MCStore`, `MCClaim` and `MCWire` give the constants values.

## Runs

| run | shows | size |
|---|---|---|
| `replay` | every sequence of 4 payments, by 2 owners, for 2 names | 138 thousand states |
| `scan_settled` | chains of up to 3 blocks, 2 reorganisations of one block, one fault, confirmations 2 | 1.5 million states |
| `scan_deep` | one reorganisation of up to 2 blocks, which the wallet does not follow: liveness | 505 thousand states |
| `scan_stale` | violation: a registry of no chain | |
| `scan_dead` | violation: closed for good | |
| `lifecycle` | 4 wallet processes, 4 faults: safety and liveness | 53 thousand states |
| `store` | 5 snapshots, 2 networks, any number of saves and restarts | 1728 states |
| `store_twice` | violation: a transaction listed twice is never saved | |
| `claim` | 2 runs of claim, 3 coins, chains of up to 4 blocks, 2 faults | 313 thousand states |
| `claim_wraps` | violation: success reported for years that were not paid for | |
| `wire` | 69 claims, 8 byte strings before and after the extra, 7557 extras | 23 thousand states |
| `extra_wrap` | violation: the walk goes back | |

*Why the bounds are enough.* In `replay` a year lasts one block and costs 2 units, the
heights go to 4: with four payments a name is claimed, renewed, lost by expiry and claimed
by the other owner, with both names in play, and amounts of one year, two years and no
whole number of years. In the `scan` runs two rivals pay once each for one name, so the
winner depends on the order of blocks, on the order within a block, and on whether
both transfers were seen. With 2 confirmations instead of 10 and 3 blocks, the durable
height takes the values 0, 1 and 2, so an entry is stored and another is not. In `scan_settled` a year lasts one
block and the two pay for one and for three: one term is over, and its name taken by the other, in a database that
lookups have not caught up with, and the other outlasts the heights at which it becomes final;
reorganisations reach one block (never a durable one, in `scan_settled`) or two
(`scan_deep`). `MaxFaults` = 1 puts one crash, failed call, failed rebuild or wallet
death at every possible point. All bounds are constants: `MaxHeight`, `MaxLen`, `MaxReorg`,
`MaxReorgs`, `MaxFaults`.

`scan_settled` never rebuilds the wallet (its reorganisations are not deep enough) and
`scan_deep` always may; together they fire every action. `replay` stops when its
transactions are used up, `claim` when its runs and blocks are, and `wire` when the extra has been walked,
hence their `CHECK_DEADLOCK FALSE`; the scan runs, `lifecycle` and `store` check for deadlock.

In `store` the snapshots are replays of real lists of transfers: none, a claim, a claim and its renewal in one block
in an order that is not that of their texts with a second name and an ignored payment, and a transaction that is listed
twice, as two accepted payments and as one that is ignored. The state space is complete: no bound but these sets.

In `claim` two runs are needed for a payment that is made again; two faults for an answer that is lost and
a wallet that dies, or a kill and a coin spent elsewhere. A year costs 3 units and `Word` is 16: 3 years do not wrap, 6
(`claim_wraps`) do. One year lasts two blocks and the chain has four, so a payment can also find the
term it bought before expired. `ReportedIsGranted` looks at every height at which the payment may still be mined.

In `wire` the curve is that of edwards.go over the integers modulo 29: the prime is 5 modulo 8 and D no
square, as in the code, there are 40 points, and a subgroup of order 5 with cofactor 8, so points of
order 2, 4 and 8 exist and must be refused; all 64 encodings are tried, those with y from 29 on among them. Names have up to 3
bytes, so there are names of one byte, of the full size, and one too long. Extras are all sequences of up to 3 of 14
fields, whole and damaged, and all sequences of up to 4 of 8 bytes. What surrounds the extra includes a
second look-alike and every part of one. `Word` = 2^24 is beyond any length that fits into a varint of 3 bytes
times the size of a key, so nothing wraps there; `extra_wrap` has `Word` = 2^12 and varints of 2 bytes, in
the proportion of 2^64 to 10 bytes.

In `lifecycle` a fault is a failed step, a signal, a deep reorganisation, a timeout, the death of a wallet
or a crash. Three are needed for the longest interesting story (a rebuild, a signal in the
middle of it, a `Shutdown` that times out), and there is one more; four processes are one left over, the one `Run`
started, the one a scan is starting, and one to spare. A process that ended may stand for a new one.

*Properties.* Of a scan: `QuietScanIsExact` (a scan without a reorganisation in it hands
over exactly the registry of the chain it verified, however the wallet and the miners
interleave), `OneReorgIsNoticed` (one reorganisation cannot bring in a transfer that is not
in the verified chain). Of the database: `StoredIsCanonical`, `StoredLogGrows` (as
long as reorganisations stay above the confirmations, what is stored is the registry of the chain
up to its anchor and only grows, through crashes). Of lookups: `FinalizedIsStored`
(what is called final is in the database), `PublishedExtendsStored`, `NoHeightWraps`, and, between `Save` and the new state
too, `FinalTermsStand` (the database never contradicts a term that lookups call final). Of both together: `ImplementsFinalNames`
(so what was once called final holds until the name's term is over, in every later answer).
Of progress: `Converges`. Of the registry: `NoSeizure`, `DisjointTenures`, `EntriesMatchEvents`,
`PaidForExpiry`, `LookupPredictsApply`, `ImplementsLease`. Of start and stop: `CacheNeedsKeys` (a cache without keys
would make every start fail, as `protocolWallet` looks at the keys only), `EarlyScansAreWaitedFor` (the database is not closed
under a scan), `NothingLeft` (no process survives), `SignalEnds`, `ComesUp`. Of the database file: `Whole` (the
tables are those of one snapshot), `ImplementsPromise` (what is loaded is the last snapshot saved for this network).
Of claim: `NoWalletLeft`, `SignedIsOwn` (the full wallet signs only what spends a coin it takes to be its own and unspent),
`ReportedIsGranted`, `EveryPaymentCounts`, `FailsForAReason` (left alone, a claim succeeds).
Of the bytes: `ClaimIsReadBack`, `OnlyTheExtraChanges`, `OneEncoding`, `KeysAreTheSubgroup`, `NeverDividesByZero`,
`WalkMovesInside` (the walk over an extra moves forward and stays inside).

*Fairness.* `FairSpec` asks for weak fairness of `Step`, the actions of the scan itself:
the ticker fires every 30 seconds and every call has a client with a timeout of ten
minutes (rpc.go:32), so a scan that can go on does. `Step` includes `RebuildWallet` but not
`RebuildFails`: a rebuild that does not meet a fault succeeds. In `Lifecycle`
`Run` and `ScanStep` are fair for the same reason (a wallet that does not come up is given up after 30
seconds, `stop` kills after 10), `Run` includes `Start` (somebody restarts the indexer), and `LoopEnds` is fair because
`select` chooses at random among its ready cases. Nothing is assumed of
the environment; that faults, blocks and reorganisations end is a consequence of their bounds.

## Findings

`scan_stale`: the wallet is refreshed, then the tip is read, and only the tip is looked at
again at the end. A reorganisation between the two reads leaves the wallet with the
transfers of the old chain. If the blocks that the wallet knew transfers of are still
there, but a replaced block now holds a payment, every check passes and the registry
published (and, if the replaced blocks are deep enough, stored) lacks that payment. The
next scan repairs it. `QuietScanIsExact` and `OneReorgIsNoticed` say what does hold: without
a reorganisation the result is exact, and with one nothing false is added.

`scan_dead`: `rebuildWallet` stops the old wallet first. If the new one does not start,
`s.wallet` keeps the address of a stopped process; later scans fail at `refresh` with a
connection error, which is not the error that starts a rebuild. `ready` was already
false, so every lookup is answered 503 until someone restarts the indexer.

`store_twice`: get_transfers lists a transaction once for each subaddress of the wallet that it pays, and
`scanOnce` replays each of them (the `if` at indexer.go:567 allows for that). The table `events` has the transaction as its
primary key, so the second insert fails, `Save` returns an error and `scanAndStore` returns before it
publishes. The transaction stays in the chain, and so every later scan ends the same way.

`claim_wraps`: `cfg.Years * xns.YearAmount` is a product of unsigned 64-bit numbers, and only 0 is refused
as a number of years. With the code's constants it wraps from 1,844,674,408 years on.

`extra_wrap`: the number of additional keys is a 64-bit varint, converted to `int`, multiplied by 32 and added to the
offset; the check that a field does not overrun the extra is made after that. A sum that wrapped may be at or before the
field itself, and below 0 it is no index at all.

## Proofs

Assumptions: those the modules name. Years cost and last something (`YearAssumption`),
`NoPayload` is not a payload, `NoProc` is not a process, the amounts are naturals (`AmountsAssumption`), transactions
carry naturals and payloads (`ContentAssumption`), the bounds are naturals and there is at
least one confirmation (`BoundsAssumption`), transactions are naturals and `NoAddress` is not a network's address
(`TxIDsAssumption`, `AddressAssumption`), SQL's NULL is no number (`NullAssumption`), a snapshot has entries and
events and, without a durable block, no hash, as `scanOnce` returns it (`SnapshotsAssumption`), the coins are finitely many (`CoinsAssumption`), a name field has at least one
byte (`SizeAssumption`), the modulus of the curve is a prime, 5 modulo 8 and below the bit of the sign, and the subgroup's
order is odd (`FieldAssumption`), edD is not a square and the square of edI is -1 (`CurveAssumption`), and 8 edL times any point
is the identity, as the curve has 8 edL points (`OrderAssumption`; all true of the code's constants), the default extra's length takes one byte (`LengthAssumption`), bytes are bytes (`BytesAssumption`), and an extra's length
is an int that a word can hold (`WordAssumption`).

Three hypotheses are stated by the theorems that need them, since the code does not check them:

- `ReorgsAreShallow`: no reorganisation is as deep as the confirmations. This is what the code's 10 confirmations
  stand for (indexer.go:475, 672). `scan_settled` is such an instance; without it what was final is not.
- `YearsFit`: the price of the years asked for fits into a word, as it does up to 1,844,674,407 years. `claim_wraps`
  shows what happens otherwise.
- `NoSumWraps`: no count of additional keys makes the sum of extra.go:38 wrap, at any time in the walk. `wire` is such an
  instance (three bytes hold at most 2^21, and keys of 2 bytes stay below 2^23), `extra_wrap` is not.

`RegistryProofs` has the lemmas about `Apply`: its three cases (`ApplyCases`), that it keeps
types, that a running term survives it (`RunningTerm`), what an accepted event says
(`AcceptedEvent`), and what an extension costs (`ExtensionCost`).

`ReplayProofs`, about `Replay`:

- `TypeCorrect`: `TypeOK` is inductive.
- `RunningTermsGoOn`: `NoSeizure` follows from types, `RunningTerm`, and heights that do not decrease.
- `ExpiryIsPaidFor`: `PaidForExpiry` is inductive with types; each claim starts at the current height
  and adds at most `amount / YearAmount` years, each renewal adds that to a bound that already holds.
  With the code's constants a height wraps only when payments add up to 2^64 * 10^10 / 262800 atomic
  units, some 38,000 times 2^64.
- `TenuresAreDisjoint`: `DisjointTenures` alone is not inductive: a new claim compares itself with
  the entry, not with the log. The strengthening says for every accepted event that it is within the entry's
  present tenure or over (`FormerTermsAreOver`), so a claim, which finds the entry expired, is later than all of them.
- `EntriesAreExplained`: the invariant names the first and the last event of a name's tenure (`Explains`) where
  `EntriesMatchEvents` chooses them. A claim makes a tenure of one event, since the events before it are followed by a
  claim; a renewal extends the tenure at its end, and its transaction is added to both sets of sources.
- `LookupsPredictPayments`: from types alone, by the three cases of `handleLookup` against the condition of registry.go:49.
- `ReplayImplementsLease`: initial states map to initial states; each `Apply` maps to a grant, an extension or
  the passing of time under holder := the entry's owner, until := its expiry, now := the height.

`ScanProofs`, about `Scan`:

- `TypeCorrect`: `TypeOK` is inductive together with `DaemonIsAhead` (the wallet's chain and the height a scan
  works with are never beyond the daemon's chain), without which the hash of the tip, of the durable
  block or of a fetched block might be of a block that does not exist.
- `HeightsDoNotWrap`: `GetTransfers` drops what is listed at or above the scan's height, so everything replayed is
  below it; `HeightsInOrder` carries that from the listing to the published names.
- `FinalIsStored`: a scan replays into two copies, the visible one and the durable one, which stops at the
  durable height. Transfers come in height order, so the copies are equal until the first transfer above that
  height, and from then on agree on every entry last updated at or below it (`CopiesAgree`); an entry that
  is final was, since both depths are the same.
- `StoredLogIsPublished`: along the same lines for the logs (`LogsAgree`): the durable one is a beginning of the visible one.
- `OneReorgLeavesNoTrace`: while a scan confirms transfers, its tip is that of the daemon's chain until the first
  reorganisation, and as long as it is, what was replayed is in that chain (`TipIsWatched`). One reorganisation can take the
  tip away, and then the scan ends with an error; it takes a second one to bring the tip back.
- `QuietScansAreExact`: `ChainsAgree` compares the two chains: what is deeper than any reorganisation is the same in both, and
  until the first reorganisation after the refresh all that the wallet has is. So what `GetTransfers` found is what the
  chain up to the height read has (`TracksFromTheStart`), and each `ReplayTransfer` takes the first of what is left, by height and key, and
  leaves what comes after it (`Tracks`); when nothing is left, the copy is `CanonicalReplay` (`TracksToTheEnd`).
- `StoredRegistryIsCanonical`: the same `Follows` for the durable copy, with no condition on the scan, since with
  `ReorgsAreShallow` no reorganisation reaches a durable block (`DurablyFollows`). What is saved is then canonical and stays so as long as
  `MaxReorg` blocks are above it (`StoredIsDeep`).
- `StoredIsNeverTakenBack`: a saved snapshot is that of a chain which the stored one is a beginning of, because a durable
  height is never below the stored one (`NeverShallower`; the wallet that a restart finds may be behind, but a refresh
  catches up before the height is read). `CanonicalGrows`: the registry of a longer chain extends that of a shorter one, its
  log and the terms of its names (`Extends`).
- `ScanImplementsFinalNames`: `Apply` takes a name only at its expiry or later (`TransferContinues`), and "this registry continues
  that one" is reflexive and transitive. So a save continues what was stored, as above; the visible copy continues the durable
  one (`VisibleGoesOn`, with no condition on the chain), which is what is stored when it is published; and a restart or a refused
  refresh closes lookups. `Save` maps to a `Keep`, `Publish` to an `Open`, `Restart` and `RefreshTooDeep` to a `Close`, and the rest stutters.
- `FinalTermsAlwaysStand`: at `Publish` a final entry is in the database in just that form (`FinalIsStored`), and a `Save` continues what
  was stored, so until the next `Publish` the database continues it (`FinalContinued`), renewed or expired and taken.

`CanonicalReplay` is a recursive function over blocks around one over the transactions of a block. That such a function exists and
that two of them agree is proved by `Induction`, about a set of numbers: a set that has 0 and with each number the next. It follows from the least number missing,
which the library's theorem on well-founded relations gives (`WFMin`, whose parameter is a set and not an operator).

`LifecycleProofs`, about `Lifecycle`:

- `TypeCorrect`: one lemma for each group of variables.
- `CachesHaveKeys`: needs `Ownership` (nobody has the wallet open without keys; when the server's own process runs, no
  other has it open; nobody has it open while files are removed) and that the cache is gone before the keys are.
  `RunIsAlone`, that no scan is in progress while `Run` is in `protocolWallet`, keeps the two callers apart.
- `ScansAreWaitedFor`: by `TickerIsLate`, the ticker outlives the wait only with a context that is done.
- `NoProcessIsLeft`: `Known` lists the processes that may run at each place of `Run` and of a scan; before a
  rebuild the old process is stopped, so there are never more than Run's, the server's and the one being started.

`StoreProofs`, about `Store`:

- `TypeCorrect`: `TypeOK` is inductive with the shape of the tables.
- `DiskIsWhole`: `SavingInv` says what an open transaction holds. While `Save` deletes, every table with rows is still to be
  emptied (`Emptying`); while it inserts, `work` is exactly the rows of the inserts that are no longer `left`
  (`Filling`), and no two of them share a key (`KeysDiffered`). When nothing is left, `work` is the snapshot's rows.
- `StoreImplementsPromise`: `DiskIsWhole` says that the tables are the rows of a snapshot, and `SnapshotLoaded` that `Load` makes that
  snapshot of them. Each order asked for is strict and total on the rows it is asked of, so there is just one row at each place
  (`OneAtEachPlace`, by cardinality), and what maps rows to entries and events keeps the places (`PlacesKept`). That the order of the log is total
  is what the primary key of `events` is for: it leaves no transaction twice (`KeysDiffer`). Then `Commit` is a `Save`,
  `RemoveFiles` and a `Start` that finds nothing foreign are a `Start`, a `Stop` of a running process is a `Stop`, and the rest stutters, with
  `Tenant` (what is being saved is for the running network, and files are removed only when they are foreign).

`ClaimProofs`, about `Claim`:

- `NoWalletIsLeft`: at each `pc` the processes that run are among those that `Return` would stop.
- `SignedIsTheFullWallets`: only heights and numbers of coins are compared (`SameState`). From the import on, and when
  the watch wallet did not refresh at another height, its coins are a part of the full wallet's; with the same number of
  them the two sets are equal, by cardinality.
- `TypeCorrect`: one lemma for each group of variables.
- `FailureHasAReason`: `InAgreement` says that, as long as nothing disturbs a run, the processes that its next call needs are there
  and both wallets know exactly the chain's height and unspent coins; then no guard of a call fails but that of a
  transfer without coins.
- `PaymentsCount`, `ReportsAreTrue`: every payment is for the price, the name and the owner asked for (`PaidAsAsked`); every block
  with a payment finds the name free or the user's (`Granted`), so `Apply` claims or renews, and by `PriceOfYears` for exactly the years.

`EdwardsProofs`, about the arithmetic of `Edwards`, for every prime and every constant that the assumptions allow. The library knows nothing of
congruences, so its first part makes the integers modulo P a field: division with remainder, and an inverse for whatever does
not vanish (`InverseExists`), because the least number with a multiple that ends in a given remainder has to divide the prime. What the recursive functions of
`Edwards` compute is reached by `Recursion`, `StaysIn`, a set that has the first value and with each value the next, and
`StayAlike`, for two of them. An induction over numbers is an argument about the least counterexample (`Least`).

- `AdditionIsComplete`: if a denominator of a sum vanished, edD would be the square of a quotient (Bernstein and
  Lange's argument; `NoSquareRatio`, from `CurveAssumption`). The sum's equation is a polynomial identity, multiplied out in summands.
- `AdditionIsAssociative`: with the denominators multiplied out, the two ways of adding three points differ by a combination of the
  three equations of the curve (`DifferenceVanishes`, in two named polynomial identities), and no denominator vanishes.
- `DecodedIsOnTheCurve`: edD is no square and edI's is -1, so the denominator of x^2 does not vanish, and the check of the
  root makes the equation hold.
- `OneKeyPerPoint`: y is reduced, and of x and P - x one is even, unless x is 0, where a sign is refused.
- `KeyChecksNeverDivideByZero`: decoding gives a point of the curve, each round of the multiplication adds two points of
  the curve, and so never meets a denominator that vanishes.
- `ScalarMultIsTimes`: each round of doubling and adding keeps the result plus what is left of the number times the addend
  (`RoundKeepsTheProduct`); multiples add and multiply like numbers, by associativity (`TimesSum`, `TimesProduct`).
- `FermatsLittleTheorem`: the first P - 1 multiples of a number are the residues but 0 in another order, so both have the same
  product (`ProductOfMultiples`).
- `RootCandidateIsARoot`: the fourth power of the candidate for the root of a square is the square's square, by Fermat's theorem, so
  its square is the number or its opposite, and edI repairs the second case.
- `EveryPointHasAKey`: the number whose root is taken is x^2, its roots are x and P - x, and one of them has the sign.
- `ValidKeysAreTheSubgroup`: an accepted key decodes to a point whose multiple by edL is the identity. As edL is odd, some 8 m is
  one more than a multiple of edL (`CofactorInverse`), so the point is 8 times its m-th multiple, and `OneKeyPerPoint` leads back to
  the key. The other way, the point of such a key is decoded by `EveryPointHasAKey` and passes by `OrderAssumption`.

`WireProofs`, about `Wire`, begins with names and payloads: decoding inverts encoding, and a field that decodes is the encoding of what it decodes
to (`NameRoundTrip`, `NameIsCanonical`), and the same for payloads (`PayloadRoundTrip`, `PayloadIsCanonical`), for any size of the fields. Of a
valid key nothing is needed but its length.
The next part is about concatenations: where the parts of
five joined sequences are (`FiveParts`). The third shows that the extra the wallet made is a match of the search, so if there is
one match it is that one (`LocatedThere`), and what patching leaves (`PatchedSet`). The fourth is the walk: `WalkInv` says that over a
claim's extra it stops at the public key, at the nonce and at the end, with the payload found in between.

- `ExtraAloneChanges`, `ClaimsAreReadBack`: from `WalkInv`, for any bytes around the extra.
- `PayloadsHaveOneEncoding`: from `PayloadIsCanonical`, for any extra at all.
- `TypeCorrect`: `readVarint` returns a number whatever it reads (`VarintType`, by the least index again), and a wrapped sum is an
  int (`SignedType`); the check after each field keeps the offset below the length, and nothing but a wrap takes it below 0.
- `WalkMovesUnlessItWraps`: with `NoSumWraps` the sum is what it is without a word, so every field ends after it begins.
- `NoDivisionByZero`: from `KeyChecksNeverDivideByZero`, for every claim.

- `AcceptedKeysAreTheSubgroup`: from `ValidKeysAreTheSubgroup`, for every claim. The check that a key is not all zeros adds nothing,
  as 0 encodes a point of order 4 (`ZeroIsNoKey`).

Only model-checked: `SignalEnds`, `ComesUp`, `Converges`, as liveness is outside of the prover. Every other property of a
passing run is stated by a theorem, with the hypotheses above.

## Plan

1. `Registry`, `NameLease`, `Replay` and their proofs: done.
2. `Scan`, its runs, its proofs: done as listed above.
3. `Store`, `SnapshotStore`, their runs and proofs: done.
4. `Lifecycle`: `Run` from start to stop, the wallet's files and processes, and its proofs: done.
5. `Claim`, its runs, its proofs: done.
6. `Edwards`, `NameCodec`, `TxSet`, `Wire`: done as listed above.
7. The invariants, action properties and refinements of all runs, proved for every value of the constants: done, but for what is
   only model-checked.
8. `FinalNames`, what can be relied on when reorganisations are shallow, and that `Scan` implements it: done.
9. The group of the curve's points, and that the keys accepted are those of the subgroup, for every curve: done.
10. To come: the proofs' lemmas about chains, orders and congruences in modules of their own, if other modules come to need them.

## Not modelled

JSON, HTTP, logging, the flag parser and the lookup client are pure I/O: one request whose answer is
printed. Cryptography (the view key, ring signatures, the ChaCha cipher and the CryptoNight key around a transaction
set, the signature over it) is Monero's or data to the last bit: a transfer the wallet lists is taken to be one, and the cipher is its
own inverse. Base58 addresses and network constants have no state. SQLite's columns are signed 64-bit numbers; heights stay
far below that. The reading of a transaction's JSON (`DecodeExtra`) is taken to give its extra. That
nobody else pays for a claim's name is an assumption of `Claim`: the code does not look the name up.
