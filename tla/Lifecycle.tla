----------------------------- MODULE Lifecycle ------------------------------
(***************************************************************************)
(* The indexer from start to stop (indexer.go:78-186) with the processes   *)
(* and files it manages: Run opens or creates the protocol wallet, starts  *)
(* scans in goroutines of their own, and on a signal stops the wallet,     *)
(* waits for the scans and closes the database, while a scan may be        *)
(* rebuilding that same wallet.  What a scan reads and computes is         *)
(* module Scan's.                                                          *)
(*                                                                         *)
(* protocolWallet is run by "main" when the process starts and by "scan"   *)
(* when the wallet is rebuilt; pc[c] is where caller c is in it.           *)
(***************************************************************************)
EXTENDS Naturals, FiniteSets

CONSTANTS
  Procs,      \* wallet processes; one that ended may stand for a new one
  NoProc,     \* no process
  MaxFaults   \* bound: failed steps, signals, dead wallets, crashes

ASSUME ProcsAssumption == NoProc \notin Procs
ASSUME FaultsAssumption == MaxFaults \in Nat

Callers == {"main", "scan"}

VARIABLES
  cache,      \* the wallet's cache is in the data directory
  keys,       \* and its keys are: none, the protocol wallet's, another's
  running,    \* the wallet processes that run
  opened,     \* those of them that have the wallet open
  held,       \* the process a caller's protocolWallet has started
  first,      \* proc in Run
  current,    \* Server.walletRPC, and the process Server.wallet is a client of
  pc,         \* where Run and the scan are
  ticking,    \* the ticker's goroutine runs
  cancelled,  \* ctx is done
  dbOpen,     \* the database is open
  late,       \* history: the scan in progress began after ctx was done
  hasty,      \* history: Run gave up waiting for HTTP, and so for its scans
  cut,        \* history: Run's deferred calls met a scan in progress
  faults

vars == <<cache, keys, running, opened, held, first, current, pc, ticking, cancelled,
          dbOpen, late, hasty, cut, faults>>

files == <<cache, keys>>
wallets == <<files, running, opened>>
server == <<first, current, ticking, cancelled, dbOpen>>
history == <<late, hasty, cut>>

Init ==
  /\ cache \in BOOLEAN /\ keys \in {"none", "own", "other"}
  /\ cache => keys # "none"
  /\ running = {} /\ opened = {}
  /\ held = [c \in Callers |-> NoProc]
  /\ first = NoProc /\ current = NoProc
  /\ pc = [main |-> "down", scan |-> "idle"]
  /\ ticking = FALSE /\ cancelled = FALSE /\ dbOpen = FALSE
  /\ late = FALSE /\ hasty = FALSE /\ cut = FALSE
  /\ faults = 0

At(c, where) == pc[c] = where

Goto(c, where) == pc' = [pc EXCEPT ![c] = where]

\* A step goes wrong.
Fault == faults < MaxFaults /\ faults' = faults + 1

\* A wallet process that ends may store its cache first; one that is killed
\* does not.  p.stop() returns when the process has ended.
Stop(p) ==
  /\ running' = running \ {p}
  /\ opened' = opened \ {p}
  /\ cache' \in {cache, cache \/ p \in opened}
  /\ UNCHANGED keys

-----------------------------------------------------------------------------
\* protocolWallet

\* The caller's protocolWallet returns the process.
Returned(c) ==
  /\ current' = held[c]
  /\ first' = IF c = "main" THEN held[c] ELSE first
  /\ Goto(c, IF c = "main" THEN "openDB" ELSE "work")

\* The caller gives up: Run returns an error, a scan ends.
Failed(c) == Goto(c, IF c = "main" THEN "down" ELSE "idle")

\* startWalletRPC, on the wallet's file if its keys are there, on the directory
\* if not.  monero-wallet-rpc locks the keys of the wallet it has open: a second
\* process that finds them locked exits at once.
Spawn(c) ==
  /\ At(c, "spawn")
  /\ \E p \in Procs \ (running \cup {first, current}) :
       /\ held' = [held EXCEPT ![c] = p]
       /\ IF keys = "none" THEN running' = running \cup {p} /\ UNCHANGED opened
          ELSE IF opened = {} THEN running' = running \cup {p} /\ opened' = {p}
          ELSE UNCHANGED <<running, opened>>
  /\ Goto(c, "wait")
  /\ UNCHANGED <<files, server, history, faults>>

\* waitWallet, then a second look for the keys.
Wait(c) ==
  /\ At(c, "wait") /\ held[c] \in running
  /\ Goto(c, IF keys = "none" THEN "generate" ELSE "address")
  /\ UNCHANGED <<wallets, held, server, history, faults>>

\* The wallet is the protocol wallet of this network.
AddressMatches(c) ==
  /\ At(c, "address") /\ held[c] \in running /\ keys = "own"
  /\ Returned(c)
  /\ UNCHANGED <<wallets, held, ticking, cancelled, dbOpen, history, faults>>

\* It is not, and makes room for one that is.
AddressDiffers(c) ==
  /\ At(c, "address") /\ held[c] \in running /\ keys = "other"
  /\ Stop(held[c])
  /\ Goto(c, "remove1")
  /\ UNCHANGED <<held, server, history, faults>>

\* The wallet process is not asked whether it still runs.
GenerateUnanswered(c) ==
  /\ At(c, "generate") /\ ~cache
  /\ keys' = "own"
  /\ opened' = opened \cup {held[c]}
  /\ Returned(c)
  /\ UNCHANGED <<cache, running, held, ticking, cancelled, dbOpen, history, faults>>

\* generate_from_keys refuses to overwrite a cache.
Generate(c) ==
  /\ At(c, "generate") /\ held[c] \in running /\ ~cache
  /\ keys' = "own"
  /\ opened' = opened \cup {held[c]}
  /\ Returned(c)
  /\ UNCHANGED <<cache, running, held, ticking, cancelled, dbOpen, history, faults>>

\* A call in protocolWallet fails, because the wallet process has ended, the
\* cache is in the way, or for a reason of its own.
OpenFails(c) ==
  /\ pc[c] \in {"wait", "address", "generate"}
  /\ IF held[c] \notin running \/ (At(c, "generate") /\ cache)
     THEN UNCHANGED faults ELSE Fault
  /\ Stop(held[c])
  /\ Failed(c)
  /\ UNCHANGED <<held, server, history>>

-----------------------------------------------------------------------------
\* removeWalletFiles

KeysFirst == <<"keys", "cache", "address">>

RemovalOrder == <<"cache", "keys", "address">>

Removing == <<"remove1", "remove2", "remove3">>

\* Nothing looks at the address file.
Without(file) ==
  /\ cache' = (cache /\ file # "cache")
  /\ keys' = IF file = "keys" THEN "none" ELSE keys

RemoveFile(c, i) ==
  /\ At(c, Removing[i])
  /\ Without(RemovalOrder[i])
  /\ Goto(c, IF i = 3 THEN "spawn" ELSE Removing[i + 1])
  /\ UNCHANGED <<running, opened, held, server, history, faults>>

\* One removal fails, or the new process cannot be started.
RemoveFails(c) ==
  /\ pc[c] \in {"remove1", "remove2", "remove3", "spawn"}
  /\ Fault
  /\ Failed(c)
  /\ UNCHANGED <<wallets, held, server, history>>

ProtocolWallet(c) ==
  \/ Spawn(c) \/ Wait(c) \/ AddressMatches(c) \/ AddressDiffers(c) \/ Generate(c)
  \/ OpenFails(c) \/ \E i \in 1..3 : RemoveFile(c, i)

-----------------------------------------------------------------------------
\* A scan

\* A tick starts a scan unless one is in progress (TryLock).  The ticker's select
\* may prefer a tick to a context that is done.
Tick ==
  /\ ticking /\ At("scan", "idle")
  /\ Goto("scan", "refresh")
  /\ late' = cancelled
  /\ UNCHANGED <<wallets, held, server, hasty, cut, faults>>

Refreshed ==
  /\ At("scan", "refresh") /\ current \in running
  /\ Goto("scan", "work")
  /\ UNCHANGED <<wallets, held, server, history, faults>>

\* The wallet reports a deep reorganisation.
TooDeep ==
  /\ At("scan", "refresh") /\ current \in running /\ faults < MaxFaults
  /\ faults' = faults + 1
  /\ Goto("scan", "stopOld")
  /\ UNCHANGED <<wallets, held, server, history>>

\* The old wallet keeps running while its files are removed.
StopNothing ==
  /\ At("scan", "stopOld")
  /\ Goto("scan", "remove1")
  /\ UNCHANGED <<wallets, held, server, history, faults>>

StopOld ==
  /\ At("scan", "stopOld")
  /\ Stop(current)
  /\ Goto("scan", "remove1")
  /\ UNCHANGED <<held, server, history, faults>>

Scanned ==
  /\ At("scan", "work")
  /\ Goto("scan", "save")
  /\ UNCHANGED <<wallets, held, server, history, faults>>

Saved ==
  /\ At("scan", "save") /\ dbOpen
  /\ Goto("scan", "idle")
  /\ UNCHANGED <<wallets, held, server, history, faults>>

\* The scan ends with an error: the wallet is gone, the database is closed, or a
\* call failed.
ScanFails ==
  /\ pc.scan \in {"refresh", "work", "save"}
  /\ IF (pc.scan \in {"refresh", "work"} /\ current \notin running) \/ (At("scan", "save") /\ ~dbOpen)
     THEN UNCHANGED faults ELSE Fault
  /\ Goto("scan", "idle")
  /\ UNCHANGED <<wallets, held, server, history>>

-----------------------------------------------------------------------------
\* Run

Start ==
  /\ At("main", "down")
  /\ Goto("main", "spawn")
  /\ cancelled' = FALSE /\ late' = FALSE /\ hasty' = FALSE
  /\ UNCHANGED <<wallets, held, first, current, ticking, dbOpen, cut, faults>>

\* The database is opened and loaded; the first scan and the ticker start.
Serve ==
  /\ At("main", "openDB")
  /\ dbOpen' = TRUE
  /\ ticking' = TRUE
  /\ pc' = [main |-> "serving", scan |-> "refresh"]
  /\ UNCHANGED <<wallets, held, first, current, cancelled, history, faults>>

\* Opening or loading fails: Run returns and stops the wallet.
DBFails ==
  /\ At("main", "openDB") /\ Fault
  /\ Goto("main", "stopFirst")
  /\ UNCHANGED <<wallets, held, server, history>>

Signal ==
  /\ ~At("main", "down") /\ ~cancelled /\ Fault
  /\ cancelled' = TRUE
  /\ UNCHANGED <<wallets, held, first, current, pc, ticking, dbOpen, history>>

\* ListenAndServe returns an error.
ListenFails ==
  /\ At("main", "serving") /\ Fault
  /\ cancelled' = TRUE
  /\ Stop(first)
  /\ Goto("main", "scansWait")
  /\ UNCHANGED <<held, first, current, ticking, dbOpen, history>>

\* ctx is done.
Interrupted ==
  /\ At("main", "serving") /\ cancelled
  /\ Stop(first)
  /\ Goto("main", "shutdown")
  /\ UNCHANGED <<held, server, history, faults>>

\* Run goes on to its deferred calls without waiting for its scans.
ShutdownUnwaited ==
  /\ At("main", "shutdown")
  /\ Goto("main", "stopCurrent")
  /\ UNCHANGED <<wallets, held, server, history, faults>>

Shutdown ==
  /\ At("main", "shutdown")
  /\ Goto("main", "scansWait")
  /\ UNCHANGED <<wallets, held, server, history, faults>>

\* A request is not through within five seconds.
ShutdownTimesOut ==
  /\ At("main", "shutdown") /\ Fault
  /\ hasty' = TRUE
  /\ Goto("main", "stopCurrent")
  /\ UNCHANGED <<wallets, held, server, late, cut>>

ScansWait ==
  /\ At("main", "scansWait") /\ At("scan", "idle")
  /\ Goto("main", "stopCurrent")
  /\ UNCHANGED <<wallets, held, server, history, faults>>

\* The deferred call stops the wallet Run started.
StopFirstOnly ==
  /\ At("main", "stopCurrent")
  /\ Stop(first)
  /\ Goto("main", "closeDB")
  /\ cut' = (cut \/ ~At("scan", "idle"))
  /\ UNCHANGED <<held, server, late, hasty, faults>>

\* The deferred calls, last one first.
StopCurrent ==
  /\ At("main", "stopCurrent")
  /\ Stop(current)
  /\ Goto("main", "closeDB")
  /\ cut' = (cut \/ ~At("scan", "idle"))
  /\ UNCHANGED <<held, server, late, hasty, faults>>

CloseDB ==
  /\ At("main", "closeDB")
  /\ dbOpen' = FALSE
  /\ Goto("main", "stopFirst")
  /\ UNCHANGED <<wallets, held, first, current, ticking, cancelled, history, faults>>

\* What is left of the server when its process ends.
Ends ==
  /\ pc' = [main |-> "down", scan |-> "idle"]
  /\ held' = [c \in Callers |-> NoProc]
  /\ first' = NoProc /\ current' = NoProc
  /\ ticking' = FALSE /\ dbOpen' = FALSE

StopFirst ==
  /\ At("main", "stopFirst")
  /\ Stop(first)
  /\ Ends
  /\ cut' = (cut \/ ~At("scan", "idle"))
  /\ UNCHANGED <<cancelled, late, hasty, faults>>

\* The ticker's select has no case for the context.
LoopGoesOn == FALSE /\ UNCHANGED vars

LoopEnds ==
  /\ ticking /\ cancelled
  /\ ticking' = FALSE
  /\ UNCHANGED <<wallets, held, first, current, pc, cancelled, dbOpen, history, faults>>

-----------------------------------------------------------------------------
\* The environment

\* A running wallet stores its cache now and then.
WalletStores ==
  /\ opened # {} /\ ~cache
  /\ cache' = TRUE
  /\ UNCHANGED <<keys, running, opened, held, server, pc, history, faults>>

WalletDies ==
  /\ Fault
  /\ \E p \in running : Stop(p)
  /\ UNCHANGED <<held, server, pc, history>>

\* The machine goes down, and its processes with it.
Crash ==
  /\ ~At("main", "down") /\ Fault
  /\ Ends
  /\ running' = {} /\ opened' = {}
  /\ UNCHANGED <<files, cancelled, history>>

Run ==
  \/ ProtocolWallet("main")
  \/ Start \/ Serve \/ Interrupted \/ Shutdown \/ ScansWait
  \/ StopCurrent \/ CloseDB \/ StopFirst

ScanStep ==
  \/ ProtocolWallet("scan")
  \/ Refreshed \/ StopOld \/ Scanned \/ Saved \/ ScanFails

Environment ==
  \/ \E c \in Callers : RemoveFails(c)
  \/ TooDeep \/ DBFails \/ Signal \/ ListenFails \/ ShutdownTimesOut
  \/ WalletStores \/ WalletDies \/ Crash

Next == Run \/ ScanStep \/ Tick \/ LoopEnds \/ Environment

Spec == Init /\ [][Next]_vars

\* Run and a scan go on when they can: every call they make has a timeout.
\* Somebody starts the indexer again when it has ended.  The ticker's select
\* chooses at random among its ready cases, so a context that is done is noticed.
FairSpec == Spec /\ WF_vars(Run) /\ WF_vars(ScanStep) /\ WF_vars(LoopEnds)

-----------------------------------------------------------------------------
\* Properties

FilesTyped == cache \in BOOLEAN /\ keys \in {"none", "own", "other"}

WalletsTyped ==
  /\ running \subseteq Procs /\ opened \subseteq running
  /\ held \in [Callers -> Procs \cup {NoProc}]
  /\ first \in Procs \cup {NoProc} /\ current \in Procs \cup {NoProc}

PlacesTyped ==
  pc \in [main : {"down", "spawn", "wait", "address", "generate", "remove1", "remove2",
                  "remove3", "openDB", "serving", "shutdown", "scansWait", "stopCurrent",
                  "closeDB", "stopFirst"},
          scan : {"idle", "refresh", "stopOld", "remove1", "remove2", "remove3", "spawn",
                  "wait", "address", "generate", "work", "save"}]

FlagsTyped ==
  /\ ticking \in BOOLEAN /\ cancelled \in BOOLEAN /\ dbOpen \in BOOLEAN
  /\ late \in BOOLEAN /\ hasty \in BOOLEAN /\ cut \in BOOLEAN

\* Every variable has its type, and only running processes have the wallet open.
TypeOK ==
  FilesTyped /\ WalletsTyped /\ PlacesTyped /\ FlagsTyped /\ faults \in 0..MaxFaults

\* The wallet's cache is never left behind without its keys, at no step of a
\* rebuild, of a change of network or of a shutdown and in no crash between
\* them: protocolWallet decides by the keys alone (indexer.go:214, 241), and
\* would try to create a wallet over the cache at every start from then on.
CacheNeedsKeys == cache => keys # "none"

\* A scan that began before the shutdown is over before Run closes the database
\* under it, unless Run gave up waiting for HTTP (indexer.go:167-185); the
\* ticker can slip in one more scan, but that one began after the shutdown.
EarlyScansAreWaitedFor ==
  pc.main \in {"stopCurrent", "closeDB", "stopFirst"} /\ ~At("scan", "idle") => hasty \/ late

\* When the indexer has ended and its deferred calls met no scan in progress, now
\* or in an earlier life, no wallet process is left, whichever process Run started
\* and however often a scan replaced it (indexer.go:99, 141-143, 519-532).
NothingLeft == At("main", "down") /\ ~cut => running = {}

\* A signal ends the indexer, also in the middle of a rebuild.
SignalEnds == cancelled ~> At("main", "down")

\* Whatever a fault has left in the data directory, the indexer serves again,
\* unless a process left over by a scan cut short keeps the wallet locked.
ComesUp == []<>(At("main", "serving") \/ \E p \in opened : p \notin {first, current, held["main"]})
=============================================================================
