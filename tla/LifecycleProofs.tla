-------------------------- MODULE LifecycleProofs --------------------------
(***************************************************************************)
(* Proofs about Lifecycle: for any processes and any number of faults, no  *)
(* cache is left without its keys, scans are waited for, and no wallet     *)
(* process is left over.                                                   *)
(***************************************************************************)
EXTENDS Lifecycle, TLAPS

\* The steps of Lifecycle, one by one.
LEMMA Steps ==
  ASSUME Next
  PROVE  \/ \E c \in Callers :
              \/ Spawn(c) \/ Wait(c) \/ AddressMatches(c) \/ AddressDiffers(c)
              \/ Generate(c) \/ OpenFails(c) \/ RemoveFails(c)
              \/ \E i \in 1..3 : RemoveFile(c, i)
         \/ Tick \/ Refreshed \/ TooDeep \/ StopOld \/ Scanned \/ Saved \/ ScanFails
         \/ Start \/ Serve \/ DBFails \/ Signal \/ ListenFails \/ Interrupted
         \/ Shutdown \/ ShutdownTimesOut \/ ScansWait \/ StopCurrent \/ CloseDB
         \/ StopFirst \/ LoopEnds \/ WalletStores \/ WalletDies \/ Crash
  BY Zenon DEF Next, Run, ScanStep, Environment, ProtocolWallet, Callers

\* The three steps of removeWalletFiles: the cache, the keys, and the file that
\* nothing looks at.
LEMMA Removals ==
  ASSUME NEW c \in Callers, NEW i \in 1..3, cache \in BOOLEAN, RemoveFile(c, i)
  PROVE  /\ \/ At(c, "remove1") /\ cache' = FALSE /\ keys' = keys /\ Goto(c, "remove2")
            \/ At(c, "remove2") /\ cache' = cache /\ keys' = "none" /\ Goto(c, "remove3")
            \/ At(c, "remove3") /\ cache' = cache /\ keys' = keys /\ Goto(c, "spawn")
         /\ UNCHANGED <<running, opened, held, server, history, faults>>
<1>1. i = 1 \/ i = 2 \/ i = 3
  OBVIOUS
<1>2. CASE i = 1
  <2>1. Without("cache") /\ At(c, "remove1") /\ Goto(c, "remove2")
    BY <1>2 DEF RemoveFile, Removing, RemovalOrder
  <2>2. cache' = FALSE /\ keys' = keys
    BY <2>1 DEF Without
  <2> QED
    BY <2>1, <2>2 DEF RemoveFile
<1>3. CASE i = 2
  BY <1>3 DEF RemoveFile, Removing, RemovalOrder, Without
<1>4. CASE i = 3
  BY <1>4 DEF RemoveFile, Removing, RemovalOrder, Without
<1> QED
  BY <1>1, <1>2, <1>3, <1>4

-----------------------------------------------------------------------------
LEMMA InitTyped == Init => TypeOK
<1> SUFFICES ASSUME Init PROVE TypeOK
  OBVIOUS
<1>1. FilesTyped
  BY DEF Init, FilesTyped
<1>2. WalletsTyped
  BY DEF Init, WalletsTyped, Callers
<1>3. PlacesTyped
  BY DEF Init, PlacesTyped
<1>4. FlagsTyped
  BY DEF Init, FlagsTyped
<1>5. faults \in 0..MaxFaults
  BY FaultsAssumption DEF Init
<1> QED
  BY <1>1, <1>2, <1>3, <1>4, <1>5 DEF TypeOK

LEMMA FilesStep == FilesTyped /\ Next => FilesTyped'
<1> SUFFICES ASSUME FilesTyped, Next PROVE FilesTyped'
  OBVIOUS
<1> USE DEF FilesTyped, Stop, wallets, files
<1>1. ASSUME NEW c \in Callers, NEW i \in 1..3, RemoveFile(c, i) PROVE FilesTyped'
  BY <1>1, Removals
<1> QED
  BY Steps, <1>1 DEF Spawn, Wait, AddressMatches, AddressDiffers, Generate, OpenFails,
     RemoveFails, Tick, Refreshed, TooDeep, StopOld, Scanned, Saved, ScanFails, Start, Serve,
     DBFails, Signal, ListenFails, Interrupted, Shutdown, ShutdownTimesOut, ScansWait,
     StopCurrent, CloseDB, StopFirst, LoopEnds, WalletStores, WalletDies, Crash

LEMMA FlagsStep == FlagsTyped /\ Next => FlagsTyped'
<1> SUFFICES ASSUME FlagsTyped, Next PROVE FlagsTyped'
  OBVIOUS
<1> USE DEF FlagsTyped, server, history
<1>1. ASSUME NEW c \in Callers,
             \/ Spawn(c) \/ Wait(c) \/ AddressMatches(c) \/ AddressDiffers(c)
             \/ Generate(c) \/ OpenFails(c) \/ RemoveFails(c)
             \/ \E i \in 1..3 : RemoveFile(c, i)
      PROVE  FlagsTyped'
  BY <1>1 DEF Spawn, Wait, AddressMatches, AddressDiffers, Generate, OpenFails, RemoveFails, RemoveFile
<1>2. CASE Tick \/ Refreshed \/ TooDeep \/ StopOld \/ Scanned \/ Saved \/ ScanFails
  BY <1>2 DEF Tick, Refreshed, TooDeep, StopOld, Scanned, Saved, ScanFails
<1>3. CASE Start \/ Serve \/ DBFails \/ Signal \/ ListenFails \/ Interrupted
  BY <1>3 DEF Start, Serve, DBFails, Signal, ListenFails, Interrupted
<1>4. CASE Shutdown \/ ShutdownTimesOut \/ ScansWait \/ StopCurrent \/ CloseDB \/ StopFirst
  BY <1>4 DEF Shutdown, ShutdownTimesOut, ScansWait, StopCurrent, CloseDB, StopFirst, Ends
<1>5. CASE LoopEnds \/ WalletStores \/ WalletDies \/ Crash
  BY <1>5 DEF LoopEnds, WalletStores, WalletDies, Crash, Ends
<1> QED
  BY Steps, <1>1, <1>2, <1>3, <1>4, <1>5

LEMMA PlacesStep == PlacesTyped /\ Next => PlacesTyped'
<1> SUFFICES ASSUME PlacesTyped, Next PROVE PlacesTyped'
  OBVIOUS
<1> USE DEF PlacesTyped, Goto, Callers
<1>1. ASSUME NEW c \in Callers,
             Spawn(c) \/ Wait(c) \/ AddressDiffers(c) \/ OpenFails(c) \/ RemoveFails(c)
      PROVE  PlacesTyped'
  BY <1>1 DEF Spawn, Wait, AddressDiffers, OpenFails, RemoveFails, Failed
<1>2. ASSUME NEW c \in Callers, AddressMatches(c) \/ Generate(c) PROVE PlacesTyped'
  BY <1>2 DEF AddressMatches, Generate, Returned
<1>3. ASSUME NEW c \in Callers, NEW i \in 1..3, RemoveFile(c, i) PROVE PlacesTyped'
  BY <1>3 DEF RemoveFile, Removing
<1>4. CASE Tick \/ Refreshed \/ TooDeep \/ StopOld \/ Scanned \/ Saved \/ ScanFails
  BY <1>4 DEF Tick, Refreshed, TooDeep, StopOld, Scanned, Saved, ScanFails
<1>5. CASE Start \/ Serve \/ DBFails \/ Signal \/ ListenFails \/ Interrupted
  BY <1>5 DEF Start, Serve, DBFails, Signal, ListenFails, Interrupted
<1>6. CASE Shutdown \/ ShutdownTimesOut \/ ScansWait \/ StopCurrent \/ CloseDB \/ StopFirst
  BY <1>6 DEF Shutdown, ShutdownTimesOut, ScansWait, StopCurrent, CloseDB, StopFirst, Ends
<1>7. CASE LoopEnds \/ WalletStores \/ WalletDies \/ Crash
  BY <1>7 DEF LoopEnds, WalletStores, WalletDies, Crash, Ends
<1> QED
  BY Steps, <1>1, <1>2, <1>3, <1>4, <1>5, <1>6, <1>7

LEMMA WalletsStep == WalletsTyped /\ Next => WalletsTyped'
<1> SUFFICES ASSUME WalletsTyped, Next PROVE WalletsTyped'
  OBVIOUS
<1> USE DEF WalletsTyped, Callers, Stop, wallets, server
<1>1. ASSUME NEW c \in Callers,
             Spawn(c) \/ Wait(c) \/ AddressDiffers(c) \/ OpenFails(c) \/ RemoveFails(c)
      PROVE  WalletsTyped'
  BY <1>1 DEF Spawn, Wait, AddressDiffers, OpenFails, RemoveFails
<1>2. ASSUME NEW c \in Callers, AddressMatches(c) \/ Generate(c) PROVE WalletsTyped'
  BY <1>2 DEF AddressMatches, Generate, Returned
<1>3. ASSUME NEW c \in Callers, NEW i \in 1..3, RemoveFile(c, i) PROVE WalletsTyped'
  BY <1>3 DEF RemoveFile
<1>4. CASE Tick \/ Refreshed \/ TooDeep \/ StopOld \/ Scanned \/ Saved \/ ScanFails
  BY <1>4 DEF Tick, Refreshed, TooDeep, StopOld, Scanned, Saved, ScanFails
<1>5. CASE Start \/ Serve \/ DBFails \/ Signal \/ ListenFails \/ Interrupted
  BY <1>5 DEF Start, Serve, DBFails, Signal, ListenFails, Interrupted
<1>6. CASE Shutdown \/ ShutdownTimesOut \/ ScansWait \/ StopCurrent \/ CloseDB \/ StopFirst
  BY <1>6 DEF Shutdown, ShutdownTimesOut, ScansWait, StopCurrent, CloseDB, StopFirst, Ends
<1>7. CASE LoopEnds \/ WalletStores \/ WalletDies \/ Crash
  BY <1>7 DEF LoopEnds, WalletStores, WalletDies, Crash, Ends
<1> QED
  BY Steps, <1>1, <1>2, <1>3, <1>4, <1>5, <1>6, <1>7

LEMMA FaultsStep == faults \in 0..MaxFaults /\ Next => (faults \in 0..MaxFaults)'
<1> SUFFICES ASSUME faults \in 0..MaxFaults, Next PROVE (faults \in 0..MaxFaults)'
  OBVIOUS
<1>1. Fault \/ UNCHANGED faults
  BY Steps DEF Spawn, Wait, AddressMatches, AddressDiffers, Generate, OpenFails,
     RemoveFails, RemoveFile, Tick, Refreshed, TooDeep, StopOld, Scanned, Saved, ScanFails, Start,
     Serve, DBFails, Signal, ListenFails, Interrupted, Shutdown, ShutdownTimesOut, ScansWait,
     StopCurrent, CloseDB, StopFirst, LoopEnds, WalletStores, WalletDies, Crash, Fault
<1> QED
  BY <1>1, FaultsAssumption DEF Fault

\* Every variable keeps its type, and only running processes have the wallet
\* open, through every start, rebuild, shutdown and crash.
THEOREM TypeCorrect == Spec => []TypeOK
<1>1. TypeOK /\ [Next]_vars => TypeOK'
  <2>1. CASE UNCHANGED vars
    BY <2>1 DEF vars, TypeOK, FilesTyped, WalletsTyped, PlacesTyped, FlagsTyped
  <2> QED
    BY <2>1, FilesStep, WalletsStep, PlacesStep, FlagsStep, FaultsStep DEF TypeOK
<1> QED
  BY InitTyped, <1>1, PTL DEF Spec
-----------------------------------------------------------------------------
\* Run is in protocolWallet or before it, or opens the database.
Opening == {"down", "spawn", "wait", "address", "generate", "remove1", "remove2", "remove3", "openDB"}

\* Run opens the wallet alone: no scan is in progress and none can start.
RunIsAlone == pc.main \in Opening => pc.scan = "idle" /\ ticking = FALSE

LEMMA RunIsAloneHolds == Spec => []RunIsAlone
<1>1. Init => RunIsAlone
  BY DEF Init, RunIsAlone
<1>2. TypeOK /\ RunIsAlone /\ [Next]_vars => RunIsAlone'
  <2> SUFFICES ASSUME PlacesTyped, RunIsAlone, [Next]_vars PROVE RunIsAlone'
    BY DEF TypeOK
  <2> USE DEF PlacesTyped, RunIsAlone, Opening, Callers, At, Goto, server
  <2>1. ASSUME NEW c \in Callers,
               Spawn(c) \/ Wait(c) \/ AddressDiffers(c) \/ OpenFails(c) \/ RemoveFails(c)
        PROVE  RunIsAlone'
    BY <2>1 DEF Spawn, Wait, AddressDiffers, OpenFails, RemoveFails, Failed
  <2>2. ASSUME NEW c \in Callers, AddressMatches(c) \/ Generate(c) PROVE RunIsAlone'
    BY <2>2 DEF AddressMatches, Generate, Returned
  <2>3. ASSUME NEW c \in Callers, NEW i \in 1..3, RemoveFile(c, i) PROVE RunIsAlone'
    BY <2>3 DEF RemoveFile, Removing
  <2>4. CASE Tick \/ Refreshed \/ TooDeep \/ StopOld \/ Scanned \/ Saved \/ ScanFails
    BY <2>4 DEF Tick, Refreshed, TooDeep, StopOld, Scanned, Saved, ScanFails
  <2>5. CASE Start \/ Serve \/ DBFails \/ Signal \/ ListenFails \/ Interrupted
    BY <2>5 DEF Start, Serve, DBFails, Signal, ListenFails, Interrupted
  <2>6. CASE Shutdown \/ ShutdownTimesOut \/ ScansWait \/ StopCurrent \/ CloseDB \/ StopFirst
    BY <2>6 DEF Shutdown, ShutdownTimesOut, ScansWait, StopCurrent, CloseDB, StopFirst, Ends
  <2>7. CASE LoopEnds \/ WalletStores \/ WalletDies \/ Crash
    BY <2>7 DEF LoopEnds, WalletStores, WalletDies, Crash, Ends
  <2>8. CASE UNCHANGED vars
    BY <2>8 DEF vars
  <2> QED
    BY Steps, <2>1, <2>2, <2>3, <2>4, <2>5, <2>6, <2>7, <2>8
<1> QED
  BY <1>1, <1>2, TypeCorrect, PTL DEF Spec

-----------------------------------------------------------------------------
\* While Run shuts down, the ticker runs on only with a context that is done.
TickerIsLate ==
  pc.main \in {"shutdown", "scansWait", "stopCurrent", "closeDB", "stopFirst"} /\ ticking = TRUE
    => cancelled = TRUE

\* No scan that began before the shutdown is in progress when Run closes the
\* database, unless Run gave up waiting for HTTP: Run waits in scansWait until
\* the scan is over, and the ticker, whose context is done by then, can only
\* start a scan that began after the shutdown.
THEOREM ScansAreWaitedFor == Spec => []EarlyScansAreWaitedFor
<1> DEFINE Inv == TickerIsLate /\ EarlyScansAreWaitedFor
<1>1. Init => Inv
  BY DEF Init, TickerIsLate, EarlyScansAreWaitedFor, At
<1>2. TypeOK /\ RunIsAlone /\ Inv /\ [Next]_vars => Inv'
  <2> SUFFICES ASSUME PlacesTyped, FlagsTyped, RunIsAlone, Inv, [Next]_vars PROVE Inv'
    BY DEF TypeOK
  <2> USE DEF PlacesTyped, FlagsTyped, RunIsAlone, TickerIsLate, EarlyScansAreWaitedFor,
              Opening, Callers, At, Goto, server, history
  <2>1. ASSUME NEW c \in Callers,
               Spawn(c) \/ Wait(c) \/ AddressDiffers(c) \/ OpenFails(c) \/ RemoveFails(c)
        PROVE  Inv'
    BY <2>1 DEF Spawn, Wait, AddressDiffers, OpenFails, RemoveFails, Failed
  <2>2. ASSUME NEW c \in Callers, AddressMatches(c) \/ Generate(c) PROVE Inv'
    BY <2>2 DEF AddressMatches, Generate, Returned
  <2>3. ASSUME NEW c \in Callers, NEW i \in 1..3, RemoveFile(c, i) PROVE Inv'
    BY <2>3 DEF RemoveFile, Removing
  <2>4. CASE Tick \/ Refreshed \/ TooDeep \/ StopOld \/ Scanned \/ Saved \/ ScanFails
    BY <2>4 DEF Tick, Refreshed, TooDeep, StopOld, Scanned, Saved, ScanFails
  <2>5. CASE Start \/ Serve \/ DBFails \/ Signal \/ ListenFails \/ Interrupted
    BY <2>5 DEF Start, Serve, DBFails, Signal, ListenFails, Interrupted
  <2>6. CASE Shutdown \/ ShutdownTimesOut \/ ScansWait \/ StopCurrent \/ CloseDB \/ StopFirst
    BY <2>6 DEF Shutdown, ShutdownTimesOut, ScansWait, StopCurrent, CloseDB, StopFirst, Ends
  <2>7. CASE LoopEnds \/ WalletStores \/ WalletDies \/ Crash
    BY <2>7 DEF LoopEnds, WalletStores, WalletDies, Crash, Ends
  <2>8. CASE UNCHANGED vars
    BY <2>8 DEF vars
  <2> QED
    BY Steps, <2>1, <2>2, <2>3, <2>4, <2>5, <2>6, <2>7, <2>8
<1> QED
  BY <1>1, <1>2, TypeCorrect, RunIsAloneHolds, PTL DEF Spec
-----------------------------------------------------------------------------
\* Who has the wallet open: nobody when it has no keys, only the server's process
\* when that one runs, nobody while its files are removed.
Ownership ==
  /\ opened # {} => keys # "none"
  /\ current \in running => opened = {current}
  /\ pc.scan = "stopOld" => opened \subseteq {current}
  /\ \A c \in Callers :
       /\ pc[c] = "wait" /\ keys # "none" /\ held[c] \in running => opened = {held[c]}
       /\ pc[c] = "address" /\ held[c] \in running => opened = {held[c]}
       /\ pc[c] = "generate" => keys = "none"
       /\ pc[c] \in {"remove1", "remove2", "remove3"} => opened = {}

\* The cache is gone when the keys are removed.
CacheGoesFirst == \A c \in Callers : pc[c] = "remove2" => cache = FALSE

LEMMA OwnershipHolds == Spec => []Ownership
<1>1. Init => Ownership
  BY ProcsAssumption DEF Init, Ownership, Callers
<1>2. TypeOK /\ RunIsAlone /\ Ownership /\ [Next]_vars => Ownership'
  <2> SUFFICES ASSUME FilesTyped, WalletsTyped, PlacesTyped, RunIsAlone, Ownership, [Next]_vars
               PROVE  Ownership'
    BY DEF TypeOK
  <2> USE ProcsAssumption DEF WalletsTyped, PlacesTyped, RunIsAlone, Ownership,
              Opening, Callers, At, Goto, Stop, server, files, wallets
  <2>1. ASSUME NEW c \in Callers, Spawn(c) PROVE Ownership'
    BY <2>1 DEF Spawn
  <2>2. ASSUME NEW c \in Callers, Wait(c) \/ RemoveFails(c) PROVE Ownership'
    BY <2>2 DEF Wait, RemoveFails, Failed
  <2>3. ASSUME NEW c \in Callers, AddressMatches(c) PROVE Ownership'
    BY <2>3 DEF AddressMatches, Returned
  <2>4. ASSUME NEW c \in Callers, AddressDiffers(c) PROVE Ownership'
    BY <2>4 DEF AddressDiffers
  <2>5. ASSUME NEW c \in Callers, Generate(c) PROVE Ownership'
    BY <2>5 DEF Generate, Returned
  <2>6. ASSUME NEW c \in Callers, OpenFails(c) PROVE Ownership'
    BY <2>6 DEF OpenFails, Failed
  <2>7. ASSUME NEW c \in Callers, NEW i \in 1..3, RemoveFile(c, i) PROVE Ownership'
    <3>1. /\ \/ pc[c] = "remove1" /\ keys' = keys /\ pc' = [pc EXCEPT ![c] = "remove2"]
             \/ pc[c] = "remove2" /\ keys' = "none" /\ pc' = [pc EXCEPT ![c] = "remove3"]
             \/ pc[c] = "remove3" /\ keys' = keys /\ pc' = [pc EXCEPT ![c] = "spawn"]
          /\ UNCHANGED <<running, opened, held, current>>
      BY <2>7, Removals DEF FilesTyped
    <3> QED
      BY <3>1
  <2>8. CASE Tick \/ Refreshed \/ TooDeep \/ Scanned \/ Saved \/ ScanFails
    BY <2>8 DEF Tick, Refreshed, TooDeep, Scanned, Saved, ScanFails
  <2>9. CASE StopOld
    BY <2>9 DEF StopOld
  <2>10. CASE Start \/ Serve \/ DBFails \/ Signal
    BY <2>10 DEF Start, Serve, DBFails, Signal
  <2>11. CASE ListenFails
    BY <2>11 DEF ListenFails
  <2>12. CASE Interrupted
    BY <2>12 DEF Interrupted
  <2>13. CASE Shutdown \/ ShutdownTimesOut \/ ScansWait \/ CloseDB
    BY <2>13 DEF Shutdown, ShutdownTimesOut, ScansWait, CloseDB
  <2>14. CASE StopCurrent
    BY <2>14 DEF StopCurrent
  <2>15. CASE StopFirst
    BY <2>15 DEF StopFirst, Ends
  <2>16. CASE LoopEnds \/ WalletStores \/ WalletDies
    BY <2>16 DEF LoopEnds, WalletStores, WalletDies
  <2>17. CASE Crash
    BY <2>17 DEF Crash, Ends
  <2>18. CASE UNCHANGED vars
    BY <2>18 DEF vars
  <2> QED
    BY Steps, <2>1, <2>2, <2>3, <2>4, <2>5, <2>6, <2>7, <2>8, <2>9, <2>10, <2>11, <2>12,
       <2>13, <2>14, <2>15, <2>16, <2>17, <2>18
<1> QED
  BY <1>1, <1>2, TypeCorrect, RunIsAloneHolds, PTL DEF Spec

\* The wallet's cache is never left behind without its keys: a process stores the
\* cache only while it has the wallet open, which nobody has when the keys are
\* removed, and the cache is removed before them.
THEOREM CachesHaveKeys == Spec => []CacheNeedsKeys
<1> DEFINE Inv == CacheGoesFirst /\ CacheNeedsKeys
<1>1. Init => Inv
  BY DEF Init, CacheGoesFirst, CacheNeedsKeys, Callers
<1>2. TypeOK /\ Ownership /\ Inv /\ [Next]_vars => Inv'
  <2> SUFFICES ASSUME FilesTyped, PlacesTyped, Ownership, Inv, [Next]_vars PROVE Inv'
    BY DEF TypeOK
  <2> USE DEF PlacesTyped, FilesTyped, Ownership, CacheGoesFirst, CacheNeedsKeys,
              Callers, At, Goto, Stop, files, wallets
  <2>1. ASSUME NEW c \in Callers, Spawn(c) \/ Wait(c) \/ RemoveFails(c) PROVE Inv'
    BY <2>1 DEF Spawn, Wait, RemoveFails, Failed
  <2>2. ASSUME NEW c \in Callers, AddressMatches(c) \/ Generate(c) PROVE Inv'
    BY <2>2 DEF AddressMatches, Generate, Returned
  <2>3. ASSUME NEW c \in Callers, AddressDiffers(c) PROVE Inv'
    BY <2>3 DEF AddressDiffers
  <2>4. ASSUME NEW c \in Callers, OpenFails(c) PROVE Inv'
    BY <2>4 DEF OpenFails, Failed
  <2>5. ASSUME NEW c \in Callers, NEW i \in 1..3, RemoveFile(c, i) PROVE Inv'
    BY <2>5, Removals
  <2>6. CASE Tick \/ Refreshed \/ TooDeep \/ Scanned \/ Saved \/ ScanFails
    BY <2>6 DEF Tick, Refreshed, TooDeep, Scanned, Saved, ScanFails
  <2>7. CASE StopOld
    BY <2>7 DEF StopOld
  <2>8. CASE Start \/ Serve \/ DBFails \/ Signal
    BY <2>8 DEF Start, Serve, DBFails, Signal
  <2>9. CASE ListenFails
    BY <2>9 DEF ListenFails
  <2>10. CASE Interrupted
    BY <2>10 DEF Interrupted
  <2>11. CASE Shutdown \/ ShutdownTimesOut \/ ScansWait \/ CloseDB
    BY <2>11 DEF Shutdown, ShutdownTimesOut, ScansWait, CloseDB
  <2>12. CASE StopCurrent
    BY <2>12 DEF StopCurrent
  <2>13. CASE StopFirst
    BY <2>13 DEF StopFirst, Ends
  <2>14. CASE LoopEnds \/ WalletStores \/ WalletDies
    BY <2>14 DEF LoopEnds, WalletStores, WalletDies
  <2>15. CASE Crash
    BY <2>15 DEF Crash, Ends
  <2>16. CASE UNCHANGED vars
    BY <2>16 DEF vars
  <2> QED
    BY Steps, <2>1, <2>2, <2>3, <2>4, <2>5, <2>6, <2>7, <2>8, <2>9, <2>10, <2>11, <2>12,
       <2>13, <2>14, <2>15, <2>16
<1> QED
  BY <1>1, <1>2, TypeCorrect, OwnershipHolds, PTL DEF Spec
-----------------------------------------------------------------------------
\* The processes that may run at each place of Run and of a scan.
WhileOpening ==
  /\ pc.main \in {"down", "spawn", "remove1", "remove2", "remove3"} => running = {}
  /\ pc.main \in {"wait", "address", "generate"} => running \subseteq {held["main"]}
  /\ pc.main = "openDB" => running \subseteq {first}

WhileServing ==
  pc.main \in {"serving", "shutdown", "scansWait", "stopCurrent"} =>
    /\ pc.scan \in {"idle", "refresh", "stopOld", "work", "save"} => running \subseteq {first, current}
    /\ pc.scan \in {"remove1", "remove2", "remove3", "spawn"} => running \subseteq {first}
    /\ pc.scan \in {"wait", "address", "generate"} => running \subseteq {first, held["scan"]}

WhileClosing ==
  pc.main \in {"closeDB", "stopFirst"} =>
    /\ running \subseteq {first}
    /\ pc.scan \in {"idle", "refresh"}
    /\ ticking = TRUE \/ pc.scan = "refresh" => current \notin running

Known == cut = FALSE => WhileOpening /\ WhileServing /\ WhileClosing

\* When the indexer has ended and its deferred calls met no scan in progress, no
\* wallet process is left.  By then Run has stopped the process it started and the
\* one its last scan left; the strengthening says that there never is another, and
\* that a scan slipped in behind StopCurrent finds its wallet stopped.
THEOREM NoProcessIsLeft == Spec => []NothingLeft
<1>1. Init => Known
  BY DEF Init, Known, WhileOpening, WhileServing, WhileClosing
<1>2. TypeOK /\ RunIsAlone /\ Known /\ [Next]_vars => Known'
  <2> SUFFICES ASSUME WalletsTyped, PlacesTyped, FlagsTyped, RunIsAlone, Known, [Next]_vars,
                      cut' = FALSE
               PROVE  (WhileOpening /\ WhileServing /\ WhileClosing)'
    BY DEF TypeOK, Known
  <2> DEFINE Goal == (WhileOpening /\ WhileServing /\ WhileClosing)'
  <2> USE DEF WalletsTyped, PlacesTyped, FlagsTyped, RunIsAlone, Known, WhileOpening,
              WhileServing, WhileClosing, Opening, Callers, At, Goto, Stop, server, history, wallets
  <2>1. ASSUME NEW c \in Callers, Spawn(c) PROVE Goal
    BY <2>1 DEF Spawn
  <2>2. ASSUME NEW c \in Callers, Wait(c) \/ RemoveFails(c) PROVE Goal
    BY <2>2 DEF Wait, RemoveFails, Failed
  <2>3. ASSUME NEW c \in Callers, AddressMatches(c) \/ Generate(c) PROVE Goal
    BY <2>3 DEF AddressMatches, Generate, Returned
  <2>4. ASSUME NEW c \in Callers, AddressDiffers(c) PROVE Goal
    BY <2>4 DEF AddressDiffers
  <2>5. ASSUME NEW c \in Callers, OpenFails(c) PROVE Goal
    BY <2>5 DEF OpenFails, Failed
  <2>6. ASSUME NEW c \in Callers, NEW i \in 1..3, RemoveFile(c, i) PROVE Goal
    BY <2>6 DEF RemoveFile, Removing
  <2>7. CASE Tick \/ Refreshed \/ TooDeep \/ Scanned \/ Saved \/ ScanFails
    BY <2>7 DEF Tick, Refreshed, TooDeep, Scanned, Saved, ScanFails
  <2>8. CASE StopOld
    BY <2>8 DEF StopOld
  <2>9. CASE Start \/ Serve \/ DBFails \/ Signal
    BY <2>9 DEF Start, Serve, DBFails, Signal
  <2>10. CASE ListenFails \/ Interrupted
    BY <2>10 DEF ListenFails, Interrupted
  <2>11. CASE Shutdown \/ ShutdownTimesOut \/ ScansWait \/ CloseDB
    BY <2>11 DEF Shutdown, ShutdownTimesOut, ScansWait, CloseDB
  <2>12. CASE StopCurrent
    BY <2>12 DEF StopCurrent
  <2>13. CASE StopFirst
    BY <2>13 DEF StopFirst, Ends
  <2>14. CASE LoopEnds \/ WalletStores \/ WalletDies
    BY <2>14 DEF LoopEnds, WalletStores, WalletDies
  <2>15. CASE Crash
    BY <2>15 DEF Crash, Ends
  <2>16. CASE UNCHANGED vars
    BY <2>16 DEF vars
  <2> QED
    BY Steps, <2>1, <2>2, <2>3, <2>4, <2>5, <2>6, <2>7, <2>8, <2>9, <2>10, <2>11, <2>12,
       <2>13, <2>14, <2>15, <2>16
<1>3. TypeOK /\ Known => NothingLeft
  BY DEF TypeOK, FlagsTyped, Known, WhileOpening, NothingLeft, At
<1> QED
  BY <1>1, <1>2, <1>3, TypeCorrect, RunIsAloneHolds, PTL DEF Spec
=============================================================================
