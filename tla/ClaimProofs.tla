---------------------------- MODULE ClaimProofs -----------------------------
(***************************************************************************)
(* Proofs about Claim, for any number of coins, runs, blocks and faults.   *)
(***************************************************************************)
EXTENDS Claim, RegistryProofs

LEMMA NextCases ==
  ASSUME Next
  PROVE  \/ \E same \in BOOLEAN : Run(same)
         \/ StartFull \/ Answered \/ Refresh \/ Store
         \/ StartWatch \/ Generate \/ StopWatch \/ Copy \/ Reopen \/ WatchRefreshes
         \/ Import \/ Compare \/ Transfer \/ Patch
         \/ Submit \/ SubmitUnanswered
         \/ Error \/ Killed \/ Reap
         \/ \E w \in {"full", "watch"} : WalletDies(w)
         \/ \E c \in Coins : SpendElsewhere(c)
         \/ \E arriving \in SUBSET Coins : Mine(arriving)
  BY Zenon DEF Next

QuietSteps == {"wait_full", "sender", "wait_watch", "store_watch", "wait_reopened",
               "auto_watch", "sign"}

\* The table of the calls that change nothing, row by row.
LEMMA QuietTable ==
  /\ DOMAIN Quiet = QuietSteps
  /\ Quiet["wait_full"].next = "refresh"
  /\ Quiet["sender"].next = "store"
  /\ Quiet["wait_watch"].next = "generate"
  /\ Quiet["store_watch"].next = "stop_watch"
  /\ Quiet["wait_reopened"].next = "auto_watch"
  /\ Quiet["auto_watch"].next = "import"
  /\ Quiet["sign"].next = "submit"
  BY DEF Quiet, QuietSteps

AllSteps == QuietSteps \cup
  {"start_full", "refresh", "store", "start_watch", "generate", "stop_watch", "copy",
   "reopen", "import", "compare", "transfer", "patch", "submit"}

LEMMA AllStepsAreSteps == Steps = AllSteps
  BY QuietTable DEF Steps, AllSteps

\* The calls that change nothing, and what comes after each.
LEMMA QuietMoves ==
  ASSUME Answered
  PROVE  /\ \/ pc = "wait_full" /\ pc' = "refresh"
            \/ pc = "sender" /\ pc' = "store"
            \/ pc = "wait_watch" /\ pc' = "generate"
            \/ pc = "store_watch" /\ pc' = "stop_watch"
            \/ pc = "wait_reopened" /\ pc' = "auto_watch"
            \/ pc = "auto_watch" /\ pc' = "import"
            \/ pc = "sign" /\ pc' = "submit"
         /\ UNCHANGED <<running, deferred, walletVars, chainVars, years, orphaned, samePort,
                        runs, faults, disturbed>>
<1>1. pc \in QuietSteps /\ pc' = Quiet[pc].next
  BY QuietTable DEF Answered, Go
<1>2. UNCHANGED <<running, deferred, walletVars, chainVars, years, orphaned, samePort,
                  runs, faults, disturbed>>
  BY DEF Answered, Go, Alone, NoFault
<1>. QED
  BY <1>1, <1>2, QuietTable DEF QuietSteps

-----------------------------------------------------------------------------
\* Every running process has its stop deferred, but for the watch wallet
\* between its first start and its stop.
StopsDeferred ==
  /\ pc \in AllSteps \cup Ended
  /\ pc \in AllSteps /\ "full" \in running => "full" \in deferred
  /\ pc \in AllSteps /\ "watch" \in running =>
       "watch" \in deferred \/ pc \in EarlyWatch \cup {"stop_watch"}
  /\ running \subseteq {"full", "watch"} /\ deferred \subseteq {"full", "watch"}
  /\ pc = "start_full" => running = {}
  /\ pc \in Ended => deferred = {}
  /\ NoWalletLeft

LEMMA KeepsStopsDeferred ==
  ASSUME StopsDeferred, [Next]_vars
  PROVE  StopsDeferred'
<1>. USE DEF StopsDeferred, NoWalletLeft, AllSteps, QuietSteps, Ended, EarlyWatch
<1>1. CASE \E same \in BOOLEAN : Run(same)
  BY <1>1 DEF Run
<1>2. CASE StartFull
  BY <1>2 DEF StartFull
<1>3. CASE Answered
  BY <1>3, QuietMoves
<1>4. CASE Refresh \/ Store \/ Generate \/ Copy \/ Import \/ Compare \/ Transfer \/ Patch
  BY <1>4 DEF Refresh, Store, Generate, Copy, Import, Compare, Transfer, Patch, Go, Call
<1>5. CASE StartWatch
  BY <1>5 DEF StartWatch
<1>6. CASE StopWatch
  BY <1>6 DEF StopWatch
<1>7. CASE Reopen
  BY <1>7 DEF Reopen
<1>8. CASE Submit \/ SubmitUnanswered
  BY <1>8 DEF Submit, SubmitUnanswered, Relayed, Return
<1>9. CASE Error
  BY <1>9, AllStepsAreSteps DEF Error, Return
<1>10. CASE Killed
  BY <1>10 DEF Killed
<1>11. CASE Reap
  BY <1>11 DEF Reap
<1>12. CASE \E w \in {"full", "watch"} : WalletDies(w)
  BY <1>12, AllStepsAreSteps DEF WalletDies
<1>13. CASE WatchRefreshes \/ (\E c \in Coins : SpendElsewhere(c))
            \/ (\E arriving \in SUBSET Coins : Mine(arriving)) \/ UNCHANGED vars
  <2>1. UNCHANGED <<pc, running, deferred>>
    BY <1>13 DEF WatchRefreshes, SpendElsewhere, Mine, vars
  <2>. QED
    BY <2>1
<1>. QED
  BY <1>1, <1>2, <1>3, <1>4, <1>5, <1>6, <1>7, <1>8, <1>9, <1>10, <1>11, <1>12, <1>13, NextCases

\* On every way out of run, no wallet process is left.
THEOREM NoWalletIsLeft == Spec => []NoWalletLeft
<1>1. Init => StopsDeferred
  BY DEF Init, StopsDeferred, NoWalletLeft, Ended, AllSteps, QuietSteps
<1>2. StopsDeferred => NoWalletLeft
  BY DEF StopsDeferred
<1>. QED
  BY <1>1, <1>2, KeepsStopsDeferred, PTL DEF Spec
-----------------------------------------------------------------------------
\* The types of what the wallets know.
WalletTypes ==
  /\ full \in Knowledge /\ cacheFile \in Knowledge
  /\ watchFile \in Knowledge /\ watch \in Knowledge
  /\ tip \in Nat /\ unspent \subseteq seen /\ seen \subseteq Coins
  /\ years \in YearsAsked

LEMMA NowIsKnowledge == WalletTypes => Now \in Knowledge /\ Nothing \in Knowledge
  BY DEF WalletTypes, Now, Nothing, Knowledge

LEMMA KeepsWalletTypes ==
  ASSUME WalletTypes, [Next]_vars
  PROVE  WalletTypes'
<1>. USE DEF WalletTypes
<1>1. CASE \E same \in BOOLEAN : Run(same)
  BY <1>1, NowIsKnowledge DEF Run, chainVars
<1>2. CASE StartFull \/ StartWatch \/ Compare
  BY <1>2 DEF StartFull, StartWatch, Compare, Go, Call, Alone, walletVars, chainVars
<1>3. CASE Answered
  BY <1>3, QuietMoves DEF walletVars, chainVars
<1>4. CASE Refresh \/ Store \/ WatchRefreshes
  BY <1>4, NowIsKnowledge DEF Refresh, Store, WatchRefreshes, Go, Call, Alone, chainVars
<1>5. CASE Generate \/ StopWatch \/ Copy \/ Reopen
  BY <1>5, NowIsKnowledge DEF Generate, StopWatch, Copy, Reopen, Go, Call, Alone, chainVars
<1>6. CASE Import
  BY <1>6 DEF Import, Go, Call, Alone, chainVars, Knowledge
<1>7. CASE Transfer \/ Patch
  BY <1>7 DEF Transfer, Patch, Go, Call, Alone, chainVars
<1>8. CASE Submit \/ SubmitUnanswered
  BY <1>8 DEF Submit, SubmitUnanswered, Relayed, walletVars
<1>9. CASE Error \/ Killed \/ Reap \/ (\E w \in {"full", "watch"} : WalletDies(w))
  BY <1>9 DEF Error, Killed, Reap, WalletDies, Alone, walletVars, chainVars
<1>10. CASE \E c \in Coins : SpendElsewhere(c)
  BY <1>10 DEF SpendElsewhere, walletVars
<1>11. CASE \E arriving \in SUBSET Coins : Mine(arriving)
  <2>1. PICK arriving \in SUBSET Coins : Mine(arriving)
    BY <1>11
  <2>2. tip' = tip + 1 /\ seen' = seen \cup arriving /\ unspent' = unspent \cup arriving
    BY <2>1 DEF Mine
  <2>3. UNCHANGED <<full, cacheFile, watchFile, watch, years>>
    BY <2>1 DEF Mine, walletVars
  <2>. QED
    BY <2>2, <2>3
<1>12. CASE UNCHANGED vars
  BY <1>12 DEF vars, walletVars, chainVars
<1>. QED
  BY <1>1, <1>2, <1>3, <1>4, <1>5, <1>6, <1>7, <1>8, <1>9, <1>10, <1>11, <1>12, NextCases

\* What the full wallet learnt at its refresh: at the same height, coins are
\* only spent, never received.
FullIsRecent ==
  pc \notin Ended \cup {"start_full", "wait_full", "refresh"} =>
    full.height <= tip /\ (full.height = tip => unspent \subseteq full.coins)

\* What the files and the watch wallet say is what the full wallet knew, or
\* what the watch wallet has learnt later.
WatchFollowsFull ==
  /\ pc \in {"start_watch", "wait_watch", "generate", "store_watch", "stop_watch", "copy"} =>
       cacheFile = full
  /\ pc = "reopen" => watchFile = full
  /\ pc \in {"wait_reopened", "auto_watch", "import", "compare", "transfer"} =>
       (watch.height = full.height => watch.coins \subseteq full.coins)
  /\ pc = "transfer" => watch.height = full.height
  /\ SignedIsOwn

LEMMA KeepsFullIsRecent ==
  ASSUME StopsDeferred, WalletTypes, FullIsRecent, [Next]_vars
  PROVE  FullIsRecent'
<1>. USE DEF StopsDeferred, WalletTypes, FullIsRecent, AllSteps, QuietSteps, Ended
<1>1. CASE \E same \in BOOLEAN : Run(same)
  BY <1>1 DEF Run
<1>2. CASE StartFull
  BY <1>2 DEF StartFull
<1>3. CASE Answered
  BY <1>3, QuietMoves DEF walletVars, chainVars
<1>4. CASE Refresh
  BY <1>4 DEF Refresh, Now, Go, Call, Alone, chainVars
<1>5. CASE Store \/ StartWatch \/ Compare
  BY <1>5 DEF Store, StartWatch, Compare, Go, Call, Alone, walletVars, chainVars
<1>6. CASE Generate \/ StopWatch \/ Copy \/ Reopen \/ WatchRefreshes
  BY <1>6 DEF Generate, StopWatch, Copy, Reopen, WatchRefreshes, Go, Call, Alone, chainVars
<1>7. CASE Import \/ Transfer \/ Patch
  BY <1>7 DEF Import, Transfer, Patch, Go, Call, Alone, chainVars
<1>8. CASE Submit \/ SubmitUnanswered \/ Error \/ Killed
  BY <1>8 DEF Submit, SubmitUnanswered, Error, Killed, Return
<1>9. CASE Reap \/ (\E w \in {"full", "watch"} : WalletDies(w)) \/ UNCHANGED vars
  BY <1>9 DEF Reap, WalletDies, vars, walletVars, chainVars
<1>10. CASE \E c \in Coins : SpendElsewhere(c)
  BY <1>10 DEF SpendElsewhere, walletVars
<1>11. CASE \E arriving \in SUBSET Coins : Mine(arriving)
  <2>1. PICK arriving \in SUBSET Coins : Mine(arriving)
    BY <1>11
  <2>2. tip' = tip + 1 /\ UNCHANGED <<pc, full>>
    BY <2>1 DEF Mine, walletVars
  <2>3. full.height \in Nat
    BY DEF Knowledge
  <2>. QED
    BY <2>2, <2>3
<1>. QED
  BY <1>1, <1>2, <1>3, <1>4, <1>5, <1>6, <1>7, <1>8, <1>9, <1>10, <1>11, NextCases

LEMMA KeepsWatchFollowsFull ==
  ASSUME StopsDeferred, WalletTypes, FullIsRecent, WatchFollowsFull, [Next]_vars
  PROVE  WatchFollowsFull'
<1>. USE DEF StopsDeferred, WatchFollowsFull, SignedIsOwn, AllSteps, QuietSteps, Ended
<1>1. CASE (\E same \in BOOLEAN : Run(same)) \/ StartFull \/ Refresh
  BY <1>1 DEF Run, StartFull, Refresh, Go, Call
<1>2. CASE Answered
  BY <1>2, QuietMoves DEF walletVars
<1>3. CASE Store
  BY <1>3 DEF Store, Go, Call
<1>4. CASE StartWatch \/ Generate \/ StopWatch
  BY <1>4 DEF StartWatch, Generate, StopWatch, Go, Call, walletVars
<1>5. CASE Copy \/ Reopen
  BY <1>5 DEF Copy, Reopen, Go, Call
<1>6. CASE WatchRefreshes
  BY <1>6 DEF WatchRefreshes, Now, FullIsRecent
<1>7. CASE Import
  <2>1. watch' \in Knowledge /\ watch'.height = watch.height /\ watch'.coins \subseteq watch.coins
    BY <1>7 DEF Import, WalletTypes, Knowledge
  <2>. QED
    BY <1>7, <2>1 DEF Import, Go, Call
<1>8. CASE Compare
  BY <1>8 DEF Compare, SameState, Go, Call, walletVars
<1>9. CASE Transfer
  <2>1. PICK c \in watch.coins :
          txset' = [coin |-> {c}, amount |-> Wraps(years * YearAmount), payload |-> NoPayload]
    BY <1>9 DEF Transfer
  <2>2. txset'.coin \subseteq watch.coins /\ pc = "transfer"
    BY <1>9, <2>1 DEF Transfer, Go, Call
  <2>. QED
    BY <1>9, <2>2 DEF Transfer, Go, Call
<1>10. CASE Patch
  <2>1. pc = "patch" /\ pc' = "sign" /\ full' = full
    BY <1>10 DEF Patch, Go, Call
  <2>2. txset'.coin = txset.coin
    BY <1>10 DEF Patch
  <2>. QED
    BY <2>1, <2>2
<1>11. CASE Submit \/ SubmitUnanswered \/ Error \/ Killed
  BY <1>11 DEF Submit, SubmitUnanswered, Error, Killed, Return
<1>12. CASE \/ Reap
            \/ \E w \in {"full", "watch"} : WalletDies(w)
            \/ \E c \in Coins : SpendElsewhere(c)
            \/ \E arriving \in SUBSET Coins : Mine(arriving)
            \/ UNCHANGED vars
  BY <1>12 DEF Reap, WalletDies, SpendElsewhere, Mine, vars, walletVars
<1>. QED
  BY <1>1, <1>2, <1>3, <1>4, <1>5, <1>6, <1>7, <1>8, <1>9, <1>10, <1>11, <1>12, NextCases

LEMMA InitWallets ==
  Init => StopsDeferred /\ WalletTypes /\ FullIsRecent /\ WatchFollowsFull
  BY CoinsAssumption DEF Init, StopsDeferred, NoWalletLeft, Ended, AllSteps, QuietSteps,
     WalletTypes, Knowledge, Nothing, FullIsRecent, WatchFollowsFull, SignedIsOwn

\* What the watch wallet chose to spend is unspent in the full wallet's eyes too:
\* at equal heights it can only know of fewer coins.
THEOREM SignedIsTheFullWallets == Spec => []SignedIsOwn
<1>1. WatchFollowsFull => SignedIsOwn
  BY DEF WatchFollowsFull
<1>. QED
  BY <1>1, InitWallets, KeepsStopsDeferred, KeepsWalletTypes, KeepsFullIsRecent,
     KeepsWatchFollowsFull, PTL DEF Spec

-----------------------------------------------------------------------------
(* Types of the rest.                                                      *)

\* Payments are numbered by their place in paid.
PaymentTypes ==
  /\ txset \in Transactions
  /\ paid \in Seq(Transactions)
  /\ events \in Seq(Events(Nat)) /\ Len(events) <= Len(paid)
  /\ IsRegistry(names, Nat)

RunTypes ==
  /\ orphaned \in BOOLEAN /\ samePort \in BOOLEAN /\ disturbed \in BOOLEAN
  /\ runs \in Nat /\ faults \in Nat

\* The amount transfer pays is an amount.
LEMMA WrappedAmount ==
  ASSUME WalletTypes
  PROVE  /\ years \in Nat \ {0}
         /\ years * YearAmount \in Nat
         /\ Wraps(years * YearAmount) \in Nat
<1>1. years \in Nat \ {0} /\ YearAmount \in Nat /\ Word \in Nat \ {0}
  BY AskedAssumption, YearAssumption DEF WalletTypes
<1>2. years * YearAmount \in Nat
  BY <1>1
<1>. QED
  BY <1>1, <1>2 DEF Wraps

\* A payment, wherever it is mined, is a transfer.
LEMMA MinedType ==
  ASSUME PaymentTypes, NEW i \in DOMAIN paid, NEW h \in Nat
  PROVE  /\ i \in Nat
         /\ paid[i] \in Transactions
         /\ Mined(i, h) \in Transfers(Nat)
<1>1. i \in Nat /\ paid[i] \in Transactions
  BY DEF PaymentTypes
<1>. QED
  BY <1>1 DEF Mined, Transactions, Transfers

\* A block adds the event of the oldest payment not mined yet, or nothing.
LEMMA MineCases ==
  ASSUME NEW arriving \in SUBSET Coins, Mine(arriving)
  PROVE  /\ tip' = tip + 1
         /\ UNCHANGED <<pc, years, txset, paid, full, running, runs, faults, samePort, orphaned>>
         /\ disturbed'
         /\ \/ /\ Len(events) + 1 \in DOMAIN paid
               /\ events' = Append(events, EventOf(names, Mined(Len(events) + 1, tip')))
               /\ names' = NamesAfter(names, Mined(Len(events) + 1, tip'))
            \/ UNCHANGED <<events, names>>
<1>1. /\ tip' = tip + 1
      /\ UNCHANGED <<pc, years, txset, paid, full, running, runs, faults, samePort, orphaned>>
      /\ disturbed'
  BY DEF Mine, walletVars
<1>2. CASE Len(events) + 1 \in DOMAIN paid
  BY <1>1, <1>2 DEF Mine
<1>3. CASE Len(events) + 1 \notin DOMAIN paid
  BY <1>1, <1>3 DEF Mine
<1>. QED
  BY <1>2, <1>3

LEMMA KeepsPaymentTypes ==
  ASSUME WalletTypes, PaymentTypes, [Next]_vars
  PROVE  PaymentTypes'
<1>. USE DEF PaymentTypes
<1>0. NoTx \in Transactions
  BY DEF NoTx, Transactions
<1>1. CASE \E same \in BOOLEAN : Run(same)
  BY <1>0, <1>1 DEF Run, chainVars
<1>2. CASE StartFull \/ StartWatch \/ Compare
  BY <1>2 DEF StartFull, StartWatch, Compare, Go, Call, Alone, walletVars, chainVars
<1>3. CASE Answered
  BY <1>3, QuietMoves DEF walletVars, chainVars
<1>4. CASE Refresh \/ Store \/ WatchRefreshes \/ Import
  BY <1>4 DEF Refresh, Store, WatchRefreshes, Import, Go, Call, Alone, chainVars
<1>5. CASE Generate \/ StopWatch \/ Copy \/ Reopen
  BY <1>5 DEF Generate, StopWatch, Copy, Reopen, Go, Call, Alone, chainVars
<1>6. CASE Transfer
  <2>1. PICK c \in watch.coins :
          txset' = [coin |-> {c}, amount |-> Wraps(years * YearAmount), payload |-> NoPayload]
    BY <1>6 DEF Transfer
  <2>2. watch.coins \subseteq Coins
    BY DEF WalletTypes, Knowledge
  <2>3. txset' \in Transactions
    BY <2>1, <2>2, WrappedAmount DEF Transactions
  <2>. QED
    BY <1>6, <2>3 DEF Transfer, Go, Call, Alone, chainVars
<1>7. CASE Patch
  <2>1. txset' \in Transactions
    BY <1>7, AskedAssumption DEF Patch, Transactions
  <2>. QED
    BY <1>7, <2>1 DEF Patch, Go, Call, Alone, chainVars
<1>8. CASE Submit \/ SubmitUnanswered
  <2>1. Relayed
    BY <1>8 DEF Submit, SubmitUnanswered
  <2>. QED
    BY <2>1 DEF Relayed, walletVars
<1>9. CASE Error \/ Killed \/ Reap \/ (\E w \in {"full", "watch"} : WalletDies(w))
  BY <1>9 DEF Error, Killed, Reap, WalletDies, Alone, walletVars, chainVars
<1>10. CASE \E c \in Coins : SpendElsewhere(c)
  BY <1>10 DEF SpendElsewhere, walletVars
<1>11. CASE \E arriving \in SUBSET Coins : Mine(arriving)
  <2>1. PICK arriving \in SUBSET Coins : Mine(arriving)
    BY <1>11
  <2> DEFINE i == Len(events) + 1
             t == Mined(i, tip')
  <2>2. CASE i \in DOMAIN paid /\ events' = Append(events, EventOf(names, t))
             /\ names' = NamesAfter(names, t)
    <3>1. tip' \in Nat
      BY <2>1, MineCases DEF WalletTypes
    <3>2. t \in Transfers(Nat)
      BY <2>2, <3>1, MinedType
    <3>3. EventOf(names, t) \in Events(Nat) /\ IsRegistry(names', Nat)
      BY <2>2, <3>2, EventType, NamesAfterType
    <3>4. events' \in Seq(Events(Nat)) /\ Len(events') = i /\ i <= Len(paid)
      BY <2>2, <3>3
    <3>. QED
      BY <2>1, <3>3, <3>4, MineCases
  <2>3. CASE UNCHANGED <<events, names>>
    BY <2>1, <2>3, MineCases
  <2>. QED
    BY <2>1, <2>2, <2>3, MineCases
<1>12. CASE UNCHANGED vars
  BY <1>12 DEF vars, walletVars, chainVars
<1>. QED
  BY <1>1, <1>2, <1>3, <1>4, <1>5, <1>6, <1>7, <1>8, <1>9, <1>10, <1>11, <1>12, NextCases

LEMMA FaultTypes ==
  ASSUME RunTypes
  PROVE  Fault \/ NoFault => faults' \in Nat /\ disturbed' \in BOOLEAN
<1>1. ASSUME Fault PROVE faults' \in Nat /\ disturbed' \in BOOLEAN
  <2>1. faults' \in Nat
    BY <1>1 DEF Fault, RunTypes
  <2>2. disturbed' \in BOOLEAN
    BY <1>1, Zenon DEF Fault
  <2>. QED
    BY <2>1, <2>2
<1>2. ASSUME NoFault PROVE faults' \in Nat /\ disturbed' \in BOOLEAN
  BY <1>2 DEF NoFault, RunTypes
<1>. QED
  BY <1>1, <1>2

LEMMA KeepsRunTypes ==
  ASSUME RunTypes, [Next]_vars
  PROVE  RunTypes'
<1>. USE DEF RunTypes
<1>1. CASE \E same \in BOOLEAN : Run(same)
  BY <1>1 DEF Run
<1>2. CASE StartFull \/ StartWatch \/ Refresh \/ Store \/ WatchRefreshes
  BY <1>2 DEF StartFull, StartWatch, Refresh, Store, WatchRefreshes, Go, Call, Alone, NoFault
<1>3. CASE Answered
  BY <1>3, QuietMoves
<1>4. CASE Generate \/ StopWatch \/ Copy \/ Reopen \/ Import \/ Compare \/ Transfer \/ Patch
  BY <1>4 DEF Generate, StopWatch, Copy, Reopen, Import, Compare, Transfer, Patch, Go, Call,
     Alone, NoFault
<1>5. CASE Submit \/ SubmitUnanswered
  <2>1. Relayed /\ (Fault \/ NoFault)
    BY <1>5 DEF Submit, SubmitUnanswered
  <2>. QED
    BY <2>1, FaultTypes DEF Relayed
<1>6. CASE Error
  <2>1. Alone /\ (Fault \/ NoFault)
    BY <1>6 DEF Error
  <2>. QED
    BY <2>1, FaultTypes DEF Alone
<1>7. CASE Killed \/ Reap \/ (\E w \in {"full", "watch"} : WalletDies(w))
  <2>1. (Fault \/ NoFault) /\ orphaned' \in BOOLEAN /\ UNCHANGED <<samePort, runs>>
    <3>1. CASE Killed
      BY <3>1, Zenon DEF Killed
    <3>2. CASE Reap
      BY <3>2, Zenon DEF Reap, NoFault
    <3>3. CASE \E w \in {"full", "watch"} : WalletDies(w)
      BY <3>3, Zenon DEF WalletDies
    <3>. QED
      BY <1>7, <3>1, <3>2, <3>3
  <2>. QED
    BY <2>1, FaultTypes
<1>8. CASE \E c \in Coins : SpendElsewhere(c)
  BY <1>8 DEF SpendElsewhere
<1>9. CASE \E arriving \in SUBSET Coins : Mine(arriving)
  BY <1>9 DEF Mine
<1>10. CASE UNCHANGED vars
  BY <1>10 DEF vars
<1>. QED
  BY <1>1, <1>2, <1>3, <1>4, <1>5, <1>6, <1>7, <1>8, <1>9, <1>10, NextCases

\* Every variable keeps its type, and no more payments are mined than were made.
THEOREM TypeCorrect == Spec => []TypeOK
<1>1. Init => StopsDeferred /\ WalletTypes /\ PaymentTypes /\ RunTypes
  <2>1. Init => PaymentTypes
    BY DEF Init, PaymentTypes, NoTx, Transactions, NewRegistry, IsRegistry
  <2>2. Init => RunTypes
    <3>1. Init => runs \in Nat /\ faults \in Nat
      BY DEF Init
    <3>2. Init => orphaned \in BOOLEAN /\ samePort \in BOOLEAN /\ disturbed \in BOOLEAN
      BY Zenon DEF Init
    <3>. QED
      BY <3>1, <3>2 DEF RunTypes
  <2>. QED
    BY <2>1, <2>2, InitWallets
<1>2. StopsDeferred /\ WalletTypes /\ PaymentTypes /\ RunTypes => TypeOK
  BY AllStepsAreSteps DEF StopsDeferred, WalletTypes, PaymentTypes, RunTypes, TypeOK
<1>. QED
  BY <1>1, <1>2, KeepsStopsDeferred, KeepsWalletTypes, KeepsPaymentTypes, KeepsRunTypes,
     PTL DEF Spec

-----------------------------------------------------------------------------
(* A run that nothing disturbs.                                            *)

\* Where the full wallet, and the watch wallet, have to be running.
FullAtWork == AllSteps \ {"start_full"}

WatchAtWork == {"wait_watch", "generate", "store_watch", "stop_watch", "wait_reopened",
                "auto_watch", "import", "compare", "transfer"}

\* Without faults, blocks and other spenders, every process that a step needs is
\* there, and both wallets know exactly what there is to know.
InAgreement ==
  /\ ~samePort /\ ~orphaned
  /\ pc \in FullAtWork => "full" \in running
  /\ pc \in WatchAtWork => "watch" \in running
  /\ pc \in FullAtWork \ {"wait_full", "refresh"} => full = Now
  /\ pc \in {"wait_reopened", "auto_watch", "import", "compare", "transfer"} => watch = full
  /\ pc = "failed" => full.coins = {}

Undisturbed == ~disturbed => InAgreement

\* The wallets that the calls of Quiet go to.
LEMMA QuietWallets ==
  /\ DOMAIN Quiet = QuietSteps
  /\ \A p \in QuietSteps : Quiet[p].wallet = IF p \in {"wait_full", "sender", "sign"}
                                             THEN "full" ELSE "watch"
  BY DEF Quiet, QuietSteps

\* An error that is no fault has one cause in a run in agreement: no coins.
LEMMA ErrorOnlyWithoutCoins ==
  ASSUME StopsDeferred, RunTypes, WatchFollowsFull, InAgreement, Error, NoFault
  PROVE  full.coins = {}
<1>. USE DEF InAgreement, FullAtWork, WatchAtWork, AllSteps, QuietSteps
<1>1. pc \in AllSteps /\ ~Fault
  <2>1. ~Fault
    BY DEF Fault, NoFault, RunTypes
  <2>. QED
    BY <2>1, AllStepsAreSteps DEF Error
<1>2. ~(pc \in DOMAIN Quiet /\ ~Answers(Quiet[pc].wallet))
  <2>1. ASSUME pc \in QuietSteps PROVE Answers(Quiet[pc].wallet)
    BY <2>1, QuietWallets DEF Answers
  <2>. QED
    BY <2>1, QuietWallets
<1>3. ~(pc = "compare" /\ ~SameState)
  BY DEF SameState
<1>4. ~(pc = "submit" /\ ~(txset.coin \subseteq unspent))
  BY DEF WatchFollowsFull, SignedIsOwn, Now
<1>5. \/ pc \in DOMAIN Quiet /\ ~Answers(Quiet[pc].wallet)
      \/ pc \in {"refresh", "store", "submit"} /\ "full" \notin running
      \/ pc = "generate" /\ (samePort \/ "watch" \notin running)
      \/ pc \in {"import", "compare", "transfer"} /\ "watch" \notin running
      \/ pc = "compare" /\ ~SameState
      \/ pc = "transfer" /\ watch.coins = {}
      \/ pc = "submit" /\ ~(txset.coin \subseteq unspent)
  BY <1>1, Zenon DEF Error
<1>6. pc = "transfer" /\ watch.coins = {}
  BY <1>2, <1>3, <1>4, <1>5
<1>. QED
  BY <1>6

\* A step is a fault, a block or another spender, or keeps the agreement.
LEMMA KeepsAgreement ==
  ASSUME StopsDeferred, WalletTypes, RunTypes, WatchFollowsFull, Undisturbed, [Next]_vars
  PROVE  Undisturbed'
<1> SUFFICES ASSUME ~disturbed' PROVE InAgreement'
  BY DEF Undisturbed
<1>. USE DEF FullAtWork, WatchAtWork, AllSteps, QuietSteps, Ended
<1>1. ASSUME NEW same \in BOOLEAN, Run(same)
      PROVE  InAgreement'
  <2>1. disturbed' = (same \/ orphaned) /\ samePort' = same /\ orphaned' = orphaned
        /\ pc' = "start_full"
    BY <1>1 DEF Run
  <2>2. ~samePort' /\ ~orphaned'
    BY <2>1, Zenon
  <2>. QED
    BY <2>1, <2>2 DEF InAgreement
<1>2. ASSUME UNCHANGED disturbed
      PROVE  InAgreement
  BY <1>2 DEF Undisturbed
<1>3. CASE StartFull
  BY <1>2, <1>3 DEF StartFull, InAgreement, Alone, NoFault, walletVars, chainVars
<1>4. CASE Answered
  BY <1>2, <1>4, QuietMoves DEF InAgreement, Now, walletVars, chainVars
<1>5. CASE Refresh
  <2>1. /\ pc' = "sender" /\ full' = Now /\ Now' = Now
        /\ "full" \in running /\ UNCHANGED <<running, samePort, orphaned, disturbed>>
    BY <1>5 DEF Refresh, Go, Call, Alone, NoFault, chainVars, Now
  <2>. QED
    BY <1>2, <2>1 DEF InAgreement
<1>6. CASE Store \/ StartWatch \/ Generate \/ StopWatch \/ Copy
  <2>1. /\ UNCHANGED <<full, watch, samePort, orphaned, disturbed>> /\ Now' = Now
    BY <1>6 DEF Store, StartWatch, Generate, StopWatch, Copy, Go, Call, Alone, NoFault,
       walletVars, chainVars, Now
  <2>2. InAgreement
    BY <1>2, <2>1
  <2>. QED
    BY <1>6, <2>1, <2>2 DEF InAgreement, Store, StartWatch, Generate, StopWatch, Copy, Go, Call
<1>7. CASE Reopen
  <2>1. /\ UNCHANGED <<full, samePort, orphaned, disturbed>> /\ Now' = Now
        /\ pc = "reopen" /\ pc' = "wait_reopened" /\ watch' = watchFile
        /\ running' = running \cup {"watch"}
    BY <1>7 DEF Reopen, Alone, NoFault, chainVars, Now
  <2>2. InAgreement /\ watchFile = full
    BY <1>2, <2>1 DEF WatchFollowsFull
  <2>. QED
    BY <2>1, <2>2 DEF InAgreement
<1>8. CASE WatchRefreshes
  <2>1. /\ UNCHANGED <<pc, running, full, samePort, orphaned, disturbed>> /\ Now' = Now
        /\ watch' = Now /\ pc \in {"wait_reopened", "auto_watch"}
    BY <1>8 DEF WatchRefreshes, Alone, NoFault, chainVars, Now
  <2>. QED
    BY <1>2, <2>1 DEF InAgreement
<1>9. CASE Import
  <2>1. /\ UNCHANGED <<running, full, samePort, orphaned, disturbed>> /\ Now' = Now
        /\ pc = "import" /\ pc' = "compare"
        /\ watch' = [watch EXCEPT !.coins = @ \cap unspent]
    BY <1>9 DEF Import, Go, Call, Alone, NoFault, chainVars, Now
  <2>2. InAgreement /\ watch = Now
    BY <1>2, <2>1 DEF InAgreement
  <2>3. watch' = watch
    BY <2>1, <2>2 DEF Now
  <2>. QED
    BY <2>1, <2>2, <2>3 DEF InAgreement
<1>10. CASE Compare \/ Transfer \/ Patch
  <2>1. /\ UNCHANGED <<running, full, watch, samePort, orphaned, disturbed>> /\ Now' = Now
        /\ pc' \in {"transfer", "patch", "sign"}
        /\ pc \in {"compare", "transfer", "patch"}
        /\ pc' = "transfer" => pc = "compare"
    BY <1>10 DEF Compare, Transfer, Patch, Go, Call, Alone, NoFault, walletVars, chainVars, Now
  <2>. QED
    BY <1>2, <2>1 DEF InAgreement
<1>11. CASE Submit
  <2>1. pc' = "done" /\ UNCHANGED <<samePort, orphaned, disturbed>>
    BY <1>11 DEF Submit, Relayed, Return, NoFault
  <2>. QED
    BY <1>2, <2>1 DEF InAgreement
<1>12. CASE Error
  <2>1. NoFault /\ Alone /\ full' = full /\ pc' = "failed"
    BY <1>12 DEF Error, Fault, Return, walletVars
  <2>2. InAgreement
    BY <1>2, <2>1 DEF NoFault
  <2>3. full.coins = {}
    BY <1>12, <2>1, <2>2, ErrorOnlyWithoutCoins
  <2>. QED
    BY <2>1, <2>2, <2>3 DEF InAgreement, Alone
<1>13. CASE Reap
  <2>1. /\ pc = "killed" /\ ~orphaned' /\ UNCHANGED <<pc, samePort, disturbed>>
    BY <1>13 DEF Reap
  <2>. QED
    BY <1>2, <2>1 DEF InAgreement
<1>14. CASE SubmitUnanswered \/ Killed \/ (\E w \in {"full", "watch"} : WalletDies(w))
            \/ (\E c \in Coins : SpendElsewhere(c))
            \/ (\E arriving \in SUBSET Coins : Mine(arriving))
  BY <1>14 DEF SubmitUnanswered, Killed, WalletDies, Fault, SpendElsewhere, Mine
<1>15. CASE UNCHANGED vars
  BY <1>2, <1>15 DEF vars, walletVars, chainVars, InAgreement, Now
<1>. QED
  BY <1>1, <1>3, <1>4, <1>5, <1>6, <1>7, <1>8, <1>9, <1>10, <1>11, <1>12, <1>13, <1>14, <1>15,
     NextCases

\* A run that no fault, block or other spender disturbs, ends with an error only
\* if the wallet has nothing to spend: the two wallets, whose caches, refreshes
\* and key images take different ways, never disagree by themselves.
THEOREM FailureHasAReason == Spec => []FailsForAReason
<1>1. Init => RunTypes /\ Undisturbed
  <2>1. Init => runs \in Nat /\ faults \in Nat
    BY DEF Init
  <2>2. Init => orphaned \in BOOLEAN /\ samePort \in BOOLEAN /\ disturbed \in BOOLEAN
    BY Zenon DEF Init
  <2>3. Init => Undisturbed
    BY DEF Init, Undisturbed, InAgreement, FullAtWork, WatchAtWork, AllSteps, QuietSteps
  <2>. QED
    BY <2>1, <2>2, <2>3 DEF RunTypes
<1>2. Undisturbed => FailsForAReason
  BY DEF Undisturbed, InAgreement, FailsForAReason
<1>. QED
  BY <1>1, <1>2, InitWallets, KeepsStopsDeferred, KeepsWalletTypes, KeepsFullIsRecent,
     KeepsWatchFollowsFull, KeepsRunTypes, KeepsAgreement, PTL DEF Spec
-----------------------------------------------------------------------------
(* What the payments buy.                                                  *)

\* What the years cost fits the wallet's amounts.  Claim does not check it: years
\* is any number the user gives (claim.go:206), and run claim_wraps shows what
\* happens to a price that wraps.
YearsFit == \A y \in YearsAsked : y * YearAmount < Word

\* The price of the years is a price for exactly these years.
LEMMA PriceOfYears ==
  ASSUME YearsFit, WalletTypes
  PROVE  /\ Wraps(years * YearAmount) = years * YearAmount
         /\ WholeYears(years * YearAmount)
         /\ Extension(years * YearAmount) = years * BlocksPerYear
         /\ years * BlocksPerYear \in Nat \ {0}
<1>1. years \in Nat \ {0} /\ YearAmount \in Nat \ {0} /\ BlocksPerYear \in Nat \ {0}
      /\ Word \in Nat \ {0}
  BY AskedAssumption, YearAssumption DEF WalletTypes
<1>2. years * YearAmount \in Nat /\ years * YearAmount < Word
  BY <1>1 DEF YearsFit, WalletTypes
<1>3. Wraps(years * YearAmount) = years * YearAmount
  BY <1>1, <1>2 DEF Wraps
<1>4. /\ (years * YearAmount) \div YearAmount = years
      /\ (years * YearAmount) % YearAmount = 0
  BY <1>1
<1>5. years * YearAmount >= YearAmount /\ years * BlocksPerYear \in Nat \ {0}
  BY <1>1
<1>. QED
  BY <1>3, <1>4, <1>5 DEF WholeYears, Extension, YearsFromAmount

\* Every payment is for the years and the name and owner asked for.
PaidAsAsked ==
  /\ pc \in {"patch", "sign", "submit"} => txset.amount = years * YearAmount
  /\ pc \in {"sign", "submit"} => txset.payload = Asked
  /\ \A i \in DOMAIN paid :
       paid[i].amount = years * YearAmount /\ paid[i].payload = Asked
  /\ pc = "done" => Len(paid) > 0

\* The name is the user's, if a payment was mined, as long as the log says.
Granted ==
  /\ Asked.name \in DOMAIN names <=> Len(events) > 0
  /\ Len(events) > 0 =>
       /\ names[Asked.name].OwnerKey = Asked.owner
       /\ names[Asked.name].ExpirationHeight = events[Len(events)].ExpirationHeight
  /\ EveryPaymentCounts

LEMMA KeepsPaidAsAsked ==
  ASSUME YearsFit, StopsDeferred, WalletTypes, PaymentTypes, PaidAsAsked, [Next]_vars
  PROVE  PaidAsAsked'
<1>. USE DEF PaidAsAsked, StopsDeferred, AllSteps, QuietSteps, Ended
<1>1. CASE \E same \in BOOLEAN : Run(same)
  BY <1>1 DEF Run, chainVars
<1>2. CASE StartFull \/ StartWatch \/ Compare
  BY <1>2 DEF StartFull, StartWatch, Compare, Go, Call, Alone, walletVars, chainVars
<1>3. CASE Answered
  BY <1>3, QuietMoves DEF walletVars, chainVars
<1>4. CASE Refresh \/ Store \/ WatchRefreshes \/ Import
  BY <1>4 DEF Refresh, Store, WatchRefreshes, Import, Go, Call, Alone, chainVars
<1>5. CASE Generate \/ StopWatch \/ Copy \/ Reopen
  BY <1>5 DEF Generate, StopWatch, Copy, Reopen, Go, Call, Alone, chainVars
<1>6. CASE Transfer
  <2>1. PICK c \in watch.coins :
          txset' = [coin |-> {c}, amount |-> Wraps(years * YearAmount), payload |-> NoPayload]
    BY <1>6 DEF Transfer
  <2>2. txset'.amount = years * YearAmount
    BY <2>1, PriceOfYears
  <2>3. pc' = "patch" /\ UNCHANGED <<years, paid>>
    BY <1>6 DEF Transfer, Go, Call, Alone, chainVars
  <2>. QED
    BY <2>2, <2>3
<1>7. CASE Patch
  <2>1. txset'.payload = Asked /\ txset'.amount = txset.amount
    BY <1>7 DEF Patch, PaymentTypes, Transactions
  <2>2. pc = "patch" /\ pc' = "sign" /\ UNCHANGED <<years, paid>>
    BY <1>7 DEF Patch, Go, Call, Alone, chainVars
  <2>. QED
    BY <2>1, <2>2
<1>8. CASE Submit \/ SubmitUnanswered
  <2>1. Relayed /\ pc' \in {"done", "failed"}
    BY <1>8 DEF Submit, SubmitUnanswered, Return
  <2>2. paid' = Append(paid, txset) /\ pc = "submit" /\ years' = years
    BY <2>1 DEF Relayed
  <2>3. /\ Len(paid') = Len(paid) + 1
        /\ \A i \in DOMAIN paid' : IF i = Len(paid) + 1 THEN paid'[i] = txset
                                   ELSE i \in DOMAIN paid /\ paid'[i] = paid[i]
    BY <2>2 DEF PaymentTypes
  <2>4. Len(paid') > 0
    BY <2>3 DEF PaymentTypes
  <2>. QED
    BY <2>1, <2>2, <2>3, <2>4
<1>9. CASE Error \/ Killed
  BY <1>9 DEF Error, Killed, Return, Alone, walletVars, chainVars
<1>10. CASE Reap \/ (\E w \in {"full", "watch"} : WalletDies(w))
  BY <1>10 DEF Reap, WalletDies, walletVars, chainVars
<1>11. CASE \E c \in Coins : SpendElsewhere(c)
  BY <1>11 DEF SpendElsewhere, walletVars
<1>12. CASE \E arriving \in SUBSET Coins : Mine(arriving)
  BY <1>12, MineCases
<1>13. CASE UNCHANGED vars
  BY <1>13 DEF vars, walletVars, chainVars
<1>. QED
  BY <1>1, <1>2, <1>3, <1>4, <1>5, <1>6, <1>7, <1>8, <1>9, <1>10, <1>11, <1>12, <1>13, NextCases

\* What a payment does to the registry, at whatever height it is mined.
LEMMA PaymentApplied ==
  ASSUME YearsFit, WalletTypes, PaymentTypes, PaidAsAsked, Granted,
         NEW i \in DOMAIN paid, NEW h \in Nat
  PROVE  LET t     == Mined(i, h)
             start == IF Free(names, Asked.name, h) THEN h
                      ELSE names[Asked.name].ExpirationHeight
         IN /\ ActionOf(names, t) # "ignored"
            /\ Asked.name \in DOMAIN NamesAfter(names, t)
            /\ NamesAfter(names, t)[Asked.name].OwnerKey = Asked.owner
            /\ NamesAfter(names, t)[Asked.name].ExpirationHeight
                 = EventOf(names, t).ExpirationHeight
            /\ EventOf(names, t).ExpirationHeight = start + years * BlocksPerYear
<1> DEFINE t == Mined(i, h)
<1>1. t.amount = years * YearAmount /\ t.payload = Asked /\ t.height = h
  BY DEF Mined, PaidAsAsked
<1>2. t \in Transfers(Nat) /\ IsRegistry(names, Nat)
  BY MinedType DEF PaymentTypes
<1>3. Asked # NoPayload
  BY AskedAssumption, NoPayloadAssumption
<1>4. Valid(t) /\ Extension(t.amount) = years * BlocksPerYear
  BY <1>1, <1>3, PriceOfYears DEF Valid
<1> HIDE DEF t
<1>5. ASSUME ~Free(names, Asked.name, h)
      PROVE  /\ Asked.name \in DOMAIN names
             /\ names[Asked.name].OwnerKey = Asked.owner
             /\ names[Asked.name] \in Entries(Nat)
  BY <1>2, <1>5 DEF Free, Granted, IsRegistry
<1>6. ActionOf(names, t) # "ignored"
  BY <1>1, <1>4, <1>5 DEF ActionOf, Claims, Renews
<1>7. /\ Asked.name \in DOMAIN NamesAfter(names, t)
      /\ NamesAfter(names, t)[Asked.name].OwnerKey = Asked.owner
      /\ NamesAfter(names, t)[Asked.name].ExpirationHeight = EventOf(names, t).ExpirationHeight
  BY <1>1, <1>2, <1>6, AcceptedEvent
<1>8. CASE Free(names, Asked.name, h)
  <2>1. NamesAfter(names, t) = Put(names, Asked.name, Claimed(t))
    BY <1>1, <1>4, <1>8 DEF NamesAfter, Claims
  <2>2. NamesAfter(names, t)[Asked.name].ExpirationHeight = h + years * BlocksPerYear
    BY <1>1, <1>4, <2>1 DEF Put, Claimed
  <2>. QED
    BY <1>6, <1>7, <1>8, <2>2 DEF t
<1>9. CASE ~Free(names, Asked.name, h)
  <2>1. NamesAfter(names, t) = Put(names, Asked.name, Renewed(names[Asked.name], t))
    BY <1>1, <1>4, <1>5, <1>9 DEF NamesAfter, Claims, Renews
  <2>2. NamesAfter(names, t)[Asked.name].ExpirationHeight
          = names[Asked.name].ExpirationHeight + years * BlocksPerYear
    BY <1>4, <1>5, <1>9, <2>1, ZenonT(40) DEF Put, Renewed, Entries
  <2>. QED
    BY <1>6, <1>7, <1>9, <2>2 DEF t
<1>. QED
  BY <1>8, <1>9

\* Only a block changes the registry, and nothing the years asked for.
LEMMA OnlyBlocksApply ==
  ASSUME [Next]_vars
  PROVE  \/ \E arriving \in SUBSET Coins : Mine(arriving)
         \/ UNCHANGED <<events, names, years>>
<1>1. CASE (\E same \in BOOLEAN : Run(same)) \/ StartFull \/ StartWatch \/ Compare
  BY <1>1 DEF Run, StartFull, StartWatch, Compare, Go, Call, Alone, chainVars
<1>2. CASE Answered
  BY <1>2, QuietMoves DEF chainVars
<1>3. CASE Refresh \/ Store \/ WatchRefreshes \/ Import
  BY <1>3 DEF Refresh, Store, WatchRefreshes, Import, Go, Call, Alone, chainVars
<1>4. CASE Generate \/ StopWatch \/ Copy \/ Reopen \/ Transfer \/ Patch
  BY <1>4 DEF Generate, StopWatch, Copy, Reopen, Transfer, Patch, Go, Call, Alone, chainVars
<1>5. CASE Submit \/ SubmitUnanswered \/ (\E c \in Coins : SpendElsewhere(c))
  BY <1>5 DEF Submit, SubmitUnanswered, Relayed, SpendElsewhere
<1>6. CASE Error \/ Killed \/ Reap \/ (\E w \in {"full", "watch"} : WalletDies(w))
  BY <1>6 DEF Error, Killed, Reap, WalletDies, Alone, chainVars
<1>7. CASE UNCHANGED vars
  BY <1>7 DEF vars, chainVars
<1>. QED
  BY <1>1, <1>2, <1>3, <1>4, <1>5, <1>6, <1>7, NextCases

LEMMA KeepsGranted ==
  ASSUME YearsFit, WalletTypes, PaymentTypes, PaidAsAsked, Granted, [Next]_vars
  PROVE  Granted'
<1>1. CASE UNCHANGED <<events, names, years>>
  BY <1>1 DEF Granted, EveryPaymentCounts
<1>2. ASSUME NEW arriving \in SUBSET Coins, Mine(arriving)
      PROVE  Granted'
  <2>1. PICK k \in Nat : k = Len(events) + 1
    BY DEF PaymentTypes
  <2>2. PICK t : t = Mined(k, tip')
    OBVIOUS
  <2>3. CASE /\ k \in DOMAIN paid
             /\ events' = Append(events, EventOf(names, t))
             /\ names' = NamesAfter(names, t)
    <3> DEFINE start == IF Free(names, Asked.name, tip') THEN tip'
                        ELSE names[Asked.name].ExpirationHeight
               ev == EventOf(names, t)
    <3>1. tip' \in Nat /\ years' = years
      BY <1>2, MineCases DEF WalletTypes
    <3>2. /\ ActionOf(names, t) # "ignored"
          /\ Asked.name \in DOMAIN names'
          /\ names'[Asked.name].OwnerKey = Asked.owner
          /\ names'[Asked.name].ExpirationHeight = ev.ExpirationHeight
          /\ ev.ExpirationHeight = start + years * BlocksPerYear
      BY <2>2, <2>3, <3>1, PaymentApplied
    <3>3. ev.Action # "ignored"
      BY <3>2 DEF EventOf
    <3>4. start >= (IF Len(events) = 0 THEN 0 ELSE events[Len(events)].ExpirationHeight)
          /\ start \in Nat
      <4>1. CASE Len(events) = 0
        BY <3>1, <4>1 DEF Granted, Free
      <4>2. CASE Len(events) # 0
        <5>1. /\ Len(events) > 0 /\ Asked.name \in DOMAIN names
              /\ names[Asked.name].ExpirationHeight = events[Len(events)].ExpirationHeight
          BY <2>1, <4>2 DEF Granted, PaymentTypes
        <5>2. names[Asked.name].ExpirationHeight \in Nat
          BY <5>1 DEF PaymentTypes, IsRegistry, Entries
        <5>. QED
          BY <3>1, <4>2, <5>1, <5>2 DEF Free
      <4>. QED
        BY <4>1, <4>2
    <3>5. /\ Len(events') = k /\ DOMAIN events' = DOMAIN events \cup {k}
          /\ events'[k] = ev
          /\ \A i \in DOMAIN events : i \in 1..Len(events) /\ events'[i] = events[i]
      BY <2>1, <2>3 DEF PaymentTypes
    <3>6. years * BlocksPerYear \in Nat \ {0}
      BY PriceOfYears
    <3>7. ASSUME NEW i \in DOMAIN events'
          PROVE  /\ events'[i].Action # "ignored"
                 /\ events'[i].ExpirationHeight >=
                      (IF i = 1 THEN 0 ELSE events'[i - 1].ExpirationHeight)
                        + years' * BlocksPerYear
      <4>1. CASE i \in DOMAIN events
        <5>1. i = 1 \/ i - 1 \in DOMAIN events
          BY <4>1 DEF PaymentTypes
        <5>. QED
          BY <3>1, <3>5, <4>1, <5>1 DEF Granted, EveryPaymentCounts
      <4>2. CASE i = k
        <5>1. IF k = 1 THEN Len(events) = 0
              ELSE Len(events) # 0 /\ k - 1 = Len(events) /\ k - 1 \in DOMAIN events
          BY <2>1 DEF PaymentTypes
        <5>2. (IF k = 1 THEN 0 ELSE events'[k - 1].ExpirationHeight)
                = IF Len(events) = 0 THEN 0 ELSE events[Len(events)].ExpirationHeight
          BY <3>5, <5>1
        <5>3. /\ events'[i].ExpirationHeight = start + years * BlocksPerYear
              /\ (IF Len(events) = 0 THEN 0 ELSE events[Len(events)].ExpirationHeight) \in Nat
          <6>1. Len(events) # 0 => events[Len(events)] \in Events(Nat)
            BY DEF PaymentTypes
          <6>. QED
            BY <3>2, <3>5, <4>2, <6>1 DEF Events
        <5>. QED
          BY <3>1, <3>3, <3>4, <3>5, <3>6, <4>2, <5>2, <5>3
      <4>. QED
        BY <3>5, <4>1, <4>2
    <3>8. Len(events') > 0 /\ events'[Len(events')] = ev
      BY <2>1, <3>5 DEF PaymentTypes
    <3>. QED
      BY <3>2, <3>7, <3>8 DEF Granted, EveryPaymentCounts
  <2>4. CASE UNCHANGED <<events, names>>
    BY <1>1, <1>2, <2>4, MineCases
  <2>. QED
    BY <1>2, <2>1, <2>2, <2>3, <2>4, MineCases
<1>. QED
  BY <1>1, <1>2, OnlyBlocksApply

LEMMA InitPayments ==
  Init => PaymentTypes /\ PaidAsAsked /\ Granted
<1>1. Init => PaymentTypes
  BY DEF Init, PaymentTypes, NoTx, Transactions, NewRegistry, IsRegistry
<1>2. Init => PaidAsAsked /\ Granted
  BY DEF Init, PaidAsAsked, Granted, EveryPaymentCounts, NewRegistry
<1>. QED
  BY <1>1, <1>2

\* No payment is wasted: however often claim fails after the payment has left,
\* is killed or run again, each payment that is mined adds its years to the term.
THEOREM PaymentsCount ==
  ASSUME YearsFit
  PROVE  Spec => []EveryPaymentCounts
<1>1. Granted => EveryPaymentCounts
  BY DEF Granted
<1>2. StopsDeferred /\ WalletTypes /\ PaymentTypes /\ PaidAsAsked /\ Granted /\ [Next]_vars
        => PaidAsAsked' /\ Granted'
  BY YearsFit, KeepsPaidAsAsked, KeepsGranted
<1>. QED
  BY <1>1, <1>2, InitWallets, InitPayments, KeepsStopsDeferred, KeepsWalletTypes,
     KeepsPaymentTypes, PTL DEF Spec

\* The success claim reports is one: the payment, whenever it is mined and
\* whatever was paid before, grants or renews the name for the years asked for.
THEOREM ReportsAreTrue ==
  ASSUME YearsFit
  PROVE  Spec => []ReportedIsGranted
<1>1. WalletTypes /\ PaymentTypes /\ PaidAsAsked /\ Granted => ReportedIsGranted
  <2> SUFFICES ASSUME WalletTypes, PaymentTypes, PaidAsAsked, Granted, pc = "done",
                      NEW h \in tip + 1..MaxTip + 1
               PROVE  LET last  == Mined(Len(paid), h)
                          start == IF Free(names, Asked.name, h) THEN h
                                   ELSE names[Asked.name].ExpirationHeight
                      IN /\ ActionOf(names, last) # "ignored"
                         /\ NamesAfter(names, last)[Asked.name].OwnerKey = Asked.owner
                         /\ EventOf(names, last).ExpirationHeight = start + years * BlocksPerYear
    BY DEF ReportedIsGranted
  <2>1. h \in Nat
    BY CoinsAssumption DEF WalletTypes
  <2>2. Len(paid) \in DOMAIN paid
    BY DEF PaidAsAsked, PaymentTypes
  <2>. QED
    BY YearsFit, <2>1, <2>2, PaymentApplied
<1>2. StopsDeferred /\ WalletTypes /\ PaymentTypes /\ PaidAsAsked /\ Granted /\ [Next]_vars
        => PaidAsAsked' /\ Granted'
  BY YearsFit, KeepsPaidAsAsked, KeepsGranted
<1>. QED
  BY <1>1, <1>2, InitWallets, InitPayments, KeepsStopsDeferred, KeepsWalletTypes,
     KeepsPaymentTypes, PTL DEF Spec
=============================================================================
