------------------------------- MODULE Claim -------------------------------
(***************************************************************************)
(* xns claim (pkg/claim/claim.go): two wallet processes build, patch, sign *)
(* and submit one payment.  The full wallet has the keys; a watch wallet   *)
(* with a copy of its cache is needed to get a transaction that can be     *)
(* patched before it is signed.  Every call can fail, wallets can die,     *)
(* other copies of the wallet can spend, blocks arrive, the answer to      *)
(* submit_transfer can be lost, and the user may run claim again.          *)
(*                                                                         *)
(* A coin is what one transfer spends.  What a wallet knows is a height    *)
(* and the coins it takes to be unspent; coins are worth the same, so a    *)
(* balance is their number.  The wallet, the daemon and the miners are     *)
(* modelled from how claim.go uses them.  What a payment does to the       *)
(* registry is Registry's Apply.                                           *)
(***************************************************************************)
EXTENDS Registry, FiniteSets

CONSTANTS
  Asked,      \* the name and the owner the user asks for, as a payload
  YearsAsked, \* the years the user may ask for
  Word,       \* amounts are unsigned numbers below Word (2^64 in the code)
  Coins,      \* the coins the wallet ever has
  OwnCoins,   \* those it has at the start
  MaxTip,     \* bound: the height of the chain
  MaxRuns,    \* bound: how often the user runs claim
  MaxFaults   \* bound: failed calls, deaths, lost answers, equal ports, kills

ASSUME AskedAssumption ==
  /\ Asked \in Payloads
  /\ YearsAsked \subseteq Nat \ {0}
  /\ Word \in Nat \ {0}

ASSUME CoinsAssumption ==
  /\ OwnCoins \subseteq Coins
  /\ IsFiniteSet(Coins)
  /\ MaxTip \in Nat /\ MaxRuns \in Nat /\ MaxFaults \in Nat

VARIABLES
  pc,         \* the next step of run, or how the last run ended
  years,      \* the years asked for
  running,    \* the wallet processes of this run
  deferred,   \* those whose stop is deferred
  orphaned,   \* a full wallet of a killed run still has the wallet open
  samePort,   \* freePort gave the same port twice
  full,       \* what the full wallet knew after its refresh
  cacheFile,  \* what the full wallet's file says
  watchFile,  \* what the watch wallet's file says
  watch,      \* what the watch wallet knows
  txset,      \* the transaction between the two
  tip,        \* the daemon's height
  unspent,    \* the coins that are unspent, with the pool
  seen,       \* the coins received so far
  paid,       \* what was relayed, in order
  events,     \* what Apply returned for the payments mined so far
  names,      \* the registry after them
  runs, faults,
  disturbed   \* something happened that may make this run fail

walletVars == <<full, cacheFile, watchFile, watch, txset>>
chainVars == <<tip, unspent, seen, paid, events, names>>
vars == <<pc, years, running, deferred, orphaned, samePort, walletVars, chainVars,
          runs, faults, disturbed>>

\* Calls that change nothing a property is about, the wallet they go to, and
\* what comes next.
Quiet == [wait_full     |-> [wallet |-> "full",  next |-> "refresh"],
          sender        |-> [wallet |-> "full",  next |-> "store"],
          wait_watch    |-> [wallet |-> "watch", next |-> "generate"],
          store_watch   |-> [wallet |-> "watch", next |-> "stop_watch"],
          wait_reopened |-> [wallet |-> "watch", next |-> "auto_watch"],
          auto_watch    |-> [wallet |-> "watch", next |-> "import"],
          sign          |-> [wallet |-> "full",  next |-> "submit"]]

Steps == DOMAIN Quiet \cup
  {"start_full", "refresh", "store", "start_watch", "generate", "stop_watch", "copy",
   "reopen", "import", "compare", "transfer", "patch", "submit"}

Ended == {"idle", "done", "failed", "killed"}

\* Steps whose error path stops the watch wallet itself: its stop is not
\* deferred before it is started again.
EarlyWatch == {"wait_watch", "generate", "store_watch"}

Knowledge == [height : Nat, coins : SUBSET Coins]

Nothing == [height |-> 0, coins |-> {}]

Now == [height |-> tip, coins |-> unspent]

NoTx == [coin |-> {}, amount |-> 0, payload |-> NoPayload]

Transactions == [coin : SUBSET Coins, amount : Nat, payload : Payloads \cup {NoPayload}]

\* The amount computed in a narrower word than the wallet's.
NarrowWraps(n) == n % (Word \div 4)

Wraps(n) == n % Word

\* Someone answers at the port of wallet w.
Answers(w) == IF samePort THEN "full" \in running ELSE w \in running

-----------------------------------------------------------------------------
Init == /\ pc = "idle"
        /\ years \in YearsAsked
        /\ running = {} /\ deferred = {}
        /\ orphaned = FALSE /\ samePort = FALSE
        /\ full = Nothing /\ cacheFile = Nothing /\ watchFile = Nothing /\ watch = Nothing
        /\ txset = NoTx
        /\ tip = 1 /\ unspent = OwnCoins /\ seen = OwnCoins
        /\ paid = <<>> /\ events = <<>> /\ names = NewRegistry
        /\ runs = 0 /\ faults = 0
        /\ disturbed = FALSE

\* Nothing happens outside of this process.
Alone == UNCHANGED <<years, orphaned, samePort, chainVars, runs>>

Fault == faults < MaxFaults /\ faults' = faults + 1 /\ disturbed' = TRUE

NoFault == UNCHANGED <<faults, disturbed>>

\* run returns: the deferred stops, and those the error path makes itself.
Return(result) ==
  /\ pc' = result
  /\ running' = running \ (deferred \cup IF pc \in EarlyWatch THEN {"watch"} ELSE {})
  /\ deferred' = {}

\* run goes on to the next step, and nothing happens outside of it.
Go(step, next) ==
  /\ pc = step
  /\ pc' = next
  /\ UNCHANGED <<running, deferred>>
  /\ Alone /\ NoFault

\* A call that wallet w answers.
Call(w, step, next) == w \in running /\ Go(step, next)

Run(same) ==
  /\ pc \in Ended
  /\ runs < MaxRuns
  /\ same => faults < MaxFaults
  /\ faults' = IF same THEN faults + 1 ELSE faults
  /\ pc' = "start_full"
  /\ runs' = runs + 1
  /\ samePort' = same
  /\ disturbed' = (same \/ orphaned)
  /\ full' = Nothing /\ watchFile' = Nothing /\ watch' = Nothing /\ txset' = NoTx
  /\ running' = {}
  /\ UNCHANGED <<years, deferred, orphaned, cacheFile, chainVars>>

\* The wallet's keys are locked by whoever has it open.
StartFull ==
  /\ pc = "start_full"
  /\ pc' = "wait_full"
  /\ running' = IF orphaned THEN {} ELSE {"full"}
  /\ deferred' = {"full"}
  /\ Alone /\ NoFault /\ UNCHANGED walletVars

\* get_version, get_address, query_key, sign_transfer and the like succeed.
Answered ==
  /\ pc \in DOMAIN Quiet
  /\ Answers(Quiet[pc].wallet)
  /\ Go(pc, Quiet[pc].next)
  /\ UNCHANGED walletVars

\* auto_refresh off, then refresh, which sees the pool too.
Refresh ==
  /\ Call("full", "refresh", "sender")
  /\ full' = Now
  /\ UNCHANGED <<cacheFile, watchFile, watch, txset>>

\* The full wallet's file stays as it was.
StoreNothing ==
  /\ Call("full", "store", "start_watch")
  /\ UNCHANGED walletVars

\* export_key_images and store.
Store ==
  /\ Call("full", "store", "start_watch")
  /\ cacheFile' = full
  /\ UNCHANGED <<full, watchFile, watch, txset>>

\* A process whose port is taken exits.
StartWatch ==
  /\ pc = "start_watch"
  /\ pc' = "wait_watch"
  /\ running' = IF samePort THEN running ELSE running \cup {"watch"}
  /\ Alone /\ NoFault /\ UNCHANGED <<deferred, walletVars>>

\* generate_from_keys; the full wallet, which has no wallet directory, refuses.
Generate ==
  /\ Call("watch", "generate", "store_watch")
  /\ ~samePort
  /\ watchFile' = Nothing
  /\ UNCHANGED <<full, cacheFile, watch, txset>>

\* The first watch wallet may write its file once more before it ends.
StopWatch ==
  /\ pc = "stop_watch"
  /\ pc' = "copy"
  /\ running' = running \ {"watch"}
  /\ watchFile' = Nothing
  /\ Alone /\ NoFault /\ UNCHANGED <<deferred, full, cacheFile, watch, txset>>

Copy ==
  /\ Go("copy", "reopen")
  /\ watchFile' = cacheFile
  /\ UNCHANGED <<full, cacheFile, watch, txset>>

\* The second start of the watch wallet without a deferred stop.
ReopenUndeferred ==
  /\ pc = "reopen"
  /\ pc' = "wait_reopened"
  /\ running' = running \cup {"watch"}
  /\ watch' = watchFile
  /\ Alone /\ NoFault /\ UNCHANGED <<deferred, full, cacheFile, watchFile, txset>>

Reopen ==
  /\ pc = "reopen"
  /\ pc' = "wait_reopened"
  /\ running' = running \cup {"watch"}
  /\ deferred' = deferred \cup {"watch"}
  /\ watch' = watchFile
  /\ Alone /\ NoFault /\ UNCHANGED <<full, cacheFile, watchFile, txset>>

\* The watch wallet refreshes by itself until it is told not to.
WatchRefreshes ==
  /\ pc \in {"wait_reopened", "auto_watch"}
  /\ "watch" \in running
  /\ watch' = Now
  /\ UNCHANGED <<pc, running, deferred, full, cacheFile, watchFile, txset>>
  /\ Alone /\ NoFault

\* import_key_images asks the daemon which of the coins are spent.
Import ==
  /\ Call("watch", "import", "compare")
  /\ watch' = [watch EXCEPT !.coins = @ \cap unspent]
  /\ UNCHANGED <<full, cacheFile, watchFile, txset>>

\* Only the balances are compared.
SameBalance == Cardinality(watch.coins) = Cardinality(full.coins)

SameState ==
  /\ watch.height = full.height
  /\ Cardinality(watch.coins) = Cardinality(full.coins)

Compare ==
  /\ Call("watch", "compare", "transfer")
  /\ SameState
  /\ UNCHANGED walletVars

\* The watch wallet builds the transaction from the coins it knows.
Transfer ==
  /\ Call("watch", "transfer", "patch")
  /\ \E c \in watch.coins :
       txset' = [coin |-> {c}, amount |-> Wraps(years * YearAmount), payload |-> NoPayload]
  /\ UNCHANGED <<full, cacheFile, watchFile, watch>>

\* The name alone is put into the transaction.
PatchName ==
  /\ Go("patch", "sign")
  /\ txset' = [txset EXCEPT !.payload = Asked.name]
  /\ UNCHANGED <<full, cacheFile, watchFile, watch>>

\* The transaction is signed as the wallet made it.
PatchNothing ==
  /\ Go("patch", "sign")
  /\ UNCHANGED walletVars

Patch ==
  /\ Go("patch", "sign")
  /\ txset' = [txset EXCEPT !.payload = Asked]
  /\ UNCHANGED <<full, cacheFile, watchFile, watch>>

\* The daemon accepts a transaction whose coin is unspent.
Relayed ==
  /\ pc = "submit"
  /\ "full" \in running
  /\ txset.coin \subseteq unspent
  /\ paid' = Append(paid, txset)
  /\ unspent' = unspent \ txset.coin
  /\ UNCHANGED <<years, orphaned, samePort, tip, seen, events, names, runs, walletVars>>

Submit == Relayed /\ Return("done") /\ NoFault

\* The transaction is on its way, but claim does not hear of it.
SubmitUnanswered == Relayed /\ Return("failed") /\ Fault

\* A step returns an error: the call fails, or the wallets disagree, nothing is
\* left to spend, or nobody answers.  Stopping a process cannot fail.
Error ==
  /\ pc \in Steps \ {"stop_watch"}
  /\ Return("failed")
  /\ \/ Fault
     \/ /\ \/ pc \in DOMAIN Quiet /\ ~Answers(Quiet[pc].wallet)
           \/ pc \in {"refresh", "store", "submit"} /\ "full" \notin running
           \/ pc = "generate" /\ (samePort \/ "watch" \notin running)
           \/ pc \in {"import", "compare", "transfer"} /\ "watch" \notin running
           \/ pc = "compare" /\ ~SameState
           \/ pc = "transfer" /\ watch.coins = {}
           \/ pc = "submit" /\ ~(txset.coin \subseteq unspent)
        /\ NoFault
  /\ Alone /\ UNCHANGED walletVars

\* A signal ends claim, which has no handler: its wallets go on.
Killed ==
  /\ pc \in Steps
  /\ Fault
  /\ pc' = "killed"
  /\ orphaned' = (orphaned \/ "full" \in running)
  /\ deferred' = {}
  /\ UNCHANGED <<years, running, samePort, walletVars, chainVars, runs>>

\* The user ends what a killed run left, or the signal reaches the wallets too.
Reap ==
  /\ pc = "killed"
  /\ orphaned
  /\ orphaned' = FALSE
  /\ running' = {}
  /\ UNCHANGED <<pc, years, deferred, samePort, walletVars, chainVars, runs, faults, disturbed>>

WalletDies(w) ==
  /\ w \in running
  /\ pc \in Steps
  /\ Fault
  /\ running' = running \ {w}
  /\ UNCHANGED <<pc, years, deferred, orphaned, samePort, walletVars, chainVars, runs>>

\* Another copy of the wallet spends a coin.
SpendElsewhere(c) ==
  /\ c \in unspent
  /\ faults < MaxFaults
  /\ faults' = faults + 1
  /\ disturbed' = TRUE
  /\ unspent' = unspent \ {c}
  /\ UNCHANGED <<pc, years, running, deferred, orphaned, samePort, walletVars,
                 tip, seen, paid, events, names, runs>>

\* The payment mined at a height, as the indexer sees it.
Mined(i, h) ==
  [txid |-> i, height |-> h, amount |-> paid[i].amount, payload |-> paid[i].payload]

\* A block: it may bring a coin, and it has the oldest payment not yet mined.
Mine(arriving) ==
  /\ tip < MaxTip
  /\ tip' = tip + 1
  /\ arriving \subseteq Coins \ seen
  /\ seen' = seen \cup arriving
  /\ unspent' = unspent \cup arriving
  /\ disturbed' = TRUE
  /\ LET i == Len(events) + 1
     IN IF i \in DOMAIN paid
        THEN /\ events' = Append(events, EventOf(names, Mined(i, tip')))
             /\ names' = NamesAfter(names, Mined(i, tip'))
        ELSE UNCHANGED <<events, names>>
  /\ UNCHANGED <<pc, years, running, deferred, orphaned, samePort, walletVars,
                 paid, runs, faults>>

Next == \/ \E same \in BOOLEAN : Run(same)
        \/ StartFull \/ Answered \/ Refresh \/ Store
        \/ StartWatch \/ Generate \/ StopWatch \/ Copy \/ Reopen \/ WatchRefreshes
        \/ Import \/ Compare \/ Transfer \/ Patch
        \/ Submit \/ SubmitUnanswered
        \/ Error \/ Killed \/ Reap
        \/ \E w \in {"full", "watch"} : WalletDies(w)
        \/ \E c \in Coins : SpendElsewhere(c)
        \/ \E arriving \in SUBSET Coins : Mine(arriving)

Spec == Init /\ [][Next]_vars

-----------------------------------------------------------------------------
\* Every variable has its type.
TypeOK ==
  /\ pc \in Steps \cup Ended
  /\ years \in YearsAsked
  /\ running \subseteq {"full", "watch"} /\ deferred \subseteq {"full", "watch"}
  /\ orphaned \in BOOLEAN /\ samePort \in BOOLEAN /\ disturbed \in BOOLEAN
  /\ full \in Knowledge /\ cacheFile \in Knowledge
  /\ watchFile \in Knowledge /\ watch \in Knowledge
  /\ txset \in Transactions
  /\ tip \in Nat /\ unspent \subseteq seen /\ seen \subseteq Coins
  /\ paid \in Seq(Transactions) /\ Len(events) <= Len(paid)
  /\ runs \in Nat /\ faults \in Nat

\* Whatever goes wrong and wherever, run returns without a wallet process left:
\* the next run could not open the wallet (the defers and stops of claim.go:75-137).
NoWalletLeft == pc \in {"done", "failed"} => running = {}

\* What the full wallet is asked to sign spends a coin that it takes to be
\* unspent itself, although another wallet, which has refreshed at another
\* time, chose it (claim.go:190-204).
SignedIsOwn == pc \in {"patch", "sign", "submit"} => txset.coin \subseteq full.coins

\* When claim reports success, its payment, mined at whatever height from now
\* on, claims the name or renews it, for exactly the years asked for
\* (claim.go:206-254, "years": in the result it prints).  Nobody else pays for
\* the name here: run never looks it up, so whether somebody has it already, or
\* gets it first, is up to the user.
ReportedIsGranted ==
  pc = "done" =>
    \A h \in tip + 1..MaxTip + 1 :
      LET last  == Mined(Len(paid), h)
          start == IF Free(names, Asked.name, h) THEN h
                   ELSE names[Asked.name].ExpirationHeight
      IN /\ ActionOf(names, last) # "ignored"
         /\ NamesAfter(names, last)[Asked.name].OwnerKey = Asked.owner
         /\ EventOf(names, last).ExpirationHeight = start + years * BlocksPerYear

\* No payment is wasted, not even those whose answer was lost and that the user
\* has made again: each one claims the name or adds to its term, as long as
\* nobody else pays for it (claim.go:247, registry.go:61-70).
EveryPaymentCounts ==
  \A i \in DOMAIN events :
    /\ events[i].Action # "ignored"
    /\ events[i].ExpirationHeight >=
         (IF i = 1 THEN 0 ELSE events[i - 1].ExpirationHeight) + years * BlocksPerYear

\* The two wallets agree when nothing interferes: a run in which no call fails,
\* no block arrives and nobody else spends does not end with an error, as long
\* as there is a coin to spend (claim.go:125-204).
FailsForAReason == pc = "failed" => disturbed \/ full.coins = {}
=============================================================================
