------------------------------ MODULE LiveLoop ------------------------------
(***************************************************************************)
(* The live trading cycle: trading.perform_analysis over the live book,    *)
(* run_symbol for each token, the kill switch of promotion.govern, the     *)
(* wallet, its balance cache, and the stored positions.                    *)
(*                                                                         *)
(* Prices are abstracted to what the control depends on: what a closed bar *)
(* makes the strategy say, whether a low has reached the stop, whether a   *)
(* drawdown has reached its limit.  One entry buys one lot.  An order      *)
(* either moves its lot and reports it or does neither; what else module   *)
(* Swap finds (a swap that moved the wallet and came back as failed, a     *)
(* fill of nothing, two of one order) is such an order with Drift before   *)
(* or after it.  The process may die between any two steps.                *)
(***************************************************************************)
EXTENDS Sequences, Integers, FiniteSets

CONSTANTS
    Symbols,     \* secondary_mint_symbols
    NumBars,     \* bound on the bars the clock closes
    Said,        \* what a bar may make the tokens' strategies say, together
    MaxCrashes,  \* bound on the crashes of a behaviour
    MaxOutages,  \* bound on the errors of a behaviour (see `outages`)
    None

Signal == {"hold", "entry", "exit"}
Action == [side : {"BUY", "SELL"}, signal_ts : 1..NumBars]

ASSUME BoundsAssumption ==
    /\ NumBars \in Nat /\ MaxCrashes \in Nat /\ MaxOutages \in Nat
    /\ Said \subseteq [Symbols -> Signal]

ASSUME NoneAssumption == None \notin Nat /\ \A a \in Action : a # None

Outcome == {"filled", "failed", "none"}  \* of an order: "none" was not sent

VARIABLES
    chart,   \* what each closed bar makes each token's strategy say
    fallen,  \* per token: the forming bar's running low has reached the stop
    db,      \* the positions table of the live book
    book,    \* the book in memory
    wallet,  \* lots of each token in the wallet
    cache,   \* BalanceCache: a balance read, None when absent or expired
    paused,  \* the kill switch's setting, stored
    seen,    \* `paused` as perform_analysis read it at the start of the cycle
    pc,      \* the cycle's next step
    todo,    \* tokens the current stage of the cycle has still to visit
    cur,     \* the token being analysed
    frame,   \* its window: bar to replay, newest closed bar, forming bar
    outages, \* balance reads, analyses, flattenings and swaps that an error spoilt so far
    crashes

VARIABLES  \* what happened, for the properties
    written,    \* lots written off as dust, still in the wallet
    entries,    \* entries bought, by token and by the bar that asked for them
    sincePause, \* entries bought since the kill switch tripped, by token
    astray      \* lots that came or went without a fill that says so

vars == <<chart, fallen, db, book, wallet, cache, outages, paused, seen, pc, todo, cur, frame,
          crashes, written, entries, sincePause, astray>>
world == <<chart, fallen>>
reads == <<cache, outages>>
ledger == <<wallet, written, entries, sincePause, astray>>
cycle == <<pc, todo, cur, frame>>

closed == Len(chart)

Steps == {"idle", "next", "open", "low", "close", "forming open", "forming low", "save",
          "govern", "flatten", "save all", "value"}

SymbolState ==
    [position : {None} \cup 1..(NumBars + 1),  \* the bar the entry filled in
     pending : {None} \cup Action,
     last_bar_ts : {None} \cup 1..NumBars]

InReplay == {"open", "low", "close", "forming open", "forming low"}

NoFrame == [at |-> 0, newest |-> 0, forming |-> FALSE, low |-> FALSE]

Held(b) == b.position # None
Dequeued(b) == [b EXCEPT !.pending = None]
SoldStillQueued(b) == [b EXCEPT !.position = None]
Sold(b) == [b EXCEPT !.position = None, !.pending = None]

Init ==
    /\ chart = <<>>
    /\ fallen = [s \in Symbols |-> FALSE]
    /\ db = [s \in Symbols |-> [position |-> None, pending |-> None, last_bar_ts |-> None]]
    /\ book = db
    /\ wallet = [s \in Symbols |-> 0]
    /\ cache = wallet /\ outages = 0
    /\ paused = FALSE /\ seen = FALSE
    /\ pc = "idle" /\ todo = {} /\ cur = None /\ frame = NoFrame
    /\ crashes = 0
    /\ written = wallet
    /\ entries = [s \in Symbols |-> [i \in 1..NumBars |-> 0]]
    /\ sincePause = wallet /\ astray = wallet

-----------------------------------------------------------------------------
(***************************************************************************)
(* Around the loop                                                         *)
(***************************************************************************)

BarCloses(said) ==
    /\ closed < NumBars
    /\ chart' = Append(chart, said)
    /\ fallen' = [s \in Symbols |-> FALSE]
    /\ UNCHANGED <<db, book, reads, paused, seen, cycle, crashes, ledger>>

LowFalls(s) ==
    /\ ~fallen[s]
    /\ fallen' = [fallen EXCEPT ![s] = TRUE]
    /\ UNCHANGED <<chart, db, book, reads, paused, seen, cycle, crashes, ledger>>

\* rpc.balance_refresh_seconds after a balance was read.
Expire(s) ==
    /\ cache[s] # None
    /\ cache' = [cache EXCEPT ![s] = None]
    /\ UNCHANGED <<world, outages, db, book, paused, seen, cycle, crashes, ledger>>

\* A human runs `resume`.
Resume ==
    /\ paused
    /\ paused' = FALSE
    /\ sincePause' = [s \in Symbols |-> 0]
    /\ UNCHANGED <<world, db, book, wallet, reads, seen, cycle, crashes, written, entries, astray>>

\* A lot comes or goes that no fill tells of: perform_swap took a swap that landed
\* for failed or the reverse, raised after one, or a human moved the tokens.
Drift(s) ==
    /\ outages < MaxOutages
    /\ outages' = outages + 1
    /\ \E lots \in {1, -1} :
         /\ wallet[s] + lots >= 0
         /\ wallet' = [wallet EXCEPT ![s] = @ + lots]
         /\ astray' = [astray EXCEPT ![s] = @ + lots]
    /\ UNCHANGED <<world, db, book, cache, paused, seen, cycle, crashes, written, entries, sincePause>>

\* A balance as it is read now: the cached one, else the wallet's, or zero for
\* the tokens of `failed`, whose reads meet an RPC error.
Balance(s, failed) ==
    IF cache[s] # None THEN cache[s] ELSE IF s \in failed THEN 0 ELSE wallet[s]

Outage(failed) ==
    /\ failed # {} => outages < MaxOutages
    /\ outages' = IF failed = {} THEN outages ELSE outages + 1

\* The process dies (or stop_trading gives up on its thread) and is started
\* again: _capture_baseline reads every balance.
Crash(failed) ==
    /\ pc # "idle"
    /\ crashes < MaxCrashes
    /\ crashes' = crashes + 1
    /\ book' = db
    /\ Outage(failed)
    /\ cache' = [s \in Symbols |-> IF s \in failed THEN 0 ELSE wallet[s]]
    /\ pc' = "idle" /\ todo' = {} /\ cur' = None /\ frame' = NoFrame
    /\ UNCHANGED <<world, db, paused, seen, ledger>>

-----------------------------------------------------------------------------
(***************************************************************************)
(* Orders                                                                  *)
(***************************************************************************)

\* LiveExecutor.sell of the tracked size.  A zero balance sends no order; every
\* order sent, filled or not, drops the cached balance.  `kept` is the token's
\* state when nothing was sold.
SoldAnyway(kept, outcome) == IF outcome = "none" THEN kept ELSE Sold(kept)
AfterSale(kept, outcome) == IF outcome = "filled" THEN Sold(kept) ELSE kept

Sell(s, kept, outcome) ==
    \E failed \in SUBSET {s} :
        /\ Outage(failed)
        /\ outcome = "none" <=> Balance(s, failed) = 0
        /\ cache' = [cache EXCEPT ![s] = IF outcome = "none" THEN 0 ELSE None]
        /\ outcome = "filled" => wallet[s] > 0
        /\ wallet' = IF outcome = "filled" THEN [wallet EXCEPT ![s] = @ - 1] ELSE wallet
        /\ book' = [book EXCEPT ![s] = AfterSale(kept, outcome)]
        /\ UNCHANGED <<written, entries, sincePause, astray>>

NoOrder(s, kept, outcome) ==
    /\ outcome = "none"
    /\ book' = [book EXCEPT ![s] = kept]
    /\ UNCHANGED <<reads, ledger>>

\* open_position through LiveExecutor.buy.  An entry that is too small, that
\* the gate sizes to nothing, or whose swap fails is dropped.
Buy(s, bar, outcome) ==
    \/ NoOrder(s, Dequeued(book[s]), outcome)
    \/ /\ outcome = "failed"
       /\ book' = [book EXCEPT ![s] = Dequeued(@)]
       /\ cache' = [cache EXCEPT ![s] = None]
       /\ UNCHANGED <<outages, ledger>>
    \/ /\ outcome = "filled"
       /\ book' = [book EXCEPT ![s] = [Dequeued(@) EXCEPT !.position = bar]]
       /\ cache' = [cache EXCEPT ![s] = None]
       /\ wallet' = [wallet EXCEPT ![s] = @ + 1]
       /\ entries' = [entries EXCEPT ![s][book[s].pending.signal_ts] = @ + 1]
       /\ sincePause' = [sincePause EXCEPT ![s] = IF paused THEN @ + 1 ELSE @]
       /\ UNCHANGED <<outages, written, astray>>

\* Book.on_open: the queued action leaves the queue whatever becomes of it (an
\* exit the gate refuses is the order that is not sent).
OnOpen(s, bar, outcome) ==
    LET b == book[s] IN
    \/ b.pending = None /\ NoOrder(s, b, outcome)
    \/ b.pending # None /\ b.pending.side = "BUY" /\ ~Held(b) /\ Buy(s, bar, outcome)
    \/ b.pending # None /\ b.pending.side = "SELL" /\ Held(b)
          /\ (Sell(s, Dequeued(b), outcome) \/ NoOrder(s, Dequeued(b), outcome))
    \/ b.pending # None /\ (b.pending.side = "BUY" <=> Held(b)) /\ NoOrder(s, Dequeued(b), outcome)

\* Book.on_low: `hit` says whether the low reached the position's stop.
LowUnlessPaused(s, hit, outcome) ==
    IF Held(book[s]) /\ hit /\ ~seen THEN Sell(s, book[s], outcome)
    ELSE NoOrder(s, book[s], outcome)
OnLow(s, hit, outcome) ==
    IF Held(book[s]) /\ hit THEN Sell(s, book[s], outcome)
    ELSE NoOrder(s, book[s], outcome)

\* Book.on_close and the live book's filter: an entry is queued only if the
\* cycle began unpaused and the bar is the newest of the window.
Decision(b, signal, bar) ==
    CASE Held(b) /\ signal = "exit" -> [side |-> "SELL", signal_ts |-> bar]
      [] ~Held(b) /\ signal = "entry" -> [side |-> "BUY", signal_ts |-> bar]
      [] OTHER -> None
MayEnterReplayed(bar, newest) == ~seen
MayEnterPaused(bar, newest) == bar = newest
MayEnter(bar, newest) == ~seen /\ bar = newest
OnClose(b, signal, bar, newest) ==
    LET decision == Decision(b, signal, bar) IN
    [b EXCEPT !.last_bar_ts = bar,
              !.pending = IF decision # None /\ decision.side = "BUY" /\ ~MayEnter(bar, newest)
                          THEN None ELSE decision]

-----------------------------------------------------------------------------
(***************************************************************************)
(* The cycle                                                               *)
(***************************************************************************)

\* Dust positions are written off in the database, the book is loaded, and
\* the kill switch's setting is read once for the whole cycle.
StartCycle(dust) ==
    /\ pc = "idle"
    /\ \A s \in dust : Held(db[s])
    /\ db' = [s \in Symbols |-> IF s \in dust THEN Sold(db[s]) ELSE db[s]]
    /\ written' = [s \in Symbols |-> IF s \in dust THEN written[s] + 1 ELSE written[s]]
    /\ book' = db'
    /\ seen' = paused
    /\ pc' = "next" /\ todo' = Symbols
    /\ UNCHANGED <<world, wallet, reads, paused, cur, frame, crashes, entries, sincePause, astray>>

\* The token's strategy is unusable or its window cannot be fetched: it is
\* left alone, and the others go on.
Skip(s) ==
    /\ pc = "next" /\ s \in todo
    /\ todo' = todo \ {s}
    /\ db' = [db EXCEPT ![s] = book[s]]
    /\ UNCHANGED <<world, book, reads, paused, seen, pc, cur, frame, crashes, ledger>>

\* history.window: up to `newest`, and the forming bar if it comes with it.
FirstOfAll(b, newest) == IF b.last_bar_ts = None THEN 0 ELSE b.last_bar_ts + 1
ReplayLastAgain(b, newest) == IF b.last_bar_ts = None THEN newest ELSE b.last_bar_ts
FirstNew(b, newest) == IF b.last_bar_ts = None THEN newest ELSE b.last_bar_ts + 1
Analyse(s, newest, forming) ==
    /\ pc = "next" /\ s \in todo
    /\ newest \in 1..closed /\ closed - newest <= 3
    /\ book[s].last_bar_ts # None => newest >= book[s].last_bar_ts
    /\ forming => newest = closed
    /\ cur' = s
    /\ frame' = [at |-> FirstNew(book[s], newest), newest |-> newest,
                 forming |-> forming, low |-> forming /\ fallen[s]]
    /\ pc' = IF frame'.at <= newest THEN "open" ELSE "forming open"
    /\ UNCHANGED <<world, db, book, reads, paused, seen, todo, crashes, ledger>>

ReplayOpen(outcome) ==
    /\ pc = "open"
    /\ OnOpen(cur, frame.at, outcome)
    /\ pc' = "low"
    /\ UNCHANGED <<world, db, paused, seen, todo, cur, frame, crashes>>

ReplayLow(hit, outcome) ==
    /\ pc = "low"
    /\ OnLow(cur, hit, outcome)
    /\ pc' = "close"
    /\ UNCHANGED <<world, db, paused, seen, todo, cur, frame, crashes>>

ReplayClose ==
    /\ pc = "close"
    /\ book' = [book EXCEPT ![cur] = OnClose(@, chart[frame.at][cur], frame.at, frame.newest)]
    /\ frame' = [frame EXCEPT !.at = @ + 1]
    /\ pc' = IF frame.at < frame.newest THEN "open" ELSE "forming open"
    /\ UNCHANGED <<world, db, reads, paused, seen, todo, cur, crashes, ledger>>

FormingOpen(outcome) ==
    /\ pc = "forming open"
    /\ IF frame.forming
       THEN OnOpen(cur, frame.newest + 1, outcome) /\ pc' = "forming low"
       ELSE NoOrder(cur, book[cur], outcome) /\ pc' = "save"
    /\ UNCHANGED <<world, db, paused, seen, todo, cur, frame, crashes>>

FormingLow(s, outcome) ==
    /\ pc = "forming low" /\ cur = s
    /\ OnLow(s, frame.low, outcome)
    /\ pc' = "save"
    /\ UNCHANGED <<world, db, paused, seen, todo, cur, frame, crashes>>

\* An engine call, or storing its fill or trade, raises: run_symbol ends there.
Abort ==
    /\ pc \in InReplay
    /\ outages < MaxOutages
    /\ outages' = outages + 1
    /\ pc' = "save"
    /\ UNCHANGED <<world, db, book, cache, paused, seen, todo, cur, frame, crashes, ledger>>

\* ledger.save_state, in the `finally` of the token's analysis.
Save ==
    /\ pc = "save"
    /\ db' = [db EXCEPT ![cur] = book[cur]]
    /\ todo' = todo \ {cur}
    /\ pc' = "next" /\ cur' = None /\ frame' = NoFrame
    /\ UNCHANGED <<world, book, reads, paused, seen, crashes, ledger>>

Analysed ==
    /\ pc = "next" /\ todo = {}
    /\ pc' = "govern"
    /\ UNCHANGED <<world, db, book, reads, paused, seen, todo, cur, frame, crashes, ledger>>

\* promotion.check_kill_switch: a drawdown (which takes an entry) at its limit
\* trips the switch unless it has tripped already.
Govern(drawdown) ==
    /\ pc = "govern"
    /\ drawdown => \E s \in Symbols, i \in 1..NumBars : entries[s][i] > 0
    /\ IF drawdown /\ ~paused
       THEN pc' = "flatten" /\ todo' = {s \in Symbols : Held(book[s])}
       ELSE pc' = "save all" /\ todo' = {}
    /\ UNCHANGED <<world, db, book, reads, paused, seen, cur, frame, crashes, ledger>>

\* One position of the flattening; without a price its sale is not sent.
Flatten(s, outcome) ==
    /\ pc = "flatten" /\ s \in todo
    /\ Sell(s, book[s], outcome) \/ NoOrder(s, book[s], outcome)
    /\ todo' = todo \ {s}
    /\ UNCHANGED <<world, db, paused, seen, pc, cur, frame, crashes>>

\* An error in the flattening (storing a fill or trade, a swap that raises) leaves
\* it: the rest is not sold and the switch not set.
FlattenFails ==
    /\ pc = "flatten"
    /\ outages < MaxOutages
    /\ outages' = outages + 1
    /\ pc' = "save all" /\ todo' = {}
    /\ UNCHANGED <<world, db, book, cache, paused, seen, cur, frame, crashes, ledger>>

\* The switch is set after the sales, whatever became of them.
Pause ==
    /\ pc = "flatten" /\ todo = {}
    /\ paused' = TRUE
    /\ sincePause' = [s \in Symbols |-> 0]
    /\ pc' = "save all"
    /\ UNCHANGED <<world, db, book, wallet, reads, seen, todo, cur, frame, crashes, written, entries,
                   astray>>

SaveAll ==
    /\ pc = "save all"
    /\ db' = book
    /\ pc' = "value"
    /\ UNCHANGED <<world, book, reads, paused, seen, todo, cur, frame, crashes, ledger>>

\* _book_value reads every balance.
ValueBook(failed) ==
    /\ pc = "value"
    /\ Outage(failed)
    /\ cache' = [s \in Symbols |-> Balance(s, failed)]
    /\ pc' = "idle"
    /\ UNCHANGED <<world, db, book, paused, seen, todo, cur, frame, crashes, ledger>>

CycleStep ==
    \/ \E dust \in SUBSET Symbols : StartCycle(dust)
    \/ \E s \in Symbols : Skip(s)
    \/ \E s \in Symbols, newest \in 1..NumBars, forming \in BOOLEAN : Analyse(s, newest, forming)
    \/ \E outcome \in Outcome : ReplayOpen(outcome) \/ FormingOpen(outcome)
    \/ \E outcome \in Outcome, hit \in BOOLEAN : ReplayLow(hit, outcome)
    \/ \E outcome \in Outcome, s \in Symbols : FormingLow(s, outcome) \/ Flatten(s, outcome)
    \/ \E drawdown \in BOOLEAN : Govern(drawdown)
    \/ \E failed \in SUBSET Symbols : ValueBook(failed)
    \/ ReplayClose \/ Abort \/ Save \/ Analysed \/ FlattenFails \/ Pause \/ SaveAll

Next ==
    \/ \E said \in Said : BarCloses(said)
    \/ \E s \in Symbols : LowFalls(s) \/ Expire(s) \/ Drift(s)
    \/ Resume \/ (\E failed \in SUBSET Symbols : Crash(failed))
    \/ CycleStep

Spec == Init /\ [][Next]_vars

\* The loop never stops (an exception only ends its cycle) and a cached balance
\* expires; errors end (MaxOutages).  Again and again a token's window is up to
\* date and comes with the forming bar, and a sale that is sent succeeds.
SaleFills(s) == FormingLow(s, "filled") \/ Flatten(s, "filled")

FairSpec ==
    /\ Spec
    /\ WF_vars(CycleStep)
    /\ \A s \in Symbols : /\ WF_vars(Expire(s))
                          /\ SF_vars(Analyse(s, closed, TRUE))
                          /\ SF_vars(SaleFills(s))

-----------------------------------------------------------------------------
(***************************************************************************)
(* Properties                                                              *)
(***************************************************************************)

\* Types; an analysis in progress works on closed bars of a token in hand.
TypeOK ==
    /\ chart \in Seq(Said) /\ closed <= NumBars
    /\ fallen \in [Symbols -> BOOLEAN]
    /\ db \in [Symbols -> SymbolState] /\ book \in [Symbols -> SymbolState]
    /\ wallet \in [Symbols -> Nat] /\ astray \in [Symbols -> Int] /\ cache \in [Symbols -> Nat \cup {None}]
    /\ paused \in BOOLEAN /\ seen \in BOOLEAN
    /\ pc \in Steps /\ todo \subseteq Symbols
    /\ pc \in InReplay \cup {"save"} => cur \in todo
    /\ pc \in {"open", "low", "close"} => frame.at \in 1..frame.newest
    /\ frame.newest <= closed
    /\ crashes \in 0..MaxCrashes /\ outages \in 0..MaxOutages

\* Every lot the bot's fills account for is in its book or was written off as dust,
\* at every step of a cycle, whatever orders failed and analyses died: nothing it
\* knows to own is out of the reach of its stops.  (Claimed up to the first crash.)
NoTokenForgotten ==
    crashes = 0 =>
        \A s \in Symbols : wallet[s] = astray[s] + written[s] + (IF Held(book[s]) THEN 1 ELSE 0)

\* A queued exit belongs to a position and a queued entry to none, in memory
\* and in the database, also after a crash.
QueueFitsPosition ==
    \A s \in Symbols : \A b \in {book[s], db[s]} :
        b.pending # None => (b.pending.side = "SELL" <=> Held(b))

\* Up to the first crash a signal buys once, however often its bar is fetched or
\* its cycle fails (run_symbol).
OneEntryPerSignal ==
    crashes = 0 => \A s \in Symbols, i \in 1..NumBars : entries[s][i] <= 1

\* Up to the first crash, after the kill switch trips a token enters at most once
\* more (the entry that was queued when it tripped) until a human resumes.
PauseHolds ==
    crashes = 0 /\ paused => \A s \in Symbols : sincePause[s] <= 1

\* An entry is bought either for the newest bar of its window or for the action
\* the cycle began with: a bar that is only replayed never opens a position.
ReplayNeverEnters ==
    [][\A s \in Symbols : entries'[s] # entries[s] =>
          \/ book[s].pending.signal_ts = frame.newest
          \/ book[s].pending = db[s].pending]_vars

\* While a low stays below the stop of a stored position, it is sold in the
\* end, whatever balance reads and swaps failed before, unless its tokens left
\* the wallet otherwise.
StopSells ==
    \A s \in Symbols :
        (fallen[s] /\ Held(db[s])) ~> (~fallen[s] \/ ~Held(db[s]) \/ crashes > 0 \/ astray[s] < 0)

\* "The kill switch pauses all entries" (sol_trade/promotion.py).
KillSwitchPausesEntries == [][paused => entries' = entries]_vars

\* "When the bot's capital falls max_drawdown_pct below its high, every
\* position is sold and entries pause until a human runs resume" (README.md), as
\* far as its tokens are still in the wallet.
KillSwitchFlattens ==
    paused ~> (~paused \/ \A s \in Symbols : ~Held(db[s]) \/ astray[s] < 0)

\* "Positions live in data/research.db, so a restart resumes where it left
\* off" (README.md): after a restart the book still has what the bot bought.
RestartKeepsPositions ==
    pc = "idle" =>
        \A s \in Symbols : wallet[s] = astray[s] + written[s] + (IF Held(book[s]) THEN 1 ELSE 0)

=============================================================================
