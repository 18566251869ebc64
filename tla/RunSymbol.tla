------------------------------ MODULE RunSymbol ------------------------------
(***************************************************************************)
(* A simulated book (the dry run's, or a paper candidate's) polled by the  *)
(* bot: trading.run_symbol, with what perform_analysis and                 *)
(* _run_paper_books load before it and save after it.                      *)
(*                                                                         *)
(* The market runs on while the bot polls, misses polls, or is down.  A    *)
(* poll sees the closed bars the exchange has published so far and,        *)
(* sometimes, the forming bar with its running low.  The poll's engine     *)
(* calls are separate steps, so the process may die between any two.       *)
(*                                                                         *)
(* `bar` and `stage` are history variables: how far the book has got into  *)
(* which bar.  With them the polled book is a refinement of Backtest.      *)
(***************************************************************************)
EXTENDS Engine

CONSTANTS
    NumBars, BarData,  \* the history, as in Backtest
    Paper,             \* a paper candidate's book, else the dry run's
    GateFactors,       \* size factors the gate may return, percent; {100} without a gate
    MaxFailures        \* bound on the polls of a behaviour that die half way

Bar == [open : Nat \ {0}, high : Nat \ {0}, low : Nat \ {0}, close : Nat \ {0},
        entry : BOOLEAN, exit : BOOLEAN]

ASSUME HistoryAssumption ==
    /\ NumBars \in Nat
    /\ BarData \subseteq Bar
    /\ \A d \in BarData : /\ d.low <= d.open /\ d.open <= d.high
                          /\ d.low <= d.close /\ d.close <= d.high

ASSUME PollAssumption ==
    /\ Paper \in BOOLEAN /\ GateFactors \subseteq 0..100 /\ MaxFailures \in Nat
    /\ Paper => GateFactors = {100}

VARIABLES
    market,   \* the whole history, past and to come
    closed,   \* bars the clock has closed; bar closed + 1 is forming
    low,      \* the forming bar's running low
    stored,   \* closed bars in the candle store
    pc,       \* the poll's next step
    frame,    \* the window a poll works on: newest closed bar, forming low (0: none)
    at,       \* the bar being replayed
    book,     \* the book in memory (loaded anew by every poll)
    db,       \* the stored book: positions row and cash
    failures, \* polls that died half way so far
    bar, stage

vars == <<market, closed, low, stored, pc, frame, at, book, db, failures, bar, stage>>
history == <<bar, stage>>
world == <<market, closed, low, stored>>

Steps == {"idle", "open", "low", "close", "forming open", "forming low", "save",
          "save aborted", "cash"}
InReplay == {"open", "low", "close", "forming open", "forming low"}

Stored(b, cash) == [position |-> b.position, pending |-> b.pending,
                    last_bar_ts |-> b.last_bar_ts, cash |-> cash]

\* load_book: the positions row and the cash.  Fills and trades were written
\* when they happened, so they are not lost with the process.
Loaded == [book EXCEPT !.position = db.position, !.pending = db.pending,
                       !.last_bar_ts = db.last_bar_ts, !.cash = db.cash]

Init ==
    /\ market \in [1..NumBars -> BarData]
    /\ closed = 0 /\ stored = 0
    /\ low = market[1].open
    /\ pc = "idle"
    /\ frame = [newest |-> 0, forming |-> 0]
    /\ at = 0
    /\ book = FreshBook(MaxCapital)
    /\ db = Stored(book, MaxCapital)
    /\ failures = 0
    /\ bar = 0 /\ stage = "close"

-----------------------------------------------------------------------------
(***************************************************************************)
(* The market                                                              *)
(***************************************************************************)

\* The forming bar trades down to its low.  Only a low that has reached the
\* stop matters to on_low, so its two ends stand for the values in between.
LowFalls ==
    /\ closed < NumBars
    /\ low > market[closed + 1].low
    /\ low' = market[closed + 1].low
    /\ UNCHANGED <<market, closed, stored, pc, frame, at, book, db, failures, history>>

BarCloses ==
    /\ closed < NumBars
    /\ closed' = closed + 1
    /\ low' = IF closed + 2 <= NumBars THEN market[closed + 2].open ELSE 0
    /\ UNCHANGED <<market, stored, pc, frame, at, book, db, failures, history>>

-----------------------------------------------------------------------------
(***************************************************************************)
(* A poll                                                                  *)
(***************************************************************************)

\* The first closed bar to replay: on first sight only the newest counts.
FirstOfAll(b, newest) == IF b.last_bar_ts = None THEN 0 ELSE b.last_bar_ts + 1
AfterNewest(b, newest) == IF b.last_bar_ts = None THEN newest + 1 ELSE b.last_bar_ts + 1
ReplayLastAgain(b, newest) == IF b.last_bar_ts = None THEN newest ELSE b.last_bar_ts
FirstNew(b, newest) == IF b.last_bar_ts = None THEN newest ELSE b.last_bar_ts + 1

\* The forming bar is used only when it follows the newest closed bar.
FormingUnchecked(newest, now, seen) == seen
FormingUsable(newest, now, seen) == seen /\ newest = now

\* history.window: the store catches up as far as the exchange has published
\* (more than three periods behind raises instead), and may return the
\* forming bar.  run_symbol then replays the bars past last_bar_ts.
Poll(newest, seen) ==
    /\ pc = "idle"
    /\ newest \in (stored..closed) \ {0}
    /\ closed - newest <= 3
    /\ closed < NumBars \/ ~seen
    /\ stored' = newest
    /\ book' = Loaded
    /\ frame' = [newest |-> newest,
                 forming |-> IF FormingUsable(newest, closed, seen) THEN low ELSE 0]
    /\ at' = FirstNew(Loaded, newest)
    /\ pc' = IF at' <= newest THEN "open" ELSE "forming open"
    /\ UNCHANGED <<market, closed, low, db, failures, history>>

ReplayOpen(factor) ==
    /\ pc = "open"
    /\ book' = OnOpen(book, at, market[at].open, 0, factor)
    /\ bar' = at
    /\ stage' = IF bar = at THEN stage ELSE "open"
    /\ pc' = "low"
    /\ UNCHANGED <<world, frame, at, db, failures>>

ReplayLow ==
    /\ pc = "low"
    /\ book' = OnLow(book, at, market[at].open, market[at].low)
    /\ stage' = "low"
    /\ pc' = "close"
    /\ UNCHANGED <<world, frame, at, db, failures, bar>>

ReplayClose ==
    /\ pc = "close"
    /\ book' = OnClose(book, at, market[at].high, market[at].close,
                       market[at].entry, market[at].exit, TRUE)
    /\ stage' = "close"
    /\ at' = at + 1
    /\ pc' = IF at < frame.newest THEN "open" ELSE "forming open"
    /\ UNCHANGED <<world, frame, db, failures, bar>>

\* The forming bar's open fills what is queued; without a usable forming bar
\* the poll is over.
FormingOpen(factor) ==
    /\ pc = "forming open"
    /\ IF frame.forming = 0
       THEN pc' = "save" /\ UNCHANGED <<book, history>>
       ELSE /\ book' = OnOpen(book, frame.newest + 1, market[frame.newest + 1].open, 0, factor)
            /\ bar' = frame.newest + 1
            /\ stage' = IF bar = frame.newest + 1 THEN stage ELSE "open"
            /\ pc' = "forming low"
    /\ UNCHANGED <<world, frame, at, db, failures>>

FormingLow ==
    /\ pc = "forming low"
    /\ book' = OnLow(book, frame.newest + 1, market[frame.newest + 1].open, frame.forming)
    /\ stage' = IF book' # book THEN "low" ELSE stage
    /\ pc' = "save"
    /\ UNCHANGED <<world, frame, at, db, failures, bar>>

\* An engine call, or storing its fill or trade, raises: run_symbol ends there.
Abort ==
    /\ pc \in InReplay
    /\ failures < MaxFailures
    /\ failures' = failures + 1
    /\ pc' = "save aborted"
    /\ UNCHANGED <<world, frame, at, book, db, history>>

\* ledger.save_state, in the `finally` of the caller.  After an exception
\* _run_paper_books goes on with the next candidate: no cash is saved.
SaveState ==
    /\ pc \in {"save", "save aborted"}
    /\ db' = Stored(book, db.cash)
    /\ pc' = IF pc = "save aborted" /\ Paper THEN "idle" ELSE "cash"
    /\ UNCHANGED <<world, frame, at, book, failures, history>>

\* The cash is saved later: at the end of the cycle in the dry run, in
\* record_paper_cycle for a paper book.
SaveCash ==
    /\ pc = "cash"
    /\ db' = [db EXCEPT !.cash = book.cash]
    /\ pc' = "idle"
    /\ UNCHANGED <<world, frame, at, book, failures, history>>

\* The process dies between two steps and is started again.
Crash ==
    /\ pc # "idle"
    /\ failures < MaxFailures
    /\ failures' = failures + 1
    /\ book' = Loaded
    /\ pc' = "idle"
    /\ UNCHANGED <<world, frame, at, db, history>>

Next ==
    \/ LowFalls \/ BarCloses
    \/ \E newest \in 1..NumBars, seen \in BOOLEAN : Poll(newest, seen)
    \/ \E factor \in GateFactors : ReplayOpen(factor) \/ FormingOpen(factor)
    \/ ReplayLow \/ ReplayClose \/ FormingLow \/ SaveState \/ SaveCash
    \/ Abort \/ Crash

Spec == Init /\ [][Next]_vars

\* The clock never stops, the loop runs every poll to its end, and the
\* exchange is, again and again, up to date when it is polled.
InPoll ==
    \/ \E factor \in GateFactors : ReplayOpen(factor) \/ FormingOpen(factor)
    \/ ReplayLow \/ ReplayClose \/ FormingLow \/ SaveState \/ SaveCash

FairSpec ==
    /\ Spec
    /\ WF_vars(BarCloses)
    /\ WF_vars(InPoll)
    /\ SF_vars(Poll(closed, FALSE))

-----------------------------------------------------------------------------
(***************************************************************************)
(* Properties                                                              *)
(***************************************************************************)

\* Types, and what a poll in progress is entitled to: it never works on a bar
\* the clock has not closed, nor on one the store does not have.
TypeOK ==
    /\ market \in [1..NumBars -> BarData]
    /\ closed \in 0..NumBars /\ stored \in 0..closed
    /\ pc \in Steps
    /\ frame.newest \in 0..stored
    /\ book \in Book
    /\ db \in [position : Position \cup {None}, pending : Action \cup {None},
               last_bar_ts : Nat \cup {None}, cash : Int]
    /\ pc \in {"open", "low", "close"} => at \in 1..frame.newest
    /\ failures \in 0..MaxFailures

\* Polling makes exactly the trades of a backtest over the same closed bars,
\* whatever bars it sees forming, misses, or replays after an outage, as long
\* as no poll dies half way: it starts like a backtest, and each of its steps
\* is a step of the backtest or leaves the backtest's state alone.
BT == INSTANCE Backtest
BacktestParity == BT!Init /\ [][failures' = 0 => BT!Next]_(BT!vars)

\* Every closed bar is eventually processed and stored, also when polls die.
CatchesUp ==
    closed = NumBars ~> db.last_bar_ts = NumBars

\* Between polls, the stored cash and position are what the trades table says
\* they are: the capital plus the realized P&L, minus the cost of what is open.
\* A poll that died leaves fills and trades of a state that was never stored,
\* or a stored state without its cash, so this is claimed up to the first failure.
StoredBookExplained ==
    pc = "idle" /\ failures = 0 =>
        db.cash + (IF db.position = None THEN 0 ELSE db.position.cost_basis)
            = MaxCapital + book.realized

\* "The bot's capital: max_live_capital plus realized and unrealized P&L": what
\* the kill switch measures is what the book is worth, whatever the price.
GovernorSeesEquity ==
    pc = "idle" /\ failures = 0 =>
        \A d \in BarData : GovernorEquity(book, d.close) = Equity(book, d.close)

=============================================================================
