------------------------------ MODULE Backtest ------------------------------
(***************************************************************************)
(* backtest.simulate (src/sol_trade/backtest.py): a fresh book that starts *)
(* flat is driven over the bars [start, end) of a fixed history, on_open,  *)
(* on_low and on_close for each, and is closed at the last close.          *)
(*                                                                         *)
(* The history is chosen once, in Init, and never changes.  What the       *)
(* strategy says of a bar (compute_signals) is part of the history: any    *)
(* pair of entry and exit flags.                                           *)
(***************************************************************************)
EXTENDS Engine

CONSTANTS
    NumBars,   \* bars in the history
    BarData    \* the bars a history is made of, with their signals

Bar == [open : Nat \ {0}, high : Nat \ {0}, low : Nat \ {0}, close : Nat \ {0},
        entry : BOOLEAN, exit : BOOLEAN]

ASSUME HistoryAssumption ==
    /\ NumBars \in Nat
    /\ BarData \subseteq Bar
    /\ \A d \in BarData : /\ d.low <= d.open /\ d.open <= d.high
                          /\ d.low <= d.close /\ d.close <= d.high

VARIABLES
    market,  \* [1..NumBars -> BarData], the closed bars by position in time
    book,    \* the simulated book
    bar,     \* the bar in hand, 0 before the first
    stage    \* the step of `bar` that ran last, or "ended"

vars == <<market, book, bar, stage>>

Stages == {"close", "open", "low", "ended"}

Init ==
    /\ market \in [1..NumBars -> BarData]
    /\ book = FreshBook(MaxCapital)
    /\ bar = 0
    /\ stage = "close"

\* The simulated range may start anywhere; from then on bars come in order.
Successors(b) == IF b = 0 THEN 1..NumBars ELSE {b + 1} \cap 1..NumBars

OpenBar(i) ==
    /\ stage = "close"
    /\ i \in Successors(bar)
    /\ book' = OnOpen(book, i, market[i].open, 0, 100)
    /\ bar' = i
    /\ stage' = "open"
    /\ UNCHANGED market

LowOfBar ==
    /\ stage = "open"
    /\ book' = OnLow(book, bar, market[bar].open, market[bar].low)
    /\ stage' = "low"
    /\ UNCHANGED <<market, bar>>

CloseBar ==
    /\ stage = "low"
    /\ book' = OnClose(book, bar, market[bar].high, market[bar].close,
                       market[bar].entry, market[bar].exit, TRUE)
    /\ stage' = "close"
    /\ UNCHANGED <<market, bar>>

\* The range ends after any bar (`end`); what is still held is sold at its close.
Finish ==
    /\ stage = "close"
    /\ bar # 0
    /\ book' = IF book.position = None THEN book
               ELSE ClosePosition(book, bar, market[bar].close, "forced")
    /\ stage' = "ended"
    /\ UNCHANGED <<market, bar>>

Next == (\E i \in 1..NumBars : OpenBar(i)) \/ LowOfBar \/ CloseBar \/ Finish

Spec == Init /\ [][Next]_vars

-----------------------------------------------------------------------------
(***************************************************************************)
(* Properties                                                              *)
(***************************************************************************)

\* Every number of the book has the range the code gives it: a position is
\* never empty, and a bar number is one of the history's.
TypeOK ==
    /\ market \in [1..NumBars -> BarData]
    /\ book \in Book
    /\ bar \in 0..NumBars
    /\ stage \in Stages
    /\ book.pending # None => book.pending.signal_ts \in 1..NumBars
    /\ book.position # None => book.position.entry_ts \in 1..NumBars
    /\ book.trade # None => book.trade.exit_ts \in 1..NumBars

\* An exit is queued only for a held position and an entry only for a flat
\* symbol, at every point between two engine calls (on_open relies on it: it
\* drops an action that does not fit).
PendingFitsPosition ==
    book.pending # None => (book.pending.side = "SELL" <=> book.position # None)

\* Cash plus what the open position cost is the capital plus the realized
\* P&L of the trades table: the two ways the program computes its equity
\* (Book.equity and promotion.book_equity) agree.
CashExplained ==
    book.cash + (IF book.position = None THEN 0 ELSE book.position.cost_basis)
        = MaxCapital + book.realized

\* A book never spends cash it does not have: only the fee of a sale may
\* take it below zero, and then no position can be open or be opened.  A
\* position never cost more than one trade or the capital, plus the fee.
NeverOverspent ==
    /\ book.cash >= -NetworkFee
    /\ book.position # None =>
          /\ book.cash >= 0
          /\ book.position.cost_basis <= AtMost(TradeSize, MaxCapital) + NetworkFee

\* No position survives a bar whose low reached its stop or its trailing
\* stop: the levels a bar is held against are those of the previous close.
StopHonoured ==
    stage = "low" /\ book.position # None =>
        /\ StopLoss > 0 => market[bar].low > book.position.stop
        /\ Trailing > 0 /\ book.position.trailing_active =>
              market[bar].low > Percent(book.position.highest_price, 100 - Trailing)

\* Every exit happened at a price its bar really traded at, a stop never above
\* the bar's open: a gap through the stop costs the gap.
ExitAtTradedPrice ==
    book.trade # None =>
        LET t == book.trade IN
        /\ market[t.exit_ts].low <= t.exit_price
        /\ t.exit_price <= market[t.exit_ts].high
        /\ t.reason \in {"stop_loss", "trailing_stop"} => t.exit_price <= market[t.exit_ts].open

\* No look-ahead: an entry fills at the open of the bar right after the one
\* whose close asked for it.
NoLookAhead ==
    [][book.position = None /\ book'.position # None =>
          /\ book'.position.entry_ts = book.pending.signal_ts + 1
          /\ book'.position.entry_price = market[book.pending.signal_ts + 1].open]_vars

\* While a position stays open its protective level never moves down.
StopNeverLoosens ==
    [][book.position # None /\ book'.position # None =>
          StopLevel(book'.position) >= StopLevel(book.position)]_vars

=============================================================================
