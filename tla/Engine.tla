------------------------------- MODULE Engine -------------------------------
(***************************************************************************)
(* The pure trading engine of src/sol_trade/engine.py for ONE symbol of a  *)
(* simulated book: what on_open, on_low and on_close do to the symbol's    *)
(* state and to the book's cash.  Backtest, paper books and the dry run    *)
(* all drive these three steps.                                            *)
(*                                                                         *)
(* Numbers are fixed-point naturals: a price, a notional or a cash amount  *)
(* is a count of one small unit, a position's size counts 1/SizeUnit       *)
(* tokens, and percentages and basis points round down.  A level of 0      *)
(* stands for Python's None (the code drops falsy levels the same way).    *)
(***************************************************************************)
EXTENDS Integers

CONSTANTS
    StopLoss,        \* risk.stoploss, percent; 0 turns the exit off
    TakeProfit,      \* risk.takeprofit, percent; 0 turns the exit off
    Trailing,        \* risk.trailing_stoploss, percent; 0 turns it off
    TrailingTarget,  \* risk.trailing_stoploss_target, percent
    TradeSize,       \* risk.max_trade_size times the strategy's position_size
    MaxCapital,      \* risk.max_live_capital
    MinOrder,        \* _MIN_ORDER, the smallest notional worth sending
    CostBps,         \* the cost model's in-swap share
    NetworkFee,      \* the cost model's network fee per swap
    SizeUnit,        \* fixed-point unit of a position's size
    None             \* no position, no pending action, no bar, no trade

ASSUME RiskAssumption ==
    /\ StopLoss \in 0..99 /\ Trailing \in 0..99
    /\ TakeProfit \in Nat /\ TrailingTarget \in Nat

ASSUME SizingAssumption ==
    /\ TradeSize \in Nat /\ MaxCapital \in Nat
    /\ MinOrder \in Nat \ {0} /\ SizeUnit \in Nat \ {0}
    /\ CostBps \in 0..10000 /\ NetworkFee \in Nat

(***************************************************************************)
(* Records                                                                 *)
(***************************************************************************)

Position == [entry_price : Nat, size : Nat \ {0}, cost_basis : Nat, entry_ts : Nat,
             stop : Nat, take_profit : Nat,
             trailing_active : BOOLEAN, highest_price : Nat]

Action == [side : {"BUY", "SELL"}, reason : {"signal", "take_profit"},
           signal_ts : Nat]

Reason == {"signal", "stop_loss", "trailing_stop", "take_profit", "forced",
           "dust", "kill_switch"}

Trade == [entry_ts : Nat, exit_ts : Nat, exit_price : Nat, reason : Reason]

\* A book as one of its symbols sees it: the symbol's position, queued action
\* and newest processed bar, the cash, and what the trades table has so far
\* (the sum of its pnl column and its newest row).
Book == [position : Position \cup {None}, pending : Action \cup {None},
         last_bar_ts : Nat \cup {None}, cash : Int,
         realized : Int, trade : Trade \cup {None}]

\* Outside every record set, so that "no position" is never a position.
ASSUME NoneAssumption ==
    None \notin Position /\ None \notin Action /\ None \notin Nat /\ None \notin Trade

FreshBook(capital) ==
    [position |-> None, pending |-> None, last_bar_ts |-> None,
     cash |-> capital, realized |-> 0, trade |-> None]

AtLeast(a, b) == IF a >= b THEN a ELSE b
AtMost(a, b)  == IF a <= b THEN a ELSE b
Percent(x, p) == (x * p) \div 100

(***************************************************************************)
(* Protective levels                                                       *)
(***************************************************************************)

EntryStop(price) == IF StopLoss > 0 THEN Percent(price, 100 - StopLoss) ELSE 0
EntryTarget(price) == IF TakeProfit > 0 THEN Percent(price, 100 + TakeProfit) ELSE 0

TrailingLevel(pos) ==
    IF Trailing > 0 /\ pos.trailing_active
    THEN Percent(pos.highest_price, 100 - Trailing)
    ELSE 0

\* The higher of the two stops binds; 0 when neither is set.
StopLevel(pos) == AtLeast(pos.stop, TrailingLevel(pos))

StopCrossed(pos, low) == StopLevel(pos) > 0 /\ low < StopLevel(pos)
StopHit(pos, low) == StopLevel(pos) > 0 /\ low <= StopLevel(pos)

\* A gap through the stop fills at the open, never above it.
FillAtLevel(level, open) == level
StopFill(level, open) == AtMost(level, open)

StopReason(pos) == IF pos.stop >= TrailingLevel(pos) THEN "stop_loss" ELSE "trailing_stop"

\* Once armed (a closed bar's high at or above the target) the trailing stop
\* stays armed and its peak follows the highest high seen.
Arms(pos, high) ==
    Trailing > 0 /\ (pos.trailing_active \/ high >= Percent(pos.entry_price, 100 + TrailingTarget))
PeakOfBar(peak, high) == high
NewPeak(peak, high) == AtLeast(peak, high)
UpdateTrailing(pos, high) ==
    IF Arms(pos, high)
    THEN [pos EXCEPT !.trailing_active = TRUE, !.highest_price = NewPeak(@, high)]
    ELSE pos

(***************************************************************************)
(* What a closed bar asks for, and how large an entry is                   *)
(***************************************************************************)

QueuedNextBar(side, reason, ts) == [side |-> side, reason |-> reason, signal_ts |-> ts + 1]
Queued(side, reason, ts) == [side |-> side, reason |-> reason, signal_ts |-> ts]

\* A fixed take-profit outranks the strategy's exit; an open position never
\* asks for another entry.
DecideClose(pos, close, entry, exit, ts) ==
    LET target == pos # None /\ pos.take_profit > 0 /\ close >= pos.take_profit
    IN
    CASE target -> Queued("SELL", "take_profit", ts)
      [] pos # None /\ ~target /\ exit -> Queued("SELL", "signal", ts)
      [] pos = None /\ entry -> Queued("BUY", "signal", ts)
      [] OTHER -> None

\* The smallest of the trade size, the cash and the capital still free.
SizeIgnoringCash(cash, deployed) == AtLeast(AtMost(TradeSize, MaxCapital - deployed), 0)
SizeOrder(cash, deployed) ==
    AtLeast(AtMost(TradeSize, AtMost(cash, MaxCapital - deployed)), 0)

(***************************************************************************)
(* Simulated fills                                                         *)
(***************************************************************************)

\* The in-swap share of a notional (CostModel.bps); NetworkFee comes on top.
Impact(notional) == (notional * CostBps) \div 10000

SizeBought(notional, price) == ((notional - Impact(notional)) * SizeUnit) \div price
Worth(size, price) == (size * price) \div SizeUnit
Proceeds(notional) == notional - (Impact(notional) + NetworkFee)

SpentOnTokens(notional) == notional
CostBasis(notional) == notional + NetworkFee

EntryNotional(cash, others, factor) ==
    Percent(SizeOrder(cash - NetworkFee, others), factor)

\* Open a position in a flat symbol at `price`; `others` is what the book has
\* deployed in its other symbols and `factor` the gate's size factor, percent.
OpenPosition(b, ts, price, others, factor) ==
    LET notional == EntryNotional(b.cash, others, factor)
        size     == SizeBought(notional, price)
    IN  IF price = 0 \/ notional < MinOrder \/ size = 0
        THEN b
        ELSE [b EXCEPT
                !.cash = @ - (notional + NetworkFee),
                !.position = [entry_price |-> price, size |-> size,
                              cost_basis |-> CostBasis(notional), entry_ts |-> ts,
                              stop |-> EntryStop(price), take_profit |-> EntryTarget(price),
                              trailing_active |-> FALSE, highest_price |-> price]]

\* Sell the whole position; the queued action goes with it and the trade is
\* booked with its profit.
ClosePosition(b, ts, price, reason) ==
    LET proceeds == Proceeds(Worth(b.position.size, price))
    IN  IF b.position = None \/ price = 0
        THEN b
        ELSE [b EXCEPT
                !.position = None, !.pending = None, !.cash = @ + proceeds,
                !.realized = @ + (proceeds - b.position.cost_basis),
                !.trade = [entry_ts |-> b.position.entry_ts, exit_ts |-> ts,
                           exit_price |-> price, reason |-> reason]]

\* Sell part of a position: the rest stays open and no trade is booked.
ReducePosition(b, ts, price, factor) ==
    LET part == Percent(b.position.size, factor)
    IN  IF price = 0
        THEN b
        ELSE [b EXCEPT
                !.cash = @ + Proceeds(Worth(part, price)),
                !.position.size = @ - part,
                !.position.cost_basis = @ - Percent(@, factor)]

\* What the position is worth at `price`, what Book.equity makes of the book,
\* and what the governor's book_equity makes of it from the trades table.
Equity(b, price) ==
    b.cash + (IF b.position = None THEN 0 ELSE Worth(b.position.size, price))
GovernorEquity(b, price) ==
    MaxCapital + b.realized
        + (IF b.position = None THEN 0 ELSE Worth(b.position.size, price) - b.position.cost_basis)

(***************************************************************************)
(* The three steps of a bar                                                *)
(***************************************************************************)

LeavePending(b) == b
TakePending(b) == [b EXCEPT !.pending = None]

\* The action queued at the previous close fills at this bar's open.  It is
\* taken off the queue first, so an entry that is too small, or an exit the
\* gate refuses, is forgotten rather than retried.
OnOpen(b, ts, open, others, factor) ==
    LET taken == TakePending(b)
    IN  CASE b.pending = None -> b
          [] b.pending # None /\ b.pending.side = "BUY" ->
                IF b.position # None THEN taken
                ELSE OpenPosition(taken, ts, open, others, factor)
          [] OTHER ->
                IF b.position = None \/ (b.pending.reason = "signal" /\ factor = 0) THEN taken
                ELSE IF b.pending.reason = "signal" /\ factor < 100
                     THEN ReducePosition(taken, ts, open, factor)
                     ELSE ClosePosition(taken, ts, open, b.pending.reason)

\* Stop-loss and trailing stop against the (running) low of the bar.
OnLow(b, ts, open, low) ==
    IF b.position # None /\ StopHit(b.position, low)
    THEN ClosePosition(b, ts, StopFill(StopLevel(b.position), open), StopReason(b.position))
    ELSE b

\* Ratchet the trailing stop, then queue what the close decides; the queue
\* holds one action and the newest close overwrites it.
OnClose(b, ts, high, close, entry, exit, allow_entry) ==
    LET held     == IF b.position = None THEN None ELSE UpdateTrailing(b.position, high)
        decision == DecideClose(held, close, entry, exit, ts)
    IN  [b EXCEPT
            !.position = held,
            !.pending = IF decision # None /\ decision.side = "BUY" /\ ~allow_entry
                        THEN None ELSE decision,
            !.last_bar_ts = ts]

=============================================================================
