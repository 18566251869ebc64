------------------------------ MODULE Holdout ------------------------------
(***************************************************************************)
(* The evidence one strategy hash needs before paper (evaluation.py and    *)
(* the steps of promotion.py that ask for it): the backtest of the         *)
(* selection period, and the held-out period after it, judged again as     *)
(* bars arrive until it is conclusive.                                     *)
(*                                                                         *)
(* A bar is its number.  `market` says what the simulation closes at each  *)
(* bar, taken to be the same whichever bar it starts from; the gates on    *)
(* Sharpe ratios, folds, the deflated Sharpe and gaps in the data may come *)
(* out either way.                                                         *)
(***************************************************************************)
EXTENDS Integers, FiniteSets
INSTANCE FiniteSetsExt

CONSTANTS
    Markets,      \* functions from bars to "none", "win", "loss", "breach"
    Lookback,     \* strategy.lookback
    HoldoutBars,  \* gates.holdout_days, in bars
    MinTrades,    \* gates.min_trades and gates.holdout_min_trades
    MinBars,      \* selection bars a backtest needs: gates.folds, at least 2
    First, MaxBar,  \* the oldest bar a backfill reaches, bound on the newest
    None

Settings ==
    /\ Lookback \in Nat \ {0} /\ HoldoutBars \in Nat /\ MinBars \in Nat \ {0}
    /\ First \in Nat /\ MaxBar \in Nat /\ None \notin Int

VARIABLES
    market,
    first, last,  \* bars in the store
    state,        \* of the candidate
    pinned,       \* start_ts of the stored held-out result
    held,         \* its verdict
    selected      \* history: bars of the last backtest before the first held-out attempt

holdoutvars == <<market, first, last, state, pinned, held, selected>>

Init ==
    /\ market \in Markets
    /\ first \in First..MaxBar /\ last \in first..MaxBar
    /\ state = None /\ pinned = None /\ held = None /\ selected = {}

\* split: the first bar with a full lookback, and the first held-out bar.
Start == first + Lookback - 1
HoldoutStart == Max({last + 1 - HoldoutBars, Start})

Closed(bars) == {b \in bars : market[b] # "none"}
Wins(bars) == Cardinality({b \in bars : market[b] = "win"})
Profit(bars) == Wins(bars) > Cardinality(Closed(bars)) - Wins(bars)
Breached(bars) == \E b \in bars : market[b] = "breach"

\* evaluate: the verdicts a selection period may get.
Verdicts(bars) ==
    {"FAIL"} \cup
    IF Breached(bars) \/ ~Profit(bars) THEN {}
    ELSE {"INSUFFICIENT_EVIDENCE"} \cup
         IF Cardinality(Closed(bars)) >= MinTrades THEN {"PASS"} ELSE {}

\* required_holdout_trades
Ceil(a, b) == (a + b - 1) \div b
Required(selection) ==
    LET days == Cardinality(selection) - 1 IN
    IF days <= 0 THEN MinTrades
    ELSE Min({MinTrades, Max({1, Ceil(Cardinality(Closed(selection)) * HoldoutBars, days)})})

\* holdout: from the pinned start if there was an earlier attempt (and two that
\* count from the open of the last bar, and always from the split).
PeriodFromOpen(start) ==
    LET from == IF start = None THEN last - HoldoutBars ELSE start IN
    [start |-> from, bars |-> from..last]
PeriodFromSplit(start) == [start |-> HoldoutStart, bars |-> HoldoutStart..last]
Period(start) ==
    LET from == IF start = None THEN HoldoutStart ELSE Max({start, Start}) IN
    [start |-> from, bars |-> from..last]

Judge(period) ==
    LET selection == Start..(period.start - 1) IN
    IF period.bars = {} \/ selection = {} THEN "INSUFFICIENT_EVIDENCE"
    ELSE IF Breached(period.bars) THEN "FAIL"
    ELSE IF Cardinality(Closed(period.bars)) < Required(selection) THEN "INSUFFICIENT_EVIDENCE"
    ELSE IF Profit(period.bars) THEN "PASS" ELSE "FAIL"

\* backtest: evaluate, then record_backtest; over too few bars nothing is run and
\* nothing is recorded.
Backtest ==
    LET bars == Start..(HoldoutStart - 1) IN
    /\ Cardinality(bars) >= MinBars
    /\ \E verdict \in Verdicts(bars) :
         state' = IF state \notin {None, "candidate", "backtest_passed"} THEN state
                  ELSE IF verdict = "PASS" THEN "backtest_passed" ELSE "candidate"
    /\ selected' = IF pinned = None THEN bars ELSE selected
    /\ UNCHANGED <<market, first, last, pinned, held>>

\* promote from backtest_passed (_to_paper): a PASS is kept, anything else is judged
\* again; only a FAIL is final.
Promote ==
    /\ state = "backtest_passed"
    /\ IF held = "PASS" THEN state' = "paper" /\ UNCHANGED <<pinned, held>>
       ELSE LET period == Period(pinned) IN
            /\ held' = Judge(period)
            /\ pinned' = IF period.bars = {} \/ period.start <= Start THEN pinned ELSE period.start
            /\ state' = CASE held' = "PASS" -> "paper"
                          [] held' = "FAIL" -> "rejected"
                          [] OTHER -> state
    /\ UNCHANGED <<market, first, last, selected>>

\* The process dies between the stored held-out result and the transition.
PromoteCut ==
    /\ state = "backtest_passed" /\ held # "PASS"
    /\ LET period == Period(pinned) IN
       /\ held' = Judge(period)
       /\ pinned' = IF period.bars = {} \/ period.start <= Start THEN pinned ELSE period.start
    /\ UNCHANGED <<market, first, last, state, selected>>

NewBar ==
    /\ last < MaxBar /\ last' = last + 1
    /\ UNCHANGED <<market, first, state, pinned, held, selected>>

\* A backfill over more days adds older bars.
Backfill ==
    /\ first > First /\ first' \in First..(first - 1)
    /\ UNCHANGED <<market, last, state, pinned, held, selected>>

Next == Backtest \/ Promote \/ PromoteCut \/ NewBar \/ Backfill

-----------------------------------------------------------------------------
(***************************************************************************)
(* Properties                                                              *)
(***************************************************************************)

TypeOK ==
    /\ market \in Markets /\ first \in First..MaxBar /\ last \in first..MaxBar
    /\ state \in {None, "candidate", "backtest_passed", "paper", "rejected"}
    /\ pinned \in {None} \cup First..MaxBar
    /\ held \in {None, "PASS", "FAIL", "INSUFFICIENT_EVIDENCE"}
    /\ selected \subseteq First..MaxBar

\* No bar that decides the held-out period was in the backtest that led to it, though
\* bars arrive between the two, older ones are added and the first attempts find no
\* bars to judge (split, evaluate, holdout).
HeldOutUnseen == pinned # None => \A b \in selected : b < pinned

\* A hash is judged on one period that only grows: no retry, restart or backfill
\* moves its start to a luckier one (holdout, _to_paper).
PinHolds == [][pinned # None => pinned' = pinned]_holdoutvars

=============================================================================
