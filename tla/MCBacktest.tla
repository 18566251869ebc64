---------------------------- MODULE MCBacktest ----------------------------
(* Backtest over short histories of a few telling bars. *)
EXTENDS Backtest

Shape(o, h, l, c) == [open |-> o, high |-> h, low |-> l, close |-> c]

\* A quiet bar that stays above an armed trailing stop, a bar whose low touches
\* a 10% stop exactly, a collapse far below the stop (its sale is worth less
\* than the fee), a rally that arms the trailing stop, a higher bar that pulls
\* back to it, and a bar that closes at the take-profit.
Shapes == {Shape(108, 111, 106, 110), Shape(100, 105, 90, 95), Shape(2, 3, 1, 2),
           Shape(100, 112, 100, 110), Shape(115, 118, 104, 110), Shape(110, 125, 108, 120)}

Signals == {<<FALSE, FALSE>>, <<TRUE, FALSE>>, <<FALSE, TRUE>>}

MCBarData == {[open |-> s.open, high |-> s.high, low |-> s.low, close |-> s.close,
               entry |-> g[1], exit |-> g[2]] : s \in Shapes, g \in Signals}

=============================================================================
