----------------------------- MODULE MCPipeline -----------------------------
(* Pipeline for two strategies on one token and one on another, beginning    *)
(* with the databases and configs earlier runs may have left.                *)
EXTENDS Pipeline, TLC

CONSTANTS c1, c2, c3, X, Y, cli1, cli2

MCSymbolOf == c1 :> X @@ c2 :> X @@ c3 :> Y

Row(st, ap, ho) == [state |-> st, approved |-> ap, holdout |-> ho]
New == Row("absent", FALSE, None)
Tested == Row("backtest_passed", TRUE, None)
Inconclusive == Row("backtest_passed", FALSE, "insufficient")
InPaper == Row("paper", TRUE, "pass")
Unapproved == Row("paper", FALSE, "pass")
Live == Row("live", TRUE, "pass")
OldReject == Row("rejected", FALSE, "old")

Database(r1, r2, r3, f, h) ==
    LET row == c1 :> r1 @@ c2 :> r2 @@ c3 :> r3 IN
    [state |-> [c \in Candidates |-> row[c].state],
     approved |-> [c \in Candidates |-> row[c].approved],
     holdout |-> [c \in Candidates |-> row[c].holdout],
     file |-> f, held |-> h]

MCStart == {Database(Live, InPaper, OldReject, {X}, {X}),
            Database(InPaper, New, Unapproved, {}, {}),
            Database(InPaper, Tested, Inconclusive, {Y}, {})}

=============================================================================
