------------------------------ MODULE Diagram ------------------------------
(***************************************************************************)
(* The states of a candidate (one strategy hash on one symbol) and how it  *)
(* may walk through them: promotion.py's constants and docstring.          *)
(***************************************************************************)
EXTENDS Integers, FiniteSets

CONSTANTS
    Candidates, Symbols,
    SymbolOf        \* the symbol a candidate is for

ASSUME CandidateAssumption ==
    SymbolOf \in [Candidates -> Symbols] /\ IsFiniteSet(Candidates)

Managed == {"live", "demote_pending"}
Active == {"candidate", "backtest_passed", "paper"} \cup Managed
States == Active \cup {"absent", "rejected", "demoted", "retired"}

\* Moves that leave the traded tokens alone.
Walks ==
    {<<"absent", "candidate">>, <<"candidate", "backtest_passed">>,
     <<"backtest_passed", "candidate">>, <<"backtest_passed", "paper">>,
     <<"backtest_passed", "rejected">>, <<"rejected", "backtest_passed">>,
     <<"paper", "retired">>, <<"live", "demote_pending">>}
    \cup {<<from, "demoted">> : from \in Active \ Managed}

On(s) == {c \in Candidates : SymbolOf[c] = s}

=============================================================================
