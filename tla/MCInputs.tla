------------------------------ MODULE MCInputs ------------------------------
(* Small instances of the five components of Inputs.                         *)
EXTENDS Inputs, TLC

CONSTANTS bot, cli, call1, call2

-----------------------------------------------------------------------------
MCCallers == {call1, call2}
Interchangeable == Permutations(MCCallers)

(* Specs: two indicators in a row over every function, and graphs of three.  *)
Close == [ref |-> "close", out |-> "", shift |-> 0]
Out(ref, out, shift) == [ref |-> ref, out |-> out, shift |-> shift]
Indicator(fn, p, q, r, inputs) == [fn |-> fn, p |-> p, q |-> q, r |-> r, inputs |-> inputs]
Index == Indicator("fear_greed", 1, 1, 1, <<>>)

Firsts == {Indicator(fn, p, 1, 1, <<Close>>) : fn \in {"sma", "ema", "rsi", "roc", "atr"}, p \in 1..3}
          \cup {Indicator("sentiment", 1, 1, 1, <<>>), Index}
          \cup {Indicator("macd", 1, 3, r, <<Close>>) : r \in 1..2}
          \cup {Indicator("stoch", p, q, r, <<>>) : p \in 1..2, q \in 1..2, r \in 1..2}
Seconds == {Indicator(fn, p, 1, 1, <<Out("a", out, shift)>>) :
               fn \in {"sma", "ema", "rsi", "roc"}, p \in 1..2, out \in {"", "signal", "d", "score"}, shift \in 0..1}
           \cup {Indicator("macd", 1, 2, 2, <<Out("a", out, 0)>>) : out \in {"", "signal", "d"}}
Chains == {[lookback |-> 6, ind |-> "a" :> f @@ "b" :> s @@ "c" :> Index,
            rule |-> [cross |-> cross, sides |-> <<Out("b", "", 0), Close>>]] :
              f \in Firsts, s \in Seconds, cross \in BOOLEAN}
InputSeqs == {<<x>> : x \in {Close} \cup {Out(ref, "", 0) : ref \in {"a", "b", "c", "d"}}}
             \cup {<<Out(ref, "", 0), Out(also, "", 0)>> : ref \in {"b", "c"}, also \in {"a", "d"}}
Sma(inputs) == Indicator("sma", 2, 1, 1, inputs)
Graphs == {[lookback |-> 6, ind |-> "a" :> Sma(x) @@ "b" :> Sma(y) @@ "c" :> Sma(z),
            rule |-> [cross |-> FALSE, sides |-> <<Out("c", "", 0)>>]] :
              x \in InputSeqs, y \in InputSeqs, z \in InputSeqs}
\* Data without a hole, and with some of each.
Data(flat, covered, spoken, known) == [flat |-> flat, covered |-> covered, spoken |-> spoken, known |-> known]
MCWindows == {Data({}, 0..5, 0..5, 0..5), Data(3..5, 1..5, {1, 2, 3}, 0..5 \ {4})}
MCNames == <<"a", "b", "c">>
MCSpecs == Chains \cup Graphs

(* Exchanges with all bars, a late listing, outages around a page long, and two. *)
All == 0..12
MCHistories == {All, 5..12, All \ 4..6, {3} \cup 5..12, {0, 1, 4} \cup 7..12}
MCWanted == bot :> 3 @@ cli :> 7
MCStores == {[bars |-> {}, partial |-> {}], [bars |-> 7..8, partial |-> {8}]}

MCFeeds == <<"post", "comment">>
MCPostings == {[post |-> p, comment |-> {1, 2, 4}] : p \in {1..4, {1, 4}}}
MCImports == {[from |-> 1, to |-> 1, bounded |-> TRUE], [from |-> 3, to |-> 4, bounded |-> FALSE]}

MCMarkets == [1..6 -> {"none", "win", "loss", "breach"}]

=============================================================================
