------------------------------- MODULE Rules -------------------------------
(***************************************************************************)
(* A strategy spec is compiled and run once: spec.py resolves the          *)
(* indicators depth first, adds up the bars each output needs, refuses a   *)
(* lookback below the need of the rule, and evaluates the indicators in    *)
(* the order they were resolved; indicators.py fills the rows of a window  *)
(* from the first one that has enough bars.                                *)
(*                                                                         *)
(* Values are abstracted to whether they are there: a series is the set of *)
(* the window's rows at which it is a number.  Nothing a roc divides by is *)
(* zero.                                                                   *)
(***************************************************************************)
EXTENDS Integers, Sequences, FiniteSets
INSTANCE FiniteSetsExt

CONSTANTS
    Names,     \* the spec's indicator names, in its order
    Specs,     \* [lookback, ind : name -> [fn, p, q, r, inputs], rule : [cross, sides]]
    Windows    \* what the data of a window hold, in sets of rows: bars that traded at
               \* one and the same price, posts covered, posts that mention the token,
               \* days whose index is known

Column == "close"
Named == {Names[i] : i \in DOMAIN Names}
Operands(ops) == ops \in Seq({ops[i] : i \in DOMAIN ops}) /\ \A i \in DOMAIN ops : ops[i].shift \in Nat

\* What the checks of the JSON's shape leave: names of their own that are no columns,
\* known functions, periods from 1, and a rule over some operand (a number needs no
\* more bars than a column).
Settings ==
    /\ Names \in Seq(Named) /\ Column \notin Named
    /\ \A i, j \in DOMAIN Names : Names[i] = Names[j] => i = j
    /\ \A s \in Specs :
          /\ s.lookback \in Nat \ {0} /\ s.rule.cross \in BOOLEAN
          /\ Operands(s.rule.sides) /\ s.rule.sides # <<>>
          /\ \A n \in Named :
                /\ s.ind[n].fn \in {"sma", "highest", "ema", "rsi", "roc", "atr", "macd", "stoch",
                                   "sentiment", "fear_greed"}
                /\ {s.ind[n].p, s.ind[n].q, s.ind[n].r} \subseteq Nat \ {0}
                /\ Operands(s.ind[n].inputs)
    /\ Windows \subseteq [{"flat", "covered", "spoken", "known"} -> SUBSET Nat]

VARIABLES
    spec,
    phase,     \* "compile", "refused", "ready", "run" or "done"
    next,      \* how many names of the spec's order are resolved
    visiting,  \* the depth-first stack: [name, k (inputs resolved), ok, need]
    needs,     \* bars each output of the resolved indicators needs
    failed,    \* indicators given up
    errors,    \* the causes found: <<indicator, cause>>
    order,     \* resolved indicators, in the order they are evaluated
    window,    \* the window evaluated, <<>> before
    values     \* rows at which each output evaluated so far is a number

compiled == <<spec, next, visiting, needs, failed, errors, order>>

Ind(n) == spec.ind[n]
Rows == 0..(spec.lookback - 1)
Stacked == {visiting[i].name : i \in DOMAIN visiting}
Top == visiting[Len(visiting)]

-----------------------------------------------------------------------------
(***************************************************************************)
(* What an indicator needs, and what it fills                              *)
(***************************************************************************)

Outputs(fn) == CASE fn = "macd" -> {"macd", "signal", "hist"}
                 [] fn = "stoch" -> {"k", "d"}
                 [] fn = "sentiment" -> {"score", "mentions"}
                 [] OTHER -> {""}

\* _FUNCTIONS: the bars each output of indicator d needs, given its input's
\* (and the mistake of counting a change like a level).
NeedsAsLevel(d, n) == [out \in Outputs(d.fn) |-> n + d.p - 1]
Needs(d, n) ==
    LET longer == Max({d.p, d.q}) IN
    CASE d.fn \in {"sma", "highest", "ema"} -> [out \in {""} |-> n + d.p - 1]
      [] d.fn \in {"rsi", "roc"} -> [out \in {""} |-> n + (d.p + 1) - 1]
      [] d.fn = "atr" -> [out \in {""} |-> d.p + 1]
      [] d.fn = "macd" -> [out \in Outputs("macd") |->
                             IF out = "macd" THEN n + longer - 1 ELSE n + longer + d.r - 2]
      [] d.fn = "stoch" -> [out \in Outputs("stoch") |->
                             IF out = "k" THEN d.p + d.r - 1 ELSE d.p + d.r + d.q - 2]
      [] d.fn \in {"sentiment", "fear_greed"} -> [out \in Outputs(d.fn) |-> 1]

TakesInput(fn) == fn \notin {"atr", "stoch", "sentiment", "fear_greed"}

\* pandas' rolling kernels and the sliding window: p numbers in a row.
Rolling(x, p) == {i \in Rows : i >= p - 1 /\ (i - p + 1)..i \subseteq x}

\* ema and Wilder's averages: seeded by the first numbers, and gone for good
\* with the first hole after them.
Smoothed(x, p) == {i \in Rows : x # {} /\ i >= Min(x) + p - 1 /\ Min(x)..i \subseteq x}
SmoothedChange(x, p) == {i \in Rows : x # {} /\ i >= Min(x) + p /\ Min(x)..i \subseteq x}

Shifted(x, bars) == {i \in Rows : i - bars \in x}

\* Of the indicators with kernels of their own.
Roc(x, p) == x \cap Shifted(x, p)
Atr(p) == {i \in Rows : i >= p}
Macd(x, d) ==
    LET line == Smoothed(x, d.p) \cap Smoothed(x, d.q)
        signal == Smoothed(line, d.r) IN
    [out \in Outputs("macd") |-> CASE out = "macd" -> line
                                   [] out = "signal" -> signal
                                   [] out = "hist" -> line \cap signal]

\* A range that is flat over all its bars gives 0/0.
Stoch(d, flat) ==
    LET raw == Rolling(Rows, d.p) \ Rolling(flat, d.p)
        k == IF d.r > 1 THEN Rolling(raw, d.r) ELSE raw IN
    [out \in Outputs("stoch") |-> IF out = "k" THEN k ELSE Rolling(k, d.q)]

\* sentiment.features: no mention counts where the posts are not covered, and none
\* to score where none was made.
Sentiment(w) == [out \in Outputs("sentiment") |->
                   IF out = "mentions" THEN Rows \cap w.covered ELSE Rows \cap w.covered \cap w.spoken]

\* _run_indicator on input rows x, over a window w.
Single(rows) == [out \in {""} |-> rows]
Filled(d, x, w) ==
    CASE d.fn \in {"sma", "highest"} -> Single(Rolling(x, d.p))
      [] d.fn = "ema" -> Single(Smoothed(x, d.p))
      [] d.fn = "rsi" -> Single(SmoothedChange(x, d.p))
      [] d.fn = "roc" -> Single(Roc(x, d.p))
      [] d.fn = "atr" -> Single(Atr(d.p))
      [] d.fn = "macd" -> Macd(x, d)
      [] d.fn = "stoch" -> Stoch(d, w.flat)
      [] d.fn = "sentiment" -> Sentiment(w)
      [] d.fn = "fear_greed" -> Single(Rows \cap w.known)

-----------------------------------------------------------------------------
(***************************************************************************)
(* Operands: [ref, out, shift] of a column or an indicator                 *)
(***************************************************************************)

Known(o) == o.ref = Column \/ (o.ref \in DOMAIN needs /\ o.out \in DOMAIN needs[o.ref])
NeedOf(o) == o.shift + IF o.ref = Column THEN 1 ELSE needs[o.ref][o.out]
RowsOf(o, v) == Shifted(IF o.ref = Column THEN Rows ELSE v[o.ref][o.out], o.shift)

\* An expression over several operands needs, and has, what all of them do.
NeedOfAll(ops) == Max({NeedOf(ops[i]) : i \in DOMAIN ops})
RowsOfAll(ops, v) == {i \in Rows : \A k \in DOMAIN ops : i \in RowsOf(ops[k], v)}

\* A cross looks at the bar before as well (and one that forgets to).
RuleNeedOfOneBar == NeedOfAll(spec.rule.sides)
RuleNeed == NeedOfAll(spec.rule.sides) + IF spec.rule.cross THEN 1 ELSE 0

-----------------------------------------------------------------------------
(***************************************************************************)
(* Compiling                                                               *)
(***************************************************************************)

Enter(n) == [name |-> n, k |-> 0, ok |-> TRUE, need |-> 1]

Init ==
    /\ spec \in Specs
    /\ phase = "compile" /\ next = 0 /\ visiting = <<>>
    /\ needs = <<>> /\ failed = {} /\ errors = {} /\ order = <<>> /\ window = <<>> /\ values = <<>>

\* The loop over the spec's indicators; one that is settled is passed over.
Visit ==
    /\ phase = "compile" /\ visiting = <<>> /\ next < Len(Names)
    /\ next' = next + 1
    /\ visiting' = IF Names[next + 1] \in DOMAIN needs \cup failed THEN <<>>
                   ELSE <<Enter(Names[next + 1])>>
    /\ UNCHANGED <<spec, phase, needs, failed, errors, order, window, values>>

Inputs(n) == IF TakesInput(Ind(n).fn) THEN Ind(n).inputs ELSE <<>>
Resolving == phase = "compile" /\ visiting # <<>> /\ Top.k < Len(Inputs(Top.name))
Operand == Inputs(Top.name)[Top.k + 1]
SetTop(frame) == visiting' = [visiting EXCEPT ![Len(visiting)] = frame]
Unresolved == SetTop([Top EXCEPT !.k = @ + 1, !.ok = FALSE])

\* A reference to an indicator not met yet goes down into it.
Descend ==
    /\ Resolving
    /\ Operand.ref \in Named \ (DOMAIN needs \cup failed \cup Stacked)
    /\ visiting' = Append(visiting, Enter(Operand.ref))
    /\ UNCHANGED <<spec, phase, next, needs, failed, errors, order, window, values>>

Resolve ==
    /\ Resolving /\ Known(Operand)
    /\ SetTop([Top EXCEPT !.k = @ + 1, !.need = Max({@, NeedOf(Operand)})])
    /\ UNCHANGED <<spec, phase, next, needs, failed, errors, order, window, values>>

\* A cycle, an unknown name or output; an indicator that failed adds no error.
Cause(o) == CASE o.ref \in Stacked -> {<<o.ref, "circular">>}
              [] o.ref \in failed -> {}
              [] OTHER -> {<<Top.name, "unknown">>}
FailOperand ==
    /\ Resolving /\ ~Known(Operand)
    /\ Operand.ref \notin Named \ (DOMAIN needs \cup failed \cup Stacked)
    /\ errors' = errors \cup Cause(Operand)
    /\ Unresolved
    /\ UNCHANGED <<spec, phase, next, needs, failed, order, window, values>>

Settle ==
    /\ phase = "compile" /\ visiting # <<>> /\ Top.k = Len(Inputs(Top.name))
    /\ visiting' = SubSeq(visiting, 1, Len(visiting) - 1)
    /\ IF Top.ok
       THEN /\ needs' = [n \in DOMAIN needs \cup {Top.name} |->
                           IF n = Top.name THEN Needs(Ind(n), Top.need) ELSE needs[n]]
            /\ order' = Append(order, Top.name)
            /\ UNCHANGED failed
       ELSE failed' = failed \cup {Top.name} /\ UNCHANGED <<needs, order>>
    /\ UNCHANGED <<spec, phase, next, errors, window, values>>

\* The rule is resolved last; a lookback below the warm-up is an error too.
TooShort(need) == spec.lookback < Max({need, 1})
Judge ==
    /\ phase = "compile" /\ visiting = <<>> /\ next = Len(Names)
    /\ errors' = errors \cup
         IF \A i \in DOMAIN spec.rule.sides : Known(spec.rule.sides[i])
         THEN IF TooShort(RuleNeed) THEN {<<"rule", "lookback">>} ELSE {}
         ELSE {<<"rule", "operand">>}
    /\ phase' = IF errors' = {} THEN "ready" ELSE "refused"
    /\ UNCHANGED <<spec, next, visiting, needs, failed, order, window, values>>

-----------------------------------------------------------------------------
(***************************************************************************)
(* Evaluating a window of lookback bars                                    *)
(***************************************************************************)

InputRows(n, v) == IF TakesInput(Ind(n).fn) THEN RowsOfAll(Ind(n).inputs, v) ELSE Rows

Start ==
    /\ phase = "ready" /\ phase' = "run"
    /\ window' \in Windows
    /\ UNCHANGED <<compiled, values>>

Evaluate ==
    /\ phase = "run"
    /\ LET done == Cardinality(DOMAIN values) IN
       IF done < Len(order)
       THEN /\ values' = [n \in DOMAIN values \cup {order[done + 1]} |->
                            IF n \in DOMAIN values THEN values[n]
                            ELSE Filled(Ind(n), InputRows(n, values), window)]
            /\ UNCHANGED phase
       ELSE phase' = "done" /\ UNCHANGED values
    /\ UNCHANGED <<compiled, window>>

Next == Visit \/ Descend \/ Resolve \/ FailOperand \/ Settle \/ Judge \/ Start \/ Evaluate

-----------------------------------------------------------------------------
(***************************************************************************)
(* Properties                                                              *)
(***************************************************************************)

TypeOK ==
    /\ spec \in Specs /\ phase \in {"compile", "refused", "ready", "run", "done"}
    /\ next \in 0..Len(Names) /\ Len(visiting) <= Len(Names)
    /\ DOMAIN needs \subseteq Named /\ failed \subseteq Named /\ DOMAIN values \subseteq Named
    /\ {order[i] : i \in DOMAIN order} = DOMAIN needs /\ Len(order) = Cardinality(DOMAIN needs)
    /\ phase \in {"run", "done"} => window \in Windows

\* What refers to what, and the names on a cycle or leading to one.
Refers == {r \in Named \X Named : \E i \in DOMAIN Inputs(r[1]) : Inputs(r[1])[i].ref = r[2]}
ReachIn[k \in 0..Len(Names)] ==
    IF k = 0 THEN Refers
    ELSE LET R == ReachIn[k - 1] IN
         R \cup {r \in Named \X Named : \E b \in Named : <<r[1], b>> \in R /\ <<b, r[2]>> \in R}
Cyclic == \E n \in Named : <<n, n>> \in ReachIn[Len(Names)]
Defined(o) == o.ref = Column \/ (o.ref \in Named /\ o.out \in Outputs(Ind(o.ref).fn))
WellFormed == /\ ~Cyclic
              /\ \A n \in Named : \A i \in DOMAIN Inputs(n) : Defined(Inputs(n)[i])
              /\ \A i \in DOMAIN spec.rule.sides : Defined(spec.rule.sides[i])

\* What data without a hole fill: every output in as many rounds as there are names,
\* whatever the order they are evaluated in.
Whole == [flat |-> {}, covered |-> Rows, spoken |-> Rows, known |-> Rows]
Ideal[k \in 0..Len(Names)] ==
    IF k = 0 THEN [n \in Named |-> [out \in Outputs(Ind(n).fn) |-> Rows]]
    ELSE LET v == Ideal[k - 1] IN [n \in Named |-> Filled(Ind(n), InputRows(n, v), Whole)]

\* The rule has all its values: on the last row, and for a cross on the one before.
Answered(v) == /\ spec.lookback - 1 \in RowsOfAll(spec.rule.sides, v)
               /\ spec.rule.cross => spec.lookback - 2 \in RowsOfAll(spec.rule.sides, v)

\* The window's data leave no hole in an indicator of T, nor in one it reads.
Gappy == {n \in Named : Filled(Ind(n), Rows, window) # Filled(Ind(n), Rows, Whole)}
Closed(T) == \A r \in Refers : r[1] \in T => r[2] \in T
Complete(T) == \E U \in SUBSET (Named \ Gappy) : T \subseteq U /\ Closed(U)

\* An output is never a number before the bar the compiler counted for it, and is
\* one from that bar on if the window's data leave no hole, so the backtest and
\* the live loop start where they should and a warm-up never hides a missing value
\* (_FUNCTIONS, indicators.py).
NeedIsExact ==
    \A n \in DOMAIN values : \A out \in DOMAIN values[n] :
        LET counted == {i \in Rows : i + 1 >= needs[n][out]} IN
        values[n][out] \subseteq counted /\ (Complete({n}) => values[n][out] = counted)

\* A spec is refused exactly when it refers to itself or to nothing, or when even
\* data without a hole would leave its rule without a value; one that is taken
\* evaluates each indicator after those it reads, and its rule meets a missing
\* value only where the data behind it have a hole: posts not covered or without a
\* mention, a day without an index, a flat range (_Compiler, evaluate).
AcceptsExactly ==
    /\ phase = "refused" => ~WellFormed \/ ~Answered(Ideal[Len(Names)])
    /\ phase = "ready" => /\ WellFormed /\ Answered(Ideal[Len(Names)]) /\ DOMAIN needs = Named
                          /\ \A j \in DOMAIN order : \A i \in DOMAIN Inputs(order[j]) :
                               LET m == Inputs(order[j])[i].ref IN
                               m # Column => \E k \in 1..(j - 1) : order[k] = m
    /\ phase = "done" /\ Complete({spec.rule.sides[i].ref : i \in DOMAIN spec.rule.sides} \ {Column}) =>
          Answered(values)

=============================================================================
