--------------------------- MODULE PipelineProofs ---------------------------
(***************************************************************************)
(* What holds of the pipeline whatever its processes do to each other, for *)
(* any candidates, symbols, commands and limits: its types, that a live    *)
(* candidate earned it, how far paper can pass its limit, then that it     *)
(* implements Lifecycle, whose promise is shown to be worth something, and *)
(* last how far live trading can pass its slots.                           *)
(***************************************************************************)
EXTENDS Pipeline, FiniteSetTheorems, TLAPS

USE DEF history

BotSteps == {"idle", "edit", "replace", "finish", "move"}

\* The part of TypeOK about operations, and one operation replaced by `r`.
OpTyped ==
    /\ op \in [Procs -> Operations]
    /\ \A p \in Procs : IF op[p].at = "idle" THEN op[p] = Idle
                        ELSE op[p].c \in Candidates /\ {op[p].from, op[p].to} \subseteq States
    /\ op[Bot].at \in BotSteps

Sets(p, r) == OpTyped' /\ op'[p] = r /\ \A q \in Procs \ {p} : op'[q] = op[q]

LEMMA TypedOp == TypeOK => OpTyped
BY DEF TypeOK, OpTyped, BotSteps

LEMMA IdleTyped == Idle \in Operations /\ Idle.at = "idle" /\ Idle.to = None
BY DEF Idle, Operations, Steps

LEMMA SetOp ==
    ASSUME OpTyped, NEW p \in Procs, NEW r \in Operations, op' = [op EXCEPT ![p] = r],
           IF r.at = "idle" THEN r = Idle ELSE r.c \in Candidates /\ {r.from, r.to} \subseteq States,
           p = Bot => r.at \in BotSteps
    PROVE  Sets(p, r)
<1>1. op' \in [Procs -> Operations] /\ op'[p] = r /\ \A q \in Procs \ {p} : op'[q] = op[q]
  BY DEF OpTyped
<1>2. Bot \in Procs
  BY DEF Procs
<1> QED
  BY <1>1, <1>2 DEF OpTyped, Sets

LEMMA StopSets ==
    ASSUME OpTyped, NEW p \in Procs, Stops(p)
    PROVE  Sets(p, Idle)
BY SetOp, IdleTyped DEF Stops, BotSteps

LEMMA GoesSets ==
    ASSUME OpTyped, NEW p \in Procs, NEW at \in Steps \ {"idle"}, Goes(p, at), op[p].at # "idle",
           p = Bot => at \in BotSteps
    PROVE  Sets(p, [op[p] EXCEPT !.at = at])
<1>1. op[p] \in Operations
  BY DEF OpTyped
<1>2. [op[p] EXCEPT !.at = at] \in Operations
  BY <1>1 DEF Operations
<1>3. op' = [op EXCEPT ![p] = [op[p] EXCEPT !.at = at]]
  BY DEF Goes
<1>4. op[p].c \in Candidates /\ {op[p].from, op[p].to} \subseteq States
  BY DEF OpTyped
<1> QED
  BY <1>1, <1>2, <1>3, <1>4, SetOp DEF Operations

LEMMA BeginSets ==
    ASSUME OpTyped, NEW p \in Procs, NEW c \in Candidates, NEW from \in States, NEW to \in States,
           NEW at \in Steps \ {"idle"}, op' = [op EXCEPT ![p] = Begin(c, from, at, to)],
           p = Bot => at \in BotSteps
    PROVE  Sets(p, Begin(c, from, at, to))
<1>1. Begin(c, from, at, to) \in Operations
  BY DEF Begin, Operations
<1> QED
  BY <1>1, SetOp DEF Begin

LEMMA GoesLiveSets ==
    ASSUME TypeOK, NEW p \in Procs, NEW c \in Candidates, NEW from \in States, GoesLive(p, c, from)
    PROVE  Sets(p, Begin(c, from, "edit", "live"))
<1>1. "live" \in States /\ "edit" \in (Steps \ {"idle"}) \cap BotSteps
  BY DEF States, Active, Managed, Steps, BotSteps
<1> QED
  BY <1>1, BeginSets, TypedOp DEF GoesLive

LEMMA EditSets ==
    ASSUME TypeOK, NEW p \in Procs, Edit(p)
    PROVE  \/ Sets(p, Idle)
           \/ /\ ~(op[p].to = "live" /\ Symbol(p) \in file)
              /\ Sets(p, [op[p] EXCEPT !.at = "replace", !.base = file])
<1> DEFINE r == [op[p] EXCEPT !.at = "replace", !.base = file]
<1>1. OpTyped /\ op[p] \in Operations /\ file \in SUBSET Symbols
  BY TypedOp DEF OpTyped, TypeOK
<1>2. CASE op[p].to = "live" /\ Symbol(p) \in file
  BY <1>1, <1>2, StopSets DEF Edit
<1>3. CASE ~(op[p].to = "live" /\ Symbol(p) \in file)
  <2>1. op' = [op EXCEPT ![p] = r]
    BY <1>3 DEF Edit
  <2>2. r \in Operations /\ r.at = "replace"
    BY <1>1 DEF Operations, Steps
  <2>3. r.c \in Candidates /\ {r.from, r.to} \subseteq States
    BY <1>1 DEF Edit, OpTyped, Operations
  <2>4. Sets(p, r)
    BY <1>1, <2>1, <2>2, <2>3, SetOp DEF BotSteps
  <2> QED
    BY <1>3, <2>4
<1> QED
  BY <1>2, <1>3

LEMMA ReplaceSets ==
    ASSUME TypeOK, NEW p \in Procs, Replace(p)
    PROVE  Sets(p, [op[p] EXCEPT !.at = "finish", !.base = {}])
<1> DEFINE r == [op[p] EXCEPT !.at = "finish", !.base = {}]
<1>1. OpTyped /\ op[p] \in Operations
  BY TypedOp DEF OpTyped
<1>2. op' = [op EXCEPT ![p] = r]
  BY DEF Replace
<1>3. r \in Operations /\ r.at = "finish"
  BY <1>1 DEF Operations, Steps
<1>4. r.c \in Candidates /\ {r.from, r.to} \subseteq States
  BY <1>1 DEF Replace, OpTyped, Operations
<1> QED
  BY <1>1, <1>2, <1>3, <1>4, SetOp DEF BotSteps

\* The commands and the bot's own operations begin as they should.
LEMMA JudgeSets ==
    ASSUME TypeOK, NEW p \in Procs, Judge(p), p # Bot
    PROVE  \E v \in Verdicts :
             /\ holdout' = [holdout EXCEPT ![op[p].c] = v]
             /\ passed' = passed \cup IF v = "pass" THEN {op[p].c} ELSE {}
             /\ \/ v = "pass" /\ Sets(p, [op[p] EXCEPT !.at = "move"])
                \/ v = "fail" /\ Sets(p, [op[p] EXCEPT !.at = "move", !.to = "rejected"])
                \/ v = "insufficient" /\ Sets(p, Idle)
<1>1. OpTyped /\ op[p] \in Operations
  BY TypedOp DEF OpTyped
<1>2. PICK v \in Verdicts :
         /\ holdout' = [holdout EXCEPT ![op[p].c] = v]
         /\ passed' = passed \cup IF v = "pass" THEN {op[p].c} ELSE {}
         /\ op' = CASE v = "pass" -> [op EXCEPT ![p].at = "move"]
                    [] v = "fail" -> [op EXCEPT ![p].at = "move", ![p].to = "rejected"]
                    [] v = "insufficient" -> [op EXCEPT ![p] = Idle]
  BY DEF Judge
<1>3. op[p].c \in Candidates /\ {op[p].from, op[p].to} \subseteq States
  BY <1>1 DEF Judge, OpTyped
<1>4. CASE v = "pass"
  <2>1. Goes(p, "move")
    BY <1>2, <1>4 DEF Goes
  <2> QED
    BY <1>1, <1>2, <1>4, <2>1, GoesSets DEF Judge, Steps
<1>5. CASE v = "fail"
  <2> DEFINE r == [op[p] EXCEPT !.at = "move", !.to = "rejected"]
  <2>1. op' = [op EXCEPT ![p] = r]
    BY <1>2, <1>5
  <2>2. r \in Operations /\ r.at = "move" /\ r.c \in Candidates /\ {r.from, r.to} \subseteq States
    BY <1>1, <1>3 DEF Operations, Steps, States
  <2>3. Sets(p, r)
    BY <1>1, <2>1, <2>2, SetOp
  <2> QED
    BY <1>2, <1>5, <2>3
<1>6. CASE v = "insufficient"
  BY <1>1, <1>2, <1>6, StopSets DEF Stops
<1> QED
  BY <1>4, <1>5, <1>6 DEF Verdicts

LEMMA CliProcs == Cli \subseteq Procs /\ Bot \in Procs /\ \A p \in Cli : p # Bot
BY PipelineAssumption DEF Procs

LEMMA RecordBacktestSets ==
    ASSUME TypeOK, NEW p \in Cli, NEW c \in Candidates, RecordBacktest(p, c)
    PROVE  /\ state' \in [Candidates -> States]
           /\ state'[c] = IF state[c] = "absent" THEN "candidate" ELSE state[c]
           /\ \A d \in Candidates \ {c} : state'[d] = state[d]
           /\ \/ op' = op
              \/ \E to \in {"candidate", "backtest_passed"} :
                   /\ state'[c] \in {"candidate", "backtest_passed"} \ {to}
                   /\ Sets(p, Begin(c, state'[c], "move", to))
<1>1. /\ state' \in [Candidates -> States]
      /\ state'[c] = IF state[c] = "absent" THEN "candidate" ELSE state[c]
      /\ \A d \in Candidates \ {c} : state'[d] = state[d]
  BY DEF RecordBacktest, TypeOK, States, Active
<1>2. PICK to \in {"candidate", "backtest_passed"} :
         op' = IF state'[c] \in {"candidate", "backtest_passed"} \ {to}
               THEN [op EXCEPT ![p] = Begin(c, state'[c], "move", to)] ELSE op
  BY DEF RecordBacktest
<1>3. CASE state'[c] \in {"candidate", "backtest_passed"} \ {to}
  <2>1. op' = [op EXCEPT ![p] = Begin(c, state'[c], "move", to)]
    BY <1>2, <1>3
  <2>2. state'[c] \in States /\ to \in States /\ "move" \in Steps \ {"idle"}
    BY <1>1 DEF States, Active, Steps
  <2>3. Sets(p, Begin(c, state'[c], "move", to))
    BY <2>1, <2>2, BeginSets, TypedOp, CliProcs
  <2> QED
    BY <1>1, <1>3, <2>3
<1> QED
  BY <1>1, <1>2, <1>3

\* The other commands begin an operation of the command line.
LEMMA CommandSets ==
    ASSUME TypeOK, NEW p \in Cli, NEW c \in Candidates
    PROVE  /\ ToPaper(p, c) =>
                Sets(p, Begin(c, state[c], IF holdout[c] = "pass" THEN "move" ELSE "judge", "paper"))
           /\ ToLive(p, c) => Sets(p, Begin(c, state[c], "edit", "live"))
           /\ Approve(p, c) => Sets(p, Begin(c, state[c], "approve", state[c]))
           /\ Reopen(p, c) => Sets(p, Begin(c, state[c], "rejudge", "backtest_passed"))
           /\ Demote(p, c) =>
                \/ state[c] \in Active \ Managed /\ Sets(p, Begin(c, state[c], "move", "demoted"))
                \/ state[c] = "live" /\ Sets(p, Begin(c, state[c], "move", "demote_pending"))
                \/ state[c] \in Managed /\ Flat(c) /\ Sets(p, Begin(c, state[c], "edit", "demoted"))
<1>1. /\ OpTyped /\ p \in Procs /\ p # Bot /\ state[c] \in States
      /\ {"paper", "live", "backtest_passed", "demoted", "demote_pending"} \subseteq States
      /\ {"move", "judge", "edit", "approve", "rejudge"} \subseteq Steps \ {"idle"}
  BY TypedOp, CliProcs DEF TypeOK, States, Active, Managed, Steps
<1>2. ASSUME ToPaper(p, c)
      PROVE  Sets(p, Begin(c, state[c], IF holdout[c] = "pass" THEN "move" ELSE "judge", "paper"))
  BY <1>1, <1>2, BeginSets DEF ToPaper
<1>3. ASSUME ToLive(p, c) PROVE Sets(p, Begin(c, state[c], "edit", "live"))
  BY <1>1, <1>3, GoesLiveSets, CliProcs DEF ToLive
<1>4. ASSUME Approve(p, c) PROVE Sets(p, Begin(c, state[c], "approve", state[c]))
  BY <1>1, <1>4, BeginSets DEF Approve
<1>5. ASSUME Reopen(p, c) PROVE Sets(p, Begin(c, state[c], "rejudge", "backtest_passed"))
  BY <1>1, <1>5, BeginSets DEF Reopen
<1>6. ASSUME Demote(p, c)
      PROVE  \/ state[c] \in Active \ Managed /\ Sets(p, Begin(c, state[c], "move", "demoted"))
             \/ state[c] = "live" /\ Sets(p, Begin(c, state[c], "move", "demote_pending"))
             \/ state[c] \in Managed /\ Flat(c) /\ Sets(p, Begin(c, state[c], "edit", "demoted"))
  BY <1>1, <1>6, BeginSets DEF Demote
<1> QED
  BY <1>2, <1>3, <1>4, <1>5, <1>6

\* What the bot begins, for an entry of its list.
LEMMA BotSets ==
    ASSUME TypeOK, NEW e \in todo
    PROVE  /\ e.c \in Candidates /\ e.from \in Managed \cup {"paper"}
           /\ DemoteFlat(e) => Sets(Bot, Begin(e.c, e.from, "edit", "demoted"))
           /\ DemoteLater(e) =>
                \/ op' = op
                \/ e.from = "live" /\ Sets(Bot, Begin(e.c, e.from, "move", "demote_pending"))
           /\ Advance(e) =>
                \/ op' = op
                \/ Ready(e.c, e.approved, mem) /\ Sets(Bot, Begin(e.c, e.from, "edit", "live"))
                \/ Sets(Bot, Begin(e.c, e.from, "move", "retired"))
<1>1. e.c \in Candidates /\ e.from \in Managed \cup {"paper"}
  BY DEF TypeOK
<1>2. /\ OpTyped /\ Bot \in Procs /\ e.from \in States
      /\ {"live", "demoted", "demote_pending", "retired"} \subseteq States
      /\ {"edit", "move"} \subseteq (Steps \ {"idle"}) \cap BotSteps
  BY <1>1, TypedOp, CliProcs DEF States, Active, Managed, Steps, BotSteps
<1>3. ASSUME DemoteFlat(e) PROVE Sets(Bot, Begin(e.c, e.from, "edit", "demoted"))
  BY <1>1, <1>2, <1>3, BeginSets DEF DemoteFlat
<1>4. ASSUME DemoteLater(e)
      PROVE  op' = op \/ (e.from = "live" /\ Sets(Bot, Begin(e.c, e.from, "move", "demote_pending")))
  BY <1>1, <1>2, <1>4, BeginSets DEF DemoteLater
<1>5. ASSUME Advance(e)
      PROVE  \/ op' = op
             \/ Ready(e.c, e.approved, mem) /\ Sets(Bot, Begin(e.c, e.from, "edit", "live"))
             \/ Sets(Bot, Begin(e.c, e.from, "move", "retired"))
  BY <1>1, <1>2, <1>5, BeginSets, GoesLiveSets DEF Advance
<1> QED
  BY <1>1, <1>3, <1>4, <1>5

-----------------------------------------------------------------------------
(***************************************************************************)
(* Types                                                                   *)
(***************************************************************************)

RestTyped ==
    /\ state \in [Candidates -> States] /\ approved \in [Candidates -> BOOLEAN]
    /\ holdout \in [Candidates -> Verdicts \cup {"old", None}]
    /\ reopened \subseteq Candidates /\ passed \subseteq Candidates
    /\ held \subseteq Symbols /\ file \subseteq Symbols /\ mem \subseteq Symbols
    /\ traded \subseteq Symbols /\ sold \subseteq Symbols /\ (sold # {} => phase = "govern")
    /\ crowded \subseteq Symbols /\ disturbed \subseteq Symbols
    /\ changed \in BOOLEAN /\ phase \in Phases
    /\ todo \subseteq [c : Candidates, from : Managed \cup {"paper"}, approved : BOOLEAN]

LEMMA TypeParts == TypeOK <=> RestTyped /\ OpTyped
BY DEF TypeOK, RestTyped, OpTyped, BotSteps

\* An operation under way is on a candidate and its symbol.
LEMMA OpOn ==
    ASSUME TypeOK, NEW p \in Procs, op[p].at # "idle"
    PROVE  op[p].c \in Candidates /\ op[p].from \in States /\ op[p].to \in States
           /\ Symbol(p) \in Symbols /\ op[p].base \subseteq Symbols /\ op[p] \in Operations
BY CandidateAssumption DEF TypeOK, Operations, Symbol

LEMMA OperationTyped ==
    ASSUME TypeOK, NEW p \in Procs, OperationStep(p), p = Bot => Edit(p) \/ Replace(p) \/ Move(p)
    PROVE  TypeOK'
<1>1. CASE Edit(p)
  <2>1. OpTyped'
    BY <1>1, EditSets DEF Sets
  <2>2. RestTyped'
    BY <1>1, TypeParts DEF Edit, RestTyped, table, botvars
  <2> QED
    BY <2>1, <2>2 DEF TypeOK, RestTyped, OpTyped, BotSteps
<1>2. CASE Replace(p)
  <2>1. OpTyped'
    BY <1>2, ReplaceSets DEF Sets
  <2>2. Symbol(p) \in Symbols /\ op[p].base \subseteq Symbols
    BY <1>2, OpOn DEF Replace
  <2>3. RestTyped'
    BY <1>2, <2>2, TypeParts DEF Replace, EditedFile, RestTyped, table
  <2> QED
    BY <2>1, <2>3 DEF TypeOK, RestTyped, OpTyped, BotSteps
<1>3. CASE Move(p)
  <2>1. OpTyped'
    BY <1>3, StopSets, TypedOp DEF Move, Sets
  <2>2. op[p].c \in Candidates /\ op[p].to \in States /\ Symbol(p) \in Symbols
    BY <1>3, OpOn DEF Move
  <2>3. RestTyped'
    BY <1>3, <2>2, TypeParts DEF Move, RestTyped, botvars
  <2> QED
    BY <2>1, <2>3 DEF TypeOK, RestTyped, OpTyped, BotSteps
<1>4. CASE Judge(p) /\ p # Bot
  <2>1. OpTyped'
    BY <1>4, JudgeSets DEF Sets
  <2>2. op[p].c \in Candidates
    BY <1>4, OpOn DEF Judge
  <2>3. holdout' \in [Candidates -> Verdicts \cup {"old", None}] /\ passed' \subseteq Candidates
    <3>1. PICK v \in Verdicts : /\ holdout' = [holdout EXCEPT ![op[p].c] = v]
                                /\ passed' = passed \cup IF v = "pass" THEN {op[p].c} ELSE {}
      BY <1>4 DEF Judge
    <3> QED
      BY <2>2, <3>1 DEF TypeOK
  <2>4. RestTyped'
    BY <1>4, <2>3, TypeParts DEF Judge, RestTyped, OutsideTable, botvars
  <2> QED
    BY <2>1, <2>4 DEF TypeOK, RestTyped, OpTyped, BotSteps
<1>5. CASE Rejudge(p) /\ p # Bot
  <2>1. "move" \in Steps \ {"idle"} /\ op[p].at # "idle"
    BY <1>5 DEF Rejudge, Steps
  <2>2. Goes(p, "move") \/ Stops(p)
    BY <1>5 DEF Rejudge
  <2>3. OpTyped'
    BY <1>5, <2>1, <2>2, StopSets, GoesSets, TypedOp DEF Sets
  <2>4. op[p].c \in Candidates
    BY <2>1, OpOn
  <2>5. RestTyped'
    BY <1>5, <2>4, TypeParts DEF Rejudge, RestTyped, OutsideTable, botvars, Verdicts
  <2> QED
    BY <2>3, <2>5 DEF TypeOK, RestTyped, OpTyped, BotSteps
<1>6. CASE SetApproved(p)
  <2>1. OpTyped'
    BY <1>6, StopSets, TypedOp DEF SetApproved, Sets
  <2>2. op[p].c \in Candidates
    BY <1>6, OpOn DEF SetApproved
  <2>3. RestTyped'
    BY <1>6, <2>2, TypeParts DEF SetApproved, RestTyped, OutsideTable, botvars
  <2> QED
    BY <2>1, <2>3 DEF TypeOK, RestTyped, OpTyped, BotSteps
<1> QED
  BY <1>1, <1>2, <1>3, <1>4, <1>5, <1>6 DEF OperationStep, Edit, Replace, Move, Judge, Rejudge

LEMMA CommandTyped ==
    ASSUME TypeOK, NEW p \in Cli, NewCommand(p)
    PROVE  TypeOK'
<1>1. PICK c \in Candidates : \/ RecordBacktest(p, c) \/ ToPaper(p, c) \/ ToLive(p, c)
                              \/ Approve(p, c) \/ Reopen(p, c) \/ Demote(p, c)
  BY DEF NewCommand
<1>2. CASE RecordBacktest(p, c)
  <2>1. OpTyped' /\ state' \in [Candidates -> States]
    BY <1>2, RecordBacktestSets, TypedOp, CliProcs DEF Sets, OpTyped
  <2>2. RestTyped'
    BY <1>2, <2>1, TypeParts DEF RecordBacktest, RestTyped, OutsideTable, botvars
  <2> QED
    BY <2>1, <2>2 DEF TypeOK, RestTyped, OpTyped, BotSteps
<1>3. CASE ToPaper(p, c) \/ ToLive(p, c) \/ Approve(p, c) \/ Reopen(p, c) \/ Demote(p, c)
  <2>1. OpTyped'
    BY <1>3, CommandSets DEF Sets
  <2>2. UNCHANGED <<table, held, sold, file, changed, botvars, disturbed>> /\ crowded' \subseteq Symbols
    BY <1>3, CandidateAssumption
    DEF ToPaper, ToLive, GoesLive, Approve, Reopen, Demote, OutsideTable, TypeOK
  <2>3. RestTyped'
    BY <2>2, TypeParts DEF RestTyped, table, botvars
  <2> QED
    BY <2>1, <2>3 DEF TypeOK, RestTyped, OpTyped, BotSteps
<1> QED
  BY <1>1, <1>2, <1>3

\* The steps of the bot that begin no operation, and the edit by hand.
LEMMA QuietTyped ==
    ASSUME TypeOK,
           \/ Reload \/ TradeCycle \/ Survey \/ StoreBook \/ ListPaper \/ Restart
           \/ \E e \in todo : Healthy(e)
           \/ \E s \in Symbols : HandEdit(s)
    PROVE  TypeOK'
<1>1. OpTyped' /\ RestTyped
  BY TypeParts DEF OpTyped, Reload, TradeCycle, Survey, StoreBook, ListPaper, Restart, Healthy, HandEdit
<1>2. RestTyped'
  <2>1. CASE Reload \/ Restart
    BY <1>1, <2>1 DEF Reload, Restart, BotFree, RestTyped, table, Phases
  <2>2. CASE TradeCycle
    BY <1>1, <2>2 DEF TradeCycle, BotFree, RestTyped, table, Phases
  <2>3. CASE Survey
    <3>1. todo' \subseteq [c : Candidates, from : Managed \cup {"paper"}, approved : BOOLEAN]
      BY <1>1, <2>3 DEF Survey, Snapshot, InState, RestTyped
    <3> QED
      BY <1>1, <2>3, <3>1 DEF Survey, RestTyped, table, Phases
  <2>4. CASE ListPaper
    <3>1. todo' \subseteq [c : Candidates, from : Managed \cup {"paper"}, approved : BOOLEAN]
      BY <1>1, <2>4 DEF ListPaper, Snapshot, InState, RestTyped
    <3> QED
      BY <1>1, <2>4, <3>1 DEF ListPaper, BotFree, RestTyped, table, Phases
  <2>5. CASE \/ \E e \in todo : Healthy(e)
             \/ StoreBook
    BY <1>1, <2>5 DEF Healthy, StoreBook, OutsideGovern, RestTyped, table, Phases
  <2>6. CASE \E s \in Symbols : HandEdit(s)
    BY <1>1, <2>6 DEF HandEdit, RestTyped, table, botvars
  <2> QED
    BY <2>1, <2>2, <2>3, <2>4, <2>5, <2>6
<1> QED
  BY <1>1, <1>2 DEF TypeOK, RestTyped, OpTyped, BotSteps

LEMMA BotTyped ==
    ASSUME TypeOK, NEW e \in todo, DemoteFlat(e) \/ DemoteLater(e) \/ Advance(e)
    PROVE  TypeOK'
<1>1. OpTyped'
  BY BotSets, TypedOp DEF Sets, OpTyped
<1>2. RestTyped'
  <2>1. SymbolOf[e.c] \in Symbols
    BY BotSets, CandidateAssumption
  <2>2. CASE DemoteFlat(e)
    BY <2>1, <2>2, TypeParts DEF DemoteFlat, BotFree, OutsideGovern, RestTyped, table
  <2>3. CASE DemoteLater(e)
    BY <2>3, TypeParts DEF DemoteLater, OutsideGovern, RestTyped, table
  <2>4. CASE Advance(e)
    BY <2>1, <2>4, TypeParts DEF Advance, GoesLive, RestTyped, table
  <2> QED
    BY <2>2, <2>3, <2>4
<1> QED
  BY <1>1, <1>2 DEF TypeOK, RestTyped, OpTyped, BotSteps

LEMMA DeathTyped ==
    ASSUME TypeOK, BotDies \/ \E p \in Cli : CliDies(p)
    PROVE  TypeOK'
<1>1. CASE BotDies
  <2>1. OpTyped'
    BY <1>1, StopSets, TypedOp, CliProcs DEF BotDies, Sets
  <2>2. Torn(Bot) \subseteq Symbols
    BY OpOn, CliProcs DEF Torn
  <2>3. RestTyped'
    BY <1>1, <2>2, TypeParts DEF BotDies, RestTyped, table, Phases
  <2> QED
    BY <2>1, <2>3 DEF TypeOK, RestTyped, OpTyped, BotSteps
<1>2. ASSUME NEW p \in Cli, CliDies(p) PROVE TypeOK'
  <2>1. OpTyped'
    BY <1>2, StopSets, TypedOp, CliProcs DEF CliDies, Sets
  <2>2. Torn(p) \subseteq Symbols
    BY OpOn, CliProcs DEF Torn
  <2>3. RestTyped'
    BY <1>2, <2>2, TypeParts DEF CliDies, RestTyped, table, botvars
  <2> QED
    BY <2>1, <2>3 DEF TypeOK, RestTyped, OpTyped, BotSteps
<1> QED
  BY <1>1, <1>2

LEMMA TypeInit == Init => TypeOK
<1> SUFFICES ASSUME Init PROVE TypeOK
  OBVIOUS
<1>1. OpTyped
  BY IdleTyped, CliProcs DEF Init, OpTyped, BotSteps
<1>2. RestTyped
  BY StartAssumption DEF Init, RestTyped, Verdicts, Phases
<1> QED
  BY <1>1, <1>2, TypeParts

LEMMA TypeNext == TypeOK /\ [Next]_vars => TypeOK'
<1> SUFFICES ASSUME TypeOK, [Next]_vars PROVE TypeOK'
  OBVIOUS
<1>1. CASE BotStep
  BY <1>1, QuietTyped, BotTyped, OperationTyped, CliProcs DEF BotStep, OperationStep
<1>2. CASE BotDies
  BY <1>2, DeathTyped
<1>3. ASSUME NEW p \in Cli, OperationStep(p) \/ NewCommand(p) \/ CliDies(p) PROVE TypeOK'
  BY <1>3, OperationTyped, CommandTyped, DeathTyped, CliProcs
<1>4. ASSUME NEW s \in Symbols, HandEdit(s) PROVE TypeOK'
  BY <1>4, QuietTyped
<1>5. CASE UNCHANGED vars
  BY <1>5 DEF vars, table, botvars, TypeOK
<1> QED
  BY <1>1, <1>2, <1>3, <1>4, <1>5 DEF Next

\* The tables, the files and the operations keep their types (Pipeline.TypeOK).
THEOREM PipelineTyped == Spec => []TypeOK
<1> QED
  BY TypeInit, TypeNext, PTL DEF Spec

-----------------------------------------------------------------------------
(***************************************************************************)
(* Real money is earned.  Nothing takes a pass or an approval back, so     *)
(* what a process has read stays true however long it works with it.       *)
(***************************************************************************)

Heading == {"edit", "replace", "finish", "move"}

\* What being in state `to`, or on the way there, asks of the candidates that
\* have passed and of the approved ones.
Entitled(c, to, having, by) ==
    /\ to \in {"paper"} \cup Managed => c \in having
    /\ to \in Managed /\ RequireApproval => by[c]

Rows == \A c \in Candidates : (holdout[c] = "pass" => c \in passed) /\ Entitled(c, state[c], passed, approved)
Listed == \A e \in todo : Entitled(e.c, e.from, passed, approved) /\ (e.approved => approved[e.c])
OnItsWay(r, having, by) ==
    /\ r.at \in Heading => Entitled(r.c, r.to, having, by)
    /\ r.at = "judge" => r.to = "paper"
    /\ r.at = "rejudge" => r.to = "backtest_passed"
Headed == \A p \in Procs : OnItsWay(op[p], passed, approved)
Earned == TypeOK /\ Rows /\ Listed /\ Headed

Grows == passed \subseteq passed' /\ \A c \in Candidates : approved[c] => approved'[c]
SameEvidence == UNCHANGED <<passed, approved, holdout>>

LEMMA EvidenceGrows == TypeOK /\ [Next]_vars => Grows
<1> SUFFICES ASSUME TypeOK, [Next]_vars PROVE Grows
  OBVIOUS
<1>1. ASSUME NEW p \in Cli, Judge(p) \/ Rejudge(p) PROVE Grows
  BY <1>1 DEF Judge, Rejudge, Grows
<1>2. ASSUME NEW p \in Cli, SetApproved(p) PROVE Grows
  <2>1. passed' = passed /\ approved' = [approved EXCEPT ![op[p].c] = TRUE]
    BY <1>2 DEF SetApproved
  <2> QED
    BY <2>1 DEF Grows, TypeOK
<1>3. CASE SameEvidence
  BY <1>3 DEF SameEvidence, Grows
<1>4. CASE BotStep \/ BotDies
  BY <1>3, <1>4 DEF BotStep, BotDies, Reload, TradeCycle, Survey, StoreBook, ListPaper, Restart, Healthy,
     DemoteFlat, DemoteLater, Advance, Edit, Replace, Move, OutsideGovern, table, SameEvidence
<1>5. ASSUME NEW p \in Cli, NewCommand(p) \/ CliDies(p) \/ Edit(p) \/ Replace(p) \/ Move(p)
      PROVE  Grows
  BY <1>3, <1>5 DEF NewCommand, RecordBacktest, ToPaper, ToLive, Approve, Reopen, Demote, CliDies,
     Edit, Replace, Move, OutsideTable, table, SameEvidence
<1>6. ASSUME NEW s \in Symbols, HandEdit(s) PROVE Grows
  BY <1>3, <1>6 DEF HandEdit, table, SameEvidence
<1>7. CASE UNCHANGED vars
  BY <1>3, <1>7 DEF vars, table, SameEvidence
<1> QED
  BY <1>1, <1>2, <1>4, <1>5, <1>6, <1>7 DEF Next, OperationStep

LEMMA HeadedSets ==
    ASSUME TypeOK, Headed, Grows, NEW p \in Procs, NEW r \in Operations, Sets(p, r),
           OnItsWay(r, passed', approved')
    PROVE  Headed'
<1> SUFFICES ASSUME NEW q \in Procs PROVE OnItsWay(op'[q], passed', approved')
  BY DEF Headed
<1>1. CASE q = p
  BY <1>1 DEF Sets, OnItsWay, Entitled
<1>2. CASE q # p
  <2>1. op'[q] = op[q] /\ (op[q].at \in Heading => op[q].c \in Candidates)
    BY <1>2, OpOn DEF Sets, Heading
  <2> QED
    BY <2>1 DEF Headed, OnItsWay, Entitled, Grows
<1> QED
  BY <1>1, <1>2

\* Nobody is entitled to less than before.
LEMMA KeepsRows == ASSUME TypeOK, Rows, Grows, UNCHANGED <<state, holdout>> PROVE Rows'
BY DEF Rows, Entitled, Grows
LEMMA KeepsListed == ASSUME TypeOK, Listed, Grows, todo' \subseteq todo PROVE Listed'
BY DEF Listed, Entitled, Grows, TypeOK
LEMMA KeepsHeaded == ASSUME TypeOK, Headed, Grows, op' = op PROVE Headed'
<1>1. ASSUME NEW q \in Procs, op[q].at \in Heading PROVE op[q].c \in Candidates
  BY <1>1, OpOn DEF Heading
<1> QED
  BY <1>1 DEF Headed, OnItsWay, Entitled, Grows
LEMMA KeepsHeadedIdle ==
    ASSUME TypeOK, Headed, Grows, NEW p \in Procs, Sets(p, Idle) PROVE Headed'
BY HeadedSets, IdleTyped DEF Heading, OnItsWay

LEMMA EarnedOperation ==
    ASSUME Earned, Grows, NEW p \in Procs, OperationStep(p), p # Bot \/ Edit(p) \/ Replace(p) \/ Move(p)
    PROVE  Rows' /\ Listed' /\ Headed'
<1> USE DEF Earned
<1>1. CASE Edit(p)
  <2>1. op[p] \in Operations /\ file \in SUBSET Symbols /\ Entitled(op[p].c, op[p].to, passed, approved) /\ op[p].c \in Candidates
    BY <1>1, OpOn DEF Edit, Headed, OnItsWay, Heading, TypeOK
  <2> DEFINE r == [op[p] EXCEPT !.at = "replace", !.base = file]
  <2>2. r \in Operations /\ OnItsWay(r, passed', approved')
    BY <2>1 DEF Operations, Steps, OnItsWay, Entitled, Grows
  <2>3. Headed'
    <3> HIDE DEF r
    <3>1. CASE Sets(p, Idle)
      BY <3>1, KeepsHeadedIdle
    <3>2. CASE Sets(p, r)
      BY <2>2, <3>2, HeadedSets
    <3> QED
      BY <1>1, <3>1, <3>2, EditSets DEF r
  <2> QED
    BY <1>1, <2>3, KeepsRows, KeepsListed DEF Edit, table, botvars
<1>2. CASE Replace(p)
  <2>1. op[p] \in Operations /\ Entitled(op[p].c, op[p].to, passed, approved) /\ op[p].c \in Candidates
    BY <1>2, OpOn DEF Replace, Headed, OnItsWay, Heading
  <2> DEFINE r == [op[p] EXCEPT !.at = "finish", !.base = {}]
  <2>2. r \in Operations /\ OnItsWay(r, passed', approved')
    BY <2>1 DEF Operations, Steps, OnItsWay, Entitled, Grows
  <2>3. Sets(p, r)
    BY <1>2, ReplaceSets
  <2>4. Headed'
    BY <2>2, <2>3, HeadedSets
  <2> QED
    BY <1>2, <2>4, KeepsRows, KeepsListed DEF Replace, table
<1>3. CASE Move(p)
  <2>1. Headed'
    BY <1>3, StopSets, TypedOp, KeepsHeadedIdle DEF Move
  <2>2. Entitled(op[p].c, op[p].to, passed, approved) /\ op[p].c \in Candidates
    BY <1>3, OpOn DEF Move, Headed, OnItsWay, Heading
  <2>3. Rows'
    BY <1>3, <2>2 DEF Move, Rows, Entitled, TypeOK
  <2> QED
    BY <1>3, <2>1, <2>3, KeepsListed DEF Move, botvars
<1>4. CASE Judge(p) /\ p # Bot
  <2>1. op[p] \in Operations /\ op[p].c \in Candidates /\ op[p].to = "paper"
    BY <1>4, OpOn DEF Judge, Headed, OnItsWay
  <2>2. PICK v \in Verdicts :
          /\ holdout' = [holdout EXCEPT ![op[p].c] = v]
          /\ passed' = passed \cup IF v = "pass" THEN {op[p].c} ELSE {}
          /\ \/ v = "pass" /\ Sets(p, [op[p] EXCEPT !.at = "move"])
             \/ v = "fail" /\ Sets(p, [op[p] EXCEPT !.at = "move", !.to = "rejected"])
             \/ v = "insufficient" /\ Sets(p, Idle)
    BY <1>4, JudgeSets
  <2>3. Rows'
    BY <1>4, <2>1, <2>2 DEF Judge, Rows, Entitled, TypeOK
  <2>4. CASE v = "pass"
    <3> DEFINE r == [op[p] EXCEPT !.at = "move"]
    <3>1. r \in Operations /\ OnItsWay(r, passed', approved')
      BY <2>1, <2>2, <2>4 DEF Operations, Steps, OnItsWay, Entitled, Managed
    <3>2. Sets(p, r)
      BY <2>2, <2>4
    <3> QED
      BY <1>4, <2>3, <3>1, <3>2, HeadedSets, KeepsListed DEF Judge, OutsideTable, botvars
  <2>5. CASE v = "fail"
    <3> DEFINE r == [op[p] EXCEPT !.at = "move", !.to = "rejected"]
    <3>1. r \in Operations /\ OnItsWay(r, passed', approved')
      BY <2>1 DEF Operations, Steps, States, OnItsWay, Entitled, Managed
    <3>2. Sets(p, r)
      BY <2>2, <2>5
    <3> QED
      BY <1>4, <2>3, <3>1, <3>2, HeadedSets, KeepsListed DEF Judge, OutsideTable, botvars
  <2>6. CASE v = "insufficient"
    <3>1. Sets(p, Idle)
      BY <2>2, <2>6
    <3> QED
      BY <1>4, <2>3, <3>1, KeepsHeadedIdle, KeepsListed DEF Judge, OutsideTable, botvars
  <2> QED
    BY <2>4, <2>5, <2>6 DEF Verdicts
<1>5. CASE Rejudge(p) /\ p # Bot
  <2>1. op[p] \in Operations /\ op[p].c \in Candidates /\ op[p].to = "backtest_passed"
    BY <1>5, OpOn DEF Rejudge, Headed, OnItsWay
  <2> DEFINE r == [op[p] EXCEPT !.at = "move"]
  <2>2. r \in Operations /\ OnItsWay(r, passed', approved') /\ "move" \in Steps \ {"idle"}
    BY <2>1 DEF Operations, Steps, OnItsWay, Entitled, Managed
  <2>3. Sets(p, r) \/ Sets(p, Idle)
    BY <1>5, <2>2, GoesSets, StopSets, TypedOp DEF Rejudge
  <2>4. Headed'
    BY <2>2, <2>3, HeadedSets, KeepsHeadedIdle
  <2>5. /\ state' = state /\ todo' = todo /\ passed \subseteq passed' /\ approved' = approved
        /\ \A c \in Candidates : holdout'[c] = "pass" => holdout[c] = "pass" \/ c \in passed'
    BY <1>5, <2>1 DEF Rejudge, OutsideTable, botvars, TypeOK
  <2>6. Rows'
    BY <2>5 DEF Rows, Entitled
  <2> QED
    BY <2>4, <2>5, <2>6, KeepsListed
<1>6. CASE SetApproved(p)
  <2>1. Headed'
    BY <1>6, StopSets, TypedOp, KeepsHeadedIdle DEF SetApproved
  <2> QED
    BY <1>6, <2>1, KeepsRows, KeepsListed DEF SetApproved, OutsideTable, botvars
<1> QED
  BY <1>1, <1>2, <1>3, <1>4, <1>5, <1>6 DEF OperationStep, Edit, Replace, Move

LEMMA EarnedCommand ==
    ASSUME Earned, Grows, NEW p \in Cli, NewCommand(p)
    PROVE  Rows' /\ Listed' /\ Headed'
<1> USE DEF Earned
<1>0. p \in Procs
  BY CliProcs
<1>1. PICK c \in Candidates : \/ RecordBacktest(p, c) \/ ToPaper(p, c) \/ ToLive(p, c)
                              \/ Approve(p, c) \/ Reopen(p, c) \/ Demote(p, c)
  BY DEF NewCommand
<1>2. Listed'
  BY <1>1, KeepsListed DEF RecordBacktest, ToPaper, ToLive, Approve, Reopen, Demote, OutsideTable,
     botvars
\* An operation that begins has read what its state asks for.
<1>3. ASSUME NEW from \in States, NEW to \in States, NEW at \in Steps,
             Sets(p, Begin(c, from, at, to)),
             at \in Heading => Entitled(c, to, passed, approved),
             at = "judge" => to = "paper", at = "rejudge" => to = "backtest_passed"
      PROVE  Headed'
  <2> DEFINE r == Begin(c, from, at, to)
  <2>1. r \in Operations /\ OnItsWay(r, passed', approved')
    BY <1>3 DEF Begin, Operations, OnItsWay, Entitled, Grows
  <2> QED
    BY <1>0, <1>3, <2>1, HeadedSets
<1>4. CASE RecordBacktest(p, c)
  <2>1. state'[c] \in States /\ \A d \in Candidates : state'[d] \in {"paper"} \cup Managed => state'[d] = state[d]
    BY <1>4, RecordBacktestSets DEF Managed
  <2>2. Rows'
    BY <1>4, <2>1 DEF RecordBacktest, Rows, Entitled, Managed
  <2>3. ASSUME NEW to \in {"candidate", "backtest_passed"}, Sets(p, Begin(c, state'[c], "move", to))
        PROVE  Headed'
    BY <1>3, <2>1, <2>3 DEF Entitled, Managed, States, Active, Steps
  <2> QED
    BY <1>2, <1>4, <2>2, <2>3, RecordBacktestSets, KeepsHeaded
<1>5. CASE \/ ToPaper(p, c) \/ ToLive(p, c) \/ Approve(p, c) \/ Reopen(p, c) \/ Demote(p, c)
  <2>1. Rows'
    BY <1>5, KeepsRows DEF ToPaper, ToLive, Approve, Reopen, Demote, table
  <2>2. /\ state[c] \in States /\ Entitled(c, state[c], passed, approved)
        /\ holdout[c] = "pass" => c \in passed
        /\ {"paper", "live", "backtest_passed", "demoted", "demote_pending"} \subseteq States
        /\ {"move", "judge", "edit", "approve", "rejudge"} \subseteq Steps
    BY DEF TypeOK, Rows, States, Active, Managed, Steps
  <2>3. ASSUME ToPaper(p, c) PROVE Headed'
    <3>1. Sets(p, Begin(c, state[c], IF holdout[c] = "pass" THEN "move" ELSE "judge", "paper"))
      BY <2>3, CommandSets
    <3>2. CASE holdout[c] = "pass"
      BY <1>3, <2>2, <3>1, <3>2 DEF Entitled, Managed
    <3>3. CASE holdout[c] # "pass"
      BY <1>3, <2>2, <3>1, <3>3 DEF Heading
    <3> QED
      BY <3>2, <3>3
  <2>4. ASSUME ToLive(p, c) PROVE Headed'
    BY <1>3, <2>2, <2>4, CommandSets DEF ToLive, Ready, Entitled, Managed
  <2>5. ASSUME Approve(p, c) PROVE Headed'
    BY <1>3, <2>2, <2>5, CommandSets DEF Heading
  <2>6. ASSUME Reopen(p, c) PROVE Headed'
    BY <1>3, <2>2, <2>6, CommandSets DEF Heading
  <2>7. ASSUME Demote(p, c) PROVE Headed'
    BY <1>3, <2>2, <2>7, CommandSets DEF Entitled, Managed
  <2> QED
    BY <1>2, <1>5, <2>1, <2>3, <2>4, <2>5, <2>6, <2>7
<1> QED
  BY <1>1, <1>4, <1>5

LEMMA EarnedBot ==
    ASSUME Earned, Grows, NEW e \in todo, DemoteFlat(e) \/ DemoteLater(e) \/ Advance(e)
    PROVE  Rows' /\ Listed' /\ Headed'
<1> USE DEF Earned
<1>1. Rows' /\ Listed'
  BY KeepsRows, KeepsListed DEF DemoteFlat, DemoteLater, Advance, OutsideGovern, table
<1>2. /\ e.c \in Candidates /\ e.from \in States /\ Bot \in Procs /\ e.c \in passed
      /\ e.approved => approved[e.c]
      /\ e.from = "live" => Entitled(e.c, "live", passed, approved)
  BY BotSets, CliProcs DEF Listed, Entitled, States, Active, Managed
<1>3. ASSUME NEW to \in States, NEW at \in {"edit", "move"}, Sets(Bot, Begin(e.c, e.from, at, to)),
             Entitled(e.c, to, passed, approved)
      PROVE  Headed'
  <2> DEFINE r == Begin(e.c, e.from, at, to)
  <2>1. r \in Operations /\ OnItsWay(r, passed', approved')
    BY <1>2, <1>3 DEF Begin, Operations, Steps, OnItsWay, Entitled, Grows
  <2> QED
    BY <1>2, <1>3, <2>1, HeadedSets
<1>4. {"live", "demoted", "demote_pending", "retired"} \subseteq States
  BY DEF States, Active, Managed
<1>5. ASSUME DemoteFlat(e) PROVE Headed'
  BY <1>3, <1>4, <1>5, BotSets DEF Entitled, Managed
<1>6. ASSUME DemoteLater(e) PROVE Headed'
  BY <1>2, <1>3, <1>4, <1>6, BotSets, KeepsHeaded DEF Entitled, Managed
<1>7. ASSUME Advance(e) PROVE Headed'
  <2>1. CASE op' = op
    BY <2>1, KeepsHeaded
  <2>2. CASE Ready(e.c, e.approved, mem) /\ Sets(Bot, Begin(e.c, e.from, "edit", "live"))
    BY <1>2, <1>3, <1>4, <2>2 DEF Ready, Entitled
  <2>3. CASE Sets(Bot, Begin(e.c, e.from, "move", "retired"))
    BY <1>3, <1>4, <2>3 DEF Entitled, Managed
  <2> QED
    BY <1>7, <2>1, <2>2, <2>3, BotSets
<1> QED
  BY <1>1, <1>5, <1>6, <1>7

LEMMA EarnedRest ==
    ASSUME Earned, Grows,
           \/ Reload \/ TradeCycle \/ Survey \/ StoreBook \/ ListPaper \/ Restart \/ BotDies \/ UNCHANGED vars
           \/ \E e \in todo : Healthy(e)
           \/ \E s \in Symbols : HandEdit(s)
           \/ \E p \in Cli : CliDies(p)
    PROVE  Rows' /\ Listed' /\ Headed'
<1> USE DEF Earned
<1>1. Rows'
  BY KeepsRows DEF Reload, TradeCycle, Survey, StoreBook, ListPaper, Restart, BotDies, Healthy, HandEdit,
     CliDies, OutsideGovern, table, vars
<1>2. Listed'
  <2>1. CASE Survey \/ ListPaper
    BY <2>1 DEF Survey, ListPaper, Snapshot, InState, Rows, Listed, table
  <2>2. CASE todo' \subseteq todo
    BY <2>2, KeepsListed
  <2> QED
    BY <2>1, <2>2 DEF Reload, TradeCycle, StoreBook, Restart, BotDies, Healthy, HandEdit, CliDies, botvars,
       vars
<1>3. Headed'
  <2>1. CASE op' = op
    BY <2>1, KeepsHeaded
  <2>2. CASE BotDies \/ \E p \in Cli : CliDies(p)
    BY <2>2, StopSets, TypedOp, KeepsHeadedIdle, CliProcs DEF BotDies, CliDies
  <2> QED
    BY <2>1, <2>2 DEF Reload, TradeCycle, Survey, StoreBook, ListPaper, Restart, Healthy, HandEdit,
       OutsideGovern, vars
<1> QED
  BY <1>1, <1>2, <1>3

LEMMA EarnedInit == Init => Earned
<1> SUFFICES ASSUME Init PROVE Earned
  OBVIOUS
<1>1. PICK s \in Start : state = s.state /\ approved = s.approved /\ holdout = s.holdout
  BY DEF Init
<1>2. Rows
  BY <1>1, StartAssumption DEF Init, Rows, Entitled
<1>3. Listed /\ Headed
  BY DEF Init, Listed, Headed, OnItsWay, Heading, Idle
<1> QED
  BY <1>2, <1>3, TypeInit DEF Earned

LEMMA EarnedNext == Earned /\ [Next]_vars => Earned'
<1> SUFFICES ASSUME Earned, [Next]_vars PROVE Rows' /\ Listed' /\ Headed'
  BY TypeNext DEF Earned
<1>1. Grows
  BY EvidenceGrows DEF Earned
<1>2. CASE BotStep
  BY <1>1, <1>2, EarnedOperation, EarnedBot, EarnedRest, CliProcs DEF BotStep, OperationStep
<1>3. ASSUME NEW p \in Cli, OperationStep(p) \/ NewCommand(p) PROVE Rows' /\ Listed' /\ Headed'
  BY <1>1, <1>3, EarnedOperation, EarnedCommand, CliProcs
<1> QED
  BY <1>1, <1>2, <1>3, EarnedRest DEF Next

LEMMA EarnedGoesLive == Earned => LiveWasEarned
<1> SUFFICES ASSUME Earned, NEW c \in Candidates, Settled(c) \in Managed
             PROVE  c \in passed /\ (RequireApproval => approved[c])
  BY DEF LiveWasEarned
<1>1. CASE \E p \in Procs : op[p].at = "finish" /\ op[p].c = c
  <2>1. PICK p \in Procs : op[p].at = "finish" /\ op[p].c = c /\ Settled(c) = op[p].to
    BY <1>1 DEF Settled
  <2> QED
    BY <2>1 DEF Earned, Headed, OnItsWay, Heading, Entitled
<1>2. CASE ~\E p \in Procs : op[p].at = "finish" /\ op[p].c = c
  BY <1>2 DEF Settled, Earned, Rows, Entitled
<1> QED
  BY <1>1, <1>2

\* Whatever the processes do to each other, a candidate on live money has passed its
\* held-out check and, where approval is required, was approved (promote, advance_paper).
THEOREM RealMoneyIsEarned == Spec => []LiveWasEarned
<1> QED
  BY EarnedInit, EarnedNext, EarnedGoesLive, PTL DEF Spec

-----------------------------------------------------------------------------
(***************************************************************************)
(* Paper: each process of the command line that is on its way into paper   *)
(* was let past when there was room, so that all but the last of them may  *)
(* exceed the limit by one each.                                           *)
(***************************************************************************)

Papers == InState({"paper"})
Entering == {p \in Cli : op[p].to = "paper" /\ op[p].at \notin {"idle", "approve"}}
NotTheBot == op[Bot].at # "idle" => op[Bot].to # "paper"
PaperBound ==
    TypeOK /\ NotTheBot /\ Cardinality(Papers) + Cardinality(Entering) <= MaxPaper + Cardinality(Cli) - 1

LEMMA Counted ==
    TypeOK => /\ IsFiniteSet(Papers) /\ Cardinality(Papers) \in Nat
              /\ IsFiniteSet(Entering) /\ Cardinality(Entering) \in Nat /\ Cardinality(Cli) \in Nat
<1>1. Papers \subseteq Candidates /\ Entering \subseteq Cli
  BY DEF Papers, InState, Entering
<1> QED
  BY <1>1, CandidateAssumption, PipelineAssumption, FS_Subset, FS_CardinalityType

LEMMA FewerKeepBound ==
    ASSUME PaperBound, TypeOK', NotTheBot', Papers' \subseteq Papers, Entering' \subseteq Entering
    PROVE  PaperBound'
<1>1. Cardinality(Papers') <= Cardinality(Papers) /\ Cardinality(Entering') <= Cardinality(Entering)
  BY Counted, FS_Subset DEF PaperBound
<1>2. /\ Cardinality(Papers') \in Nat /\ Cardinality(Entering') \in Nat /\ Cardinality(Cli) \in Nat
      /\ Cardinality(Papers) \in Nat /\ Cardinality(Entering) \in Nat
  <2>1. Papers' \subseteq Candidates /\ Entering' \subseteq Cli
    BY DEF Papers, InState, Entering
  <2> QED
    BY <2>1, Counted, CandidateAssumption, PipelineAssumption, FS_Subset, FS_CardinalityType
    DEF PaperBound
<1> QED
  BY <1>1, <1>2, PipelineAssumption DEF PaperBound

\* An operation that heads for paper, or waits for its verdict, is not the bot's.
LEMMA EnteringAfter ==
    ASSUME TypeOK, NEW p \in Procs, NEW r, Sets(p, r), NotTheBot, p = Bot => r.to # "paper" \/ r.at = "idle",
           r.to = "paper" /\ r.at \notin {"idle", "approve"} => p \in Entering
    PROVE  NotTheBot' /\ Entering' \subseteq Entering
BY CliProcs DEF Sets, NotTheBot, Entering

LEMMA LeavesPaper ==
    ASSUME PaperBound, TypeOK', NEW p \in Procs, Move(p)
    PROVE  PaperBound'
<1>1. /\ TypeOK /\ Sets(p, Idle) /\ op[p].c \in Candidates /\ op[p].at \in {"finish", "move"}
      /\ state' = [state EXCEPT ![op[p].c] = op[p].to]
  BY StopSets, TypedOp, OpOn DEF PaperBound, Move
<1>2. NotTheBot' /\ Entering' = Entering \ {p}
  BY <1>1, IdleTyped, CliProcs DEF PaperBound, Sets, NotTheBot, Entering
<1>3. CASE op[p].to # "paper"
  <2>1. Papers' \subseteq Papers
    BY <1>1, <1>3 DEF Papers, InState, TypeOK
  <2> QED
    BY <1>2, <2>1, FewerKeepBound
<1>4. CASE op[p].to = "paper"
  <2>1. p \in Entering
    BY <1>1, <1>4 DEF PaperBound, NotTheBot, Entering, Procs
  <2>2. Papers' \subseteq Papers \cup {op[p].c}
    BY <1>1 DEF Papers, InState, TypeOK
  <2>3. /\ Cardinality(Papers') <= Cardinality(Papers) + 1 /\ Cardinality(Papers') \in Nat
        /\ IsFiniteSet(Papers \cup {op[p].c})
    <3>1. /\ IsFiniteSet(Papers \cup {op[p].c})
          /\ Cardinality(Papers \cup {op[p].c}) <= Cardinality(Papers) + 1
      <4>1. IsFiniteSet(Papers) /\ Cardinality(Papers) \in Nat
        BY <1>1, Counted
      <4>2. /\ IsFiniteSet(Papers \cup {op[p].c})
            /\ Cardinality(Papers \cup {op[p].c}) = IF op[p].c \in Papers THEN Cardinality(Papers)
                                                    ELSE Cardinality(Papers) + 1
        BY <4>1, FS_AddElement
      <4> QED
        BY <4>1, <4>2
    <3>2. Cardinality(Papers') <= Cardinality(Papers \cup {op[p].c}) /\ IsFiniteSet(Papers')
      BY <2>2, <3>1, FS_Subset
    <3>3. /\ Cardinality(Papers') \in Nat /\ Cardinality(Papers \cup {op[p].c}) \in Nat
          /\ Cardinality(Papers) \in Nat
      BY <1>1, <3>1, <3>2, Counted, FS_CardinalityType
    <3> QED
      BY <3>1, <3>2, <3>3
  <2>4. Cardinality(Entering') = Cardinality(Entering) - 1
    BY <1>1, <1>2, <2>1, Counted, FS_RemoveElement
  <2> QED
    BY <1>1, <1>2, <2>3, <2>4, Counted, PipelineAssumption DEF PaperBound
<1> QED
  BY <1>3, <1>4

LEMMA EntersPaper ==
    ASSUME PaperBound, TypeOK', NEW p \in Cli, NEW c \in Candidates, ToPaper(p, c)
    PROVE  PaperBound'
<1>1. TypeOK /\ p \in Procs /\ op[p] = Idle /\ p \notin Entering
  BY CliProcs DEF PaperBound, ToPaper, Command, Entering, Idle
<1>2. Sets(p, Begin(c, state[c], IF holdout[c] = "pass" THEN "move" ELSE "judge", "paper"))
  BY <1>1, CommandSets
<1>3. NotTheBot' /\ Entering' = Entering \cup {p}
  BY <1>1, <1>2, CliProcs DEF PaperBound, Sets, Begin, NotTheBot, Entering
<1>4. Papers' = Papers /\ Cardinality(Papers) < MaxPaper
  BY DEF ToPaper, PaperHasRoom, table, Papers, InState
<1>5. Cardinality(Entering') <= Cardinality(Cli) /\ Cardinality(Entering') \in Nat
  <2>1. Entering' \subseteq Cli
    BY DEF Entering
  <2> QED
    BY <2>1, PipelineAssumption, FS_Subset, FS_CardinalityType
<1> QED
  BY <1>1, <1>3, <1>4, <1>5, Counted, PipelineAssumption DEF PaperBound

LEMMA PaperOperation ==
    ASSUME PaperBound, Headed, TypeOK', NEW p \in Procs, OperationStep(p),
           p # Bot \/ Edit(p) \/ Replace(p) \/ Move(p)
    PROVE  PaperBound'
<1>1. TypeOK /\ NotTheBot /\ OpTyped
  BY TypedOp DEF PaperBound
<1>2. CASE Move(p)
  BY <1>2, LeavesPaper
<1>3. CASE ~Move(p)
  <2>1. Papers' = Papers
    BY <1>3 DEF OperationStep, Edit, Replace, Judge, Rejudge, SetApproved, table, Papers, InState
  <2>2. ASSUME NEW r, Sets(p, r), r.at = "idle" \/ r.to = "rejected" \/ (r.to = op[p].to /\ op[p].at \notin {"idle", "approve"})
        PROVE  PaperBound'
    <3>1. p \in Cli \/ p = Bot
      BY DEF Procs
    <3>2. NotTheBot' /\ Entering' \subseteq Entering
      <4>1. CASE r.to = "paper" /\ r.at \notin {"idle", "approve"}
        BY <1>1, <2>2, <3>1, <4>1, EnteringAfter DEF NotTheBot, Entering
      <4>2. CASE ~(r.to = "paper" /\ r.at \notin {"idle", "approve"})
        <5>1. p = Bot => r.to # "paper" \/ r.at = "idle"
          BY <1>1, <2>2, <4>2 DEF NotTheBot
        <5> QED
          BY <1>1, <2>2, <4>2, <5>1, EnteringAfter
      <4> QED
        BY <4>1, <4>2
    <3> QED
      BY <2>1, <3>2, FewerKeepBound
  <2>3. op[p] \in Operations /\ op[p].at # "idle" /\ Idle.at = "idle"
    BY <1>1, <1>3, IdleTyped DEF OpTyped, OperationStep, Edit, Replace, Judge, Rejudge, SetApproved
  <2>4. CASE Edit(p)
    BY <1>1, <2>2, <2>3, <2>4, EditSets DEF Edit, Operations
  <2>5. CASE Replace(p)
    BY <1>1, <2>2, <2>3, <2>5, ReplaceSets DEF Replace, Operations
  <2>6. CASE Judge(p) /\ p # Bot
    BY <1>1, <2>2, <2>3, <2>6, JudgeSets DEF Judge, Operations
  <2>7. CASE Rejudge(p) /\ p # Bot
    <3>1. Sets(p, Idle) \/ Sets(p, [op[p] EXCEPT !.at = "move"])
      BY <1>1, <2>3, <2>7, GoesSets, StopSets DEF Rejudge, Steps
    <3> QED
      BY <2>2, <2>3, <2>7, <3>1 DEF Rejudge, Operations
  <2>8. CASE SetApproved(p)
    BY <1>1, <2>2, <2>3, <2>8, StopSets DEF SetApproved
  <2> QED
    BY <1>3, <2>4, <2>5, <2>6, <2>7, <2>8 DEF OperationStep, Judge, Rejudge, SetApproved
<1> QED
  BY <1>2, <1>3

LEMMA PaperCommand ==
    ASSUME PaperBound, TypeOK', NEW p \in Cli, NewCommand(p)
    PROVE  PaperBound'
<1>1. TypeOK /\ NotTheBot /\ p \in Procs /\ p # Bot
  BY CliProcs DEF PaperBound
<1>2. PICK c \in Candidates : \/ RecordBacktest(p, c) \/ ToPaper(p, c) \/ ToLive(p, c)
                              \/ Approve(p, c) \/ Reopen(p, c) \/ Demote(p, c)
  BY DEF NewCommand
<1>3. Papers' \subseteq Papers
  <2>1. CASE RecordBacktest(p, c)
    BY <1>1, <2>1, RecordBacktestSets DEF Papers, InState
  <2>2. CASE ~RecordBacktest(p, c)
    BY <1>2, <2>2 DEF ToPaper, ToLive, Approve, Reopen, Demote, table, Papers, InState
  <2> QED
    BY <2>1, <2>2
<1>4. ASSUME NEW from, NEW at, NEW to, Sets(p, Begin(c, from, at, to)), to # "paper" \/ at = "approve"
      PROVE  PaperBound'
  <2> DEFINE r == Begin(c, from, at, to)
  <2>1. r.to = to /\ r.at = at
    BY DEF Begin
  <2>2. NotTheBot' /\ Entering' \subseteq Entering
    <3> HIDE DEF r
    <3>1. Sets(p, r)
      BY <1>4 DEF r
    <3> QED
      BY <1>1, <1>4, <2>1, <3>1, EnteringAfter
  <2> QED
    BY <1>3, <2>2, FewerKeepBound
<1>5. CASE ToPaper(p, c)
  BY <1>5, EntersPaper
<1>6. CASE RecordBacktest(p, c)
  <2>1. CASE op' = op
    BY <1>1, <1>3, <2>1, FewerKeepBound DEF NotTheBot, Entering
  <2>2. ASSUME NEW to \in {"candidate", "backtest_passed"}, Sets(p, Begin(c, state'[c], "move", to))
        PROVE  PaperBound'
    BY <1>4, <2>2
  <2> QED
    BY <1>1, <1>6, <2>1, <2>2, RecordBacktestSets
<1>7. CASE ToLive(p, c)
  BY <1>1, <1>4, <1>7, CommandSets
<1>8. CASE Approve(p, c)
  BY <1>1, <1>4, <1>8, CommandSets
<1>9. CASE Reopen(p, c)
  BY <1>1, <1>4, <1>9, CommandSets
<1>10. CASE Demote(p, c)
  BY <1>1, <1>4, <1>10, CommandSets
<1> QED
  BY <1>2, <1>5, <1>6, <1>7, <1>8, <1>9, <1>10

LEMMA PaperRest ==
    ASSUME PaperBound, TypeOK',
           \/ Reload \/ TradeCycle \/ Survey \/ StoreBook \/ ListPaper \/ Restart \/ BotDies \/ UNCHANGED vars
           \/ \E e \in todo : Healthy(e) \/ DemoteFlat(e) \/ DemoteLater(e) \/ Advance(e)
           \/ \E s \in Symbols : HandEdit(s)
           \/ \E p \in Cli : CliDies(p)
    PROVE  PaperBound'
<1>1. TypeOK /\ NotTheBot /\ OpTyped
  BY TypedOp DEF PaperBound
<1>2. Papers' = Papers
  BY DEF Reload, TradeCycle, Survey, StoreBook, ListPaper, Restart, BotDies, Healthy, DemoteFlat, DemoteLater,
     Advance, HandEdit, CliDies, OutsideGovern, table, vars, Papers, InState
<1>3. CASE op' = op
  BY <1>1, <1>2, <1>3, FewerKeepBound DEF NotTheBot, Entering
<1>4. ASSUME NEW p \in Procs, Sets(p, Idle) PROVE PaperBound'
  BY <1>1, <1>2, <1>4, IdleTyped, EnteringAfter, FewerKeepBound
<1>5. ASSUME NEW e \in todo, DemoteFlat(e) \/ DemoteLater(e) \/ Advance(e) PROVE PaperBound'
  <2>1. ASSUME NEW at \in {"edit", "move"}, NEW to \in {"live", "demoted", "demote_pending", "retired"},
               Sets(Bot, Begin(e.c, e.from, at, to))
        PROVE  PaperBound'
    <3> DEFINE r == Begin(e.c, e.from, at, to)
    <3>1. r.to = to
      BY DEF Begin
    <3>2. NotTheBot' /\ Entering' \subseteq Entering
      <4> HIDE DEF r
      <4>1. Sets(Bot, r)
        BY <2>1 DEF r
      <4> QED
        BY <1>1, <2>1, <3>1, <4>1, EnteringAfter, CliProcs
    <3> QED
      BY <1>2, <3>2, FewerKeepBound
  <2> QED
    BY <1>1, <1>3, <1>5, <2>1, BotSets
<1> QED
  BY <1>1, <1>3, <1>4, <1>5, StopSets, CliProcs DEF Reload, TradeCycle, Survey, StoreBook, ListPaper, Restart,
     BotDies, Healthy, HandEdit, CliDies, OutsideGovern, vars

LEMMA PaperInit == Init => PaperBound
<1> SUFFICES ASSUME Init PROVE PaperBound
  OBVIOUS
<1>1. PICK s \in Start : state = s.state
  BY DEF Init
<1>2. Entering = {} /\ NotTheBot
  BY IdleTyped, CliProcs DEF Init, Entering, NotTheBot
<1>3. Cardinality(Papers) <= MaxPaper + Cardinality(Cli) - 1
  BY <1>1, StartAssumption DEF Papers, InState
<1>4. TypeOK /\ Cardinality(Entering) = 0
  BY <1>2, TypeInit, FS_EmptySet
<1> QED
  BY <1>2, <1>3, <1>4, Counted DEF PaperBound

LEMMA PaperNext == Earned /\ PaperBound /\ [Next]_vars => PaperBound'
<1> SUFFICES ASSUME Earned, PaperBound, [Next]_vars PROVE PaperBound'
  OBVIOUS
<1>1. TypeOK' /\ Headed
  BY TypeNext DEF Earned
<1>2. CASE BotStep
  BY <1>1, <1>2, PaperOperation, PaperRest, CliProcs DEF BotStep, OperationStep
<1>3. ASSUME NEW p \in Cli, OperationStep(p) \/ NewCommand(p) PROVE PaperBound'
  BY <1>1, <1>3, PaperOperation, PaperCommand, CliProcs
<1> QED
  BY <1>1, <1>2, <1>3, PaperRest DEF Next

\* Commands that count the paper candidates at the same time pass the limit by at most
\* one for each command beyond the first (_to_paper).
THEOREM PaperStaysBounded == Spec => []PaperLimit
<1>1. PaperBound => PaperLimit
  <2> SUFFICES ASSUME PaperBound PROVE PaperLimit
    OBVIOUS
  <2> QED
    BY Counted, PipelineAssumption DEF PaperBound, PaperLimit, Papers
<1> QED
  BY <1>1, EarnedInit, EarnedNext, PaperInit, PaperNext, PTL DEF Spec

-----------------------------------------------------------------------------
(***************************************************************************)
(* The pipeline, step by step and without locks, implements Lifecycle: on  *)
(* every symbol where no process acted on something stale, the candidates  *)
(* walk the diagram, config.json follows them, and no held symbol leaves.  *)
(***************************************************************************)

PastBegin == {"edit", "replace", "finish"}

\* What an operation is, by where it stands.
Shaped(r) ==
    /\ r.at \in PastBegin => \/ r.to = "live" /\ r.from = "paper"
                             \/ r.to = "demoted" /\ r.from \in Managed
    /\ r.at = "move" => <<r.from, r.to>> \in Walks
    /\ r.at = "judge" => r.from = "backtest_passed" /\ r.to = "paper"
    /\ r.at = "rejudge" => r.from = "rejected" /\ r.to = "backtest_passed"
    /\ r.at = "replace" /\ r.to = "live" => SymbolOf[r.c] \notin r.base

OpShape == \A p \in Procs : Shaped(op[p])

\* The bot's list is of managed candidates first, of paper candidates then; outside
\* both, the bot has no operation.
TodoShape ==
    /\ phase = "govern" => \A e \in todo : e.from \in Managed
    /\ phase = "paper" => \A e \in todo : e.from = "paper"
    /\ phase \notin {"govern", "paper"} => todo = {} /\ op[Bot] = Idle

\* Past config.json an operation is alone with its candidate, which is as it was read.
Finishing(p, c) == op[p].at = "finish" /\ op[p].c = c
OneFinish ==
    \A p, q \in Procs, c \in Candidates :
        Finishing(p, c) /\ SymbolOf[c] \notin disturbed =>
            /\ state[c] = op[p].from
            /\ Finishing(q, c) => p = q

\* A symbol on its way out of config.json is flat.
FlatLeaving ==
    \A p \in Procs : op[p].at \in PastBegin /\ op[p].to = "demoted" => Symbol(p) \notin Open \ disturbed

\* A cycle trades the set it began with, which has every held symbol.
CycleHeld == /\ phase = "trade" => traded = mem
             /\ phase \in {"survey", "govern", "advance", "paper"} => Open \ disturbed \subseteq traded

Shape == TypeOK /\ OpShape /\ TodoShape

LEMMA ShapeSets ==
    ASSUME OpShape, NEW p \in Procs, NEW r, Sets(p, r), Shaped(r)
    PROVE  OpShape'
<1>1. ASSUME NEW q \in Procs PROVE Shaped(op'[q])
  BY <1>1 DEF Sets, OpShape
<1> QED
  BY <1>1 DEF OpShape, Shaped

LEMMA IdleShaped == Shaped(Idle)
BY IdleTyped DEF Shaped, PastBegin

LEMMA DisturbedGrows == [Next]_vars => disturbed \subseteq disturbed'
<1>1. ASSUME NEW p \in Procs, OperationStep(p) PROVE disturbed \subseteq disturbed'
  BY <1>1 DEF OperationStep, Edit, Replace, Move, Judge, Rejudge, SetApproved, OutsideTable
<1>2. ASSUME NEW p \in Cli, NewCommand(p) \/ CliDies(p) PROVE disturbed \subseteq disturbed'
  BY <1>2 DEF NewCommand, RecordBacktest, ToPaper, ToLive, Approve, Reopen, Demote, OutsideTable, CliDies
<1>3. ASSUME BotStep \/ BotDies PROVE disturbed \subseteq disturbed'
  <2>1. CASE Edit(Bot) \/ Replace(Bot) \/ Move(Bot)
    BY <1>1, <2>1, CliProcs DEF OperationStep
  <2>2. CASE \E e \in todo : Healthy(e) \/ DemoteFlat(e) \/ DemoteLater(e) \/ Advance(e)
    BY <2>2 DEF Healthy, DemoteFlat, DemoteLater, Advance, OutsideGovern
  <2>3. CASE Reload \/ TradeCycle \/ Survey \/ StoreBook \/ ListPaper \/ Restart \/ BotDies
    BY <2>3 DEF Reload, TradeCycle, Survey, StoreBook, ListPaper, Restart, BotDies
  <2> QED
    BY <1>3, <2>1, <2>2, <2>3 DEF BotStep
<1>4. ASSUME NEW s \in Symbols, HandEdit(s) PROVE disturbed \subseteq disturbed'
  BY <1>4 DEF HandEdit
<1>5. CASE UNCHANGED vars
  BY <1>5 DEF vars
<1> QED
  BY <1>1, <1>2, <1>3, <1>4, <1>5, CliProcs DEF Next

LEMMA ShapeOperation ==
    ASSUME Shape, NEW p \in Procs, OperationStep(p), p # Bot \/ Edit(p) \/ Replace(p) \/ Move(p)
    PROVE  OpShape'
<1>1. /\ TypeOK /\ OpShape /\ OpTyped /\ op[p] \in Operations /\ op[p].at # "idle" /\ Shaped(op[p])
      /\ file \in SUBSET Symbols
  BY TypedOp DEF Shape, OpShape, OpTyped, OperationStep, Edit, Replace, Move, Judge, Rejudge,
     SetApproved, TypeOK
<1>2. CASE Sets(p, Idle)
  BY <1>1, <1>2, IdleShaped, ShapeSets
<1>3. CASE Edit(p)
  <2> DEFINE r == [op[p] EXCEPT !.at = "replace", !.base = file]
  <2>1. ~(op[p].to = "live" /\ Symbol(p) \in file) => Shaped(r)
    BY <1>1, <1>3 DEF Edit, Shaped, PastBegin, Operations, Symbol
  <2> HIDE DEF r
  <2>2. Sets(p, r) /\ Shaped(r) => OpShape'
    BY <1>1, ShapeSets
  <2> QED
    BY <1>1, <1>2, <1>3, <2>1, <2>2, EditSets DEF r
<1>4. CASE Replace(p)
  <2> DEFINE r == [op[p] EXCEPT !.at = "finish", !.base = {}]
  <2>1. Shaped(r)
    BY <1>1, <1>4 DEF Replace, Shaped, PastBegin, Operations
  <2>2. Sets(p, r)
    BY <1>1, <1>4, ReplaceSets
  <2> HIDE DEF r
  <2> QED
    BY <1>1, <2>1, <2>2, ShapeSets
<1>5. CASE Move(p) \/ SetApproved(p)
  BY <1>1, <1>2, <1>5, StopSets DEF Move, SetApproved
<1>6. CASE Judge(p) /\ p # Bot
  <2> DEFINE r == [op[p] EXCEPT !.at = "move"]
             s == [op[p] EXCEPT !.at = "move", !.to = "rejected"]
  <2>1. Shaped(r) /\ Shaped(s)
    BY <1>1, <1>6 DEF Judge, Shaped, PastBegin, Operations, Walks
  <2>2. Sets(p, r) \/ Sets(p, s) \/ Sets(p, Idle)
    BY <1>1, <1>6, JudgeSets
  <2> HIDE DEF r, s
  <2> QED
    BY <1>1, <1>2, <2>1, <2>2, ShapeSets
<1>7. CASE Rejudge(p) /\ p # Bot
  <2> DEFINE r == [op[p] EXCEPT !.at = "move"]
  <2>1. Shaped(r)
    BY <1>1, <1>7 DEF Rejudge, Shaped, PastBegin, Operations, Walks
  <2>2. Sets(p, r) \/ Sets(p, Idle)
    BY <1>1, <1>7, GoesSets, StopSets DEF Rejudge, Steps
  <2> HIDE DEF r
  <2> QED
    BY <1>1, <1>2, <2>1, <2>2, ShapeSets
<1> QED
  BY <1>3, <1>4, <1>5, <1>6, <1>7 DEF OperationStep, Judge, Rejudge, SetApproved

LEMMA ShapeCommand ==
    ASSUME Shape, NEW p \in Cli, NewCommand(p)
    PROVE  OpShape'
<1>1. TypeOK /\ OpShape /\ p \in Procs
  BY CliProcs DEF Shape
<1>2. PICK c \in Candidates : \/ RecordBacktest(p, c) \/ ToPaper(p, c) \/ ToLive(p, c)
                              \/ Approve(p, c) \/ Reopen(p, c) \/ Demote(p, c)
  BY DEF NewCommand
<1>3. ASSUME NEW from, NEW at, NEW to, Sets(p, Begin(c, from, at, to)),
             \/ at = "approve"
             \/ at = "move" /\ <<from, to>> \in Walks
             \/ at = "judge" /\ from = "backtest_passed" /\ to = "paper"
             \/ at = "rejudge" /\ from = "rejected" /\ to = "backtest_passed"
             \/ at = "edit" /\ from = "paper" /\ to = "live"
             \/ at = "edit" /\ from \in Managed /\ to = "demoted"
      PROVE  OpShape'
  <2>1. Shaped(Begin(c, from, at, to))
    BY <1>3 DEF Shaped, Begin, PastBegin
  <2> QED
    BY <1>1, <1>3, <2>1, ShapeSets
<1>4. CASE RecordBacktest(p, c)
  <2>1. CASE op' = op
    BY <1>1, <2>1 DEF OpShape, Shaped
  <2>2. ASSUME NEW to \in {"candidate", "backtest_passed"},
               state'[c] \in {"candidate", "backtest_passed"} \ {to},
               Sets(p, Begin(c, state'[c], "move", to))
        PROVE  OpShape'
    BY <1>3, <2>2 DEF Walks
  <2> QED
    BY <1>1, <1>4, <2>1, <2>2, RecordBacktestSets
<1>5. CASE ToPaper(p, c)
  <2>1. state[c] = "backtest_passed"
    BY <1>5 DEF ToPaper
  <2>2. CASE holdout[c] = "pass"
    BY <1>1, <1>3, <1>5, <2>1, <2>2, CommandSets DEF Walks
  <2>3. CASE holdout[c] # "pass"
    BY <1>1, <1>3, <1>5, <2>1, <2>3, CommandSets
  <2> QED
    BY <2>2, <2>3
<1>6. CASE ToLive(p, c)
  BY <1>1, <1>3, <1>6, CommandSets DEF ToLive
<1>7. CASE Approve(p, c)
  BY <1>1, <1>3, <1>7, CommandSets
<1>8. CASE Reopen(p, c)
  BY <1>1, <1>3, <1>8, CommandSets DEF Reopen
<1>9. CASE Demote(p, c)
  <2>1. CASE state[c] \in Active \ Managed /\ Sets(p, Begin(c, state[c], "move", "demoted"))
    BY <1>3, <2>1 DEF Walks
  <2>2. CASE state[c] = "live" /\ Sets(p, Begin(c, state[c], "move", "demote_pending"))
    BY <1>3, <2>2 DEF Walks
  <2>3. CASE state[c] \in Managed /\ Sets(p, Begin(c, state[c], "edit", "demoted"))
    BY <1>3, <2>3
  <2> QED
    BY <1>1, <1>9, <2>1, <2>2, <2>3, CommandSets
<1> QED
  BY <1>2, <1>4, <1>5, <1>6, <1>7, <1>8, <1>9

LEMMA ShapeBot ==
    ASSUME Shape, NEW e \in todo, DemoteFlat(e) \/ DemoteLater(e) \/ Advance(e)
    PROVE  OpShape'
<1>1. TypeOK /\ OpShape /\ Bot \in Procs
  BY CliProcs DEF Shape
<1>2. ASSUME NEW from, NEW at, NEW to, Sets(Bot, Begin(e.c, from, at, to)),
             \/ at = "move" /\ <<from, to>> \in Walks
             \/ at = "edit" /\ from = "paper" /\ to = "live"
             \/ at = "edit" /\ from \in Managed /\ to = "demoted"
      PROVE  OpShape'
  <2>1. Shaped(Begin(e.c, from, at, to))
    BY <1>2 DEF Shaped, Begin, PastBegin
  <2> QED
    BY <1>1, <1>2, <2>1, ShapeSets
<1>3. op' = op => OpShape'
  BY <1>1 DEF OpShape, Shaped
<1>4. CASE DemoteFlat(e)
  <2>1. e.from \in Managed
    BY <1>4 DEF DemoteFlat, BotFree, Shape, TodoShape
  <2> QED
    BY <1>1, <1>2, <1>4, <2>1, BotSets
<1>5. CASE DemoteLater(e)
  <2>1. <<"live", "demote_pending">> \in Walks
    BY DEF Walks
  <2> QED
    BY <1>1, <1>2, <1>3, <1>5, <2>1, BotSets
<1>6. CASE Advance(e)
  <2>1. e.from = "paper" /\ <<"paper", "retired">> \in Walks
    BY <1>6 DEF Advance, BotFree, Shape, TodoShape, Walks
  <2> QED
    BY <1>1, <1>2, <1>3, <1>6, <2>1, BotSets
<1> QED
  BY <1>4, <1>5, <1>6

LEMMA ShapeRest ==
    ASSUME Shape,
           \/ Reload \/ TradeCycle \/ Survey \/ StoreBook \/ ListPaper \/ Restart \/ BotDies \/ UNCHANGED vars
           \/ \E e \in todo : Healthy(e)
           \/ \E s \in Symbols : HandEdit(s)
           \/ \E p \in Cli : CliDies(p)
    PROVE  OpShape'
<1>1. TypeOK /\ OpShape /\ OpTyped
  BY TypedOp DEF Shape
<1>2. op' = op => OpShape'
  BY <1>1 DEF OpShape, Shaped
<1>3. ASSUME NEW p \in Procs, Sets(p, Idle) PROVE OpShape'
  BY <1>1, <1>3, IdleShaped, ShapeSets
<1> QED
  BY <1>1, <1>2, <1>3, StopSets, CliProcs DEF Reload, TradeCycle, Survey, StoreBook, ListPaper, Restart, BotDies,
     Healthy, HandEdit, CliDies, OutsideGovern, vars

\* The command line touches neither the bot's list nor its operation.
LEMMA CliLeavesBot ==
    ASSUME TypeOK, NEW p \in Cli, OperationStep(p) \/ NewCommand(p) \/ CliDies(p)
    PROVE  op'[Bot] = op[Bot] /\ todo' = todo /\ phase' = phase /\ traded' = traded /\ mem' = mem
<1>1. p # Bot /\ p \in Procs /\ Bot \in Procs
  BY CliProcs
<1>2. op'[Bot] = op[Bot]
  BY <1>1 DEF TypeOK, OperationStep, Edit, Replace, Move, Judge, Rejudge, SetApproved, NewCommand,
     RecordBacktest, ToPaper, ToLive, GoesLive, Approve, Reopen, Demote, CliDies, Stops, Goes, Verdicts
<1> QED
  BY <1>1, <1>2 DEF OperationStep, Edit, Replace, Move, Judge, Rejudge, SetApproved, NewCommand,
     RecordBacktest, ToPaper, ToLive, Approve, Reopen, Demote, CliDies, OutsideTable, botvars

LEMMA TodoNext == Shape /\ [Next]_vars => TodoShape'
<1> SUFFICES ASSUME Shape, [Next]_vars PROVE TodoShape'
  OBVIOUS
<1> USE DEF TodoShape
<1>1. TypeOK /\ TodoShape /\ Bot \in Procs
  BY CliProcs DEF Shape
<1>2. CASE Survey \/ ListPaper
  BY <1>1, <1>2 DEF Survey, ListPaper, Snapshot, InState
<1>3. CASE BotDies \/ Restart
  BY <1>1, <1>3 DEF BotDies, Restart, Stops, TypeOK
<1>4. CASE Reload \/ TradeCycle \/ StoreBook
  BY <1>1, <1>4 DEF Reload, TradeCycle, StoreBook, BotFree
<1>5. ASSUME NEW e \in todo, Healthy(e) \/ DemoteFlat(e) \/ DemoteLater(e) \/ Advance(e)
      PROVE  TodoShape'
  BY <1>1, <1>5 DEF Healthy, DemoteFlat, DemoteLater, Advance, BotFree, OutsideGovern
<1>6. CASE Edit(Bot) \/ Replace(Bot) \/ Move(Bot)
  <2>1. phase \in {"govern", "paper"}
    BY <1>1, <1>6 DEF Edit, Replace, Move, Idle
  <2> QED
    BY <1>1, <1>6, <2>1 DEF Edit, Replace, Move, botvars
<1>7. ASSUME NEW p \in Cli, OperationStep(p) \/ NewCommand(p) \/ CliDies(p) PROVE TodoShape'
  BY <1>1, <1>7, CliLeavesBot
<1>8. ASSUME NEW s \in Symbols, HandEdit(s) PROVE TodoShape'
  BY <1>1, <1>8 DEF HandEdit, botvars
<1>9. CASE UNCHANGED vars
  BY <1>1, <1>9 DEF vars, botvars
<1> QED
  BY <1>2, <1>3, <1>4, <1>5, <1>6, <1>7, <1>8, <1>9 DEF Next, BotStep

LEMMA ShapeNext == Shape /\ [Next]_vars => Shape'
<1> SUFFICES ASSUME Shape, [Next]_vars PROVE OpShape'
  BY TypeNext, TodoNext DEF Shape
<1>1. CASE BotStep
  BY <1>1, ShapeOperation, ShapeBot, ShapeRest, CliProcs DEF BotStep, OperationStep
<1>2. ASSUME NEW p \in Cli, OperationStep(p) \/ NewCommand(p) PROVE OpShape'
  BY <1>2, ShapeOperation, ShapeCommand, CliProcs
<1> QED
  BY <1>1, <1>2, ShapeRest DEF Next

-----------------------------------------------------------------------------
(***************************************************************************)
(* Which steps touch an operation that is past config.json: the one that   *)
(* gets it there, the one that finishes it, and a death.  The others are   *)
(* quiet.                                                                  *)
(***************************************************************************)

Quiet(p) == /\ \A q \in Procs \ {p} : op'[q] = op[q]
            /\ op'[p] = op[p] \/ (op[p].at # "finish" /\ op'[p].at # "finish")

LEMMA QuietSets ==
    ASSUME NEW p \in Procs, NEW r, Sets(p, r), r.at # "finish", op[p].at # "finish"
    PROVE  Quiet(p)
BY DEF Sets, Quiet

LEMMA QuietOperation ==
    ASSUME TypeOK, NEW p \in Procs, Edit(p) \/ ((Judge(p) \/ Rejudge(p)) /\ p # Bot) \/ SetApproved(p)
    PROVE  Quiet(p)
<1>1. OpTyped /\ op[p] \in Operations /\ Idle.at # "finish" /\ op[p].at # "finish" /\ op[p].at # "idle"
  BY TypedOp, IdleTyped DEF OpTyped, Edit, Judge, Rejudge, SetApproved
<1>2. Sets(p, Idle) => Quiet(p)
  BY <1>1, QuietSets
<1>3. CASE Edit(p)
  <2>1. [op[p] EXCEPT !.at = "replace", !.base = file].at # "finish"
    BY <1>1 DEF Operations
  <2> QED
    BY <1>1, <1>2, <1>3, <2>1, EditSets, QuietSets
<1>4. CASE Judge(p) /\ p # Bot
  <2>1. [op[p] EXCEPT !.at = "move"].at # "finish" /\ [op[p] EXCEPT !.at = "move", !.to = "rejected"].at # "finish"
    BY <1>1 DEF Operations
  <2> QED
    BY <1>1, <1>2, <1>4, <2>1, JudgeSets, QuietSets
<1>5. CASE Rejudge(p)
  <2>1. Sets(p, Idle) \/ Sets(p, [op[p] EXCEPT !.at = "move"])
    BY <1>1, <1>5, GoesSets, StopSets DEF Rejudge, Steps, BotSteps
  <2>2. [op[p] EXCEPT !.at = "move"].at # "finish"
    BY <1>1 DEF Operations
  <2> QED
    BY <1>1, <1>2, <2>1, <2>2, QuietSets
<1>6. CASE SetApproved(p)
  BY <1>1, <1>2, <1>6, StopSets DEF SetApproved
<1> QED
  BY <1>3, <1>4, <1>5, <1>6

LEMMA QuietCommand ==
    ASSUME TypeOK, NEW p \in Cli, NewCommand(p)
    PROVE  Quiet(p)
<1>1. PICK c \in Candidates : \/ RecordBacktest(p, c) \/ ToPaper(p, c) \/ ToLive(p, c)
                              \/ Approve(p, c) \/ Reopen(p, c) \/ Demote(p, c)
  BY DEF NewCommand
<1>2. p \in Procs /\ op[p].at # "finish"
  BY <1>1, CliProcs, IdleTyped DEF RecordBacktest, ToPaper, ToLive, Approve, Reopen, Demote, Command
<1>3. ASSUME NEW from, NEW at, NEW to, Sets(p, Begin(c, from, at, to)), at # "finish" PROVE Quiet(p)
  <2>1. Begin(c, from, at, to).at # "finish"
    BY <1>3 DEF Begin
  <2> QED
    BY <1>2, <1>3, <2>1, QuietSets
<1>4. CASE RecordBacktest(p, c)
  <2>1. op' = op => Quiet(p)
    BY DEF Quiet
  <2> QED
    BY <1>3, <1>4, <2>1, RecordBacktestSets
<1>5. CASE ToPaper(p, c)
  <2>1. PICK at \in {"move", "judge"} : Sets(p, Begin(c, state[c], at, "paper"))
    BY <1>5, CommandSets
  <2> QED
    BY <1>3, <2>1
<1>6. CASE ToLive(p, c)
  BY <1>3, <1>6, CommandSets
<1>7. CASE Approve(p, c)
  BY <1>3, <1>7, CommandSets
<1>8. CASE Reopen(p, c)
  BY <1>3, <1>8, CommandSets
<1>9. CASE Demote(p, c)
  BY <1>3, <1>9, CommandSets
<1> QED
  BY <1>1, <1>4, <1>5, <1>6, <1>7, <1>8, <1>9

LEMMA QuietBot ==
    ASSUME TypeOK, NEW e \in todo, DemoteFlat(e) \/ DemoteLater(e) \/ Advance(e)
    PROVE  Quiet(Bot)
<1>1. Bot \in Procs /\ op[Bot].at # "finish"
  BY CliProcs, IdleTyped DEF DemoteFlat, DemoteLater, Advance, BotFree
<1>2. ASSUME NEW from, NEW at, NEW to, Sets(Bot, Begin(e.c, from, at, to)), at # "finish" PROVE Quiet(Bot)
  <2>1. Begin(e.c, from, at, to).at # "finish"
    BY <1>2 DEF Begin
  <2> QED
    BY <1>1, <1>2, <2>1, QuietSets
<1>3. op' = op => Quiet(Bot)
  BY DEF Quiet
<1> QED
  BY <1>2, <1>3, BotSets

-----------------------------------------------------------------------------
(***************************************************************************)
(* An operation past config.json is alone with its candidate               *)
(***************************************************************************)

LEMMA AloneWhenQuiet ==
    ASSUME OneFinish, disturbed \subseteq disturbed', NEW p \in Procs, Quiet(p),
           \A c \in Candidates : state'[c] = state[c] \/ \A q \in Procs : ~Finishing(q, c)
    PROVE  OneFinish'
<1> SUFFICES ASSUME NEW a \in Procs, NEW b \in Procs, NEW c \in Candidates,
                    Finishing(a, c)', SymbolOf[c] \notin disturbed'
             PROVE  state'[c] = op'[a].from /\ (Finishing(b, c)' => a = b)
  BY DEF OneFinish
<1>1. \A q \in Procs : Finishing(q, c)' => Finishing(q, c) /\ op'[q] = op[q]
  BY DEF Quiet, Finishing
<1> QED
  BY <1>1 DEF OneFinish

LEMMA AloneAtReplace ==
    ASSUME Shape, OneFinish, disturbed \subseteq disturbed', NEW p \in Procs, Replace(p)
    PROVE  OneFinish'
<1>1. /\ \A q \in Procs \ {p} : op'[q] = op[q]
      /\ op'[p].c = op[p].c /\ op'[p].from = op[p].from /\ op'[p].at = "finish"
      /\ op[p].at = "replace" /\ op[p] \in Operations
  <2>1. TypeOK /\ op[p].at = "replace" /\ op[p] \in Operations
    BY TypedOp DEF Shape, OpTyped, Replace
  <2>2. Sets(p, [op[p] EXCEPT !.at = "finish", !.base = {}])
    BY <2>1, ReplaceSets
  <2> QED
    BY <2>1, <2>2 DEF Sets, Operations
<1> SUFFICES ASSUME NEW a \in Procs, NEW b \in Procs, NEW c \in Candidates,
                    Finishing(a, c)', SymbolOf[c] \notin disturbed'
             PROVE  state'[c] = op'[a].from /\ (Finishing(b, c)' => a = b)
  BY DEF OneFinish
<1>2. state' = state
  BY DEF Replace, table
<1>3. c = op[p].c => ~Stale(p)
  BY DEF Replace, Symbol
<1>4. CASE a = p
  <2>1. c = op[p].c /\ state[c] = op[p].from /\ \A q \in Procs \ {p} : ~Finishing(q, c)
    BY <1>1, <1>3, <1>4 DEF Finishing, Stale
  <2> QED
    BY <1>1, <1>2, <1>4, <2>1 DEF Finishing
<1>5. CASE a # p
  <2>1. Finishing(a, c) /\ op'[a] = op[a]
    BY <1>1, <1>5 DEF Finishing
  <2>2. c # op[p].c
    BY <1>3, <1>5, <2>1 DEF Stale, Finishing
  <2>3. Finishing(b, c)' => Finishing(b, c)
    BY <1>1, <2>2 DEF Finishing
  <2> QED
    BY <1>2, <2>1, <2>3 DEF OneFinish
<1> QED
  BY <1>4, <1>5

\* The step that ends an operation, and a death, leave the others as they are.
LEMMA AloneAfter ==
    ASSUME TypeOK, OneFinish, disturbed \subseteq disturbed', NEW p \in Procs, Sets(p, Idle),
           \/ state' = state
           \/ Move(p)
    PROVE  OneFinish'
<1> SUFFICES ASSUME NEW a \in Procs, NEW b \in Procs, NEW c \in Candidates,
                    Finishing(a, c)', SymbolOf[c] \notin disturbed'
             PROVE  state'[c] = op'[a].from /\ (Finishing(b, c)' => a = b)
  BY DEF OneFinish
<1>1. \A q \in Procs : Finishing(q, c)' => Finishing(q, c) /\ op'[q] = op[q] /\ q # p
  BY IdleTyped DEF Sets, Finishing
<1>2. state'[c] = state[c]
  <2>1. CASE Move(p) /\ op[p].c = c
    BY <1>1, <2>1 DEF Move, Stale, Symbol, Finishing
  <2>2. CASE Move(p) /\ op[p].c # c
    BY <2>2 DEF Move, TypeOK
  <2> QED
    BY <2>1, <2>2
<1> QED
  BY <1>1, <1>2 DEF OneFinish

LEMMA OneFinishNext == Shape /\ OneFinish /\ [Next]_vars => OneFinish'
<1> SUFFICES ASSUME Shape, OneFinish, [Next]_vars PROVE OneFinish'
  OBVIOUS
<1>1. TypeOK /\ OpTyped /\ disturbed \subseteq disturbed' /\ Bot \in Procs
  BY DisturbedGrows, TypedOp, CliProcs DEF Shape
<1>2. ASSUME NEW p \in Procs, OperationStep(p), p # Bot \/ Edit(p) \/ Replace(p) \/ Move(p) PROVE OneFinish'
  <2>1. CASE Replace(p)
    BY <1>1, <2>1, AloneAtReplace
  <2>2. CASE Move(p)
    BY <1>1, <2>2, StopSets, AloneAfter DEF Move
  <2>3. CASE ~Replace(p) /\ ~Move(p)
    <3>1. Quiet(p) /\ state' = state
      BY <1>1, <1>2, <2>3, QuietOperation DEF OperationStep, Edit, Judge, Rejudge, SetApproved, table
    <3> QED
      BY <1>1, <3>1, AloneWhenQuiet
  <2> QED
    BY <2>1, <2>2, <2>3
<1>3. ASSUME NEW p \in Cli, NewCommand(p) PROVE OneFinish'
  <2>1. Quiet(p) /\ p \in Procs
    BY <1>1, <1>3, QuietCommand, CliProcs
  <2>2. ASSUME NEW c \in Candidates, state'[c] # state[c] PROVE state[c] = "absent"
    <3>1. PICK d \in Candidates : RecordBacktest(p, d)
      BY <1>3, <2>2 DEF NewCommand, ToPaper, ToLive, Approve, Reopen, Demote, table
    <3> QED
      BY <1>1, <2>2, <3>1, RecordBacktestSets
  <2>3. ASSUME NEW c \in Candidates, state[c] = "absent", SymbolOf[c] \notin disturbed
        PROVE  \A q \in Procs : ~Finishing(q, c)
    BY <2>3 DEF OneFinish, Finishing, Shape, OpShape, Shaped, PastBegin, Managed
  <2> SUFFICES ASSUME NEW a \in Procs, NEW b \in Procs, NEW c \in Candidates,
                      Finishing(a, c)', SymbolOf[c] \notin disturbed'
               PROVE  state'[c] = op'[a].from /\ (Finishing(b, c)' => a = b)
    BY DEF OneFinish
  <2>4. \A q \in Procs : Finishing(q, c)' => Finishing(q, c) /\ op'[q] = op[q]
    BY <2>1 DEF Quiet, Finishing
  <2>5. state'[c] = state[c]
    BY <1>1, <2>2, <2>3, <2>4
  <2> QED
    BY <1>1, <2>4, <2>5 DEF OneFinish
<1>4. ASSUME NEW p \in Procs, Sets(p, Idle), state' = state PROVE OneFinish'
  BY <1>1, <1>4, AloneAfter
<1>5. CASE BotDies \/ \E p \in Cli : CliDies(p)
  BY <1>1, <1>4, <1>5, StopSets, CliProcs DEF BotDies, CliDies, table
<1>6. ASSUME NEW e \in todo, DemoteFlat(e) \/ DemoteLater(e) \/ Advance(e) PROVE OneFinish'
  <2>1. Quiet(Bot) /\ state' = state
    BY <1>1, <1>6, QuietBot DEF DemoteFlat, DemoteLater, Advance, OutsideGovern, table
  <2> QED
    BY <1>1, <2>1, AloneWhenQuiet
<1>7. CASE op' = op /\ state' = state
  <2>1. Quiet(Bot)
    BY <1>7 DEF Quiet
  <2> QED
    BY <1>1, <1>7, <2>1, AloneWhenQuiet
<1>8. CASE \/ Reload \/ TradeCycle \/ Survey \/ StoreBook \/ ListPaper \/ Restart \/ UNCHANGED vars
           \/ \E e \in todo : Healthy(e)
           \/ \E s \in Symbols : HandEdit(s)
  BY <1>7, <1>8 DEF Reload, TradeCycle, Survey, StoreBook, ListPaper, Restart, Healthy, HandEdit, OutsideGovern,
     table, vars
<1> QED
  BY <1>1, <1>2, <1>3, <1>5, <1>6, <1>8, CliProcs DEF Next, BotStep, OperationStep

-----------------------------------------------------------------------------
(***************************************************************************)
(* The state of a candidate with the operations past config.json counted   *)
(* as done, on a symbol nothing disturbed                                  *)
(***************************************************************************)

LEMMA SettledIs ==
    ASSUME OneFinish, NEW c \in Candidates, SymbolOf[c] \notin disturbed
    PROVE  /\ \A q \in Procs : Finishing(q, c) => Settled(c) = op[q].to
           /\ (\A q \in Procs : ~Finishing(q, c)) => Settled(c) = state[c]
<1>1. CASE \E q \in Procs : Finishing(q, c)
  <2>1. PICK p \in Procs : Finishing(p, c) /\ Settled(c) = op[p].to
    BY <1>1 DEF Settled, Finishing
  <2>2. \A q \in Procs : Finishing(q, c) => q = p
    BY <2>1 DEF OneFinish
  <2> QED
    BY <2>1, <2>2
<1>2. CASE \A q \in Procs : ~Finishing(q, c)
  BY <1>2 DEF Settled, Finishing
<1> QED
  BY <1>1, <1>2

LEMMA SettledIsNext ==
    ASSUME OneFinish', NEW c \in Candidates, SymbolOf[c] \notin disturbed'
    PROVE  /\ \A q \in Procs : Finishing(q, c)' => Settled(c)' = op'[q].to
           /\ (\A q \in Procs : ~Finishing(q, c)') => Settled(c)' = state'[c]
<1>1. CASE \E q \in Procs : Finishing(q, c)'
  <2>1. PICK p \in Procs : Finishing(p, c)' /\ Settled(c)' = op'[p].to
    BY <1>1 DEF Settled, Finishing
  <2>2. \A q \in Procs : Finishing(q, c)' => q = p
    BY <2>1 DEF OneFinish
  <2> QED
    BY <2>1, <2>2
<1>2. CASE \A q \in Procs : ~Finishing(q, c)'
  BY <1>2 DEF Settled, Finishing
<1> QED
  BY <1>1, <1>2

LEMMA SettledKept ==
    ASSUME OneFinish, OneFinish', disturbed \subseteq disturbed',
           NEW c \in Candidates, SymbolOf[c] \notin disturbed', state'[c] = state[c],
           \A q \in Procs : \/ ~Finishing(q, c) /\ ~Finishing(q, c)'
                            \/ op'[q] = op[q]
    PROVE  Settled(c)' = Settled(c)
<1>1. SymbolOf[c] \notin disturbed
  OBVIOUS
<1>2. CASE \E q \in Procs : Finishing(q, c)
  <2>1. PICK q \in Procs : Finishing(q, c) /\ Finishing(q, c)' /\ op'[q] = op[q]
    BY <1>2 DEF Finishing
  <2> QED
    BY <1>1, <2>1, SettledIs, SettledIsNext
<1>3. CASE \A q \in Procs : ~Finishing(q, c)
  <2>1. \A q \in Procs : ~Finishing(q, c)'
    BY <1>3 DEF Finishing
  <2> QED
    BY <1>1, <1>3, <2>1, SettledIs, SettledIsNext
<1> QED
  BY <1>2, <1>3

\* Where nothing but the bot's trading happens, Lifecycle's Trade allows it.
LEMMA TradePromise ==
    ASSUME NEW s \in Symbols, s \in Open' => s \in file, s \in file' <=> s \in file,
           \A c \in On(s) : Settled(c)' = Settled(c) /\ (c \in reopened' <=> c \in reopened)
    PROVE  L!Promised(s)
BY DEF L!Promised, L!Trade, L!Unmoved, L!SameToken, L!On, On

LEMMA QuietPromise ==
    ASSUME OneFinish, OneFinish', disturbed \subseteq disturbed', NEW p \in Procs, Quiet(p),
           UNCHANGED <<state, reopened>>, NEW s \in Symbols \ disturbed',
           s \in Open' => s \in file, s \in file' <=> s \in file
    PROVE  L!Promised(s)
<1>1. ASSUME NEW c \in On(s) PROVE Settled(c)' = Settled(c)
  <2>1. c \in Candidates /\ SymbolOf[c] \notin disturbed'
    BY <1>1 DEF On
  <2>2. \A q \in Procs : op'[q] = op[q] \/ (~Finishing(q, c) /\ ~Finishing(q, c)')
    BY DEF Quiet, Finishing
  <2> QED
    BY <2>1, <2>2, SettledKept
<1> QED
  BY <1>1, TradePromise

-----------------------------------------------------------------------------
(***************************************************************************)
(* Lifecycle's promise about a symbol, in the pipeline's terms             *)
(***************************************************************************)

SymbolInStep(s) == (\E c \in On(s) : Settled(c) \in Managed) \/ s \in Open => s \in file
SymbolSingle(s) == \A c, d \in On(s) : Settled(c) \in Managed /\ Settled(d) \in Managed => c = d
Calm == \A s \in Symbols \ disturbed : SymbolInStep(s) /\ SymbolSingle(s)

LEMMA CalmKept ==
    ASSUME NEW s \in Symbols, SymbolInStep(s), SymbolSingle(s), L!Promised(s)
    PROVE  SymbolInStep(s)' /\ SymbolSingle(s)'
<1> USE DEF SymbolInStep, SymbolSingle, On, L!On, L!Managed
<1>1. CASE L!HandEdit(s)
  BY <1>1 DEF L!HandEdit, L!Unmoved, L!SameHolding, L!IsManaged, Managed
<1>2. CASE L!Trade(s)
  BY <1>2 DEF L!Trade, L!Unmoved, L!SameToken
<1>3. ASSUME NEW c \in L!On(s), L!Walk(s, c) PROVE SymbolInStep(s)' /\ SymbolSingle(s)'
  <2>1. Settled(c)' \in Managed => Settled(c) \in Managed
    BY <1>3 DEF L!Walk, L!Walks, Managed, L!Active
  <2>2. \A d \in On(s) : Settled(d)' \in Managed => Settled(d) \in Managed
    BY <1>3, <2>1 DEF L!Walk, L!Unmoved
  <2> QED
    BY <1>3, <2>2 DEF L!Walk, L!SameToken, L!SameHolding
<1>4. ASSUME NEW c \in L!On(s), L!GoLive(s, c) PROVE SymbolInStep(s)' /\ SymbolSingle(s)'
  <2>1. \A d \in On(s) \ {c} : Settled(d)' \notin Managed
    BY <1>4 DEF L!GoLive, L!Unmoved
  <2> QED
    BY <1>4, <2>1 DEF L!GoLive
<1>5. ASSUME NEW c \in L!On(s), L!Leave(s, c) PROVE SymbolInStep(s)' /\ SymbolSingle(s)'
  <2>1. Settled(c)' \notin Managed
    BY <1>5 DEF L!Leave, Managed
  <2>2. \A d \in On(s) \ {c} : Settled(d)' \notin Managed
    BY <1>5 DEF L!Leave, L!Unmoved, Managed
  <2> QED
    BY <1>5, <2>1, <2>2 DEF L!Leave, L!SameHolding
<1> QED
  BY <1>1, <1>2, <1>3, <1>4, <1>5 DEF L!Promised

\* What the refinement mapping makes of Lifecycle's types.
Mapped == Open \subseteq Symbols /\ disturbed \subseteq Symbols

LEMMA CalmMeans == Mapped /\ Calm => ConfigInStep
BY CandidateAssumption
DEF Mapped, Calm, SymbolInStep, SymbolSingle, ConfigInStep, L!InStep, L!OnePerSymbol, L!IsManaged, L!On,
    L!Managed, On, Managed

-----------------------------------------------------------------------------
(***************************************************************************)
(* Held symbols: flat where they leave, in the cycle's set and in the bot's *)
(***************************************************************************)

IInv == Shape /\ OneFinish /\ Calm /\ FlatLeaving /\ CycleHeld /\ NoOrphan

LEMMA HeldInFile == IInv => Open \ disturbed \subseteq file
BY DEF IInv, Shape, TypeOK, Calm, SymbolInStep, Open

\* The symbols on the way out of config.json.
Leaves(p) == op[p].at \in PastBegin /\ op[p].to = "demoted"

LEMMA FlatAfter ==
    ASSUME FlatLeaving, Open' \ disturbed' \subseteq Open \ disturbed, NEW p \in Procs,
           \A q \in Procs \ {p} : op'[q] = op[q],
           \/ ~Leaves(p)'
           \/ op'[p].c = op[p].c /\ Leaves(p)
           \/ SymbolOf[op'[p].c] \notin Open' \ disturbed'
    PROVE  FlatLeaving'
<1> SUFFICES ASSUME NEW q \in Procs, Leaves(q)' PROVE Symbol(q)' \notin Open' \ disturbed'
  BY DEF FlatLeaving, Leaves
<1>1. CASE q = p
  BY <1>1 DEF FlatLeaving, Leaves, Symbol
<1>2. CASE q # p
  BY <1>2 DEF FlatLeaving, Leaves, Symbol
<1> QED
  BY <1>1, <1>2

LEMMA FlatOperation ==
    ASSUME IInv, disturbed \subseteq disturbed', NEW p \in Procs, OperationStep(p),
           p # Bot \/ Edit(p) \/ Replace(p) \/ Move(p)
    PROVE  FlatLeaving'
<1>1. /\ TypeOK /\ OpTyped /\ FlatLeaving /\ op[p] \in Operations /\ ~(Idle.at \in PastBegin)
      /\ Open' = Open
  BY TypedOp, IdleTyped DEF IInv, Shape, OpTyped, PastBegin, OperationStep, Edit, Replace, Move, Judge, Rejudge,
     SetApproved, OutsideTable, Open
<1>2. ASSUME NEW r, Sets(p, r), r.at \in PastBegin => r.c = op[p].c /\ r.to = op[p].to /\ op[p].at \in PastBegin
      PROVE  FlatLeaving'
  BY <1>1, <1>2, FlatAfter DEF Sets, Leaves
<1>3. CASE Sets(p, Idle)
  BY <1>1, <1>2, <1>3
<1>4. CASE Edit(p)
  <2> DEFINE r == [op[p] EXCEPT !.at = "replace", !.base = file]
  <2>1. r.c = op[p].c /\ r.to = op[p].to /\ op[p].at \in PastBegin
    BY <1>1, <1>4 DEF Edit, PastBegin, Operations
  <2>2. Sets(p, Idle) \/ Sets(p, r)
    BY <1>1, <1>4, EditSets
  <2> HIDE DEF r
  <2> QED
    BY <1>2, <1>3, <2>1, <2>2
<1>5. CASE Replace(p)
  <2> DEFINE r == [op[p] EXCEPT !.at = "finish", !.base = {}]
  <2>1. r.c = op[p].c /\ r.to = op[p].to /\ op[p].at \in PastBegin
    BY <1>1, <1>5 DEF Replace, PastBegin, Operations
  <2>2. Sets(p, r)
    BY <1>1, <1>5, ReplaceSets
  <2> HIDE DEF r
  <2> QED
    BY <1>2, <2>1, <2>2
<1>6. CASE Move(p) \/ SetApproved(p)
  BY <1>1, <1>3, <1>6, StopSets DEF Move, SetApproved
<1>7. CASE (Judge(p) \/ Rejudge(p)) /\ p # Bot
  <2> DEFINE r == [op[p] EXCEPT !.at = "move"]
             s == [op[p] EXCEPT !.at = "move", !.to = "rejected"]
  <2>1. Sets(p, r) \/ Sets(p, s) \/ Sets(p, Idle)
    <3>1. CASE Judge(p)
      BY <1>1, <1>7, <3>1, JudgeSets
    <3>2. CASE Rejudge(p)
      BY <1>1, <1>7, <3>2, GoesSets, StopSets DEF Rejudge, Steps
    <3> QED
      BY <1>7, <3>1, <3>2
  <2>2. r.at \notin PastBegin /\ s.at \notin PastBegin
    BY <1>1 DEF Operations, PastBegin
  <2> HIDE DEF r, s
  <2> QED
    BY <1>2, <1>3, <2>1, <2>2
<1> QED
  BY <1>4, <1>5, <1>6, <1>7 DEF OperationStep, Judge, Rejudge, SetApproved

LEMMA FlatCommand ==
    ASSUME IInv, disturbed \subseteq disturbed', NEW p \in Cli, NewCommand(p)
    PROVE  FlatLeaving'
<1>1. PICK c \in Candidates : \/ RecordBacktest(p, c) \/ ToPaper(p, c) \/ ToLive(p, c)
                              \/ Approve(p, c) \/ Reopen(p, c) \/ Demote(p, c)
  BY DEF NewCommand
<1>2. TypeOK /\ FlatLeaving /\ p \in Procs /\ Open' = Open
  BY <1>1, CliProcs DEF IInv, Shape, RecordBacktest, ToPaper, ToLive, Approve, Reopen, Demote, OutsideTable,
     Open
<1>3. ASSUME NEW from, NEW at, NEW to, Sets(p, Begin(c, from, at, to)),
             at \in PastBegin => to # "demoted" \/ Flat(c)
      PROVE  FlatLeaving'
  <2>1. op'[p].c = c /\ op'[p].to = to /\ op'[p].at = at
    BY <1>3 DEF Sets, Begin
  <2> QED
    BY <1>2, <1>3, <2>1, FlatAfter DEF Sets, Leaves, Flat, Open
<1>4. CASE RecordBacktest(p, c)
  <2>1. op' = op => FlatLeaving'
    BY <1>2 DEF FlatLeaving, Symbol
  <2> QED
    BY <1>2, <1>3, <1>4, <2>1, RecordBacktestSets DEF PastBegin
<1>5. CASE ToPaper(p, c)
  BY <1>2, <1>3, <1>5, CommandSets DEF PastBegin
<1>6. CASE ToLive(p, c)
  BY <1>2, <1>3, <1>6, CommandSets
<1>7. CASE Approve(p, c)
  BY <1>2, <1>3, <1>7, CommandSets DEF PastBegin
<1>8. CASE Reopen(p, c)
  BY <1>2, <1>3, <1>8, CommandSets DEF PastBegin
<1>9. CASE Demote(p, c)
  BY <1>2, <1>3, <1>9, CommandSets DEF PastBegin
<1> QED
  BY <1>1, <1>4, <1>5, <1>6, <1>7, <1>8, <1>9

LEMMA FlatBot ==
    ASSUME IInv, disturbed \subseteq disturbed', NEW e \in todo,
           DemoteFlat(e) \/ DemoteLater(e) \/ Advance(e)
    PROVE  FlatLeaving'
<1>1. TypeOK /\ FlatLeaving /\ Bot \in Procs /\ Open' \subseteq Open
  BY CliProcs DEF IInv, Shape, DemoteFlat, DemoteLater, Advance, OutsideGovern, Open
<1>2. ASSUME NEW from, NEW at, NEW to, Sets(Bot, Begin(e.c, from, at, to)),
             at \in PastBegin => to # "demoted" \/ SymbolOf[e.c] \notin Open' \ disturbed'
      PROVE  FlatLeaving'
  <2>1. op'[Bot].c = e.c /\ op'[Bot].to = to /\ op'[Bot].at = at
    BY <1>2 DEF Sets, Begin
  <2> QED
    BY <1>1, <1>2, <2>1, FlatAfter DEF Sets, Leaves
<1>3. CASE op' = op
  BY <1>1, <1>3 DEF FlatLeaving, Symbol
<1>4. CASE DemoteFlat(e)
  <2>1. phase = "govern" /\ Open \ disturbed \subseteq traded /\ e.c \in Candidates
    BY <1>1, <1>4, BotSets DEF DemoteFlat, BotFree, IInv, CycleHeld
  <2>2. SymbolOf[e.c] \notin Open' \ disturbed'
    BY <1>4, <2>1 DEF DemoteFlat, Holding, OutsideGovern, Open
  <2> QED
    BY <1>1, <1>2, <1>4, <2>2, BotSets
<1>5. CASE DemoteLater(e)
  BY <1>1, <1>2, <1>3, <1>5, BotSets DEF PastBegin
<1>6. CASE Advance(e)
  BY <1>1, <1>2, <1>3, <1>6, BotSets DEF PastBegin
<1> QED
  BY <1>4, <1>5, <1>6

LEMMA FlatRest ==
    ASSUME IInv, disturbed \subseteq disturbed',
           \/ Reload \/ TradeCycle \/ Survey \/ StoreBook \/ ListPaper \/ Restart \/ BotDies \/ UNCHANGED vars
           \/ \E e \in todo : Healthy(e)
           \/ \E s \in Symbols : HandEdit(s)
           \/ \E p \in Cli : CliDies(p)
    PROVE  FlatLeaving'
<1>1. TypeOK /\ FlatLeaving /\ OpTyped
  BY TypedOp DEF IInv, Shape
<1>2. CASE op' = op /\ Open' = Open
  BY <1>1, <1>2 DEF FlatLeaving, Symbol
<1>3. ASSUME NEW p \in Procs, Sets(p, Idle), Open' \ disturbed' \subseteq Open \ disturbed
      PROVE  FlatLeaving'
  BY <1>1, <1>3, IdleTyped, FlatAfter DEF Sets, Leaves, PastBegin
<1>4. CASE TradeCycle
  <2>1. op' = op /\ op[Bot] = Idle /\ Open = held /\ Open' = held'
    BY <1>1, <1>4 DEF TradeCycle, BotFree, TypeOK, Open
  <2> SUFFICES ASSUME NEW p \in Procs, Leaves(p) PROVE Symbol(p) \notin Open' \ disturbed'
    BY <2>1 DEF FlatLeaving, Leaves, Symbol
  <2>2. p \in Cli /\ Symbol(p) \in LeavingFlat
    BY <2>1, IdleTyped DEF Leaves, PastBegin, LeavingFlat, Procs
  <2>3. Symbol(p) \notin Open \ disturbed
    BY <1>1 DEF FlatLeaving, Leaves
  <2> QED
    BY <1>4, <2>1, <2>2, <2>3 DEF TradeCycle
<1>5. CASE BotDies \/ \E p \in Cli : CliDies(p)
  BY <1>1, <1>3, <1>5, StopSets, CliProcs DEF BotDies, CliDies, Open
<1> QED
  BY <1>2, <1>4, <1>5 DEF Reload, Survey, StoreBook, ListPaper, Restart, Healthy, HandEdit, OutsideGovern,
     vars, Open

LEMMA HoldingNext == IInv /\ [Next]_vars => CycleHeld' /\ NoOrphan'
<1> SUFFICES ASSUME IInv, [Next]_vars PROVE CycleHeld' /\ NoOrphan'
  OBVIOUS
<1> USE DEF CycleHeld, NoOrphan
<1>1. /\ disturbed \subseteq disturbed' /\ TypeOK /\ CycleHeld /\ NoOrphan /\ TodoShape /\ FlatLeaving
      /\ Open \ disturbed \subseteq file /\ (phase # "govern" => Open = held)
  BY DisturbedGrows, HeldInFile DEF IInv, Shape, TypeOK, Open
<1>2. CASE Reload
  <2>1. Open' = Open /\ Open = held
    BY <1>1, <1>2 DEF Reload, BotFree, Open
  <2> QED
    BY <1>1, <1>2, <2>1 DEF Reload, BotFree, Kept
<1>3. CASE TradeCycle
  <2>1. phase = "trade" /\ traded = mem /\ mem' = mem /\ traded' = traded /\ phase' = "survey"
    BY <1>1, <1>3 DEF TradeCycle, BotFree
  <2>2. Open' \ traded = Open \ traded
    BY <1>1, <1>3, <2>1 DEF TradeCycle, TypeOK, Open
  <2> QED
    BY <1>1, <2>1, <2>2
<1>4. CASE Survey \/ StoreBook \/ ListPaper
  BY <1>1, <1>4 DEF Survey, StoreBook, ListPaper, BotFree, Open
<1>5. CASE Restart \/ BotDies
  BY <1>1, <1>5 DEF Restart, BotDies, Open
<1>6. CASE Replace(Bot)
  <2>1. phase \in {"govern", "paper"} /\ op[Bot] \in Operations
    BY <1>1, <1>6, CliProcs, IdleTyped DEF Replace, TodoShape, TypeOK
  <2>2. /\ mem' = EditedFile(Bot) /\ disturbed' = disturbed' \cup (file \ op[Bot].base)
        /\ Open' = Open /\ phase' = phase /\ traded' = traded
    BY <1>6 DEF Replace, Open
  <2>3. op[Bot].to # "live" => op[Bot].to = "demoted"
    BY <1>6, CliProcs DEF Replace, IInv, Shape, OpShape, Shaped, PastBegin
  <2>4. op[Bot].to = "demoted" => Symbol(Bot) \notin Open \ disturbed
    BY <1>1, <1>6, CliProcs DEF Replace, FlatLeaving, PastBegin
  <2>5. Open' \ disturbed' \subseteq mem'
    BY <1>1, <2>2, <2>3, <2>4 DEF EditedFile
  <2> QED
    BY <1>1, <2>1, <2>2, <2>5
<1>7. ASSUME NEW p \in Cli, OperationStep(p) \/ NewCommand(p) \/ CliDies(p) PROVE CycleHeld' /\ NoOrphan'
  <2>1. Open' = Open
    BY <1>7 DEF OperationStep, Edit, Replace, Move, Judge, Rejudge, SetApproved, NewCommand,
       RecordBacktest, ToPaper, ToLive, Approve, Reopen, Demote, CliDies, OutsideTable, Open
  <2> QED
    BY <1>1, <1>7, <2>1, CliLeavesBot
<1>8. CASE \/ Edit(Bot) \/ Move(Bot) \/ UNCHANGED vars
           \/ \E e \in todo : Healthy(e) \/ DemoteFlat(e) \/ DemoteLater(e) \/ Advance(e)
           \/ \E s \in Symbols : HandEdit(s)
  <2>1. Open' \subseteq Open /\ mem' = mem /\ traded' = traded /\ phase' = phase
    BY <1>8 DEF Edit, Move, Healthy, DemoteFlat, DemoteLater, Advance, HandEdit, OutsideGovern, botvars,
       vars, Open
  <2> QED
    BY <1>1, <2>1
<1> QED
  BY <1>2, <1>3, <1>4, <1>5, <1>6, <1>7, <1>8 DEF Next, BotStep

-----------------------------------------------------------------------------
(***************************************************************************)
(* Each step is one Lifecycle promises, on the symbols it did not disturb  *)
(***************************************************************************)

LEMMA MovePromise ==
    ASSUME IInv, OneFinish', disturbed \subseteq disturbed', NEW p \in Procs, Move(p),
           NEW s \in Symbols \ disturbed'
    PROVE  L!Promised(s)
<1>1. /\ TypeOK /\ OneFinish /\ Sets(p, Idle) /\ op[p].c \in Candidates
      /\ op[p].at \in {"finish", "move"} /\ Open' = Open /\ file' = file
      /\ state' = [state EXCEPT ![op[p].c] = op[p].to] /\ Shaped(op[p])
      /\ s \in Open => s \in file
  BY StopSets, TypedOp, OpOn, HeldInFile DEF IInv, Shape, OpShape, Move, Open
<1>2. ASSUME NEW c \in On(s), c # op[p].c PROVE Settled(c)' = Settled(c) /\ (c \in reopened' <=> c \in reopened)
  <2>1. c \in Candidates /\ SymbolOf[c] \notin disturbed' /\ state'[c] = state[c]
    BY <1>1, <1>2 DEF On, TypeOK
  <2>2. \A q \in Procs : (~Finishing(q, c) /\ ~Finishing(q, c)') \/ op'[q] = op[q]
    BY <1>1, <1>2, IdleTyped DEF Sets, Finishing
  <2>3. Settled(c)' = Settled(c)
    BY <1>1, <2>1, <2>2, SettledKept
  <2> QED
    BY <1>2, <2>3 DEF Move
<1>3. CASE op[p].c \notin On(s)
  BY <1>1, <1>2, <1>3, TradePromise
<1>4. CASE op[p].c \in On(s)
  <2> PICK c \in Candidates : op[p].c = c
    BY <1>1
  <2>1. /\ c \in Candidates /\ SymbolOf[c] \notin disturbed' /\ SymbolOf[c] = s /\ ~Stale(p)
        /\ reopened' = reopened \cup (IF op[p].from = "rejected" THEN {c} ELSE {})
    BY <1>1, <1>4 DEF On, Move, Symbol
  <2>2. /\ state[c] = op[p].from /\ (op[p].from = "rejected" => c \notin reopened)
        /\ \A q \in Procs \ {p} : ~Finishing(q, c)
    BY <2>1 DEF Stale, Finishing
  <2>3. Settled(c)' = op[p].to
    <3>1. \A q \in Procs : ~Finishing(q, c)'
      BY <1>1, <2>2, IdleTyped DEF Sets, Finishing
    <3>2. state'[c] = op[p].to
      BY <1>1 DEF TypeOK
    <3> QED
      BY <2>1, <3>1, <3>2, SettledIsNext
  <2>4. CASE op[p].at = "finish"
    <3>1. Settled(c) = op[p].to
      BY <1>1, <2>1, <2>4, SettledIs DEF Finishing
    <3>2. op[p].from # "rejected"
      BY <1>1, <2>4 DEF Shaped, PastBegin, Managed
    <3> QED
      BY <1>1, <1>2, <2>1, <2>3, <3>1, <3>2, TradePromise
  <2>5. CASE op[p].at = "move"
    <3>1. Settled(c) = op[p].from /\ <<op[p].from, op[p].to>> \in Walks
      BY <1>1, <2>1, <2>2, <2>5, SettledIs DEF Finishing, Shaped
    <3>2. L!Walk(s, c)
      BY <1>1, <1>2, <2>1, <2>2, <2>3, <3>1
      DEF L!Walk, L!Walks, Walks, L!Active, Active, L!Managed, Managed, L!Unmoved, L!On, On,
          L!SameToken, L!SameHolding
    <3> QED
      BY <1>4, <3>2 DEF L!Promised, L!On, On
  <2> QED
    BY <1>1, <2>4, <2>5
<1> QED
  BY <1>3, <1>4

LEMMA ReplacePromise ==
    ASSUME IInv, OneFinish', disturbed \subseteq disturbed', NEW p \in Procs, Replace(p),
           NEW s \in Symbols \ disturbed'
    PROVE  L!Promised(s)
<1>1. /\ TypeOK /\ OneFinish /\ FlatLeaving /\ op[p].c \in Candidates /\ op[p] \in Operations
      /\ op[p].at = "replace" /\ Shaped(op[p]) /\ (s \in Open => s \in file)
  BY OpOn, HeldInFile DEF IInv, Shape, OpShape, Replace
<1>2. /\ file' = EditedFile(p) /\ s \notin file \ op[p].base /\ s \notin op[p].base \ file
      /\ state' = state /\ reopened' = reopened /\ Open' = Open
      /\ s = Symbol(p) => ~Stale(p)
  BY DEF Replace, table, Open
<1>3. /\ \A q \in Procs \ {p} : op'[q] = op[q]
      /\ op'[p].c = op[p].c /\ op'[p].to = op[p].to /\ op'[p].at = "finish"
  <2>1. Sets(p, [op[p] EXCEPT !.at = "finish", !.base = {}])
    BY <1>1, ReplaceSets
  <2> QED
    BY <1>1, <2>1 DEF Sets, Operations
<1>4. ASSUME NEW c \in On(s), c # op[p].c PROVE Settled(c)' = Settled(c)
  <2>1. c \in Candidates /\ SymbolOf[c] \notin disturbed' /\ state'[c] = state[c]
    BY <1>2, <1>4 DEF On
  <2>2. \A q \in Procs : (~Finishing(q, c) /\ ~Finishing(q, c)') \/ op'[q] = op[q]
    BY <1>3, <1>4 DEF Finishing
  <2> QED
    BY <1>1, <2>1, <2>2, SettledKept
<1>5. CASE s # Symbol(p)
  <2>1. op[p].c \notin On(s) /\ (s \in file' <=> s \in file)
    BY <1>2, <1>5 DEF On, Symbol, EditedFile
  <2> QED
    BY <1>1, <1>2, <1>4, <2>1, TradePromise
<1>6. CASE s = Symbol(p)
  <2> PICK c \in Candidates : op[p].c = c
    BY <1>1
  <2>1. c \in On(s) /\ SymbolOf[c] \notin disturbed' /\ SymbolOf[c] \notin disturbed
    BY <1>1, <1>6 DEF On, Symbol
  <2>2. state[c] = op[p].from /\ \A q \in Procs : ~Finishing(q, c)
    BY <1>1, <1>2, <1>6 DEF Stale, Finishing
  <2>3. Settled(c) = op[p].from
    BY <1>1, <2>1, <2>2, SettledIs
  <2>4. Settled(c)' = op[p].to
    BY <1>1, <1>3, <2>1, SettledIsNext DEF Finishing
  <2>5. L!Unmoved(L!On(s) \ {c}) /\ L!SameHolding(s)
    BY <1>2, <1>4 DEF L!Unmoved, L!On, On, L!SameHolding
  <2>6. CASE op[p].to = "live"
    <3>1. op[p].from = "paper" /\ s \notin op[p].base
      BY <1>1, <1>6, <2>6 DEF Shaped, PastBegin, Symbol
    <3>2. s \notin file /\ s \in file'
      BY <1>2, <1>6, <2>6, <3>1 DEF EditedFile
    <3>3. L!GoLive(s, c)
      BY <1>1, <1>2, <2>3, <2>4, <2>5, <2>6, <3>1, <3>2 DEF L!GoLive
    <3> QED
      BY <2>1, <3>3 DEF L!Promised, L!On, On
  <2>7. CASE op[p].to # "live"
    <3>1. op[p].to = "demoted" /\ op[p].from \in Managed
      BY <1>1, <2>7 DEF Shaped, PastBegin
    <3>2. s \notin file' /\ s \notin Open
      BY <1>1, <1>2, <1>6, <2>1, <2>7, <3>1 DEF EditedFile, FlatLeaving, PastBegin, Symbol
    <3>3. L!Leave(s, c)
      BY <1>1, <1>2, <2>3, <2>4, <2>5, <3>1, <3>2 DEF L!Leave, L!Managed, Managed
    <3> QED
      BY <2>1, <3>3 DEF L!Promised, L!On, On
  <2> QED
    BY <2>6, <2>7
<1> QED
  BY <1>5, <1>6

LEMMA CommandPromise ==
    ASSUME IInv, OneFinish', disturbed \subseteq disturbed', NEW p \in Cli, NewCommand(p),
           NEW s \in Symbols \ disturbed'
    PROVE  L!Promised(s)
<1>1. PICK c \in Candidates : \/ RecordBacktest(p, c) \/ ToPaper(p, c) \/ ToLive(p, c)
                              \/ Approve(p, c) \/ Reopen(p, c) \/ Demote(p, c)
  BY DEF NewCommand
<1>2. /\ TypeOK /\ OneFinish /\ Quiet(p) /\ p \in Procs /\ (s \in Open => s \in file)
      /\ Open' = Open /\ file' = file /\ reopened' = reopened
  BY <1>1, QuietCommand, HeldInFile, CliProcs DEF IInv, Shape, RecordBacktest, ToPaper, ToLive, Approve,
     Reopen, Demote, OutsideTable, table, Open
<1>3. CASE state' = state
  BY <1>2, <1>3, QuietPromise
<1>4. CASE state' # state
  <2>1. /\ RecordBacktest(p, c) /\ state' \in [Candidates -> States] /\ state \in [Candidates -> States]
        /\ state'[c] = IF state[c] = "absent" THEN "candidate" ELSE state[c]
        /\ \A d \in Candidates \ {c} : state'[d] = state[d]
    BY <1>1, <1>2, <1>4, RecordBacktestSets DEF ToPaper, ToLive, Approve, Reopen, Demote, table, TypeOK
  <2>2. state[c] = "absent" /\ state'[c] = "candidate"
    BY <1>4, <2>1
  <2>3. \A d \in Candidates, q \in Procs : op'[q] = op[q] \/ (~Finishing(q, d) /\ ~Finishing(q, d)')
    BY <1>2 DEF Quiet, Finishing
  <2>4. ASSUME NEW d \in On(s), d # c PROVE Settled(d)' = Settled(d)
    BY <1>2, <2>1, <2>3, <2>4, SettledKept DEF On
  <2>5. CASE c \notin On(s)
    BY <1>2, <2>4, <2>5, TradePromise
  <2>6. CASE c \in On(s)
    <3>1. SymbolOf[c] \notin disturbed /\ SymbolOf[c] \notin disturbed'
      BY <2>6 DEF On
    <3>2. ASSUME NEW q \in Procs, Finishing(q, c) PROVE FALSE
      <4>1. state[c] = op[q].from
        BY <1>2, <3>1, <3>2 DEF OneFinish
      <4>2. Shaped(op[q]) /\ op[q].at = "finish"
        BY <3>2 DEF IInv, Shape, OpShape, Finishing
      <4> QED
        BY <2>2, <4>1, <4>2 DEF Shaped, PastBegin, Managed
    <3>3. \A q \in Procs : ~Finishing(q, c)'
      BY <2>3, <3>2 DEF Finishing
    <3>4. Settled(c) = "absent" /\ Settled(c)' = "candidate"
      BY <1>2, <2>2, <3>1, <3>2, <3>3, SettledIs, SettledIsNext
    <3>5. L!Walk(s, c)
      BY <1>2, <2>4, <3>4 DEF L!Walk, L!Walks, L!Unmoved, L!On, On, L!SameToken, L!SameHolding
    <3> QED
      BY <2>6, <3>5 DEF L!Promised, L!On, On
  <2> QED
    BY <2>5, <2>6
<1> QED
  BY <1>3, <1>4

LEMMA DeathPromise ==
    ASSUME IInv, OneFinish', disturbed \subseteq disturbed', NEW p \in Procs, Stops(p),
           Torn(p) \subseteq disturbed', Open' \subseteq Open \cup disturbed',
           UNCHANGED <<table, file>>,
           NEW s \in Symbols \ disturbed'
    PROVE  L!Promised(s)
<1>1. Sets(p, Idle) /\ OneFinish /\ (s \in Open => s \in file)
  BY StopSets, TypedOp, HeldInFile DEF IInv, Shape
<1>2. ASSUME NEW c \in On(s) PROVE Settled(c)' = Settled(c)
  <2>1. c \in Candidates /\ SymbolOf[c] \notin disturbed' /\ ~Finishing(p, c)
    BY <1>2 DEF On, Torn, Finishing, Symbol
  <2>2. \A q \in Procs : (~Finishing(q, c) /\ ~Finishing(q, c)') \/ op'[q] = op[q]
    BY <1>1, <2>1, IdleTyped DEF Sets, Finishing
  <2> QED
    BY <1>1, <2>1, <2>2, SettledKept DEF table
<1> QED
  BY <1>1, <1>2, TradePromise DEF table

LEMMA HandPromise ==
    ASSUME IInv, OneFinish', disturbed \subseteq disturbed', NEW h \in Symbols, HandEdit(h),
           NEW s \in Symbols \ disturbed'
    PROVE  L!Promised(s)
<1>1. /\ OneFinish /\ (s \in Open => s \in file) /\ Quiet(Bot) /\ Bot \in Procs
      /\ Open' = Open /\ state' = state /\ reopened' = reopened
  BY HeldInFile, CliProcs DEF IInv, HandEdit, Quiet, table, Open
<1>2. CASE s # h
  <2>1. s \in file' <=> s \in file
    BY <1>2 DEF HandEdit
  <2> QED
    BY <1>1, <2>1, QuietPromise
<1>3. CASE s = h
  <2>1. s \notin Open /\ \A c \in On(s) : Settled(c) \notin Managed
    BY <1>3 DEF HandEdit, Open
  <2>2. ASSUME NEW c \in On(s) PROVE Settled(c)' = Settled(c)
    <3>1. c \in Candidates /\ SymbolOf[c] \notin disturbed' /\ op' = op
      BY <2>2 DEF On, HandEdit
    <3> QED
      BY <1>1, <3>1, SettledKept
  <2>3. L!HandEdit(s)
    BY <1>1, <2>1, <2>2 DEF L!HandEdit, L!IsManaged, L!Unmoved, L!SameHolding, L!On, On, L!Managed, Managed
  <2> QED
    BY <2>3 DEF L!Promised
<1> QED
  BY <1>2, <1>3

LEMMA TradingPromise ==
    ASSUME IInv, OneFinish', disturbed \subseteq disturbed', NEW s \in Symbols \ disturbed',
           TradeCycle \/ \E e \in todo : DemoteFlat(e)
    PROVE  L!Promised(s)
<1>1. OneFinish /\ TypeOK /\ (s \in Open => s \in file) /\ Bot \in Procs
  BY HeldInFile, CliProcs DEF IInv, Shape
<1>2. CASE TradeCycle
  <2>1. /\ s \in Open' => s \in file
        /\ file' = file /\ UNCHANGED <<state, reopened>> /\ Quiet(Bot)
    <3>1. Open = held /\ Open' = held'
      BY <1>1, <1>2 DEF TradeCycle, BotFree, TypeOK, Open
    <3> QED
      BY <1>1, <1>2, <3>1 DEF TradeCycle, table, Quiet
  <2> QED
    BY <1>1, <2>1, QuietPromise
<1>3. ASSUME NEW e \in todo, DemoteFlat(e) PROVE L!Promised(s)
  <2>1. Open' \subseteq Open /\ file' = file /\ UNCHANGED <<state, reopened>> /\ Quiet(Bot)
    BY <1>1, <1>3, QuietBot DEF DemoteFlat, OutsideGovern, table, Open
  <2> QED
    BY <1>1, <2>1, QuietPromise
<1> QED
  BY <1>2, <1>3

LEMMA StepPromise == IInv /\ [Next]_vars => \A s \in Symbols \ disturbed' : L!Promised(s)
<1> SUFFICES ASSUME IInv, [Next]_vars, NEW s \in Symbols \ disturbed' PROVE L!Promised(s)
  OBVIOUS
<1>1. /\ TypeOK /\ OneFinish /\ OneFinish' /\ disturbed \subseteq disturbed' /\ Bot \in Procs
      /\ s \in Open => s \in file
  BY OneFinishNext, DisturbedGrows, HeldInFile, CliProcs DEF IInv, Shape
<1>2. ASSUME NEW p \in Procs, Quiet(p), UNCHANGED <<table, Open, file>> \/ UNCHANGED <<state, reopened, Open, file>>
      PROVE  L!Promised(s)
  BY <1>1, <1>2, QuietPromise DEF table
<1>3. ASSUME NEW p \in Procs, OperationStep(p), p # Bot \/ Edit(p) \/ Replace(p) \/ Move(p) PROVE L!Promised(s)
  <2>1. CASE Replace(p)
    BY <1>1, <2>1, ReplacePromise
  <2>2. CASE Move(p)
    BY <1>1, <2>2, MovePromise
  <2>3. CASE ~Replace(p) /\ ~Move(p)
    <3>1. Quiet(p) /\ UNCHANGED <<state, reopened, Open, file>>
      BY <1>1, <1>3, <2>3, QuietOperation DEF OperationStep, Edit, Judge, Rejudge, SetApproved, table,
         OutsideTable, Open
    <3> QED
      BY <1>2, <3>1
  <2> QED
    BY <2>1, <2>2, <2>3
<1>4. ASSUME NEW p \in Cli, NewCommand(p) PROVE L!Promised(s)
  BY <1>1, <1>4, CommandPromise
<1>5. CASE BotDies \/ \E p \in Cli : CliDies(p)
  BY <1>1, <1>5, DeathPromise, CliProcs DEF BotDies, CliDies, Open
<1>6. CASE TradeCycle \/ \E e \in todo : DemoteFlat(e)
  BY <1>1, <1>6, TradingPromise
<1>7. CASE \E h \in Symbols : HandEdit(h)
  BY <1>1, <1>7, HandPromise
<1>8. ASSUME NEW e \in todo, DemoteLater(e) \/ Advance(e) PROVE L!Promised(s)
  <2>1. Quiet(Bot) /\ UNCHANGED <<table, Open, file>>
    BY <1>1, <1>8, QuietBot DEF DemoteLater, Advance, OutsideGovern, Open
  <2> QED
    BY <1>1, <1>2, <2>1
<1>9. CASE Reload \/ Survey \/ StoreBook \/ ListPaper \/ Restart \/ UNCHANGED vars \/ \E e \in todo : Healthy(e)
  <2>1. Quiet(Bot) /\ UNCHANGED <<table, Open, file>>
    BY <1>9 DEF Reload, Survey, StoreBook, ListPaper, Restart, Healthy, OutsideGovern, vars, Quiet, Open
  <2> QED
    BY <1>1, <1>2, <2>1
<1> QED
  BY <1>1, <1>3, <1>4, <1>5, <1>6, <1>7, <1>8, <1>9, CliProcs DEF Next, BotStep, OperationStep

-----------------------------------------------------------------------------
(***************************************************************************)
(* The inductive invariant and what follows from it                        *)
(***************************************************************************)

LEMMA IInvInit == Init => IInv
<1> SUFFICES ASSUME Init PROVE IInv
  OBVIOUS
<1>1. PICK s \in Start : state = s.state /\ file = s.file /\ Open = s.held
  BY DEF Init, Open
<1>2. TypeOK /\ \A p \in Procs : op[p] = Idle
  BY TypeInit DEF Init
<1>3. Shape
  BY <1>2, IdleShaped, CliProcs DEF Shape, OpShape, TodoShape, Init
<1>4. OneFinish /\ FlatLeaving
  BY <1>2, IdleTyped DEF OneFinish, Finishing, FlatLeaving, PastBegin
<1>5. CycleHeld /\ NoOrphan
  BY <1>1, StartAssumption DEF Init, CycleHeld, NoOrphan
<1>6. \A c \in Candidates : Settled(c) = state[c]
  BY <1>2, IdleTyped DEF Settled
<1>7. ASSUME NEW t \in Symbols PROVE SymbolInStep(t) /\ SymbolSingle(t)
  <2>1. SymbolInStep(t)
    <3>1. ASSUME NEW c \in On(t), Settled(c) \in Managed PROVE t \in file
      <4>1. c \in Candidates /\ s.state[c] \in Managed /\ SymbolOf[c] = t
        BY <1>1, <1>6, <3>1 DEF On
      <4> QED
        BY <1>1, <4>1, StartAssumption
    <3>2. t \in Open => t \in file
      BY <1>1, StartAssumption
    <3> QED
      BY <3>1, <3>2 DEF SymbolInStep
  <2>2. ASSUME NEW c \in On(t), NEW d \in On(t), Settled(c) \in Managed, Settled(d) \in Managed
        PROVE  c = d
    <3>1. /\ c \in Candidates /\ s.state[c] \in Managed
          /\ d \in On(SymbolOf[c]) /\ s.state[d] \in Managed
      BY <1>1, <1>6, <2>2 DEF On
    <3> QED
      BY <3>1, StartAssumption
  <2> QED
    BY <2>1, <2>2 DEF SymbolSingle
<1> QED
  BY <1>3, <1>4, <1>5, <1>7 DEF IInv, Calm

LEMMA IInvNext == IInv /\ [Next]_vars => IInv'
<1> SUFFICES ASSUME IInv, [Next]_vars PROVE IInv'
  OBVIOUS
<1>1. Shape' /\ OneFinish' /\ CycleHeld' /\ NoOrphan' /\ disturbed \subseteq disturbed'
  BY ShapeNext, OneFinishNext, HoldingNext, DisturbedGrows DEF IInv
<1>2. FlatLeaving'
  <2>1. CASE BotStep
    BY <1>1, <2>1, FlatOperation, FlatBot, FlatRest, CliProcs DEF BotStep, OperationStep
  <2>2. ASSUME NEW p \in Cli, OperationStep(p) \/ NewCommand(p) PROVE FlatLeaving'
    BY <1>1, <2>2, FlatOperation, FlatCommand, CliProcs
  <2> QED
    BY <1>1, <2>1, <2>2, FlatRest DEF Next
<1>3. Calm'
  <2> SUFFICES ASSUME NEW s \in Symbols \ disturbed' PROVE SymbolInStep(s)' /\ SymbolSingle(s)'
    BY DEF Calm
  <2>1. SymbolInStep(s) /\ SymbolSingle(s) /\ L!Promised(s)
    BY <1>1, StepPromise DEF IInv, Calm
  <2> QED
    BY <2>1, CalmKept
<1> QED
  BY <1>1, <1>2, <1>3 DEF IInv

\* The mapped states have Lifecycle's types.
LEMMA MappedTyped == TypeOK => \A c \in Candidates : Settled(c) \in States
BY DEF TypeOK, Settled

LEMMA MappedInit == Init => L!Init
<1> SUFFICES ASSUME Init PROVE L!Init
  OBVIOUS
<1>1. PICK s \in Start : state = s.state /\ file = s.file /\ Open = s.held
  BY DEF Init, Open
<1>2. TypeOK /\ IInv /\ disturbed = {} /\ Open \subseteq file
  BY <1>1, TypeInit, IInvInit, StartAssumption DEF Init
<1>3. \A c \in Candidates : Settled(c) \in States
  BY <1>2, MappedTyped
<1>4. \A t \in Symbols : SymbolInStep(t) /\ SymbolSingle(t)
  BY <1>2 DEF IInv, Calm
<1> QED
  BY <1>2, <1>3, <1>4, CandidateAssumption
  DEF L!Init, L!States, States, L!Active, Active, L!Managed, Managed, L!IsManaged, L!On, On,
      SymbolInStep, SymbolSingle, TypeOK, Open

LEMMA MappedNext == IInv /\ [Next]_vars => L!Next
<1> SUFFICES ASSUME IInv, [Next]_vars PROVE L!Next
  OBVIOUS
<1>1. TypeOK' /\ disturbed \subseteq disturbed'
  BY TypeNext, DisturbedGrows DEF IInv, Shape
<1>2. \A c \in Candidates : Settled(c)' \in States
  BY <1>1 DEF TypeOK, Settled
<1>3. \A s \in Symbols \ disturbed' : L!Promised(s)
  BY StepPromise
<1> QED
  BY <1>1, <1>2, <1>3
  DEF L!Next, L!States, States, L!Active, Active, L!Managed, Managed, TypeOK, Open

LEMMA CalmPromised == L!Init => Mapped /\ Calm
BY CandidateAssumption
DEF L!Init, Mapped, Calm, SymbolInStep, SymbolSingle, On, L!On, L!IsManaged, L!Managed, Managed

LEMMA CalmPromisedNext == Mapped /\ Calm /\ [L!Next]_(L!lvars) => Mapped' /\ Calm'
<1> SUFFICES ASSUME Mapped, Calm, [L!Next]_(L!lvars) PROVE Mapped' /\ Calm'
  OBVIOUS
<1>1. CASE L!Next
  <2>1. ASSUME NEW s \in Symbols \ disturbed' PROVE SymbolInStep(s)' /\ SymbolSingle(s)'
    <3>1. s \in Symbols \ disturbed /\ L!Promised(s)
      BY <1>1, <2>1 DEF L!Next
    <3>2. SymbolInStep(s) /\ SymbolSingle(s)
      BY <3>1 DEF Calm
    <3> QED
      BY <3>1, <3>2, CalmKept
  <2> QED
    BY <1>1, <2>1 DEF L!Next, Mapped, Calm
<1>2. CASE UNCHANGED L!lvars
  BY <1>2 DEF L!lvars, Mapped, Calm, SymbolInStep, SymbolSingle, On
<1> QED
  BY <1>1, <1>2

\* Every behaviour Lifecycle allows keeps the config in step with what is live and
\* held, and a symbol to one manager, as long as nothing disturbed the symbol: the two
\* hold each other up, a symbol becomes free only with its last manager, and is taken
\* only when it is free.
THEOREM PromiseIsSound == L!Spec => []ConfigInStep
<1> QED
  BY CalmPromised, CalmPromisedNext, CalmMeans, PTL DEF L!Spec

\* The pipeline's interleaved operations implement Lifecycle's steps, whatever the number
\* of processes: moves along the diagram, one re-opening, config.json in step.
THEOREM PipelineRefinesLifecycle == Spec => FollowsLifecycle
<1>1. IInv /\ [Next]_vars => [L!Next]_(L!lvars)
  BY MappedNext
<1> QED
  BY <1>1, MappedInit, IInvInit, IInvNext, PTL DEF Spec, FollowsLifecycle, L!Spec

\* On an undisturbed symbol what is live or held is in config.json, and at most one
\* candidate is managed (_to_live, finish_demotion, _live_slot_problems).
THEOREM ConfigStaysInStep == Spec => []ConfigInStep
BY PipelineRefinesLifecycle, PromiseIsSound, PTL DEF FollowsLifecycle

\* No undisturbed symbol with an open position is missing from the bot's token set, in
\* any cycle, through reloads, edits and restarts (_enforce_token_change_guard, demote).
THEOREM HeldStaysTraded == Spec => []NoOrphan
<1>1. IInv => NoOrphan
  BY DEF IInv
<1> QED
  BY <1>1, IInvInit, IInvNext, PTL DEF Spec

-----------------------------------------------------------------------------
(***************************************************************************)
(* Live slots.  A symbol is counted from the check of its slot on.  Checks *)
(* one after the other see every symbol counted; of checks that overlap,   *)
(* each process can have at most one under way.                            *)
(***************************************************************************)

Taking == {SymbolOf[op[q].c] : q \in {r \in Procs : op[r].at # "idle" /\ op[r].to = "live"}}
Live == ManagedSymbols \cup Taking
SlotBound ==
    /\ Cardinality((Live \ disturbed) \ crowded) <= Slots
    /\ Cardinality(Live \ disturbed) <= Slots + Cardinality(Cli)

LEMMA FiniteProcs == IsFiniteSet(Procs) /\ Cardinality(Procs) = Cardinality(Cli) + 1 /\ Cardinality(Cli) \in Nat
BY PipelineAssumption, FS_AddElement, FS_CardinalityType DEF Procs

\* Symbols of candidates, and of operations, are no more than these.
LEMMA SymbolsOf ==
    ASSUME NEW S, IsFiniteSet(S), NEW f \in [S -> Symbols]
    PROVE  /\ IsFiniteSet({f[x] : x \in S}) /\ Cardinality({f[x] : x \in S}) <= Cardinality(S)
           /\ Cardinality({f[x] : x \in S}) \in Nat
<1> DEFINE T == {f[x] : x \in S}
<1>1. f \in Surjection(S, T)
  BY DEF Surjection
<1>2. IsFiniteSet(T) /\ Cardinality(T) <= Cardinality(S)
  <2> HIDE DEF T
  <2> QED
    BY <1>1, FS_Surjection
<1> QED
  BY <1>2, FS_CardinalityType

LEMMA LiveFinite == TypeOK => IsFiniteSet(Live) /\ IsFiniteSet(ManagedSymbols) /\ Cardinality(ManagedSymbols) \in Nat
<1> SUFFICES ASSUME TypeOK PROVE IsFiniteSet(Live) /\ IsFiniteSet(ManagedSymbols) /\ Cardinality(ManagedSymbols) \in Nat
  OBVIOUS
<1> DEFINE All == {SymbolOf[c] : c \in Candidates}
<1>1. IsFiniteSet(All)
  BY CandidateAssumption, SymbolsOf
<1>2. Live \subseteq All /\ ManagedSymbols \subseteq All
  BY DEF TypeOK, Live, Taking, ManagedSymbols, InState
<1> HIDE DEF All
<1> QED
  BY <1>1, <1>2, FS_Subset, FS_CardinalityType

\* A step that takes no slot keeps the bound.
LEMMA SlotsKept ==
    ASSUME TypeOK, SlotBound, Live' \subseteq Live \cup disturbed', disturbed \subseteq disturbed',
           crowded' = crowded
    PROVE  SlotBound'
<1> DEFINE A == Live \ disturbed
           B == Live' \ disturbed'
<1>1. IsFiniteSet(A) /\ IsFiniteSet(A \ crowded)
  BY LiveFinite, FS_Subset
<1>2. B \subseteq A /\ B \ crowded \subseteq A \ crowded
  OBVIOUS
<1>3. Cardinality(A \ crowded) <= Slots /\ Cardinality(A) <= Slots + Cardinality(Cli)
  BY DEF SlotBound
<1>4. Cardinality(B \ crowded') <= Slots /\ Cardinality(B) <= Slots + Cardinality(Cli)
  <2> HIDE DEF A, B
  <2>1. /\ Cardinality(B) <= Cardinality(A) /\ Cardinality(B \ crowded) <= Cardinality(A \ crowded)
        /\ IsFiniteSet(B) /\ IsFiniteSet(B \ crowded)
    BY <1>1, <1>2, FS_Subset
  <2>2. /\ Cardinality(A) \in Nat /\ Cardinality(A \ crowded) \in Nat
        /\ Cardinality(B) \in Nat /\ Cardinality(B \ crowded) \in Nat
    BY <1>1, <2>1, FS_CardinalityType
  <2> QED
    BY <1>3, <2>1, <2>2, FiniteProcs, PipelineAssumption
<1> QED
  BY <1>4 DEF SlotBound

\* A promotion's check: fewer symbols are managed than there are slots.
LEMMA SlotTaken ==
    ASSUME TypeOK, TypeOK', SlotBound, NEW p \in Procs, NEW c \in Candidates, NEW from \in States,
           GoesLive(p, c, from), Cardinality(ManagedSymbols) < Slots, UNCHANGED <<state, disturbed>>
    PROVE  SlotBound'
<1> DEFINE s == SymbolOf[c]
           M == ManagedSymbols
           T == Taking'
           R == {r \in Procs : op'[r].at # "idle" /\ op'[r].to = "live"}
<1>1. Sets(p, Begin(c, from, "edit", "live")) /\ s \in Symbols
  BY GoesLiveSets, CandidateAssumption
<1>2. Taking' \subseteq Taking \cup {s} /\ ManagedSymbols' = M
  BY <1>1 DEF Sets, Begin, Taking, ManagedSymbols, InState
<1>3. IsFiniteSet(M) /\ Cardinality(M) \in Nat /\ IsFiniteSet(Live) /\ IsFiniteSet(Live')
  <2>1. IsFiniteSet(Live')
    <3> DEFINE All == {SymbolOf[d] : d \in Candidates}
    <3>1. IsFiniteSet(All)
      BY CandidateAssumption, SymbolsOf
    <3>2. Live' \subseteq All
      BY DEF TypeOK, Live, Taking, ManagedSymbols, InState
    <3> HIDE DEF All
    <3> QED
      BY <3>1, <3>2, FS_Subset
  <2> QED
    BY <2>1, LiveFinite
<1>4. IsFiniteSet(T) /\ Cardinality(T) <= Cardinality(Cli) + 1 /\ Cardinality(T) \in Nat
  <2>1. IsFiniteSet(R) /\ Cardinality(R) <= Cardinality(Cli) + 1 /\ Cardinality(R) \in Nat
    <3>1. R \subseteq Procs
      OBVIOUS
    <3> HIDE DEF R
    <3> QED
      BY <3>1, FiniteProcs, FS_Subset, FS_CardinalityType
  <2>2. [r \in R |-> SymbolOf[op'[r].c]] \in [R -> Symbols]
    BY CandidateAssumption DEF TypeOK
  <2>3. T = {[r \in R |-> SymbolOf[op'[r].c]][x] : x \in R}
    BY DEF Taking
  <2> HIDE DEF R, T
  <2>4. IsFiniteSet(T) /\ Cardinality(T) <= Cardinality(R) /\ Cardinality(T) \in Nat
    BY <2>1, <2>2, <2>3, SymbolsOf
  <2> QED
    BY <2>1, <2>4, FiniteProcs
<1>5. Cardinality(Live' \ disturbed') <= Slots + Cardinality(Cli)
  <2>1. Live' = M \cup T
    BY <1>2 DEF Live
  <2> HIDE DEF M, T
  <2>2. /\ IsFiniteSet(M \cup T) /\ M \cap T \in SUBSET M
        /\ Cardinality(M \cup T) = Cardinality(M) + Cardinality(T) - Cardinality(M \cap T)
    BY <1>3, <1>4, FS_Union
  <2>3. Cardinality(M \cap T) \in Nat
    BY <1>3, <2>2, FS_Subset, FS_CardinalityType
  <2>4. /\ Cardinality(Live' \ disturbed') <= Cardinality(M \cup T)
        /\ Cardinality(Live' \ disturbed') \in Nat /\ Cardinality(M \cup T) \in Nat
    BY <2>1, <2>2, FS_Subset, FS_CardinalityType
  <2> QED
    BY <1>3, <1>4, <2>2, <2>3, <2>4, FiniteProcs, PipelineAssumption DEF M
<1>6. Cardinality((Live' \ disturbed') \ crowded') <= Slots
  <2> DEFINE B == (Live' \ disturbed') \ crowded'
  <2>1. CASE \E q \in Procs : op[q].to = "live"
    <3> DEFINE A == (Live \ disturbed) \ crowded
    <3>1. B \subseteq A
      BY <1>2, <2>1 DEF GoesLive, Live
    <3>2. IsFiniteSet(A) /\ Cardinality(A) <= Slots
      BY <1>3, FS_Subset DEF SlotBound
    <3> HIDE DEF A, B
    <3>3. Cardinality(B) <= Cardinality(A) /\ Cardinality(A) \in Nat /\ Cardinality(B) \in Nat
      BY <3>1, <3>2, FS_Subset, FS_CardinalityType
    <3> QED
      BY <3>2, <3>3, PipelineAssumption DEF B
  <2>2. CASE ~\E q \in Procs : op[q].to = "live"
    <3>1. B \subseteq M \cup {s}
      BY <1>2, <2>2 DEF Live, Taking
    <3> HIDE DEF B, M, s
    <3>2. /\ IsFiniteSet(M \cup {s})
          /\ Cardinality(M \cup {s}) = IF s \in M THEN Cardinality(M) ELSE Cardinality(M) + 1
      BY <1>3, FS_AddElement
    <3>3. /\ Cardinality(B) <= Cardinality(M \cup {s}) /\ Cardinality(B) \in Nat
          /\ Cardinality(M \cup {s}) \in Nat
      BY <3>1, <3>2, FS_Subset, FS_CardinalityType
    <3> QED
      BY <1>3, <3>2, <3>3, PipelineAssumption DEF B, M
  <2> QED
    BY <2>1, <2>2
<1> QED
  BY <1>5, <1>6 DEF SlotBound

\* An operation that goes on, ends or begins without a slot takes none.
LEMMA NotTaking ==
    ASSUME TypeOK, SlotBound, NEW p \in Procs, NEW r, Sets(p, r),
           r.at # "idle" /\ r.to = "live" => op[p].at # "idle" /\ op[p].to = "live" /\ r.c = op[p].c,
           ManagedSymbols' \subseteq Live \cup disturbed', disturbed \subseteq disturbed', crowded' = crowded
    PROVE  SlotBound'
<1>1. Taking' \subseteq Taking
  BY DEF Sets, Taking
<1> QED
  BY <1>1, SlotsKept DEF Live

LEMMA SlotOperation ==
    ASSUME Shape, SlotBound, disturbed \subseteq disturbed', NEW p \in Procs, OperationStep(p),
           p # Bot \/ Edit(p) \/ Replace(p) \/ Move(p)
    PROVE  SlotBound'
<1>1. /\ TypeOK /\ OpTyped /\ op[p] \in Operations /\ op[p].at # "idle" /\ Shaped(op[p])
      /\ op[p].c \in Candidates /\ Idle.at = "idle" /\ crowded' = crowded /\ file \in SUBSET Symbols
  BY TypedOp, IdleTyped DEF Shape, OpShape, OpTyped, TypeOK, OperationStep, Edit, Replace, Move, Judge,
     Rejudge, SetApproved, OutsideTable
<1>2. ManagedSymbols' \subseteq Live \cup disturbed'
  <2>1. CASE Move(p)
    <3>1. SUFFICES ASSUME NEW c \in Candidates, state'[c] \in Managed
                   PROVE  SymbolOf[c] \in Live \cup disturbed'
      BY DEF ManagedSymbols, InState
    <3>2. CASE c # op[p].c
      BY <2>1, <3>1, <3>2 DEF Move, TypeOK, Live, ManagedSymbols, InState, Shape
    <3>3. CASE c = op[p].c /\ op[p].to = "live"
      BY <1>1, <3>3 DEF Live, Taking
    <3>4. CASE c = op[p].c /\ op[p].to # "live"
      <4>1. op[p].to = "demote_pending"
        BY <1>1, <2>1, <3>1, <3>4 DEF Move, TypeOK, Managed
      <4>2. op[p].from = "live"
        BY <1>1, <2>1, <4>1 DEF Move, Shaped, PastBegin, Walks, Active, Managed
      <4>3. CASE Stale(p)
        BY <2>1, <3>4, <4>3 DEF Move, Symbol
      <4>4. CASE ~Stale(p)
        BY <3>4, <4>2, <4>4 DEF Stale, Live, ManagedSymbols, InState, Managed
      <4> QED
        BY <4>3, <4>4
    <3> QED
      BY <3>2, <3>3, <3>4
  <2>2. CASE ~Move(p)
    BY <2>2 DEF OperationStep, Edit, Replace, Judge, Rejudge, SetApproved, table, Live, ManagedSymbols, InState
  <2> QED
    BY <2>1, <2>2
<1>3. ASSUME NEW r, Sets(p, r), r.at = "idle" \/ r.to = "rejected" \/ (r.to = op[p].to /\ r.c = op[p].c)
      PROVE  SlotBound'
  BY <1>1, <1>2, <1>3, NotTaking
<1>4. CASE Edit(p)
  BY <1>1, <1>3, <1>4, EditSets DEF Operations
<1>5. CASE Replace(p)
  BY <1>1, <1>3, <1>5, ReplaceSets DEF Operations
<1>6. CASE Move(p) \/ SetApproved(p)
  BY <1>1, <1>3, <1>6, StopSets DEF Move, SetApproved
<1>7. CASE Judge(p) /\ p # Bot
  BY <1>1, <1>3, <1>7, JudgeSets DEF Operations
<1>8. CASE Rejudge(p) /\ p # Bot
  <2>1. Sets(p, Idle) \/ Sets(p, [op[p] EXCEPT !.at = "move"])
    BY <1>1, <1>8, GoesSets, StopSets DEF Rejudge, Steps
  <2> QED
    BY <1>1, <1>3, <2>1 DEF Operations
<1> QED
  BY <1>4, <1>5, <1>6, <1>7, <1>8 DEF OperationStep, Judge, Rejudge, SetApproved

LEMMA SlotCommand ==
    ASSUME Shape, TypeOK', SlotBound, disturbed \subseteq disturbed', NEW p \in Cli, NewCommand(p)
    PROVE  SlotBound'
<1>1. TypeOK /\ p \in Procs
  BY CliProcs DEF Shape
<1>2. PICK c \in Candidates : \/ RecordBacktest(p, c) \/ ToPaper(p, c) \/ ToLive(p, c)
                              \/ Approve(p, c) \/ Reopen(p, c) \/ Demote(p, c)
  BY DEF NewCommand
<1>3. ManagedSymbols' \subseteq Live
  <2>1. CASE RecordBacktest(p, c)
    BY <1>1, <2>1, RecordBacktestSets DEF ManagedSymbols, InState, Managed, Live
  <2>2. CASE ~RecordBacktest(p, c)
    BY <1>2, <2>2 DEF ToPaper, ToLive, Approve, Reopen, Demote, table, ManagedSymbols, InState, Live
  <2> QED
    BY <2>1, <2>2
<1>4. CASE ToLive(p, c)
  BY <1>1, <1>4, SlotTaken DEF ToLive, Ready, table, TypeOK
<1>5. CASE ~ToLive(p, c)
  <2>1. crowded' = crowded
    BY <1>2, <1>5 DEF RecordBacktest, ToPaper, Approve, Reopen, Demote, OutsideTable
  <2>2. ASSUME NEW from, NEW at, NEW to, Sets(p, Begin(c, from, at, to)), to # "live" PROVE SlotBound'
    <3> DEFINE r == Begin(c, from, at, to)
    <3>1. r.to # "live"
      BY <2>2 DEF Begin
    <3> HIDE DEF r
    <3> QED
      BY <1>1, <1>3, <2>1, <2>2, <3>1, NotTaking DEF r
  <2>3. CASE RecordBacktest(p, c)
    <3>1. CASE op' = op
      BY <1>1, <1>3, <2>1, <3>1, SlotsKept DEF Live, Taking
    <3>2. ASSUME NEW to \in {"candidate", "backtest_passed"}, Sets(p, Begin(c, state'[c], "move", to))
          PROVE  SlotBound'
      BY <2>2, <3>2
    <3> QED
      BY <1>1, <2>3, <3>1, <3>2, RecordBacktestSets
  <2>4. CASE ToPaper(p, c)
    BY <1>1, <2>2, <2>4, CommandSets
  <2>5. CASE Approve(p, c)
    BY <1>1, <2>2, <2>5, CommandSets DEF Approve
  <2>6. CASE Reopen(p, c)
    BY <1>1, <2>2, <2>6, CommandSets
  <2>7. CASE Demote(p, c)
    BY <1>1, <2>2, <2>7, CommandSets
  <2> QED
    BY <1>2, <1>5, <2>3, <2>4, <2>5, <2>6, <2>7
<1> QED
  BY <1>4, <1>5

LEMMA SlotBot ==
    ASSUME Shape, TypeOK', SlotBound, disturbed \subseteq disturbed', NEW e \in todo,
           DemoteFlat(e) \/ DemoteLater(e) \/ Advance(e)
    PROVE  SlotBound'
<1>1. /\ TypeOK /\ Bot \in Procs /\ state' = state /\ e.c \in Candidates /\ e.from \in States
      /\ ManagedSymbols' \subseteq Live
  BY BotSets, CliProcs DEF Shape, DemoteFlat, DemoteLater, Advance, OutsideGovern, table, ManagedSymbols,
     InState, Live, States, Active
<1>2. ASSUME NEW at, NEW to, Sets(Bot, Begin(e.c, e.from, at, to)), to # "live", crowded' = crowded
      PROVE  SlotBound'
  <2> DEFINE r == Begin(e.c, e.from, at, to)
  <2>1. r.to # "live"
    BY <1>2 DEF Begin
  <2> HIDE DEF r
  <2> QED
    BY <1>1, <1>2, <2>1, NotTaking DEF r
<1>3. ASSUME op' = op, crowded' = crowded PROVE SlotBound'
  BY <1>1, <1>3, SlotsKept DEF Live, Taking
<1>4. CASE DemoteFlat(e) \/ DemoteLater(e)
  BY <1>1, <1>2, <1>3, <1>4, BotSets DEF DemoteFlat, DemoteLater, OutsideGovern
<1>5. CASE Advance(e)
  <2>1. CASE Ready(e.c, e.approved, mem) /\ GoesLive(Bot, e.c, e.from)
    BY <1>1, <1>5, <2>1, SlotTaken DEF Advance, Ready
  <2>2. CASE op' = [op EXCEPT ![Bot] = Begin(e.c, e.from, "move", "retired")] /\ crowded' = crowded
    <3>1. Sets(Bot, Begin(e.c, e.from, "move", "retired"))
      BY <1>1, <2>2, BeginSets, TypedOp DEF States, Steps, BotSteps
    <3> QED
      BY <1>2, <2>2, <3>1
  <2> QED
    BY <1>3, <1>5, <2>1, <2>2 DEF Advance
<1> QED
  BY <1>4, <1>5

LEMMA SlotRest ==
    ASSUME Shape, SlotBound, disturbed \subseteq disturbed',
           \/ Reload \/ TradeCycle \/ Survey \/ StoreBook \/ ListPaper \/ Restart \/ BotDies \/ UNCHANGED vars
           \/ \E e \in todo : Healthy(e)
           \/ \E s \in Symbols : HandEdit(s)
           \/ \E p \in Cli : CliDies(p)
    PROVE  SlotBound'
<1>1. TypeOK /\ OpTyped /\ state' = state /\ crowded' = crowded /\ ManagedSymbols' \subseteq Live
  BY TypedOp DEF Shape, Reload, TradeCycle, Survey, StoreBook, ListPaper, Restart, BotDies, Healthy,
     HandEdit, CliDies, OutsideGovern, table, vars, ManagedSymbols, InState, Live
<1>2. CASE op' = op
  BY <1>1, <1>2, SlotsKept DEF Live, Taking
<1>3. ASSUME NEW p \in Procs, Sets(p, Idle) PROVE SlotBound'
  BY <1>1, <1>3, IdleTyped, NotTaking
<1>4. CASE BotDies \/ \E p \in Cli : CliDies(p)
  BY <1>1, <1>3, <1>4, StopSets, CliProcs DEF BotDies, CliDies
<1> QED
  BY <1>2, <1>4 DEF Reload, TradeCycle, Survey, StoreBook, ListPaper, Restart, Healthy, HandEdit,
     OutsideGovern, vars

LEMMA SlotNext == Shape /\ SlotBound /\ [Next]_vars => SlotBound'
<1> SUFFICES ASSUME Shape, SlotBound, [Next]_vars PROVE SlotBound'
  OBVIOUS
<1>1. TypeOK' /\ disturbed \subseteq disturbed'
  BY TypeNext, DisturbedGrows DEF Shape
<1>2. CASE BotStep
  BY <1>1, <1>2, SlotOperation, SlotBot, SlotRest, CliProcs DEF BotStep, OperationStep
<1>3. ASSUME NEW p \in Cli, OperationStep(p) \/ NewCommand(p) PROVE SlotBound'
  BY <1>1, <1>3, SlotOperation, SlotCommand, CliProcs
<1> QED
  BY <1>1, <1>2, <1>3, SlotRest DEF Next

LEMMA SlotInit == Init => SlotBound
<1> SUFFICES ASSUME Init PROVE SlotBound
  OBVIOUS
<1>1. PICK s \in Start : state = s.state
  BY DEF Init
<1>2. Taking = {}
  BY IdleTyped DEF Init, Taking
<1>3. Live \ disturbed = Live /\ (Live \ disturbed) \ crowded = Live /\ Live = ManagedSymbols
  BY <1>2 DEF Init, Live
<1>4. Cardinality(ManagedSymbols) <= Slots
  BY <1>1, StartAssumption DEF ManagedSymbols, InState
<1>5. Cardinality(ManagedSymbols) \in Nat
  BY TypeInit, LiveFinite
<1>6. Cardinality(ManagedSymbols) <= Slots + Cardinality(Cli)
  BY <1>4, <1>5, FiniteProcs, PipelineAssumption
<1> QED
  BY <1>3, <1>4, <1>6, Zenon DEF SlotBound

\* Promotions to live whose slot checks come one after the other stay within the slots;
\* however checks overlap, each process beyond the first adds at most one symbol
\* (_live_slot_problems, promote and advance_paper), disturbed symbols aside.
THEOREM LiveStaysBounded == Spec => []LiveLimit
<1>1. TypeOK /\ SlotBound => LiveLimit
  <2> SUFFICES ASSUME TypeOK, SlotBound PROVE LiveLimit
    OBVIOUS
  <2> DEFINE A == Live \ disturbed
             B == ManagedSymbols \ disturbed
  <2>1. IsFiniteSet(A) /\ IsFiniteSet(A \ crowded)
    BY LiveFinite, FS_Subset
  <2>2. B \subseteq A /\ B \ crowded \subseteq A \ crowded
    BY DEF Live
  <2>3. Cardinality(A \ crowded) <= Slots /\ Cardinality(A) <= Slots + Cardinality(Cli)
    BY DEF SlotBound
  <2>4. Cardinality(B \ crowded) <= Slots /\ Cardinality(B) <= Slots + Cardinality(Cli)
    <3> HIDE DEF A, B
    <3>1. /\ Cardinality(B) <= Cardinality(A) /\ Cardinality(B \ crowded) <= Cardinality(A \ crowded)
          /\ IsFiniteSet(B) /\ IsFiniteSet(B \ crowded)
      BY <2>1, <2>2, FS_Subset
    <3>2. /\ Cardinality(A) \in Nat /\ Cardinality(A \ crowded) \in Nat
          /\ Cardinality(B) \in Nat /\ Cardinality(B \ crowded) \in Nat
      BY <2>1, <3>1, FS_CardinalityType
    <3> QED
      BY <2>3, <3>1, <3>2, FiniteProcs, PipelineAssumption
  <2> QED
    BY <2>4 DEF LiveLimit
<1>2. IInv => Shape /\ TypeOK
  BY DEF IInv, Shape
<1> QED
  BY <1>1, <1>2, SlotInit, SlotNext, IInvInit, IInvNext, PTL DEF Spec

=============================================================================
