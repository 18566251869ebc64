------------------------------ MODULE Pipeline ------------------------------
(***************************************************************************)
(* promotion.py with the parts of config.py, trading.py and cli.py around  *)
(* it: command-line processes and the bot move candidates and rewrite      *)
(* config.json, each step by step and without locks, and the bot reloads   *)
(* the file and trades what it lists.                                      *)
(*                                                                         *)
(* An operation reads its candidate, may work for minutes (the held-out    *)
(* check), edits config.json by reading, changing and replacing it, and    *)
(* updates the row it read at first.  `op` holds what a process has read.  *)
(* Reads that follow each other at once, with no write of the process      *)
(* between them, are one step.  Measured evidence (costs, paper days,      *)
(* coverage, drawdown, strategy health, verdicts) is any outcome.          *)
(***************************************************************************)
EXTENDS Diagram

CONSTANTS
    Cli, Bot,          \* the processes: command lines, and the bot
    MaxPaper,          \* promotion.max_paper_candidates
    Slots,             \* risk.max_live_capital over risk.max_trade_size
    RequireApproval,   \* promotion.require_approval
    Start,             \* databases and token sets a behaviour may begin with
    MaxEvents,         \* bound on the commands, edits by hand and deaths of a behaviour
    None

ASSUME PipelineAssumption ==
    /\ IsFiniteSet(Cli) /\ Cli # {} /\ Bot \notin Cli
    /\ MaxPaper \in Nat /\ Slots \in Nat /\ RequireApproval \in BOOLEAN
    /\ MaxEvents \in Nat

\* What earlier runs leave: one managed candidate to a symbol, in the config, with
\* its evidence; live no more than the slots, in paper no more than racing commands
\* can have put there.
ASSUME StartAssumption ==
    \A s \in Start :
        /\ s.state \in [Candidates -> States] /\ s.approved \in [Candidates -> BOOLEAN]
        /\ s.holdout \in [Candidates -> {"pass", "fail", "insufficient", "old", None}]
        /\ s.file \subseteq Symbols /\ s.held \subseteq s.file
        /\ \A c \in Candidates :
              /\ s.state[c] \in {"paper"} \cup Managed => s.holdout[c] = "pass"
              /\ s.state[c] \in Managed =>
                    /\ SymbolOf[c] \in s.file /\ (RequireApproval => s.approved[c])
                    /\ \A d \in On(SymbolOf[c]) : s.state[d] \in Managed => c = d
        /\ Cardinality({SymbolOf[c] : c \in {d \in Candidates : s.state[d] \in Managed}}) <= Slots
        /\ Cardinality({c \in Candidates : s.state[c] = "paper"}) <= MaxPaper + Cardinality(Cli) - 1

VARIABLES
    state, approved, holdout,  \* the candidates table
    reopened,                  \* candidates with a transition out of "rejected"
    held,                      \* symbols with a (non-dust) position in the stored main book
    sold,                      \* those of them that govern has sold since it was stored
    file, changed,             \* config.json's token set; replaced since the bot read it
    mem,                       \* the bot's token set
    traded,                    \* the symbols of the bot's current cycle
    phase, todo,               \* where the bot's cycle is; candidates it still has to see to
    op,                        \* each process's operation in progress
    events,                    \* commands, edits and deaths so far
    passed,                    \* history: candidates whose held-out check has passed
    crowded,                   \* history: symbols whose live slot was checked while another's was being taken
    disturbed                  \* history: symbols on which a process acted on something stale

table == <<state, approved, holdout, reopened, passed>>
botvars == <<mem, traded, phase, todo>>
history == <<crowded, disturbed>>
vars == <<table, held, sold, file, changed, botvars, op, events, history>>

Procs == Cli \cup {Bot}
Verdicts == {"pass", "fail", "insufficient"}
Phases == {"reload", "trade", "survey", "govern", "advance", "paper", "down"}
Steps == {"idle", "judge", "rejudge", "approve", "edit", "replace", "finish", "move"}

Operations == [at : Steps, c : Candidates \cup {None}, from : States \cup {None},
               to : States \cup {None}, base : SUBSET Symbols]
Idle == [at |-> "idle", c |-> None, from |-> None, to |-> None, base |-> {}]
Begin(c, from, at, to) == [at |-> at, c |-> c, from |-> from, to |-> to, base |-> {}]
Goes(p, at) == op' = [op EXCEPT ![p].at = at]
Stops(p) == op' = [op EXCEPT ![p] = Idle]
Symbol(p) == SymbolOf[op[p].c]

Event == events < MaxEvents /\ events' = events + 1

\* A candidate's state as the operations already past config.json leave it.
Settled(c) == IF \E p \in Procs : op[p].at = "finish" /\ op[p].c = c
              THEN op[CHOOSE p \in Procs : op[p].at = "finish" /\ op[p].c = c].to
              ELSE state[c]

InState(which) == {c \in Candidates : state[c] \in which}
ManagedSymbols == {SymbolOf[c] : c \in InState(Managed)}

\* _to_paper's count of the paper candidates (and one that counts one short).
RoomForOneMore == Cardinality(InState({"paper"})) <= MaxPaper
PaperHasRoom == Cardinality(InState({"paper"})) < MaxPaper

\* The positions that are open: what the bot's book holds while it runs.
Open == held \ sold

\* _holding: no stored position in the symbol (and a check left out).
FlatAnyway(c) == TRUE
Flat(c) == SymbolOf[c] \notin held

Init ==
    /\ \E s \in Start : /\ state = s.state /\ approved = s.approved /\ holdout = s.holdout
                        /\ file = s.file /\ held = s.held
    /\ passed = {c \in Candidates : holdout[c] = "pass"}
    /\ reopened = {} /\ sold = {} /\ crowded = {} /\ disturbed = {}
    /\ changed = FALSE /\ mem = file /\ traded = {}
    /\ phase = "reload" /\ todo = {}
    /\ op = [p \in Procs |-> Idle]
    /\ events = 0

-----------------------------------------------------------------------------
(***************************************************************************)
(* Steps every process takes                                               *)
(***************************************************************************)

\* _edit_config reads the file; _add_token refuses a symbol that is in it.
Edit(p) ==
    /\ op[p].at = "edit"
    /\ IF op[p].to = "live" /\ Symbol(p) \in file THEN Stops(p)
       ELSE op' = [op EXCEPT ![p].at = "replace", ![p].base = file]
    /\ UNCHANGED <<table, held, sold, file, changed, botvars, events, history>>

\* What p is about to write is based on something that is no longer so.
Stale(p) ==
    \/ state[op[p].c] # op[p].from
    \/ op[p].from = "rejected" /\ op[p].c \in reopened
    \/ \E q \in Procs \ {p} : op[q].at = "finish" /\ op[q].c = op[p].c

\* A removal that leaves the list it read as it was.
AddsOnly(p) == IF op[p].to = "live" THEN op[p].base \cup {Symbol(p)} ELSE op[p].base
EditedFile(p) == IF op[p].to = "live" THEN op[p].base \cup {Symbol(p)}
                 ELSE op[p].base \ {Symbol(p)}

\* os.replace puts the changed copy in place, whatever happened to the file
\* since it was read, and the process reloads it: in the bot this is a reload
\* inside the cycle, without the guard of the loop.
Replace(p) ==
    /\ op[p].at = "replace"
    /\ file' = EditedFile(p)
    /\ IF p = Bot THEN mem' = file' /\ changed' = FALSE ELSE changed' = TRUE /\ UNCHANGED mem
    /\ disturbed' = disturbed \cup (file \ op[p].base) \cup (op[p].base \ file)
                    \cup IF Stale(p) THEN {Symbol(p)} ELSE {}
    /\ op' = [op EXCEPT ![p].at = "finish", ![p].base = {}]
    /\ UNCHANGED <<table, held, sold, traded, phase, todo, events, crowded>>

\* _transition updates the row and stores the move, without looking again.
Move(p) ==
    /\ op[p].at \in {"finish", "move"}
    /\ state' = [state EXCEPT ![op[p].c] = op[p].to]
    /\ reopened' = reopened \cup IF op[p].from = "rejected" THEN {op[p].c} ELSE {}
    /\ disturbed' = disturbed \cup IF Stale(p) THEN {Symbol(p)} ELSE {}
    /\ Stops(p)
    /\ UNCHANGED <<approved, holdout, passed, held, sold, file, changed, botvars, events, crowded>>

\* A process dies; past config.json it leaves a file the table does not match.
Torn(p) == IF op[p].at = "finish" THEN {Symbol(p)} ELSE {}

CliDies(p) ==
    /\ p \in Cli /\ op[p] # Idle /\ Event
    /\ disturbed' = disturbed \cup Torn(p)
    /\ Stops(p)
    /\ UNCHANGED <<table, held, sold, file, changed, botvars, crowded>>

-----------------------------------------------------------------------------
(***************************************************************************)
(* Commands                                                                *)
(***************************************************************************)

\* Processes of the command line are interchangeable: the first idle one starts.
Command(p) == op[p] = Idle /\ p = (CHOOSE q \in Cli : op[q] = Idle) /\ Event
OutsideTable == <<held, sold, file, changed, botvars, history>>

\* record_backtest after an evaluation: the row is made if missing, and goes
\* where the verdict says if it is in one of the first two states.
RecordBacktest(p, c) ==
    /\ Command(p)
    /\ state' = [state EXCEPT ![c] = IF @ = "absent" THEN "candidate" ELSE @]
    /\ \E to \in {"candidate", "backtest_passed"} :
         op' = IF state'[c] \in {"candidate", "backtest_passed"} \ {to}
               THEN [op EXCEPT ![p] = Begin(c, state'[c], "move", to)] ELSE op
    /\ UNCHANGED <<approved, holdout, reopened, passed, OutsideTable>>

\* promote, from backtest_passed: refused while paper is full; a stored PASS
\* needs no second look at the held-out period.
ToPaper(p, c) ==
    /\ Command(p)
    /\ state[c] = "backtest_passed" /\ PaperHasRoom
    /\ op' = [op EXCEPT ![p] = Begin(c, state[c], IF holdout[c] = "pass" THEN "move" ELSE "judge", "paper")]
    /\ UNCHANGED <<table, OutsideTable>>

\* The held-out verdict is stored; only a PASS opens a paper book.
Judge(p) ==
    /\ op[p].at = "judge"
    /\ \E v \in Verdicts :
         /\ holdout' = [holdout EXCEPT ![op[p].c] = v]
         /\ passed' = passed \cup IF v = "pass" THEN {op[p].c} ELSE {}
         /\ op' = CASE v = "pass" -> [op EXCEPT ![p].at = "move"]
                    [] v = "fail" -> [op EXCEPT ![p].at = "move", ![p].to = "rejected"]
                    [] v = "insufficient" -> [op EXCEPT ![p] = Idle]
    /\ UNCHANGED <<state, approved, reopened, events, OutsideTable>>

\* The part of live_readiness the tables decide: approval, a symbol that is not
\* traded as far as the process knows, and a free slot (and it without approval, and
\* with the last slot counted as free).
ReadyUnapproved(c, isApproved, known) ==
    SymbolOf[c] \notin known /\ Cardinality(ManagedSymbols) < Slots
ReadyWhenFull(c, isApproved, known) ==
    (RequireApproval => isApproved) /\ SymbolOf[c] \notin known /\ Cardinality(ManagedSymbols) <= Slots
Ready(c, isApproved, known) ==
    /\ RequireApproval => isApproved
    /\ SymbolOf[c] \notin known
    /\ Cardinality(ManagedSymbols) < Slots

\* A promotion to live passes its checks and begins.
GoesLive(p, c, from) ==
    /\ op' = [op EXCEPT ![p] = Begin(c, from, "edit", "live")]
    /\ crowded' = IF \E q \in Procs : op[q].to = "live" THEN crowded \cup {SymbolOf[c]}
                  ELSE crowded \ {SymbolOf[c]}

\* promote, from paper.
ToLive(p, c) ==
    /\ Command(p)
    /\ state[c] = "paper" /\ Ready(c, approved[c], file)
    /\ GoesLive(p, c, state[c])
    /\ UNCHANGED <<table, held, sold, file, changed, botvars, disturbed>>

\* approve checks the state, then sets the flag.
Approve(p, c) ==
    /\ Command(p)
    /\ state[c] \in {"backtest_passed", "paper"}
    /\ op' = [op EXCEPT ![p] = Begin(c, state[c], "approve", state[c])]
    /\ UNCHANGED <<table, OutsideTable>>

SetApproved(p) ==
    /\ op[p].at = "approve"
    /\ approved' = [approved EXCEPT ![op[p].c] = TRUE]
    /\ Stops(p)
    /\ UNCHANGED <<state, holdout, reopened, passed, events, OutsideTable>>

\* reopen: once, and only what the old trade minimum rejected.
Reopen(p, c) ==
    /\ Command(p)
    /\ state[c] = "rejected" /\ c \notin reopened /\ holdout[c] = "old"
    /\ op' = [op EXCEPT ![p] = Begin(c, state[c], "rejudge", "backtest_passed")]
    /\ UNCHANGED <<table, OutsideTable>>

\* A FAIL over the stored window, or one that is no longer stored, is refused.
Rejudge(p) ==
    /\ op[p].at = "rejudge"
    /\ \/ \E v \in {"pass", "insufficient"} :
            /\ holdout' = [holdout EXCEPT ![op[p].c] = v]
            /\ passed' = passed \cup IF v = "pass" THEN {op[p].c} ELSE {}
            /\ Goes(p, "move")
       \/ Stops(p) /\ UNCHANGED <<holdout, passed>>
    /\ UNCHANGED <<state, approved, reopened, events, OutsideTable>>

\* demote: a held position is left to the bot, which flattens it; a candidate
\* that is already waiting for that stays as it is.
Demote(p, c) ==
    /\ Command(p)
    /\ \/ /\ state[c] \in Active \ Managed
          /\ op' = [op EXCEPT ![p] = Begin(c, state[c], "move", "demoted")]
       \/ /\ state[c] = "live" /\ ~Flat(c)
          /\ op' = [op EXCEPT ![p] = Begin(c, state[c], "move", "demote_pending")]
       \/ /\ state[c] \in Managed /\ Flat(c)
          /\ op' = [op EXCEPT ![p] = Begin(c, state[c], "edit", "demoted")]
    /\ UNCHANGED <<table, OutsideTable>>

-----------------------------------------------------------------------------
(***************************************************************************)
(* The human's editor                                                      *)
(***************************************************************************)

\* config.json is saved with one symbol more or less.  Nothing stops a human
\* from touching a symbol that is held or managed.
HandEdit(s) ==
    /\ Event
    /\ file' = IF s \in file THEN file \ {s} ELSE file \cup {s}
    /\ changed' = TRUE
    /\ disturbed' = disturbed \cup
         IF s \in held \/ \E c \in On(s) : Settled(c) \in Managed THEN {s} ELSE {}
    /\ UNCHANGED <<table, held, sold, botvars, op, crowded>>

-----------------------------------------------------------------------------
(***************************************************************************)
(* The bot's cycle                                                         *)
(***************************************************************************)

BotFree(ph) == phase = ph /\ op[Bot] = Idle

\* The loop's reload: a set that drops a held symbol is rejected as a whole,
\* and the file counts as read all the same.
Kept == {s \in held : s \in mem \ file}
Reload ==
    /\ BotFree("reload") \/ (BotFree("paper") /\ todo = {})
    /\ mem' = IF changed /\ Kept = {} THEN file ELSE mem
    /\ changed' = FALSE
    /\ traded' = mem' /\ phase' = "trade"
    /\ UNCHANGED <<table, held, sold, file, todo, op, events, history>>

\* The cycle buys and sells among its symbols.  A symbol bought after it left
\* config.json, or while a command that found it flat takes it out, is the
\* command's stale holding check.
LeavingFlat == {Symbol(p) : p \in {q \in Cli : /\ op[q].at \in {"edit", "replace", "finish"}
                                               /\ op[q].to = "demoted"}}
TradeCycle ==
    /\ BotFree("trade")
    /\ \E h \in SUBSET Symbols :
         /\ h \ traded = held \ traded
         /\ held' = h
         /\ disturbed' = disturbed \cup {s \in h \ held : s \notin file \/ s \in LeavingFlat}
    /\ phase' = "survey"
    /\ UNCHANGED <<table, sold, file, changed, mem, traded, todo, op, events, crowded>>

SnapshotOfAll(which) == {[c |-> c, from |-> state[c], approved |-> approved[c]] : c \in InState(States)}
Snapshot(which) == {[c |-> c, from |-> state[c], approved |-> approved[c]] : c \in InState(which)}

\* govern lists the managed candidates once, then sees to each.
Survey ==
    /\ BotFree("survey")
    /\ todo' = Snapshot(Managed) /\ phase' = "govern"
    /\ UNCHANGED <<table, held, sold, file, changed, mem, traded, op, events, history>>

Holding(c) == SymbolOf[c] \in Open \cap traded
OutsideGovern == <<table, held, file, changed, mem, traded, phase, events, history>>

\* A live candidate without problems is left alone.
Healthy(e) ==
    /\ BotFree("govern") /\ e \in todo /\ e.from = "live"
    /\ todo' = todo \ {e}
    /\ UNCHANGED <<OutsideGovern, sold, op>>

\* The sale went through, or there was nothing to sell: finish_demotion, with the
\* stored position still as it was.
DemoteFlat(e) ==
    /\ BotFree("govern") /\ e \in todo
    /\ todo' = todo \ {e}
    /\ sold' = IF Holding(e.c) THEN sold \cup {SymbolOf[e.c]} ELSE sold
    /\ op' = [op EXCEPT ![Bot] = Begin(e.c, e.from, "edit", "demoted")]
    /\ UNCHANGED OutsideGovern

\* No price, or the sale failed: the demotion waits for the next cycle.
DemoteLater(e) ==
    /\ BotFree("govern") /\ e \in todo /\ Holding(e.c)
    /\ todo' = todo \ {e}
    /\ op' = IF e.from = "live" THEN [op EXCEPT ![Bot] = Begin(e.c, e.from, "move", "demote_pending")]
             ELSE op
    /\ UNCHANGED <<OutsideGovern, sold>>

\* The `finally` of perform_analysis stores the book govern leaves.
StoreBook ==
    /\ BotFree("govern") /\ todo = {}
    /\ held' = held \ sold /\ sold' = {} /\ phase' = "advance"
    /\ UNCHANGED <<table, file, changed, mem, traded, todo, op, events, history>>

\* advance_paper lists the paper candidates once.
ListPaper ==
    /\ BotFree("advance")
    /\ todo' = Snapshot({"paper"}) /\ phase' = "paper"
    /\ UNCHANGED <<table, held, sold, file, changed, mem, traded, op, events, history>>

\* Ready: to live.  Not ready in time: retired.  Else it stays in paper.
Advance(e) ==
    /\ BotFree("paper") /\ e \in todo
    /\ todo' = todo \ {e}
    /\ \/ Ready(e.c, e.approved, mem) /\ GoesLive(Bot, e.c, e.from)
       \/ op' = [op EXCEPT ![Bot] = Begin(e.c, e.from, "move", "retired")] /\ UNCHANGED crowded
       \/ UNCHANGED <<op, crowded>>
    /\ UNCHANGED <<table, held, sold, file, changed, mem, traded, phase, events, disturbed>>

\* The bot's process dies and is started again: it reads the file and the stored
\* book as they are, with the positions it had sold and not stored.
BotDies ==
    /\ phase # "down" /\ Event
    /\ disturbed' = disturbed \cup Torn(Bot) \cup sold
    /\ sold' = {}
    /\ phase' = "down" /\ todo' = {}
    /\ Stops(Bot)
    /\ UNCHANGED <<table, held, file, changed, mem, traded, crowded>>

Restart ==
    /\ phase = "down"
    /\ mem' = file /\ changed' = FALSE
    /\ phase' = "reload"
    /\ UNCHANGED <<table, held, sold, file, traded, todo, op, events, history>>

-----------------------------------------------------------------------------
OperationStep(p) == Edit(p) \/ Replace(p) \/ Move(p) \/ Judge(p) \/ Rejudge(p) \/ SetApproved(p)

NewCommand(p) ==
    \E c \in Candidates : \/ RecordBacktest(p, c) \/ ToPaper(p, c) \/ ToLive(p, c)
                          \/ Approve(p, c) \/ Reopen(p, c) \/ Demote(p, c)

BotStep ==
    \/ Reload \/ TradeCycle \/ Survey \/ StoreBook \/ ListPaper \/ Restart
    \/ \E e \in todo : Healthy(e) \/ DemoteFlat(e) \/ DemoteLater(e) \/ Advance(e)
    \/ Edit(Bot) \/ Replace(Bot) \/ Move(Bot)

Next ==
    \/ BotStep \/ BotDies
    \/ \E p \in Cli : OperationStep(p) \/ NewCommand(p) \/ CliDies(p)
    \/ \E s \in Symbols : HandEdit(s)

Spec == Init /\ [][Next]_vars

-----------------------------------------------------------------------------
(***************************************************************************)
(* Properties                                                              *)
(***************************************************************************)

\* Types; an operation past its first step belongs to a process that may take it.
TypeOK ==
    /\ state \in [Candidates -> States] /\ approved \in [Candidates -> BOOLEAN]
    /\ holdout \in [Candidates -> Verdicts \cup {"old", None}]
    /\ reopened \subseteq Candidates /\ passed \subseteq Candidates
    /\ held \subseteq Symbols /\ file \subseteq Symbols /\ mem \subseteq Symbols
    /\ traded \subseteq Symbols /\ sold \subseteq Symbols /\ (sold # {} => phase = "govern")
    /\ crowded \subseteq Symbols /\ disturbed \subseteq Symbols
    /\ changed \in BOOLEAN /\ phase \in Phases
    /\ todo \subseteq [c : Candidates, from : Managed \cup {"paper"}, approved : BOOLEAN]
    /\ op \in [Procs -> Operations]
    /\ \A p \in Procs : IF op[p].at = "idle" THEN op[p] = Idle
                        ELSE op[p].c \in Candidates /\ {op[p].from, op[p].to} \subseteq States
    /\ op[Bot].at \in {"idle", "edit", "replace", "finish", "move"}

\* A candidate trades real money only after its held-out check passed and,
\* where approval is required, a human approved it, however its operations
\* meet those of others (promote, live_readiness, approve).
LiveWasEarned ==
    \A c \in Candidates :
        Settled(c) \in Managed => c \in passed /\ (RequireApproval => approved[c])

\* Counting and moving are two steps, so commands that run at once may pass
\* the same check: each beyond the first adds at most one (_to_paper).
PaperLimit == Cardinality(InState({"paper"})) <= MaxPaper + Cardinality(Cli) - 1

\* The slots are counted before a promotion to live and not again: promotions
\* checked one after the other never exceed them, and however the checks overlap,
\* each process beyond the first adds at most one symbol (_live_slot_problems).
LiveLimit ==
    LET live == ManagedSymbols \ disturbed IN
    /\ Cardinality(live \ crowded) <= Slots
    /\ Cardinality(live) <= Slots + Cardinality(Cli)

\* A held symbol stays in the bot's token set, so its stops go on being
\* evaluated, through every reload, edit, demotion and restart, unless it was
\* taken out behind the holding check (_enforce_token_change_guard, demote, govern).
NoOrphan == phase # "down" => Open \ disturbed \subseteq mem

\* With every operation that is past config.json counted as done, the pipeline
\* behaves as Lifecycle promises: moves along the diagram, one re-opening, and
\* a config.json in step with what is live and held.
L == INSTANCE Lifecycle WITH state <- [c \in Candidates |-> Settled(c)], tokens <- file,
                             held <- Open
FollowsLifecycle == L!Spec

\* The promise Lifecycle's theorems are about, checked here directly.
ConfigInStep == L!InStep /\ L!OnePerSymbol

=============================================================================
