-------------------------------- MODULE Inputs --------------------------------
(***************************************************************************)
(* What strategies are fed with, one component at a time: `focus` picks    *)
(* the one that runs, the variables of the others rest.  The components    *)
(* share neither state nor calls that matter to their properties.          *)
(***************************************************************************)
EXTENDS RpcBudget, Sequences

CONSTANTS
    None,
    Names, Specs, Windows,                                           \* Rules
    Bot, Backfiller, Wanted, Histories, Stores, PageLimit, MaxNow,   \* Candles
    Feeds, Postings, PageSize, Interval, MaxBackoff, Resets, Window,
    Imports, MaxRestarts,                                            \* Recorder
    Markets, Lookback, HoldoutBars, MinTrades, MinBars, First, MaxBar  \* Holdout

VARIABLES
    focus,
    spec, phase, next, visiting, needs, failed, errors, order, window, values,
    has, now, stored, partial, op, served, jumped,
    posted, second, items, fetches, rows, cursor, backoff, wait, restarts,
    market, first, last, state, pinned, held, selected

rules == <<spec, phase, next, visiting, needs, failed, errors, order, window, values>>
candles == <<has, now, stored, partial, op, served, jumped>>
recorder == <<posted, second, items, fetches, rows, cursor, backoff, wait, restarts>>
holdout == <<market, first, last, state, pinned, held, selected>>
allvars == <<focus, rpcvars, rules, candles, recorder, holdout>>

R == INSTANCE Rules
C == INSTANCE Candles
S == INSTANCE Recorder WITH clock <- second, stored <- items
H == INSTANCE Holdout

ASSUME RuleSettings == R!Settings
ASSUME CandleSettings == C!Settings
ASSUME RecorderSettings == S!Settings
ASSUME HoldoutSettings == H!Settings

-----------------------------------------------------------------------------
RulesRest == spec = None /\ phase = None /\ next = 0 /\ visiting = <<>> /\ needs = <<>>
             /\ failed = {} /\ errors = {} /\ order = <<>> /\ window = <<>> /\ values = <<>>
CandlesRest == has = {} /\ now = 0 /\ stored = {} /\ partial = {} /\ op = <<>>
               /\ served = None /\ jumped = {}
RecorderRest == posted = <<>> /\ second = 0 /\ items = <<>> /\ fetches = {} /\ rows = {}
                /\ cursor = 0 /\ backoff = 0 /\ wait = 0 /\ restarts = 0
HoldoutRest == market = <<>> /\ first = 0 /\ last = 0 /\ state = None /\ pinned = None
               /\ held = None /\ selected = {}

InputsInit ==
    \/ focus = "rpc" /\ Init /\ RulesRest /\ CandlesRest /\ RecorderRest /\ HoldoutRest
    \/ focus = "rules" /\ Init /\ R!Init /\ CandlesRest /\ RecorderRest /\ HoldoutRest
    \/ focus = "candles" /\ Init /\ RulesRest /\ C!Init /\ RecorderRest /\ HoldoutRest
    \/ focus = "recorder" /\ Init /\ RulesRest /\ CandlesRest /\ S!Init /\ HoldoutRest
    \/ focus = "holdout" /\ Init /\ RulesRest /\ CandlesRest /\ RecorderRest /\ H!Init

InputsNext ==
    \/ focus = "rpc" /\ Next /\ UNCHANGED <<focus, rules, candles, recorder, holdout>>
    \/ focus = "rules" /\ R!Next /\ UNCHANGED <<focus, rpcvars, candles, recorder, holdout>>
    \/ focus = "candles" /\ C!Next /\ UNCHANGED <<focus, rpcvars, rules, recorder, holdout>>
    \/ focus = "recorder" /\ S!Next /\ UNCHANGED <<focus, rpcvars, rules, candles, holdout>>
    \/ focus = "holdout" /\ H!Next /\ UNCHANGED <<focus, rpcvars, rules, candles, recorder>>

Spec == InputsInit /\ [][InputsNext]_allvars

-----------------------------------------------------------------------------
(* The properties of the components, each over its own runs.                 *)

\* Every component's variables keep their types (one type invariant for them all).
InputsTypeOK ==
    /\ TypeOK
    /\ focus = "rules" => R!TypeOK
    /\ focus = "candles" => C!TypeOK
    /\ focus = "recorder" => S!TypeOK
    /\ focus = "holdout" => H!TypeOK

\* Outputs are numbers from exactly the bar the compiler counted, holes aside (Rules).
NeedIsExact == focus = "rules" => R!NeedIsExact

\* A spec is accepted exactly when it is well formed and long enough (Rules).
AcceptsExactly == focus = "rules" => R!AcceptsExactly

\* The bot's frame is the exchange's series (Candles).
ServedIsTrue == focus = "candles" => C!ServedIsTrue

\* No page is left out inside the store (Candles).
HolesAreJumps == focus = "candles" => C!HolesAreJumps

\* A covered window lacks only what the recorder does not answer for (Recorder).
CoveredIsCounted == focus = "recorder" => S!CoveredIsCounted

\* No held-out bar was in the backtest that led to it (Holdout).
HeldOutUnseen == focus = "holdout" => H!HeldOutUnseen

\* The held-out period of a hash never starts anew (Holdout).
PinHolds == H!PinHolds

=============================================================================
