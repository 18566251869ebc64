----------------------------- MODULE RpcBudget -----------------------------
(***************************************************************************)
(* Every Solana RPC call (rpc.py): the daily budget is checked, the call   *)
(* waits for its compute units (CU) in one token bucket, is counted and    *)
(* sent, and is tried again after an HTTP 429.                             *)
(*                                                                         *)
(* The callers are the calls under way in one process, on its event loops; *)
(* they interleave between the steps, each step holds its lock.  The clock *)
(* is the process's, in the time one CU takes to come back, so that the    *)
(* rate is 1; the rate stays as configured (set_rate then changes nothing).*)
(* A usage file that cannot be read shows nothing, and one that cannot be  *)
(* written keeps what it showed.                                           *)
(***************************************************************************)
EXTENDS Integers, FiniteSets

CONSTANTS
    Callers,      \* calls that may be under way together
    Costs,        \* CU of the methods
    Capacity,     \* CU the bucket holds: one second's
    Budget,       \* daily_cu_budget, 0 for none
    MaxAttempts,  \* _MAX_ATTEMPTS
    Waits,        \* what is waited after a 429: Retry-After or the backoff
    MaxClock,     \* bound on the clock
    MaxDays       \* bound on the UTC days

ASSUME CallersAssumption == IsFiniteSet(Callers)
ASSUME CapacityAssumption == Capacity \in Nat
ASSUME CostsAssumption == Costs \subseteq Nat
ASSUME WaitsAssumption == Waits \subseteq Nat
ASSUME BudgetAssumption == Budget \in Nat /\ MaxAttempts \in Nat \ {0}

VARIABLES
    clock,
    tokens, updated,  \* TokenBucket._tokens (may be negative), ._updated
    call,             \* per caller: what it does, its method's cost, ...
    spent,            \* today's CU in the usage file
    counted,          \* history: today's CU in truth
    unseen,           \* history: the most of them that a check today was not shown
    day,
    reserved,         \* history: CU reserved since the process started
    optional          \* history: CU counted today for calls that are not essential

usage == <<counted, unseen, optional>>
rpcvars == <<clock, tokens, updated, call, spent, day, reserved, usage>>

Idle == [at |-> "idle", cost |-> 0, essential |-> FALSE, attempt |-> 0, due |-> 0, total |-> 0]

Init ==
    /\ clock = 0 /\ tokens = Capacity /\ updated = 0
    /\ call = [p \in Callers |-> Idle]
    /\ spent = 0 /\ day = 0
    /\ reserved = 0 /\ counted = 0 /\ unseen = 0 /\ optional = 0

\* _check_budget: refused once the call would pass the budget, by what the file
\* shows (or only once the budget is passed).
AllowedLate(cost, essential, shown) == essential \/ Budget = 0 \/ shown <= Budget
Allowed(cost, essential, shown) == essential \/ Budget = 0 \/ shown + cost <= Budget

\* BudgetedClient: the check comes before the call and is not repeated.
Ask(p) ==
    /\ call[p].at = "idle"
    /\ \E cost \in Costs, essential \in BOOLEAN, shown \in {0, spent} :
         /\ Allowed(cost, essential, shown)
         /\ unseen' = IF ~essential /\ Budget > 0 /\ counted - shown > unseen THEN counted - shown
                      ELSE unseen
         /\ call' = [call EXCEPT ![p] = [Idle EXCEPT !.at = "checked", !.cost = cost, !.essential = essential]]
    /\ UNCHANGED <<clock, tokens, updated, spent, counted, day, reserved, optional>>

\* TokenBucket.reserve: the bucket as refilled by now (and one that is not capped).
RefilledUncapped == tokens + (clock - updated)
Refilled == IF tokens + (clock - updated) <= Capacity THEN tokens + (clock - updated) ELSE Capacity
Reserve(p) ==
    /\ \/ call[p].at = "checked"
       \/ call[p].at = "backoff" /\ clock >= call[p].due
    /\ tokens' = Refilled - call[p].cost
    /\ updated' = clock
    /\ reserved' = reserved + call[p].cost
    /\ call' = [call EXCEPT ![p] = [@ EXCEPT !.at = "waiting", !.total = reserved',
                                            !.due = IF tokens' >= 0 THEN clock ELSE clock - tokens']]
    /\ UNCHANGED <<clock, spent, day, usage>>

\* The call sleeps for its delay, or longer; it is counted (on what was read of the
\* file, if it can be written) and sent.
Send(p) ==
    /\ call[p].at = "waiting" /\ clock >= call[p].due
    /\ spent' \in {spent + call[p].cost, call[p].cost, spent}
    /\ counted' = counted + call[p].cost
    /\ optional' = IF call[p].essential THEN optional ELSE optional + call[p].cost
    /\ call' = [call EXCEPT ![p].at = "sent"]
    /\ UNCHANGED <<clock, tokens, updated, unseen, day, reserved>>

\* An answer or another error, or the last 429, ends the call; a 429 before waits.
Answer(p) ==
    /\ call[p].at = "sent"
    /\ \/ call' = [call EXCEPT ![p] = Idle]
       \/ /\ call[p].attempt < MaxAttempts - 1
          /\ \E w \in Waits :
               call' = [call EXCEPT ![p] = [@ EXCEPT !.at = "backoff", !.attempt = call[p].attempt + 1, !.due = clock + w]]
    /\ UNCHANGED <<clock, tokens, updated, spent, day, reserved, usage>>

Tick ==
    /\ clock < MaxClock /\ clock' = clock + 1
    /\ UNCHANGED <<tokens, updated, call, spent, day, reserved, usage>>

\* The usage is kept per UTC day.
NewDay ==
    /\ day < MaxDays /\ day' = day + 1
    /\ spent' = 0 /\ counted' = 0 /\ unseen' = 0 /\ optional' = 0
    /\ UNCHANGED <<clock, tokens, updated, call, reserved>>

Next == Tick \/ NewDay \/ \E p \in Callers : Ask(p) \/ Reserve(p) \/ Send(p) \/ Answer(p)

RpcSpec == Init /\ [][Next]_rpcvars

-----------------------------------------------------------------------------
(***************************************************************************)
(* Properties                                                              *)
(***************************************************************************)

Calls == [at : {"idle", "checked", "waiting", "sent", "backoff"}, cost : Nat, essential : BOOLEAN,
          attempt : Nat, due : Nat, total : Nat]
TypeOK ==
    /\ clock \in Nat /\ tokens \in Int /\ tokens <= Capacity /\ updated \in Nat /\ updated <= clock
    /\ call \in [Callers -> Calls]
    /\ spent \in Nat /\ counted \in Nat /\ unseen \in Nat /\ spent <= counted
    /\ day \in Nat /\ reserved \in Nat /\ optional \in Nat

InQueue(p) == call[p].at \in {"waiting", "sent"}

\* The bucket keeps the configured rate however calls interleave and retry: calls
\* are due in the order they reserved, and what is reserved after one call, up to
\* and with a later one, is at most a second's CU more than what comes back between
\* their due times (TokenBucket.reserve, _guarded_call).
Paced ==
    \A p, q \in Callers :
        InQueue(p) /\ InQueue(q) /\ call[p].total < call[q].total =>
            /\ call[p].due <= call[q].due
            /\ call[q].total - call[p].total <= Capacity + (call[q].due - call[p].due)

\* The check comes before the wait and once for all attempts, so the calls that are
\* not essential may pass the day's budget, but never by more than the attempts of
\* the calls under way, and what the usage file failed to show one of the checks
\* (_check_budget, _guarded_call, UsageCounter).
Affordable == {c \in Costs : c <= Budget} \cup {0}
Largest == CHOOSE c \in Affordable : \A d \in Affordable : d <= c
OverrunBounded ==
    Budget > 0 => optional <= Budget + unseen + (Cardinality(Callers) * MaxAttempts - 1) * Largest

=============================================================================
