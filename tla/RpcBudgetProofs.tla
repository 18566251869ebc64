-------------------------- MODULE RpcBudgetProofs --------------------------
(***************************************************************************)
(* The token bucket keeps its rate and the daily budget its limit, for any *)
(* number of calls, any costs and any capacity: RpcBudget's type           *)
(* correctness; Paced, from an invariant that bounds how far the bucket    *)
(* may have fallen behind each queued call; and OverrunBounded, from one   *)
(* that counts what the calls under way may still add.                     *)
(***************************************************************************)
EXTENDS RpcBudget, FiniteSetTheorems, WellFoundedInduction, TLAPS

\* For a queued call, what was reserved after it and what the bucket still holds
\* came back since its due time, and the bucket is in debt at least until then.
Ahead(p) ==
    /\ call[p].total <= reserved
    /\ reserved + tokens - call[p].total <= Capacity + (updated - call[p].due)
    /\ call[p].due <= updated \/ call[p].due <= updated - tokens

AllAhead == \A p \in Callers : InQueue(p) => Ahead(p)

LEMMA DebtIsNat == \A a \in Nat, t \in Int : ~(t >= 0) => a - t \in Nat
  OBVIOUS

LEMMA Cancels == \A a \in Nat, t \in Int : a + t - a = t /\ a <= a
  OBVIOUS

\* A reservation in one place: what it makes of the bucket and of its own call.
LEMMA ReserveFacts ==
    ASSUME TypeOK, NEW p \in Callers, Reserve(p)
    PROVE  /\ call[p].cost \in Nat
           /\ tokens' \in Int /\ tokens' <= Capacity
           /\ tokens' <= tokens + (clock - updated) - call[p].cost
           /\ updated' = clock /\ updated' \in Nat
           /\ reserved' = reserved + call[p].cost
           /\ call'[p] \in Calls
           /\ call'[p].at = "waiting" /\ call'[p].total = reserved'
           /\ call'[p].due = IF tokens' >= 0 THEN clock ELSE clock - tokens'
           /\ \A q \in Callers \ {p} : call'[q] = call[q]
<1> DEFINE c == [call[p] EXCEPT !.at = "waiting", !.total = reserved',
                                !.due = IF tokens' >= 0 THEN clock ELSE clock - tokens']
<1>1. call[p] \in Calls
  BY DEF TypeOK
<1>2. call' = [call EXCEPT ![p] = c]
  BY DEF Reserve
<1>3. call'[p] = c /\ \A q \in Callers \ {p} : call'[q] = call[q]
  BY <1>2 DEF TypeOK
<1>4. /\ call[p].cost \in Nat
      /\ tokens' \in Int /\ tokens' <= Capacity
      /\ tokens' <= tokens + (clock - updated) - call[p].cost
      /\ updated' = clock /\ updated' \in Nat
      /\ reserved' = reserved + call[p].cost
  BY <1>1, CapacityAssumption DEF Reserve, TypeOK, Calls, Refilled
<1>5. reserved' \in Nat
  BY <1>4 DEF TypeOK
<1>6. (IF tokens' >= 0 THEN clock ELSE clock - tokens') \in Nat
  <2>1. CASE tokens' >= 0
    BY <2>1 DEF TypeOK
  <2>2. CASE ~(tokens' >= 0)
    <3>1. clock \in Nat /\ tokens' \in Int
      BY <1>4 DEF TypeOK
    <3>2. clock - tokens' \in Nat
      BY <2>2, <3>1, DebtIsNat
    <3> QED
      BY <2>2, <3>2
  <2> QED
    BY <2>1, <2>2
<1>7. c \in Calls /\ c.at = "waiting" /\ c.total = reserved'
      /\ c.due = IF tokens' >= 0 THEN clock ELSE clock - tokens'
  BY <1>1, <1>5, <1>6 DEF Calls
<1> QED
  BY <1>3, <1>4, <1>7

\* Types are kept by every step.
LEMMA TypesKept == TypeOK /\ [Next]_rpcvars => TypeOK'
<1> SUFFICES ASSUME TypeOK, [Next]_rpcvars PROVE TypeOK'
  OBVIOUS
<1> USE CapacityAssumption, CostsAssumption, WaitsAssumption
<1>1. CASE Tick
  BY <1>1 DEF Tick, usage, TypeOK
<1>2. CASE NewDay
  BY <1>2 DEF NewDay, TypeOK
<1>3. ASSUME NEW p \in Callers, Ask(p) PROVE TypeOK'
  <2>1. PICK cost \in Costs, essential \in BOOLEAN :
          call' = [call EXCEPT ![p] = [Idle EXCEPT !.at = "checked", !.cost = cost, !.essential = essential]]
    BY <1>3 DEF Ask
  <2>2. [Idle EXCEPT !.at = "checked", !.cost = cost, !.essential = essential] \in Calls
    BY DEF Idle, Calls
  <2>3. call' \in [Callers -> Calls]
    BY <2>1, <2>2 DEF TypeOK
  <2>4. unseen' \in Nat
    BY <1>3 DEF Ask, TypeOK
  <2> QED
    BY <1>3, <2>3, <2>4 DEF Ask, TypeOK
<1>4. ASSUME NEW p \in Callers, Reserve(p) PROVE TypeOK'
  <2>1. call' \in [Callers -> Calls]
    <3>1. call'[p] \in Calls /\ \A q \in Callers \ {p} : call'[q] = call[q]
      BY <1>4, ReserveFacts
    <3>2. DOMAIN call' = Callers /\ call' = [q \in Callers |-> call'[q]]
      BY <1>4 DEF Reserve, TypeOK
    <3> QED
      BY <3>1, <3>2 DEF TypeOK
  <2>2. reserved' \in Nat
    BY <1>4, ReserveFacts DEF TypeOK
  <2>3. tokens' \in Int /\ tokens' <= Capacity /\ updated' = clock
    BY <1>4, ReserveFacts
  <2>4. UNCHANGED <<clock, spent, day, counted, unseen, optional>>
    BY <1>4 DEF Reserve, usage
  <2> QED
    BY <2>1, <2>2, <2>3, <2>4 DEF TypeOK
<1>5. ASSUME NEW p \in Callers, Send(p) PROVE TypeOK'
  <2>1. call[p] \in Calls /\ call[p].cost \in Nat
    BY DEF TypeOK, Calls
  <2>2. [call[p] EXCEPT !.at = "sent"] \in Calls
    BY <2>1 DEF Calls
  <2>3. call' = [call EXCEPT ![p] = [call[p] EXCEPT !.at = "sent"]]
    BY <1>5 DEF Send
  <2>4. call' \in [Callers -> Calls]
    BY <2>2, <2>3 DEF TypeOK
  <2>5. spent' \in Nat /\ counted' \in Nat /\ spent' <= counted' /\ optional' \in Nat
    BY <1>5, <2>1 DEF Send, TypeOK
  <2> QED
    BY <1>5, <2>4, <2>5 DEF Send, TypeOK
<1>6. ASSUME NEW p \in Callers, Answer(p) PROVE TypeOK'
  <2>1. call[p] \in Calls /\ call[p].attempt \in Nat /\ Idle \in Calls
    BY DEF TypeOK, Calls, Idle
  <2>2. CASE call' = [call EXCEPT ![p] = Idle]
    BY <1>6, <2>1, <2>2 DEF Answer, usage, TypeOK
  <2>3. CASE \E w \in Waits :
               call' = [call EXCEPT ![p] = [@ EXCEPT !.at = "backoff", !.attempt = call[p].attempt + 1, !.due = clock + w]]
    <3>1. PICK w \in Waits :
            call' = [call EXCEPT ![p] = [@ EXCEPT !.at = "backoff", !.attempt = call[p].attempt + 1, !.due = clock + w]]
      BY <2>3
    <3>2. [call[p] EXCEPT !.at = "backoff", !.attempt = call[p].attempt + 1, !.due = clock + w] \in Calls
      <4>1. clock + w \in Nat /\ call[p].attempt + 1 \in Nat
        BY <2>1 DEF TypeOK
      <4> QED
        BY <2>1, <4>1 DEF Calls
    <3>3. call' = [call EXCEPT ![p] = [call[p] EXCEPT !.at = "backoff", !.attempt = call[p].attempt + 1,
                                                      !.due = clock + w]]
      BY <3>1
    <3>4. call' \in [Callers -> Calls]
      BY <3>2, <3>3 DEF TypeOK
    <3> QED
      BY <1>6, <3>4 DEF Answer, usage, TypeOK
  <2> QED
    BY <1>6, <2>2, <2>3 DEF Answer
<1>7. CASE UNCHANGED rpcvars
  BY <1>7 DEF rpcvars, usage, TypeOK
<1> QED
  BY <1>1, <1>2, <1>3, <1>4, <1>5, <1>6, <1>7 DEF Next

\* A step that leaves the bucket alone and puts no call into the queue keeps both.
LEMMA QueueKept ==
    ASSUME TypeOK, AllAhead, Paced, UNCHANGED <<tokens, updated, reserved>>,
           \A q \in Callers : InQueue(q)' => /\ InQueue(q)
                                             /\ call'[q].total = call[q].total
                                             /\ call'[q].due = call[q].due
    PROVE  AllAhead' /\ Paced'
BY DEF AllAhead, Ahead, Paced

\* A reservation keeps the queue in order and within the rate.
LEMMA ReserveKeeps ==
    ASSUME TypeOK, AllAhead, Paced, NEW p \in Callers, Reserve(p)
    PROVE  AllAhead' /\ Paced'
<1> USE CapacityAssumption
<1>1. /\ call[p].cost \in Nat
      /\ tokens' \in Int /\ tokens' <= Capacity
      /\ tokens' <= tokens + (clock - updated) - call[p].cost
      /\ updated' = clock
      /\ reserved' = reserved + call[p].cost
      /\ call'[p].total = reserved'
      /\ call'[p].due = IF tokens' >= 0 THEN clock ELSE clock - tokens'
      /\ \A q \in Callers \ {p} : call'[q] = call[q]
  BY ReserveFacts
<1>2. Ahead(p)'
  <2> DEFINE t == tokens'
             due == call'[p].due
  <2>1. clock \in Int /\ t \in Int /\ t <= Capacity
    BY <1>1 DEF TypeOK
  <2>2. due = IF t >= 0 THEN clock ELSE clock - t
    BY <1>1, Zenon
  <2>3. reserved' \in Nat
    BY <1>1 DEF TypeOK
  <2> HIDE DEF t, due
  <2>4. t <= Capacity + (clock - due) /\ (due <= clock \/ due <= clock - t)
    <3>1. CASE t >= 0
      BY <2>1, <2>2, <3>1
    <3>2. CASE ~(t >= 0)
      BY <2>1, <2>2, <3>2
    <3> QED
      BY <3>1, <3>2
  <2>5. reserved' + t - reserved' = t /\ reserved' <= reserved'
    BY <2>1, <2>3, Cancels, Zenon
  <2>6. reserved' + t - call'[p].total <= Capacity + (updated' - due)
    BY <1>1, <2>4, <2>5, Zenon
  <2> QED
    BY <1>1, <2>4, <2>5, <2>6, Zenon DEF Ahead, t, due
<1>3. \A q \in Callers \ {p} : InQueue(q)' => InQueue(q) /\ Ahead(q) /\ Ahead(q)'
  <2> SUFFICES ASSUME NEW q \in Callers \ {p}, InQueue(q)' PROVE InQueue(q) /\ Ahead(q) /\ Ahead(q)'
    OBVIOUS
  <2>1. InQueue(q) /\ call'[q] = call[q]
    BY <1>1 DEF InQueue
  <2>2. Ahead(q)
    BY <2>1 DEF AllAhead
  <2>3. call[q].total \in Nat /\ call[q].due \in Nat
    BY DEF TypeOK, Calls
  <2>4. /\ reserved' + tokens' - call[q].total <= Capacity + (updated' - call[q].due)
        /\ call[q].total <= reserved'
    BY <1>1, <2>2, <2>3 DEF Ahead, TypeOK
  <2>5. call[q].due <= updated' \/ call[q].due <= updated' - tokens'
    BY <1>1, <2>2, <2>3 DEF Ahead, TypeOK
  <2> QED
    BY <2>1, <2>2, <2>4, <2>5 DEF Ahead
<1>4. AllAhead'
  BY <1>2, <1>3 DEF AllAhead
<1>5. Paced'
  <2> SUFFICES ASSUME NEW q \in Callers, NEW r \in Callers, InQueue(q)', InQueue(r)',
                      call'[q].total < call'[r].total
               PROVE  /\ call'[q].due <= call'[r].due
                      /\ call'[r].total - call'[q].total <= Capacity + (call'[r].due - call'[q].due)
    BY DEF Paced
  <2>1. \A s \in Callers : call[s].total \in Nat /\ call[s].due \in Nat
    BY DEF TypeOK, Calls
  <2>2. CASE q # p /\ r # p
    BY <1>1, <1>3, <2>2 DEF Paced
  <2>3. CASE q = p
    <3>1. r # p
      BY <2>1, <2>3, <1>1 DEF TypeOK
    <3>2. call[r].total <= reserved /\ call'[r] = call[r]
      BY <1>1, <1>3, <3>1 DEF Ahead
    <3> QED
      BY <1>1, <2>1, <2>3, <3>2 DEF TypeOK
  <2>4. CASE q # p /\ r = p
    <3>1. Ahead(q)' /\ call'[q] = call[q]
      BY <1>1, <1>3, <2>4
    <3> QED
      BY <1>1, <2>1, <2>4, <3>1 DEF Ahead, TypeOK
  <2> QED
    BY <2>2, <2>3, <2>4
<1> QED
  BY <1>4, <1>5

\* Every step keeps the queue in order and within the rate.
LEMMA PaceKept == TypeOK /\ AllAhead /\ Paced /\ [Next]_rpcvars => AllAhead' /\ Paced'
<1> SUFFICES ASSUME TypeOK, AllAhead, Paced, [Next]_rpcvars PROVE AllAhead' /\ Paced'
  OBVIOUS
<1>1. CASE Tick
  BY <1>1, QueueKept DEF Tick, InQueue
<1>2. CASE NewDay
  BY <1>2, QueueKept DEF NewDay, InQueue
<1>3. ASSUME NEW p \in Callers, Ask(p) PROVE AllAhead' /\ Paced'
  <2>1. call'[p].at = "checked" /\ \A q \in Callers \ {p} : call'[q] = call[q]
    BY <1>3 DEF Ask, TypeOK, Idle
  <2> QED
    BY <1>3, <2>1, QueueKept DEF Ask, InQueue
<1>4. ASSUME NEW p \in Callers, Reserve(p) PROVE AllAhead' /\ Paced'
  BY <1>4, ReserveKeeps
<1>5. ASSUME NEW p \in Callers, Send(p) PROVE AllAhead' /\ Paced'
  <2>1. /\ call[p].at = "waiting"
        /\ call'[p].total = call[p].total /\ call'[p].due = call[p].due
        /\ \A q \in Callers \ {p} : call'[q] = call[q]
    BY <1>5 DEF Send, TypeOK, Calls
  <2> QED
    BY <1>5, <2>1, QueueKept DEF Send, InQueue
<1>6. ASSUME NEW p \in Callers, Answer(p) PROVE AllAhead' /\ Paced'
  <2>1. call'[p].at \in {"idle", "backoff"}
    <3>1. CASE call' = [call EXCEPT ![p] = Idle]
      BY <3>1 DEF TypeOK, Idle
    <3>2. CASE \E w \in Waits :
                 call' = [call EXCEPT ![p] = [@ EXCEPT !.at = "backoff", !.attempt = call[p].attempt + 1, !.due = clock + w]]
      BY <3>2 DEF TypeOK, Calls
    <3> QED
      BY <1>6, <3>1, <3>2 DEF Answer
  <2>2. \A q \in Callers \ {p} : call'[q] = call[q]
    BY <1>6 DEF Answer, TypeOK
  <2> QED
    BY <1>6, <2>1, <2>2, QueueKept DEF Answer, InQueue
<1>7. CASE UNCHANGED rpcvars
  BY <1>7, QueueKept DEF rpcvars, InQueue
<1> QED
  BY <1>1, <1>2, <1>3, <1>4, <1>5, <1>6, <1>7 DEF Next

LEMMA InitHolds == Init => TypeOK /\ AllAhead /\ Paced
BY CapacityAssumption DEF Init, Idle, TypeOK, Calls, AllAhead, Paced, InQueue

\* The bucket, the calls and the counters keep their types (RpcBudget.TypeOK).
THEOREM BudgetTyped == RpcSpec => []TypeOK
<1>1. Init => TypeOK
  BY InitHolds
<1> QED
  BY <1>1, TypesKept, PTL DEF RpcSpec

\* However many calls there are, whatever they cost and however often they retry,
\* they are due in the order of their reservations and the bucket's rate is kept
\* between any two of them (TokenBucket.reserve, _guarded_call).
THEOREM RateIsKept == RpcSpec => []Paced
<1> QED
  BY InitHolds, TypesKept, PaceKept, PTL DEF RpcSpec

-----------------------------------------------------------------------------
(***************************************************************************)
(* OverrunBounded.  What calls that are not essential may still add to the *)
(* day is counted, CU by CU, as a finite set: Pending holds <<p, <<k, i>>>>*)
(* for the i-th CU of the k-th attempt that call p has left.  What is      *)
(* counted and what is pending are bounded together: a call takes from the *)
(* one what it adds to the other when it is sent, gives up the rest when   *)
(* it ends, and enters only with its first attempt within the budget, as   *)
(* far as the file shows.                                                  *)
(***************************************************************************)

\* The attempts that call p may still count against the optional calls of the day.
Left(p) ==
    IF call[p].at = "idle" \/ call[p].essential THEN 0
    ELSE MaxAttempts - call[p].attempt - (IF call[p].at = "sent" THEN 1 ELSE 0)

Slots == (1..MaxAttempts) \X (1..Largest)
Pending ==
    {w \in Callers \X Slots : w[2][1] <= Left(w[1]) /\ w[2][2] <= call[w[1]].cost}

Bound == Budget + unseen + (Cardinality(Callers) * MaxAttempts - 1) * Largest

\* A call never starts an attempt beyond the last, and what is not essential was
\* affordable when it was asked for.
CallsKnown ==
    \A p \in Callers :
        /\ call[p].attempt < MaxAttempts
        /\ call[p].at = "idle" \/ call[p].essential \/ call[p].cost <= Largest

Committed ==
    Budget > 0 =>
        /\ optional <= counted
        /\ CallsKnown
        /\ optional + Cardinality(Pending) <= Bound

Below == {w \in Nat \X Nat : w[1] < w[2]}

\* Every nonempty set of naturals has a least member.
LEMMA LeastExists ==
    ASSUME NEW S, S \subseteq Nat, S # {}
    PROVE  \E x \in S : \A y \in S : x <= y
<1>1. IsWellFoundedOn(Below, Nat)
  BY NatLessThanWellFounded, Zenon DEF OpToRel, Below
<1>2. PICK x \in S : \A y \in S : ~ (<<y, x>> \in Below)
  BY <1>1, WFMin, Zenon
<1>3. \A y \in S : x <= y
  <2> SUFFICES ASSUME NEW y \in S PROVE x <= y
    OBVIOUS
  <2>1. x \in Nat /\ y \in Nat /\ ~(y < x)
    BY <1>2 DEF Below
  <2> QED
    BY <2>1
<1> QED
  BY <1>3

\* The costs within the budget have a largest one.
LEMMA LargestFacts ==
    /\ Largest \in Nat /\ Largest <= Budget
    /\ \A c \in Costs : c <= Budget => c <= Largest
<1> DEFINE Gaps == {Budget - c : c \in Affordable}
<1>1. Affordable \subseteq Nat /\ 0 \in Affordable /\ \A c \in Affordable : c <= Budget
  <2>1. 0 <= Budget /\ 0 \in Nat
    BY BudgetAssumption
  <2>2. 0 \in Affordable
    BY DEF Affordable
  <2>3. ASSUME NEW c \in Affordable PROVE c \in Nat /\ c <= Budget
    <3>1. (c \in Costs /\ c <= Budget) \/ c = 0
      BY <2>3 DEF Affordable
    <3> QED
      BY <2>1, <3>1, CostsAssumption
  <2> QED
    BY <2>2, <2>3
<1>2. Gaps \subseteq Nat /\ Gaps # {}
  BY <1>1, BudgetAssumption
<1> HIDE DEF Gaps
<1>3. PICK g \in Gaps : \A h \in Gaps : g <= h
  BY <1>2, LeastExists, Zenon
<1>4. PICK c \in Affordable : g = Budget - c
  BY <1>3 DEF Gaps
<1>5. \A d \in Affordable : d <= c
  <2> SUFFICES ASSUME NEW d \in Affordable PROVE d <= c
    OBVIOUS
  <2>1. Budget - d \in Gaps
    BY DEF Gaps
  <2>2. Budget - c <= Budget - d
    BY <1>3, <1>4, <2>1, Zenon
  <2> QED
    BY <1>1, <2>2, BudgetAssumption
<1>6. Largest \in Affordable /\ \A d \in Affordable : d <= Largest
  BY <1>5, Zenon DEF Largest
<1> QED
  BY <1>1, <1>6 DEF Affordable

LEMMA SlotsFinite ==
    /\ IsFiniteSet(Callers \X Slots) /\ IsFiniteSet(Pending) /\ Cardinality(Pending) \in Nat
    /\ Cardinality(Callers) \in Nat
<1>1. Largest \in Int /\ MaxAttempts \in Int /\ 1 \in Int
  BY LargestFacts, BudgetAssumption
<1>2. IsFiniteSet(1..MaxAttempts) /\ IsFiniteSet(1..Largest)
  BY <1>1, FS_Interval
<1>3. IsFiniteSet(Slots)
  BY <1>2, FS_Product DEF Slots
<1>4. IsFiniteSet(Callers \X Slots)
  BY <1>3, FS_Product, CallersAssumption
<1>5. Pending \subseteq Callers \X Slots
  BY DEF Pending
<1>6. IsFiniteSet(Pending)
  BY <1>4, <1>5, FS_Subset
<1> QED
  BY <1>4, <1>6, FS_CardinalityType, CallersAssumption

\* A product of intervals has as many members as the product of their lengths.
LEMMA Counted ==
    ASSUME NEW S, IsFiniteSet(S), NEW m \in Nat, NEW n \in Nat
    PROVE  /\ IsFiniteSet(S \X ((1..m) \X (1..n)))
           /\ Cardinality(S \X ((1..m) \X (1..n))) = Cardinality(S) * (m * n)
<1>1. \A k \in Nat : IsFiniteSet(1..k) /\ Cardinality(1..k) = k
  <2> SUFFICES ASSUME NEW k \in Nat PROVE IsFiniteSet(1..k) /\ Cardinality(1..k) = k
    OBVIOUS
  <2>1. 1 \in Int /\ k \in Int
    OBVIOUS
  <2>2. IsFiniteSet(1..k) /\ Cardinality(1..k) = IF 1 > k THEN 0 ELSE k - 1 + 1
    BY <2>1, FS_Interval, Zenon
  <2> QED
    BY <2>2
<1> DEFINE M == 1..m
           N == 1..n
<1>2. IsFiniteSet(M) /\ Cardinality(M) = m /\ IsFiniteSet(N) /\ Cardinality(N) = n
  BY <1>1
<1> HIDE DEF M, N
<1>3. IsFiniteSet(M \X N) /\ Cardinality(M \X N) = m * n
  BY <1>2, FS_Product
<1>4. IsFiniteSet(S \X (M \X N)) /\ Cardinality(S \X (M \X N)) = Cardinality(S) * (m * n)
  <2> DEFINE MN == M \X N
             k == m * n
  <2>1. IsFiniteSet(MN) /\ Cardinality(MN) = k
    BY <1>3
  <2> HIDE DEF MN, k
  <2>2. IsFiniteSet(S \X MN) /\ Cardinality(S \X MN) = Cardinality(S) * Cardinality(MN)
    BY <2>1, FS_Product, Zenon
  <2>3. IsFiniteSet(S \X MN) /\ Cardinality(S \X MN) = Cardinality(S) * k
    BY <2>1, <2>2, Zenon
  <2> QED
    BY <2>3, Zenon DEF MN, k
<1> QED
  BY <1>4 DEF M, N

\* What is pending after the last day's count is forgotten still fits.
LEMMA FreshFits ==
    \A b, l, n, m, q \in Nat : l <= b /\ q <= n * (m * l) => 0 + q <= b + (n * m - 1) * l
<1> SUFFICES ASSUME NEW b \in Nat, NEW l \in Nat, NEW n \in Nat, NEW m \in Nat, NEW q \in Nat,
                    l <= b, q <= n * (m * l)
             PROVE  0 + q <= b + (n * m - 1) * l
  OBVIOUS
<1>1. (n * m - 1) * l = n * (m * l) - l /\ n * (m * l) \in Nat
  OBVIOUS
<1> QED
  BY <1>1

\* What was counted today, and seen or not by the check, leaves room for the call.
LEMMA EntryPays ==
    \A o, k, s, u, c, b \in Nat : o <= k /\ k <= s + u /\ s + c <= b => o + c <= b + u
OBVIOUS

\* A call let in within the budget fits with all its attempts and everyone else's.
LEMMA EntryFits ==
    \A b, l, n, m, q, o, c \in Nat :
        c <= l /\ o + c <= b /\ n >= 1 /\ m >= 1 /\ q <= 1 * (m * c) + (n - 1) * (m * l) =>
            o + q <= b + (n * m - 1) * l
<1> SUFFICES ASSUME NEW b \in Nat, NEW l \in Nat, NEW n \in Nat, NEW m \in Nat, NEW q \in Nat,
                    NEW o \in Nat, NEW c \in Nat,
                    c <= l, o + c <= b, n >= 1, m >= 1, q <= 1 * (m * c) + (n - 1) * (m * l)
             PROVE  o + q <= b + (n * m - 1) * l
  OBVIOUS
<1>1. (n - 1) * (m * l) = n * (m * l) - m * l /\ (n * m - 1) * l = n * (m * l) - l
  OBVIOUS
<1>2. m * c = (m - 1) * c + c /\ m * l = (m - 1) * l + l
  OBVIOUS
<1>3. (m - 1) * c <= (m - 1) * l
  OBVIOUS
<1> DEFINE x == n * (m * l)
           y == m * c
           z == m * l
           u == (m - 1) * c
           v == (m - 1) * l
<1>4. x \in Int /\ y \in Int /\ z \in Int /\ u \in Int /\ v \in Int
  OBVIOUS
<1> HIDE DEF x, y, z, u, v
<1>5. /\ y = u + c /\ z = v + l /\ u <= v
      /\ q <= y + (x - z)
  BY <1>1, <1>2, <1>3 DEF x, y, z, u, v
<1>6. o + q <= b + (x - l)
  BY <1>4, <1>5
<1> QED
  BY <1>1, <1>6 DEF x

LEMMA CommittedInit == Init => Committed
<1> SUFFICES ASSUME Init, Budget > 0 PROVE Committed
  BY DEF Committed
<1>1. \A p \in Callers : call[p] = Idle
  BY DEF Init
<1>2. CallsKnown
  BY <1>1, BudgetAssumption DEF CallsKnown, Idle
<1>3. Pending = {}
  <2> SUFFICES ASSUME NEW w \in Pending PROVE FALSE
    OBVIOUS
  <2>1. w[1] \in Callers /\ w[2] \in Slots /\ w[2][1] <= Left(w[1])
    BY DEF Pending
  <2>2. Left(w[1]) = 0 /\ w[2][1] \in 1..MaxAttempts
    BY <1>1, <2>1 DEF Left, Idle, Slots
  <2> QED
    BY <2>1, <2>2, BudgetAssumption
<1>4. Cardinality(Pending) = 0
  BY <1>3, FS_EmptySet
<1>5. 0 + Cardinality(Pending) <= Bound
  <2>1. 0 <= Cardinality(Callers) * (MaxAttempts * Largest)
    BY LargestFacts, SlotsFinite, BudgetAssumption
  <2> QED
    BY <1>4, <2>1, FreshFits, LargestFacts, SlotsFinite, BudgetAssumption DEF Bound, Init
<1> QED
  BY <1>2, <1>5 DEF Committed, Init

\* What is pending never exceeds every caller's every attempt at the largest cost.
LEMMA PendingFits ==
    Cardinality(Pending) <= Cardinality(Callers) * (MaxAttempts * Largest)
<1>1. Cardinality(Callers \X Slots) = Cardinality(Callers) * (MaxAttempts * Largest)
  BY Counted, CallersAssumption, LargestFacts, BudgetAssumption DEF Slots
<1>2. Pending \in SUBSET (Callers \X Slots)
  BY DEF Pending
<1> QED
  BY <1>1, <1>2, FS_Subset, SlotsFinite

\* A step that adds nothing to what is pending nor to what is counted.
LEMMA NothingAdded ==
    ASSUME TypeOK, TypeOK', Committed, CallsKnown => CallsKnown', Pending' \subseteq Pending,
           UNCHANGED <<counted, optional>>, unseen' >= unseen
    PROVE  Committed'
<1> SUFFICES ASSUME Budget > 0 PROVE Committed'
  BY DEF Committed
<1>1. Cardinality(Pending') <= Cardinality(Pending) /\ Cardinality(Pending') \in Nat
  BY SlotsFinite, FS_Subset, FS_CardinalityType
<1>2. optional \in Nat /\ optional + Cardinality(Pending) <= Bound
  BY DEF Committed, TypeOK
<1>3. Bound \in Int /\ Bound' \in Int /\ Bound' >= Bound
  BY LargestFacts, SlotsFinite, BudgetAssumption DEF Bound, TypeOK
<1>4. optional + Cardinality(Pending') <= Bound'
  BY <1>1, <1>2, <1>3, SlotsFinite
<1>5. (optional + Cardinality(Pending) <= Bound)'
  BY <1>4
<1> QED
  BY <1>5 DEF Committed

\* Everyone else's attempts, with those of p still free to count.
LEMMA OthersFit ==
    ASSUME NEW p \in Callers
    PROVE  /\ Cardinality(Callers) >= 1
           /\ IsFiniteSet((Callers \ {p}) \X Slots)
           /\ Cardinality((Callers \ {p}) \X Slots) =
                (Cardinality(Callers) - 1) * (MaxAttempts * Largest)
<1>1. IsFiniteSet(Callers \ {p}) /\ Cardinality(Callers \ {p}) = Cardinality(Callers) - 1
  BY FS_RemoveElement, CallersAssumption
<1>2. Cardinality(Callers \ {p}) \in Nat
  BY <1>1, FS_CardinalityType
<1>3. Cardinality(Callers) >= 1
  BY <1>1, <1>2, SlotsFinite
<1>4. /\ IsFiniteSet((Callers \ {p}) \X Slots)
      /\ Cardinality((Callers \ {p}) \X Slots) = Cardinality(Callers \ {p}) * (MaxAttempts * Largest)
  BY <1>1, Counted, LargestFacts, BudgetAssumption DEF Slots
<1> QED
  BY <1>1, <1>3, <1>4, Zenon

\* A call that enters and is not essential brings at most all its attempts.
LEMMA AskKeeps ==
    ASSUME TypeOK, TypeOK', Committed, NEW p \in Callers, Ask(p)
    PROVE  Committed'
<1> SUFFICES ASSUME Budget > 0 PROVE Committed'
  BY DEF Committed
<1>1. PICK c \in Costs, e \in BOOLEAN, shown \in {0, spent} :
        /\ Allowed(c, e, shown)
        /\ unseen' = IF ~e /\ Budget > 0 /\ counted - shown > unseen THEN counted - shown ELSE unseen
        /\ call' = [call EXCEPT ![p] = [Idle EXCEPT !.at = "checked", !.cost = c, !.essential = e]]
  BY DEF Ask
<1>2. /\ call'[p].at = "checked" /\ call'[p].cost = c /\ call'[p].essential = e
      /\ call'[p].attempt = 0
      /\ \A q \in Callers \ {p} : call'[q] = call[q]
  BY <1>1 DEF TypeOK, Idle
<1>3. /\ UNCHANGED <<counted, optional>> /\ optional \in Nat /\ counted \in Nat /\ optional <= counted
      /\ shown \in Nat /\ unseen \in Nat /\ unseen' \in Nat /\ unseen' >= unseen
      /\ e \/ counted <= shown + unseen'
  BY <1>1 DEF Ask, TypeOK, Committed
<1>4. c \in Nat /\ (e \/ (c <= Largest /\ shown + c <= Budget))
  <2>1. c \in Nat
    BY CostsAssumption
  <2>2. e \/ shown + c <= Budget
    BY <1>1 DEF Allowed
  <2>3. shown + c <= Budget => c <= Budget
    BY <1>3, <2>1, BudgetAssumption
  <2> QED
    BY <2>1, <2>2, <2>3, LargestFacts
<1>5. CallsKnown'
  BY <1>2, <1>4, BudgetAssumption DEF Committed, CallsKnown
<1>6. CASE e
  <2>1. Left(p)' = 0 /\ \A q \in Callers \ {p} : Left(q)' = Left(q)
    BY <1>2, <1>6 DEF Left
  <2>2. Pending' \subseteq Pending
    <3> SUFFICES ASSUME NEW w \in Pending' PROVE w \in Pending
      OBVIOUS
    <3>1. w \in Callers \X Slots /\ w[2][1] <= Left(w[1])' /\ w[2][2] <= call'[w[1]].cost
      BY DEF Pending, Slots
    <3>2. w[1] \in Callers /\ w[2][1] \in 1..MaxAttempts
      BY <3>1 DEF Slots
    <3>3. w[1] # p
      BY <2>1, <3>1, <3>2, BudgetAssumption
    <3> QED
      BY <1>2, <2>1, <3>1, <3>2, <3>3 DEF Pending
  <2> QED
    BY <1>3, <1>5, <2>2, NothingAdded
<1>7. CASE ~e
  <2> DEFINE Own == {p} \X ((1..MaxAttempts) \X (1..c))
             Rest == (Callers \ {p}) \X Slots
  <2>1. Pending' \subseteq Own \cup Rest
    <3> SUFFICES ASSUME NEW w \in Pending' PROVE w \in Own \cup Rest
      OBVIOUS
    <3>1. w \in Callers \X Slots /\ w[2][2] <= call'[w[1]].cost
      BY DEF Pending, Slots
    <3>2. CASE w[1] = p
      <4>1. w = <<w[1], w[2]>> /\ w[2] = <<w[2][1], w[2][2]>>
            /\ w[2][1] \in 1..MaxAttempts /\ w[2][2] \in 1..Largest
        BY <3>1 DEF Slots
      <4>2. w[2][2] \in 1..c
        BY <1>2, <1>4, <3>1, <3>2, <4>1, LargestFacts
      <4> QED
        BY <3>2, <4>1, <4>2
    <3>3. CASE w[1] # p
      BY <3>1, <3>3
    <3> QED
      BY <3>2, <3>3
  <2>2. IsFiniteSet(Own) /\ Cardinality(Own) = 1 * (MaxAttempts * c)
    <3>1. IsFiniteSet({p}) /\ Cardinality({p}) = 1
      BY FS_Singleton
    <3>2. MaxAttempts \in Nat
      BY BudgetAssumption
    <3>3. IsFiniteSet(Own) /\ Cardinality(Own) = Cardinality({p}) * (MaxAttempts * c)
      BY <1>4, <3>1, <3>2, Counted
    <3> QED
      BY <3>1, <3>3, Zenon
  <2>3. /\ Cardinality(Callers) >= 1 /\ IsFiniteSet(Rest)
        /\ Cardinality(Rest) = (Cardinality(Callers) - 1) * (MaxAttempts * Largest)
    BY OthersFit
  <2> HIDE DEF Own, Rest
  <2>4. /\ IsFiniteSet(Own \cup Rest)
        /\ Cardinality(Own \cup Rest) <= Cardinality(Own) + Cardinality(Rest)
    <3>1. /\ IsFiniteSet(Own \cup Rest)
          /\ Cardinality(Own \cup Rest) = Cardinality(Own) + Cardinality(Rest) - Cardinality(Own \cap Rest)
      BY <2>2, <2>3, FS_Union
    <3>2. IsFiniteSet(Own \cap Rest)
      BY <2>2, FS_Intersection
    <3>3. Cardinality(Own \cap Rest) \in Nat /\ Cardinality(Own) \in Nat /\ Cardinality(Rest) \in Nat
      BY <2>2, <2>3, <3>2, FS_CardinalityType
    <3> QED
      BY <3>1, <3>3
  <2>5. /\ Cardinality(Pending') \in Nat /\ Cardinality(Own \cup Rest) \in Nat
        /\ Cardinality(Pending') <= Cardinality(Own \cup Rest)
    <3>1. IsFiniteSet(Pending') /\ Cardinality(Pending') <= Cardinality(Own \cup Rest)
      BY <2>1, <2>4, FS_Subset
    <3> QED
      BY <2>4, <3>1, FS_CardinalityType
  <2> DEFINE q == Cardinality(Pending')
             own == 1 * (MaxAttempts * c)
             rest == (Cardinality(Callers) - 1) * (MaxAttempts * Largest)
  <2>6. q \in Nat /\ q <= own + rest
    <3>1. /\ q \in Nat /\ Cardinality(Own \cup Rest) \in Nat /\ q <= Cardinality(Own \cup Rest)
          /\ Cardinality(Own \cup Rest) <= own + rest
      BY <2>2, <2>3, <2>4, <2>5
    <3>2. own \in Int /\ rest \in Int
      BY <1>4, LargestFacts, SlotsFinite, BudgetAssumption
    <3> HIDE DEF q, own, rest
    <3> QED
      BY <3>1, <3>2
  <2>7. optional + c <= Budget + unseen'
    <3>1. counted <= shown + unseen' /\ shown + c <= Budget
      BY <1>3, <1>4, <1>7, Zenon
    <3>2. /\ Budget \in Nat /\ optional \in Nat /\ counted \in Nat /\ shown \in Nat
          /\ unseen' \in Nat /\ c \in Nat /\ optional <= counted
      BY <1>3, <1>4, BudgetAssumption, Zenon
    <3> QED
      BY <3>1, <3>2, EntryPays, Zenon
  <2> HIDE DEF q
  <2>8. optional + q <= (Budget + unseen') + (Cardinality(Callers) * MaxAttempts - 1) * Largest
    <3>1. /\ Budget + unseen' \in Nat /\ Largest \in Nat /\ Cardinality(Callers) \in Nat /\ MaxAttempts \in Nat
          /\ MaxAttempts >= 1 /\ c <= Largest
      <4>1. c <= Largest
        BY <1>4, <1>7, Zenon
      <4> QED
        BY <1>3, <4>1, LargestFacts, SlotsFinite, BudgetAssumption
    <3> DEFINE b == Budget + unseen'
    <3>2. b \in Nat /\ optional + c <= b /\ optional \in Nat /\ Cardinality(Callers) >= 1
      BY <1>3, <2>3, <2>7, <3>1
    <3> HIDE DEF b
    <3>3. optional + q <= b + (Cardinality(Callers) * MaxAttempts - 1) * Largest
      BY <1>4, <2>6, <3>1, <3>2, EntryFits
    <3> QED
      BY <3>3 DEF b
  <2>9. (optional + Cardinality(Pending) <= Bound)'
    <3>1. optional' = optional /\ Bound' = (Budget + unseen') + (Cardinality(Callers) * MaxAttempts - 1) * Largest
      BY <1>3 DEF Bound
    <3> QED
      BY <2>8, <3>1, Zenon DEF q
  <2> QED
    BY <1>3, <1>5, <2>9 DEF Committed
<1> QED
  BY <1>6, <1>7

\* A call that is counted moves its cost from what is pending to what is counted.
LEMMA SendKeeps ==
    ASSUME TypeOK, TypeOK', Committed, NEW p \in Callers, Send(p)
    PROVE  Committed'
<1> SUFFICES ASSUME Budget > 0 PROVE Committed'
  BY DEF Committed
<1> DEFINE c == call[p].cost
<1>1. c \in Nat /\ call[p].attempt \in Nat /\ counted \in Nat /\ optional \in Nat
      /\ optional <= counted
  BY DEF TypeOK, Calls, Committed
<1>2. /\ call[p].at = "waiting" /\ call'[p].at = "sent"
      /\ call'[p].cost = c /\ call'[p].essential = call[p].essential
      /\ call'[p].attempt = call[p].attempt
      /\ \A q \in Callers \ {p} : call'[q] = call[q]
  BY DEF Send, TypeOK, Calls
<1>3. CallsKnown'
  BY <1>2 DEF Committed, CallsKnown
<1>4. \A q \in Callers \ {p} : Left(q)' = Left(q)
  BY <1>2 DEF Left
<1>5. counted' = counted + c
  BY DEF Send
<1>6. CASE call[p].essential
  <2>1. Left(p) = 0 /\ Left(p)' = 0
    BY <1>2, <1>6 DEF Left
  <2>2. \A q \in Callers : Left(q)' = Left(q) /\ call'[q].cost = call[q].cost
    BY <1>2, <1>4, <2>1
  <2>3. Pending' = Pending
    BY <2>2 DEF Pending, Slots
  <2>4. optional' = optional /\ Bound' = Bound
    BY <1>6 DEF Send, Bound
  <2>5. optional' + Cardinality(Pending') <= Bound'
    BY <2>3, <2>4 DEF Committed
  <2>6. optional' <= counted'
    BY <1>1, <1>5, <2>4
  <2> QED
    BY <1>3, <2>5, <2>6 DEF Committed
<1>7. CASE ~call[p].essential
  <2> DEFINE k == Left(p)
             Now == {p} \X ({k} \X (1..c))
  <2>1. k \in 1..MaxAttempts /\ Left(p)' = k - 1 /\ c <= Largest
    BY <1>1, <1>2, <1>7, BudgetAssumption DEF Left, Committed, CallsKnown
  <2> HIDE DEF k
  <2>2. IsFiniteSet(Now) /\ Cardinality(Now) = c
    <3> DEFINE C == 1..c
    <3>1. IsFiniteSet(C) /\ Cardinality(C) = c
      <4>1. 1 \in Int /\ c \in Int
        BY <1>1
      <4>2. IsFiniteSet(C) /\ Cardinality(C) = IF 1 > c THEN 0 ELSE c - 1 + 1
        BY <4>1, FS_Interval, Zenon
      <4> QED
        BY <1>1, <4>2
    <3> HIDE DEF C
    <3>2. IsFiniteSet({k}) /\ Cardinality({k}) = 1 /\ IsFiniteSet({p}) /\ Cardinality({p}) = 1
      BY FS_Singleton
    <3>3. IsFiniteSet({k} \X C) /\ Cardinality({k} \X C) = 1 * c
      BY <3>1, <3>2, FS_Product
    <3>4. 1 * c = c
      BY <1>1
    <3>5. IsFiniteSet({p} \X ({k} \X C)) /\ Cardinality({p} \X ({k} \X C)) = 1 * c
      BY <3>2, <3>3, <3>4, FS_Product
    <3> QED
      BY <3>4, <3>5 DEF C
  <2>3. Now \subseteq Pending
    <3> SUFFICES ASSUME NEW w \in Now PROVE w \in Pending
      OBVIOUS
    <3>1. w = <<p, w[2]>> /\ w[2] = <<k, w[2][2]>> /\ w[2][2] \in 1..c
      OBVIOUS
    <3>2. w[2][2] \in 1..Largest /\ w[2][2] <= c
      BY <1>1, <2>1, <3>1, LargestFacts
    <3>3. w[2] \in Slots
      BY <2>1, <3>1, <3>2 DEF Slots
    <3>4. w[1] = p /\ w[2][1] = k /\ k <= k
      BY <2>1, <3>1
    <3> QED
      BY <3>1, <3>2, <3>3, <3>4 DEF Pending, k
  <2>4. Pending' \subseteq Pending \ Now
    <3> SUFFICES ASSUME NEW w \in Pending' PROVE w \in Pending \ Now
      OBVIOUS
    <3>1. w \in Callers \X Slots /\ w[2][1] <= Left(w[1])' /\ w[2][2] <= call'[w[1]].cost
      BY DEF Pending, Slots
    <3>2. w[1] \in Callers /\ w[2][1] \in 1..MaxAttempts
      BY <3>1 DEF Slots
    <3>3. CASE w[1] = p
      <4>1. w[2][1] <= k - 1 /\ w[2][2] <= c
        BY <1>2, <2>1, <3>1, <3>3
      <4>2. w[2][1] <= k /\ w[2][1] # k
        BY <2>1, <3>2, <4>1
      <4> QED
        BY <3>1, <3>3, <4>1, <4>2 DEF Pending, k
    <3>4. CASE w[1] # p
      BY <1>2, <1>4, <3>1, <3>2, <3>4 DEF Pending
    <3> QED
      BY <3>3, <3>4
  <2> HIDE DEF Now
  <2>5. /\ Cardinality(Pending') \in Nat
        /\ Cardinality(Pending') <= Cardinality(Pending) - c
    <3>1. IsFiniteSet(Pending \ Now) /\ Cardinality(Pending \ Now) = Cardinality(Pending) - c
      <4>1. Pending \cap Now = Now
        BY <2>3
      <4>2. /\ IsFiniteSet(Pending \ Now)
            /\ Cardinality(Pending \ Now) = Cardinality(Pending) - Cardinality(Pending \cap Now)
        BY SlotsFinite, FS_Difference, Zenon
      <4> QED
        BY <2>2, <4>1, <4>2, Zenon
    <3>2. IsFiniteSet(Pending') /\ Cardinality(Pending') <= Cardinality(Pending \ Now)
      BY <2>4, <3>1, FS_Subset
    <3> QED
      BY <3>1, <3>2, FS_CardinalityType
  <2>6. optional' = optional + c
    BY <1>7 DEF Send
  <2> DEFINE q == Cardinality(Pending')
             r == Cardinality(Pending)
  <2>7. optional + r <= Bound /\ Bound \in Int /\ r \in Nat /\ q \in Nat /\ q <= r - c
    BY <2>5, LargestFacts, SlotsFinite, BudgetAssumption DEF Bound, Committed, TypeOK
  <2> HIDE DEF q, r, c
  <2>8. optional' + q <= Bound
    BY <1>1, <2>6, <2>7
  <2>9. (optional + Cardinality(Pending) <= Bound)'
    <3>1. Bound' = Bound
      BY DEF Send, Bound
    <3> QED
      BY <2>8, <3>1, Zenon DEF q
  <2>10. optional' <= counted'
    BY <1>1, <1>5, <2>6
  <2> QED
    BY <1>3, <2>9, <2>10, Zenon DEF Committed
<1> QED
  BY <1>6, <1>7

\* An answer gives up what the call had left, or keeps it for the next attempts.
LEMMA AnswerKeeps ==
    ASSUME TypeOK, TypeOK', Committed, NEW p \in Callers, Answer(p)
    PROVE  Committed'
<1> SUFFICES ASSUME Budget > 0 PROVE Committed'
  BY DEF Committed
<1>1. UNCHANGED <<counted, unseen, optional>> /\ \A q \in Callers \ {p} : call'[q] = call[q]
  BY DEF Answer, usage, TypeOK
<1>2. call[p].at = "sent" /\ call[p].attempt \in Nat
  BY DEF Answer, TypeOK, Calls
<1>3. /\ Left(p)' <= Left(p) /\ (Left(p)' # 0 => call'[p].cost = call[p].cost)
      /\ CallsKnown'
  <2>1. CASE call' = [call EXCEPT ![p] = Idle]
    <3>1. call'[p] = Idle
      BY <2>1 DEF TypeOK
    <3>2. Left(p)' = 0 /\ 0 <= Left(p)
      BY <1>2, <3>1, BudgetAssumption DEF Left, Idle, Committed, CallsKnown
    <3>3. CallsKnown'
      BY <1>1, <3>1, BudgetAssumption DEF Committed, CallsKnown, Idle
    <3> QED
      BY <3>2, <3>3
  <2>2. CASE /\ call[p].attempt < MaxAttempts - 1
             /\ \E w \in Waits :
                  call' = [call EXCEPT ![p] = [@ EXCEPT !.at = "backoff", !.attempt = call[p].attempt + 1,
                                                        !.due = clock + w]]
    <3>1. /\ call'[p].at = "backoff" /\ call'[p].attempt = call[p].attempt + 1
          /\ call'[p].cost = call[p].cost /\ call'[p].essential = call[p].essential
      BY <2>2 DEF TypeOK, Calls
    <3>2. Left(p)' = Left(p)
      BY <1>2, <3>1, BudgetAssumption DEF Left
    <3>3. CallsKnown'
      BY <1>1, <1>2, <2>2, <3>1, BudgetAssumption DEF Committed, CallsKnown
    <3>4. Left(p) \in Int
      BY <1>2, BudgetAssumption DEF Left
    <3> QED
      BY <3>1, <3>2, <3>3, <3>4
  <2> QED
    BY <2>1, <2>2 DEF Answer
<1>4. \A q \in Callers \ {p} : Left(q)' = Left(q)
  BY <1>1 DEF Left
<1>5. Pending' \subseteq Pending
  <2> SUFFICES ASSUME NEW w \in Pending' PROVE w \in Pending
    OBVIOUS
  <2>1. w \in Callers \X Slots /\ w[2][1] <= Left(w[1])' /\ w[2][2] <= call'[w[1]].cost
    BY DEF Pending, Slots
  <2>2. w[1] \in Callers /\ w[2][1] \in 1..MaxAttempts
    BY <2>1 DEF Slots
  <2>3. CASE w[1] = p
    <3>1. Left(p)' # 0
      BY <2>1, <2>2, <2>3
    <3>2. Left(p) \in Int /\ Left(p)' \in Int
      BY <1>2, BudgetAssumption DEF Left, TypeOK, Calls
    <3>3. w[2][1] <= Left(p)
      BY <1>3, <2>1, <2>2, <2>3, <3>2
    <3> QED
      BY <1>3, <2>1, <2>3, <3>1, <3>3 DEF Pending
  <2>4. CASE w[1] # p
    BY <1>1, <1>4, <2>1, <2>2, <2>4 DEF Pending
  <2> QED
    BY <2>3, <2>4
<1>6. counted' = counted /\ optional' = optional /\ unseen' = unseen /\ unseen' >= unseen
  BY <1>1 DEF TypeOK
<1> QED
  BY <1>3, <1>5, <1>6, NothingAdded

\* Every step keeps what is counted and what is pending within the bound.
LEMMA CommittedKept == TypeOK /\ TypeOK' /\ Committed /\ [Next]_rpcvars => Committed'
<1> SUFFICES ASSUME TypeOK, TypeOK', Committed, [Next]_rpcvars PROVE Committed'
  OBVIOUS
<1>1. ASSUME UNCHANGED <<call, usage>> PROVE Committed'
  <2>1. Pending' = Pending
    BY <1>1 DEF Pending, Left, Slots
  <2>2. UNCHANGED <<counted, optional>> /\ unseen' >= unseen
    BY <1>1 DEF usage, TypeOK
  <2> QED
    BY <1>1, <2>1, <2>2, NothingAdded DEF CallsKnown
<1>2. CASE Tick
  BY <1>1, <1>2 DEF Tick
<1>3. CASE NewDay
  <2> SUFFICES ASSUME Budget > 0 PROVE Committed'
    BY DEF Committed
  <2>1. UNCHANGED call /\ counted' = 0 /\ unseen' = 0 /\ optional' = 0
    BY <1>3 DEF NewDay
  <2>2. Pending' = Pending /\ CallsKnown'
    BY <2>1 DEF Pending, Left, Slots, Committed, CallsKnown
  <2>3. 0 + Cardinality(Pending) <= Budget + (Cardinality(Callers) * MaxAttempts - 1) * Largest
    BY PendingFits, FreshFits, LargestFacts, SlotsFinite, BudgetAssumption
  <2>4. optional' + Cardinality(Pending') <= Bound'
    BY <2>1, <2>2, <2>3, BudgetAssumption DEF Bound
  <2> QED
    BY <2>1, <2>2, <2>4 DEF Committed
<1>4. ASSUME NEW p \in Callers, Ask(p) PROVE Committed'
  BY <1>4, AskKeeps
<1>5. ASSUME NEW p \in Callers, Reserve(p) PROVE Committed'
  <2>1. /\ call'[p].at = "waiting" /\ call[p].at \in {"checked", "backoff"}
        /\ call'[p].attempt = call[p].attempt /\ call'[p].cost = call[p].cost
        /\ call'[p].essential = call[p].essential
        /\ \A q \in Callers \ {p} : call'[q] = call[q]
        /\ UNCHANGED <<counted, optional>> /\ unseen' >= unseen
    BY <1>5 DEF Reserve, usage, TypeOK, Calls
  <2>2. \A q \in Callers : Left(q)' = Left(q) /\ call'[q].cost = call[q].cost
    BY <2>1 DEF Left
  <2>3. Pending' = Pending
    BY <2>2 DEF Pending, Slots
  <2>4. CallsKnown => CallsKnown'
    BY <2>1 DEF CallsKnown
  <2> QED
    BY <2>1, <2>3, <2>4, NothingAdded
<1>6. ASSUME NEW p \in Callers, Send(p) PROVE Committed'
  BY <1>6, SendKeeps
<1>7. ASSUME NEW p \in Callers, Answer(p) PROVE Committed'
  BY <1>7, AnswerKeeps
<1>8. CASE UNCHANGED rpcvars
  BY <1>1, <1>8 DEF rpcvars
<1> QED
  BY <1>2, <1>3, <1>4, <1>5, <1>6, <1>7, <1>8 DEF Next

\* However many calls wait, retry and cross midnight together, those that are not
\* essential pass the day's budget by no more than the attempts of the calls under
\* way and what the usage file did not show (_check_budget, _guarded_call,
\* UsageCounter).
THEOREM OverrunIsBounded == RpcSpec => []OverrunBounded
<1>1. TypeOK /\ Committed => OverrunBounded
  <2> SUFFICES ASSUME TypeOK, Committed, Budget > 0 PROVE optional <= Bound
    BY DEF OverrunBounded, Bound
  <2>1. optional + Cardinality(Pending) <= Bound /\ optional \in Nat
    BY DEF Committed, TypeOK
  <2>2. Bound \in Int
    BY LargestFacts, SlotsFinite, BudgetAssumption DEF Bound, TypeOK
  <2> QED
    BY <2>1, <2>2, SlotsFinite
<1> QED
  BY <1>1, InitHolds, CommittedInit, TypesKept, CommittedKept, PTL DEF RpcSpec

=============================================================================
