---------------------------- MODULE InputsProofs ----------------------------
(***************************************************************************)
(* Theorems about the candle store, the held-out period, the sentiment     *)
(* recorder and the rules of Inputs.                                       *)
(*                                                                         *)
(* Candles: what a search and a download return (FirstWithDataFacts,       *)
(* FetchWhole), then CandlesInv, step by step; on any exchange, that both  *)
(* end (SearchExists, DownloadExists) and CandlesTyped.  Holdout:          *)
(* HoldoutInv.                                                             *)
(* Recorder: what merged ranges cover (MergedInside), then RecorderInv.    *)
(* Rules: the rows an indicator fills (FilledFrom, FilledInside), what     *)
(* refers to what (ReachNext), acyclic orders, then RulesInv, step by      *)
(* step, and what data without a hole fill (IdealFills).                   *)
(* FocusedInv is the four of them, each while its component runs.          *)
(***************************************************************************)
EXTENDS Inputs, RpcBudgetProofs

-----------------------------------------------------------------------------
(***************************************************************************)
(* The least and the greatest of a bounded set                             *)
(***************************************************************************)

\* Every nonempty set of numbers up to n has a greatest member.
LEMMA GreatestExists ==
    ASSUME NEW n \in Nat, NEW T, T \subseteq 0..n, T # {}
    PROVE  \E x \in T : \A y \in T : x >= y
<1> DEFINE U == {n - x : x \in T}
<1>1. U \subseteq Nat /\ U # {}
  <2>1. \A x \in T : n - x \in Nat
    OBVIOUS
  <2>2. PICK x \in T : TRUE
    OBVIOUS
  <2>3. n - x \in U
    BY <2>2
  <2> QED
    BY <2>1, <2>3
<1>2. PICK u \in U : \A v \in U : u <= v
  BY <1>1, LeastExists
<1>3. PICK x \in T : u = n - x
  OBVIOUS
<1>4. \A y \in T : x >= y
  <2> SUFFICES ASSUME NEW y \in T PROVE x >= y
    OBVIOUS
  <2>1. n - x <= n - y
    BY <1>2, <1>3
  <2>2. x \in Int /\ y \in Int
    OBVIOUS
  <2> QED
    BY <2>1, <2>2
<1> QED
  BY <1>4

LEMMA MaxIs ==
    ASSUME NEW n \in Nat, NEW T, T \subseteq 0..n, T # {}
    PROVE  /\ C!Max(T) \in T /\ C!Max(T) \in Nat /\ C!Max(T) <= n
           /\ \A y \in T : C!Max(T) >= y
<1>1. \E x \in T : \A y \in T : x >= y
  BY GreatestExists
<1>2. C!Max(T) \in T /\ \A y \in T : C!Max(T) >= y
  BY <1>1 DEF C!Max
<1>3. C!Max(T) \in 0..n
  BY <1>2
<1>4. C!Max(T) \in Nat /\ C!Max(T) <= n
  BY <1>3
<1> QED
  BY <1>2, <1>4

LEMMA MinIs ==
    ASSUME NEW T, T \subseteq Nat, T # {}
    PROVE  C!Min(T) \in T /\ C!Min(T) \in Nat /\ \A y \in T : C!Min(T) <= y
<1>1. \E x \in T : \A y \in T : x <= y
  BY LeastExists
<1>2. C!Min(T) \in T /\ \A y \in T : C!Min(T) <= y
  BY <1>1 DEF C!Min
<1> QED
  BY <1>2

LEMMA MaxOfTwo == \A a, b \in Int : C!Max({a, b}) = IF a >= b THEN a ELSE b
<1> SUFFICES ASSUME NEW a \in Int, NEW b \in Int
             PROVE  C!Max({a, b}) = IF a >= b THEN a ELSE b
  OBVIOUS
<1> DEFINE m == IF a >= b THEN a ELSE b
           Greatest(x) == x \in {a, b} /\ \A y \in {a, b} : x >= y
<1>1. Greatest(m) /\ \A x : Greatest(x) => x = m
  OBVIOUS
<1> QED
  BY <1>1 DEF C!Max

LEMMA MinOfTwo == \A a, b \in Int : C!Min({a, b}) = IF a <= b THEN a ELSE b
<1> SUFFICES ASSUME NEW a \in Int, NEW b \in Int
             PROVE  C!Min({a, b}) = IF a <= b THEN a ELSE b
  OBVIOUS
<1> DEFINE m == IF a <= b THEN a ELSE b
           Smallest(x) == x \in {a, b} /\ \A y \in {a, b} : x <= y
<1>1. Smallest(m) /\ \A x : Smallest(x) => x = m
  OBVIOUS
<1> QED
  BY <1>1 DEF C!Min

-----------------------------------------------------------------------------
(***************************************************************************)
(* Paging: a range comes back whole, whatever its gaps but for a second    *)
(* one as long as a page                                                   *)
(***************************************************************************)

\* What is known of the exchange and the clock.
Market == has \subseteq Nat /\ now \in 0..MaxNow /\ C!OneLongGap(has)

\* The bars of a range, all of them closed.
InRange(since, until) == {b \in has : since <= b /\ b < until}

LEMMA PageFacts ==
    ASSUME Market, NEW c \in Nat
    PROVE  /\ C!Page(c) = {b \in has : c <= b /\ b < c + PageLimit /\ b <= now}
           /\ PageLimit \in Nat \ {0} /\ now \in Nat /\ MaxNow \in Nat /\ now <= MaxNow
           /\ C!Page(c) \subseteq 0..now /\ C!Page(c) \subseteq Nat
<1>1. PageLimit \in Nat \ {0} /\ MaxNow \in Nat /\ now \in 0..MaxNow
  BY CandleSettings DEF C!Settings, Market
<1>2. now \in Nat /\ now <= MaxNow
  BY <1>1
<1>3. C!Page(c) = {b \in has : c <= b /\ b < c + PageLimit /\ b <= now}
  BY DEF C!Page
<1>4. \A b \in C!Page(c) : b \in Nat /\ b <= now
  BY <1>3 DEF Market
<1>5. C!Page(c) \subseteq 0..now
  BY <1>2, <1>4
<1> QED
  BY <1>1, <1>2, <1>3, <1>4, <1>5

\* Between two pages without bars, whole pages both, there are none.
LEMMA NoneBetween ==
    ASSUME Market, NEW x \in Nat, NEW y \in Nat, x <= y, y + PageLimit <= now,
           C!Page(x) = {}, C!Page(y) = {}
    PROVE  InRange(x, y + PageLimit) = {}
<1>1. PageLimit \in Nat \ {0} /\ now \in Nat /\ MaxNow \in Nat /\ now <= MaxNow /\ has \subseteq Nat
  BY PageFacts DEF Market
<1>2. \A b \in has : ~(x <= b /\ b < x + PageLimit) /\ ~(y <= b /\ b < y + PageLimit)
  BY <1>1 DEF C!Page
<1>3. has \cap (x..(x + PageLimit - 1)) = {} /\ has \cap (y..(y + PageLimit - 1)) = {}
  BY <1>1, <1>2
<1>4. x \in 0..MaxNow /\ y \in 0..MaxNow /\ y + PageLimit <= MaxNow
  BY <1>1
<1>5. has \cap (x..y) = {}
  BY <1>3, <1>4, Zenon DEF Market, C!OneLongGap
<1>6. \A b \in has : ~(x <= b /\ b <= y)
  <2> SUFFICES ASSUME NEW b \in has, x <= b, b <= y PROVE FALSE
    OBVIOUS
  <2>1. b \in Nat
    BY <1>1
  <2>2. b \in x..y
    BY <2>1
  <2> QED
    BY <1>5, <2>2
<1>7. \A b \in has : ~(x <= b /\ b < y + PageLimit)
  <2> SUFFICES ASSUME NEW b \in has, x <= b, b < y + PageLimit PROVE FALSE
    OBVIOUS
  <2>1. b \in Nat
    BY <1>1
  <2>2. ~(b <= y) /\ ~(y <= b)
    BY <1>2, <1>6
  <2> QED
    BY <2>1, <2>2
<1> QED
  BY <1>7 DEF InRange

\* The pages from low to final, of which the last has bars, first have none, from
\* some page on all.
Turns(low, final, t) ==
    /\ t \in low..final
    /\ \A x \in low..final : C!Page(x) = {} <=> x < t

LEMMA TurnExists ==
    ASSUME Market, NEW low \in Nat, NEW final \in Nat, low <= final, final + PageLimit <= now,
           C!Page(low) = {}, C!Page(final) # {}
    PROVE  \E t \in Nat : Turns(low, final, t)
<1> DEFINE T == {x \in low..final : C!Page(x) # {}}
<1>1. T \subseteq Nat /\ final \in T
  OBVIOUS
<1>2. PICK t \in T : \A y \in T : t <= y
  BY <1>1, LeastExists
<1>3. t \in Nat /\ t \in low..final /\ C!Page(t) # {}
  OBVIOUS
<1>4. ASSUME NEW x \in low..final, x < t PROVE C!Page(x) = {}
  BY <1>2, <1>3, <1>4
<1>5. ASSUME NEW x \in low..final, ~(x < t) PROVE C!Page(x) # {}
  <2>1. SUFFICES ASSUME C!Page(x) = {} PROVE FALSE
    OBVIOUS
  <2>2. x \in Nat /\ low <= x /\ x <= final /\ t <= x /\ PageLimit \in Nat /\ now \in Nat
    BY <1>3, <1>5, PageFacts
  <2>3. x + PageLimit <= now
    BY <2>2
  <2>4. InRange(low, x + PageLimit) = {}
    BY <2>1, <2>2, <2>3, NoneBetween
  <2>5. C!Page(t) \subseteq InRange(low, x + PageLimit)
    BY <1>3, <2>2, PageFacts DEF InRange
  <2> QED
    BY <1>3, <2>4, <2>5
<1> QED
  BY <1>3, <1>4, <1>5 DEF Turns
\* The page the binary search ends at between lo and hi, if t is the first with bars.
Lands(t, lo, hi) == IF lo >= hi \/ hi <= t THEN hi ELSE IF t <= lo THEN lo ELSE t

LEMMA Middle ==
    ASSUME NEW lo \in Nat, NEW hi \in Nat, lo < hi
    PROVE  /\ (lo + hi) \div 2 \in Nat
           /\ lo <= (lo + hi) \div 2 /\ (lo + hi) \div 2 < hi
OBVIOUS

\* One level of the search, and what it finds.
SearchStep(low, final, f) ==
    [w \in (low..final) \X (low..final) |->
       LET mid == (w[1] + w[2]) \div 2 IN
       IF w[1] >= w[2] THEN C!Min(C!Page(w[2]))
       ELSE IF C!Page(mid) = {} THEN f[<<mid + 1, w[2]>>] ELSE f[<<w[1], mid>>]]
Finds(low, final, t) ==
    [w \in (low..final) \X (low..final) |-> C!Min(C!Page(Lands(t, w[1], w[2])))]

LEMMA BetweenIn ==
    \A low, final, mid \in Nat : low <= mid /\ mid < final => mid \in low..final /\ mid + 1 \in low..final
OBVIOUS

LEMMA HalfInside ==
    ASSUME NEW low \in Nat, NEW final \in Nat, NEW lo \in low..final, NEW hi \in low..final, lo < hi
    PROVE  /\ (lo + hi) \div 2 \in Nat /\ lo \in Nat /\ hi \in Nat
           /\ lo <= (lo + hi) \div 2 /\ (lo + hi) \div 2 < hi
           /\ (lo + hi) \div 2 \in low..final /\ (lo + hi) \div 2 + 1 \in low..final
<1> DEFINE mid == (lo + hi) \div 2
<1>1. lo \in Nat /\ hi \in Nat /\ low <= lo /\ hi <= final
  OBVIOUS
<1>2. mid \in Nat /\ lo <= mid /\ mid < hi
  BY <1>1, Middle
<1> HIDE DEF mid
<1>3. low <= mid /\ mid < final
  BY <1>1, <1>2
<1>4. mid \in low..final /\ mid + 1 \in low..final
  BY <1>2, <1>3, BetweenIn, Zenon
<1> QED
  BY <1>1, <1>2, <1>4 DEF mid

LEMMA FindsSolves ==
    ASSUME NEW low \in Nat, NEW final \in Nat, NEW t \in Nat, Turns(low, final, t)
    PROVE  Finds(low, final, t) = SearchStep(low, final, Finds(low, final, t))
<1> DEFINE W == (low..final) \X (low..final)
           F == Finds(low, final, t)
<1>1. ASSUME NEW lo \in low..final, NEW hi \in low..final
      PROVE  F[<<lo, hi>>] = SearchStep(low, final, F)[<<lo, hi>>]
  <2> DEFINE mid == (lo + hi) \div 2
  <2>2. \A x, y \in low..final : F[<<x, y>>] = C!Min(C!Page(Lands(t, x, y)))
    BY DEF Finds
  <2>3. SearchStep(low, final, F)[<<lo, hi>>] =
          IF lo >= hi THEN C!Min(C!Page(hi))
          ELSE IF C!Page(mid) = {} THEN F[<<mid + 1, hi>>] ELSE F[<<lo, mid>>]
    <3> HIDE DEF F
    <3> QED
      BY DEF SearchStep
  <2> HIDE DEF F
  <2>4. CASE lo >= hi
    BY <2>2, <2>3, <2>4 DEF Lands
  <2>5. CASE ~(lo >= hi)
    <3>1. lo < hi
      BY <2>5
    <3>2. /\ mid \in Nat /\ lo \in Nat /\ hi \in Nat /\ lo <= mid /\ mid < hi
          /\ mid \in low..final /\ mid + 1 \in low..final
      BY <3>1, HalfInside
    <3> HIDE DEF mid
    <3>3. /\ mid < t => Lands(t, mid + 1, hi) = Lands(t, lo, hi)
          /\ ~(mid < t) => Lands(t, lo, mid) = Lands(t, lo, hi)
      BY <3>2, t \in Nat DEF Lands
    <3>4. C!Page(mid) = {} <=> mid < t
      BY <3>2 DEF Turns
    <3>5. CASE mid < t
      <4>1. SearchStep(low, final, F)[<<lo, hi>>] = F[<<mid + 1, hi>>]
        BY <2>3, <2>5, <3>4, <3>5, Zenon
      <4> QED
        BY <2>2, <3>2, <3>3, <3>5, <4>1, Zenon
    <3>6. CASE ~(mid < t)
      <4>1. SearchStep(low, final, F)[<<lo, hi>>] = F[<<lo, mid>>]
        BY <2>3, <2>5, <3>4, <3>6, Zenon
      <4> QED
        BY <2>2, <3>2, <3>3, <3>6, <4>1, Zenon
    <3> QED
      BY <3>5, <3>6
  <2> QED
    BY <2>4, <2>5
<1> QED
  <2>1. F = [w \in W |-> F[w]] /\ SearchStep(low, final, F) = [w \in W |-> SearchStep(low, final, F)[w]]
    BY DEF Finds, SearchStep
  <2>2. \A w \in W : \E lo, hi \in low..final : w = <<lo, hi>>
    OBVIOUS
  <2>3. ASSUME NEW w \in W PROVE F[w] = SearchStep(low, final, F)[w]
    <3>1. PICK lo \in low..final, hi \in low..final : w = <<lo, hi>>
      BY <2>2
    <3>2. F[<<lo, hi>>] = SearchStep(low, final, F)[<<lo, hi>>]
      BY <1>1
    <3> HIDE DEF F
    <3> QED
      BY <3>1, <3>2, Zenon
  <2> HIDE DEF F, W
  <2>4. [w \in W |-> F[w]] = [w \in W |-> SearchStep(low, final, F)[w]]
    BY <2>3
  <2> QED
    BY <2>1, <2>4 DEF F

\* What a function that solves the search's equation is at a pair.
Halves(low, final, g) ==
    \A lo, hi \in low..final :
        /\ lo >= hi => g[<<lo, hi>>] = C!Min(C!Page(hi))
        /\ ~(lo >= hi) /\ C!Page((lo + hi) \div 2) = {} => g[<<lo, hi>>] = g[<<(lo + hi) \div 2 + 1, hi>>]
        /\ ~(lo >= hi) /\ C!Page((lo + hi) \div 2) # {} => g[<<lo, hi>>] = g[<<lo, (lo + hi) \div 2>>]

LEMMA SolutionHalves ==
    ASSUME NEW low \in Nat, NEW final \in Nat, NEW g, g = SearchStep(low, final, g)
    PROVE  Halves(low, final, g)
<1> SUFFICES ASSUME NEW lo \in low..final, NEW hi \in low..final
             PROVE  /\ lo >= hi => g[<<lo, hi>>] = C!Min(C!Page(hi))
                    /\ ~(lo >= hi) /\ C!Page((lo + hi) \div 2) = {} => g[<<lo, hi>>] = g[<<(lo + hi) \div 2 + 1, hi>>]
                    /\ ~(lo >= hi) /\ C!Page((lo + hi) \div 2) # {} => g[<<lo, hi>>] = g[<<lo, (lo + hi) \div 2>>]
  BY DEF Halves
<1>1. SearchStep(low, final, g)[<<lo, hi>>] =
        IF lo >= hi THEN C!Min(C!Page(hi))
        ELSE IF C!Page((lo + hi) \div 2) = {} THEN g[<<(lo + hi) \div 2 + 1, hi>>] ELSE g[<<lo, (lo + hi) \div 2>>]
  BY DEF SearchStep
<1>2. g[<<lo, hi>>] = SearchStep(low, final, g)[<<lo, hi>>]
  OBVIOUS
<1> QED
  BY <1>1, <1>2, Zenon

\* The search has no other outcome: the pair closest to each other on which another
\* one differed would have a closer one.
LEMMA FindsOnly ==
    ASSUME NEW low \in Nat, NEW final \in Nat, NEW t \in Nat, Turns(low, final, t),
           NEW f, Halves(low, final, f)
    PROVE  \A lo, hi \in low..final : f[<<lo, hi>>] = Finds(low, final, t)[<<lo, hi>>]
<1> DEFINE F == Finds(low, final, t)
           Bad == {d \in Nat : \E lo, hi \in low..final : hi - lo = d /\ f[<<lo, hi>>] # F[<<lo, hi>>]}
<1>3. Halves(low, final, f) /\ Halves(low, final, F)
  BY FindsSolves, SolutionHalves, Zenon
<1> HIDE DEF F
<1>4. \A lo, hi \in low..final : lo >= hi => f[<<lo, hi>>] = F[<<lo, hi>>]
  <2>1. \A lo, hi \in low..final : lo >= hi => f[<<lo, hi>>] = C!Min(C!Page(hi))
    BY Halves(low, final, f), Zenon DEF Halves
  <2>2. \A lo, hi \in low..final : lo >= hi => F[<<lo, hi>>] = C!Min(C!Page(hi))
    BY <1>3, Zenon DEF Halves
  <2> QED
    BY <2>1, <2>2, Zenon
<1>5. Bad = {}
  <2>1. SUFFICES ASSUME Bad # {} PROVE FALSE
    OBVIOUS
  <2>2. PICK d \in Bad : \A e \in Bad : d <= e
    BY <2>1, LeastExists
  <2>3. PICK lo \in low..final, hi \in low..final : hi - lo = d /\ f[<<lo, hi>>] # F[<<lo, hi>>]
    OBVIOUS
  <2>4. lo < hi
    BY <1>4, <2>3
  <2> DEFINE mid == (lo + hi) \div 2
  <2>5. /\ mid \in Nat /\ lo \in Nat /\ hi \in Nat /\ lo <= mid /\ mid < hi
        /\ mid \in low..final /\ mid + 1 \in low..final
    BY <2>4, HalfInside
  <2>10. ~(lo >= hi)
    BY <2>4, <2>5
  <2>6. \/ f[<<mid + 1, hi>>] # F[<<mid + 1, hi>>]
        \/ f[<<lo, mid>>] # F[<<lo, mid>>]
    <3>1. CASE C!Page(mid) = {}
      <4>1. f[<<lo, hi>>] = f[<<mid + 1, hi>>] /\ F[<<lo, hi>>] = F[<<mid + 1, hi>>]
        BY <1>3, <2>10, <3>1, Zenon DEF Halves
      <4> QED
        BY <2>3, <4>1
    <3>2. CASE C!Page(mid) # {}
      <4>1. f[<<lo, hi>>] = f[<<lo, mid>>] /\ F[<<lo, hi>>] = F[<<lo, mid>>]
        BY <1>3, <2>10, <3>2, Zenon DEF Halves
      <4> QED
        BY <2>3, <4>1
    <3> QED
      BY <3>1, <3>2
  <2> HIDE DEF mid
  <2>9. d \in Nat
    OBVIOUS
  <2>7. CASE f[<<mid + 1, hi>>] # F[<<mid + 1, hi>>]
    <3>1. hi - (mid + 1) \in Nat /\ hi - (mid + 1) < d
      BY <2>3, <2>5
    <3>2. hi - (mid + 1) \in Bad
      BY <2>5, <2>7, <3>1
    <3>3. d <= hi - (mid + 1)
      BY <2>2, <3>2, Zenon
    <3> QED
      BY <2>9, <3>1, <3>3
  <2>8. CASE f[<<lo, mid>>] # F[<<lo, mid>>]
    <3>1. mid - lo \in Nat /\ mid - lo < d
      BY <2>3, <2>5
    <3>2. mid - lo \in Bad
      BY <2>5, <2>8, <3>1
    <3>3. d <= mid - lo
      BY <2>2, <3>2, Zenon
    <3> QED
      BY <2>9, <3>1, <3>3
  <2> QED
    BY <2>6, <2>7, <2>8
<1>6. SUFFICES ASSUME NEW lo \in low..final, NEW hi \in low..final, f[<<lo, hi>>] # F[<<lo, hi>>]
               PROVE  FALSE
  BY DEF F
<1>7. lo < hi
  BY <1>4, <1>6
<1>8. hi - lo \in Nat
  BY <1>7
<1> QED
  BY <1>5, <1>6, <1>8

\* Where the search ends: nowhere if there are no bars, else at the first of them.
LEMMA SearchEnds ==
    ASSUME NEW low \in Nat, NEW final \in Nat, low <= final, NEW t \in Nat, Turns(low, final, t)
    PROVE  (CHOOSE f : f = SearchStep(low, final, f))[<<low, final>>] = C!Min(C!Page(t))
<1> DEFINE f == CHOOSE f : f = SearchStep(low, final, f)
<1>1. \E g : g = SearchStep(low, final, g)
  BY FindsSolves
<1>2. f = SearchStep(low, final, f)
  BY <1>1
<1> HIDE DEF f
<1>3. low \in low..final /\ final \in low..final
  OBVIOUS
<1>7. \A lo, hi \in low..final : f[<<lo, hi>>] = Finds(low, final, t)[<<lo, hi>>]
  <2>1. Halves(low, final, f)
    BY <1>2, SolutionHalves
  <2>2. \A g : Halves(low, final, g) => \A lo, hi \in low..final : g[<<lo, hi>>] = Finds(low, final, t)[<<lo, hi>>]
    BY FindsOnly
  <2> QED
    BY <2>1, <2>2, Zenon
<1>4. f[<<low, final>>] = Finds(low, final, t)[<<low, final>>]
  BY <1>3, <1>7, Zenon
<1>5. Lands(t, low, final) = t
  BY DEF Lands, Turns
<1>6. Finds(low, final, t)[<<low, final>>] = C!Min(C!Page(t))
  BY <1>3, <1>5 DEF Finds
<1> QED
  BY <1>4, <1>6 DEF f

LEMMA FirstWithDataFacts ==
    ASSUME Market, NEW low \in Nat, NEW high \in Nat, low < high, high <= now, C!Page(low) = {}
    PROVE  \/ C!FirstWithData(low, high) = C!NoData /\ InRange(low, high) = {}
           \/ /\ C!FirstWithData(low, high) # C!NoData
              /\ C!FirstWithData(low, high) \in Nat
              /\ low < C!FirstWithData(low, high) /\ C!FirstWithData(low, high) < high
              /\ InRange(low, C!FirstWithData(low, high)) = {}
<1>1. PageLimit \in Nat \ {0} /\ now \in Nat /\ has \subseteq Nat
  BY PageFacts DEF Market
<1> DEFINE final == C!Max({high - PageLimit, low})
<1>2. final = IF high - PageLimit >= low THEN high - PageLimit ELSE low
  BY <1>1, MaxOfTwo
<1> HIDE DEF final
<1>3. final \in Nat /\ low <= final /\ final < high
  BY <1>1, <1>2
<1>4. C!FirstWithData(low, high) =
        IF C!Page(final) = {} THEN C!NoData
        ELSE (CHOOSE f : f = SearchStep(low, final, f))[<<low, final>>]
  BY DEF C!FirstWithData, SearchStep, final
<1>5. CASE C!Page(final) = {}
  <2>1. CASE final = low
    <3>1. high <= low + PageLimit
      BY <1>1, <1>2, <2>1
    <3>2. InRange(low, high) \subseteq C!Page(low)
      <4> SUFFICES ASSUME NEW b \in has, low <= b, b < high PROVE b \in C!Page(low)
        BY DEF InRange
      <4>1. b \in Nat /\ b < low + PageLimit /\ b <= now
        BY <1>1, <3>1
      <4> QED
        BY <4>1, PageFacts
    <3> QED
      BY <1>4, <1>5, <3>2
  <2>2. CASE final # low
    <3>1. final + PageLimit = high
      BY <1>1, <1>2, <2>2
    <3>2. InRange(low, high) = {}
      BY <1>3, <1>5, <3>1, NoneBetween
    <3> QED
      BY <1>4, <1>5, <3>2
  <2> QED
    BY <2>1, <2>2
<1>6. CASE C!Page(final) # {}
  <2>1. final # low
    BY <1>6
  <2>2. final + PageLimit = high
    BY <1>1, <1>2, <2>1
  <2>3. PICK t \in Nat : Turns(low, final, t)
    BY <1>3, <1>6, <2>2, TurnExists
  <2> DEFINE start == C!Min(C!Page(t))
  <2>4. C!FirstWithData(low, high) = start
    BY <1>3, <1>4, <1>6, <2>3, SearchEnds
  <2>5. low <= t /\ t <= final /\ C!Page(t) # {} /\ \A x \in low..final : x < t => C!Page(x) = {}
    BY <2>3 DEF Turns
  <2>6. C!Page(t) \subseteq Nat
    BY PageFacts
  <2>7. start \in C!Page(t) /\ start \in Nat /\ \A b \in C!Page(t) : start <= b
    BY <2>5, <2>6, MinIs
  <2> HIDE DEF start
  <2>8. start \in has /\ t <= start /\ start < t + PageLimit /\ start <= now
    BY <2>7, PageFacts
  <2>9. low < t
    <3>1. t # low
      BY <2>5
    <3> QED
      BY <2>5, <3>1
  <2>10. low < start /\ start < high
    BY <1>1, <1>3, <2>2, <2>5, <2>7, <2>8, <2>9
  <2>11. InRange(low, start) = {}
    <3> SUFFICES ASSUME NEW b \in has, low <= b, b < start PROVE FALSE
      BY DEF InRange
    <3>1. b \in Nat /\ b <= now /\ b < b + PageLimit
      BY <1>1, <2>7, <2>8
    <3>2. CASE b < t
      <4>1. b \in low..final
        BY <1>3, <2>5, <3>1, <3>2
      <4>2. C!Page(b) = {}
        BY <2>5, <3>2, <4>1
      <4>3. b \in C!Page(b)
        BY <3>1, PageFacts
      <4> QED
        BY <4>2, <4>3
    <3>3. CASE ~(b < t)
      <4>1. t <= b /\ b < t + PageLimit
        BY <1>1, <2>7, <2>8, <3>1, <3>3
      <4>2. b \in C!Page(t)
        BY <3>1, <4>1, PageFacts
      <4>3. start <= b
        BY <2>7, <4>2
      <4> QED
        BY <2>7, <3>1, <4>3
    <3> QED
      BY <3>2, <3>3
  <2>12. start # C!NoData
    BY <2>7 DEF C!NoData
  <2> QED
    BY <2>4, <2>7, <2>10, <2>11, <2>12
<1> QED
  BY <1>5, <1>6

\* One page of a range and the pages after it.
FetchStep(until, f) ==
    [c \in 0..(until + PageLimit) |->
       IF c >= until THEN {}
       ELSE LET page == C!Page(c) IN
            IF page # {} THEN {b \in page : b < until} \cup f[C!Max(page) + 1]
            ELSE LET start == C!FirstWithData(c, until) IN
                 IF start = C!NoData THEN {} ELSE f[start]]
Rest(until) == [c \in 0..(until + PageLimit) |-> InRange(c, until)]

\* The cursor goes on inside the domain, and between two cursors the page has all.
LEMMA NextCursor ==
    ASSUME Market, NEW until \in Nat, until <= now, NEW c \in Nat, c < until
    PROVE  /\ c \in 0..(until + PageLimit)
           /\ C!Page(c) # {} =>
                /\ C!Max(C!Page(c)) + 1 \in 0..(until + PageLimit)
                /\ C!Max(C!Page(c)) + 1 \in Nat /\ c < C!Max(C!Page(c)) + 1
                /\ InRange(c, until) =
                     {b \in C!Page(c) : b < until} \cup InRange(C!Max(C!Page(c)) + 1, until)
           /\ C!Page(c) = {} =>
                \/ C!FirstWithData(c, until) = C!NoData /\ InRange(c, until) = {}
                \/ /\ C!FirstWithData(c, until) # C!NoData
                   /\ C!FirstWithData(c, until) \in 0..(until + PageLimit)
                   /\ C!FirstWithData(c, until) \in Nat /\ c < C!FirstWithData(c, until)
                   /\ InRange(c, until) = InRange(C!FirstWithData(c, until), until)
<1>1. PageLimit \in Nat \ {0} /\ now \in Nat /\ has \subseteq Nat
  BY PageFacts DEF Market
<1>2. c \in 0..(until + PageLimit)
  BY <1>1
<1>3. ASSUME C!Page(c) # {}
      PROVE  /\ C!Max(C!Page(c)) + 1 \in 0..(until + PageLimit)
             /\ C!Max(C!Page(c)) + 1 \in Nat /\ c < C!Max(C!Page(c)) + 1
             /\ InRange(c, until) =
                  {b \in C!Page(c) : b < until} \cup InRange(C!Max(C!Page(c)) + 1, until)
  <2> DEFINE m == C!Max(C!Page(c))
  <2>1. C!Page(c) \subseteq 0..now
    BY PageFacts
  <2>2. m \in C!Page(c) /\ m \in Nat /\ \A b \in C!Page(c) : m >= b
    BY <1>1, <1>3, <2>1, MaxIs
  <2> HIDE DEF m
  <2>3. c <= m /\ m < c + PageLimit /\ m <= now
    BY <2>2, PageFacts
  <2>4. m + 1 \in Nat /\ c < m + 1 /\ m + 1 <= until + PageLimit
    BY <1>1, <2>2, <2>3
  <2>5. m + 1 \in 0..(until + PageLimit)
    BY <1>1, <2>4
  <2>6. ASSUME NEW b \in has PROVE (c <= b /\ b < until) <=> (b \in C!Page(c) /\ b < until) \/ (m + 1 <= b /\ b < until)
    <3>1. b \in Nat
      BY <1>1
    <3>2. b \in C!Page(c) <=> c <= b /\ b < c + PageLimit /\ b <= now
      BY PageFacts
    <3>3. b \in C!Page(c) => b <= m
      BY <2>2
    <3> QED
      BY <1>1, <2>2, <2>3, <3>1, <3>2, <3>3
  <2>7. C!Page(c) \subseteq has
    BY PageFacts
  <2>8. InRange(c, until) = {b \in C!Page(c) : b < until} \cup InRange(m + 1, until)
    BY <2>6, <2>7 DEF InRange
  <2> QED
    BY <2>4, <2>5, <2>8 DEF m
<1>4. ASSUME C!Page(c) = {}
      PROVE  \/ C!FirstWithData(c, until) = C!NoData /\ InRange(c, until) = {}
             \/ /\ C!FirstWithData(c, until) # C!NoData
                /\ C!FirstWithData(c, until) \in 0..(until + PageLimit)
                /\ C!FirstWithData(c, until) \in Nat /\ c < C!FirstWithData(c, until)
                /\ InRange(c, until) = InRange(C!FirstWithData(c, until), until)
  <2> DEFINE start == C!FirstWithData(c, until)
  <2>1. \/ start = C!NoData /\ InRange(c, until) = {}
        \/ /\ start # C!NoData /\ start \in Nat /\ c < start /\ start < until
           /\ InRange(c, start) = {}
    BY <1>4, FirstWithDataFacts
  <2> HIDE DEF start
  <2>2. CASE start = C!NoData /\ InRange(c, until) = {}
    BY <2>2 DEF start
  <2>3. CASE /\ start # C!NoData /\ start \in Nat /\ c < start /\ start < until
             /\ InRange(c, start) = {}
    <3>1. start \in 0..(until + PageLimit)
      BY <1>1, <2>3
    <3>2. ASSUME NEW b \in has PROVE (c <= b /\ b < until) <=> (start <= b /\ b < until)
      <4>1. b \in Nat /\ ~(c <= b /\ b < start)
        BY <1>1, <2>3 DEF InRange
      <4> QED
        BY <2>3, <4>1
    <3>3. InRange(c, until) = InRange(start, until)
      BY <3>2 DEF InRange
    <3> QED
      BY <2>3, <3>1, <3>3 DEF start
  <2> QED
    BY <2>1, <2>2, <2>3
<1> QED
  BY <1>2, <1>3, <1>4

\* What a function that solves the paging's equation is at a cursor.
Pages(until, g) ==
    \A c \in 0..(until + PageLimit) :
        /\ c >= until => g[c] = {}
        /\ ~(c >= until) /\ C!Page(c) # {} => g[c] = {b \in C!Page(c) : b < until} \cup g[C!Max(C!Page(c)) + 1]
        /\ ~(c >= until) /\ C!Page(c) = {} /\ C!FirstWithData(c, until) = C!NoData => g[c] = {}
        /\ ~(c >= until) /\ C!Page(c) = {} /\ C!FirstWithData(c, until) # C!NoData
             => g[c] = g[C!FirstWithData(c, until)]

LEMMA StepPages ==
    ASSUME NEW until \in Nat, NEW g, NEW c \in 0..(until + PageLimit)
    PROVE  FetchStep(until, g)[c] =
             IF c >= until THEN {}
             ELSE IF C!Page(c) # {} THEN {b \in C!Page(c) : b < until} \cup g[C!Max(C!Page(c)) + 1]
             ELSE IF C!FirstWithData(c, until) = C!NoData THEN {} ELSE g[C!FirstWithData(c, until)]
BY DEF FetchStep

LEMMA SolutionPages ==
    ASSUME NEW until \in Nat, NEW g, g = FetchStep(until, g)
    PROVE  Pages(until, g)
<1> SUFFICES ASSUME NEW c \in 0..(until + PageLimit)
             PROVE  /\ c >= until => g[c] = {}
                    /\ ~(c >= until) /\ C!Page(c) # {} => g[c] = {b \in C!Page(c) : b < until} \cup g[C!Max(C!Page(c)) + 1]
                    /\ ~(c >= until) /\ C!Page(c) = {} /\ C!FirstWithData(c, until) = C!NoData => g[c] = {}
                    /\ ~(c >= until) /\ C!Page(c) = {} /\ C!FirstWithData(c, until) # C!NoData
                         => g[c] = g[C!FirstWithData(c, until)]
  BY DEF Pages
<1>1. g[c] = FetchStep(until, g)[c]
  OBVIOUS
<1> QED
  BY <1>1, StepPages, Zenon

LEMMA RestSolves ==
    ASSUME Market, NEW until \in Nat, until <= now
    PROVE  Rest(until) = FetchStep(until, Rest(until))
<1> DEFINE G == Rest(until)
           D == 0..(until + PageLimit)
<1>1. \A c \in D : G[c] = InRange(c, until)
  BY DEF Rest
<1>2. G = [c \in D |-> G[c]] /\ FetchStep(until, G) = [c \in D |-> FetchStep(until, G)[c]]
  BY DEF Rest, FetchStep
<1> HIDE DEF G
<1>3. ASSUME NEW c \in D PROVE G[c] = FetchStep(until, G)[c]
  <2>1. c \in Nat
    OBVIOUS
  <2>2. FetchStep(until, G)[c] =
             IF c >= until THEN {}
             ELSE IF C!Page(c) # {} THEN {b \in C!Page(c) : b < until} \cup G[C!Max(C!Page(c)) + 1]
             ELSE IF C!FirstWithData(c, until) = C!NoData THEN {} ELSE G[C!FirstWithData(c, until)]
    BY StepPages
  <2>3. CASE c >= until
    <3>1. InRange(c, until) = {}
      <4> SUFFICES ASSUME NEW b \in has, c <= b, b < until PROVE FALSE
        BY DEF InRange
      <4> QED
        BY <2>1, <2>3 DEF Market
    <3> QED
      BY <1>1, <2>2, <2>3, <3>1, Zenon
  <2>4. CASE ~(c >= until) /\ C!Page(c) # {}
    <3>1. c < until
      BY <2>1, <2>4
    <3>2. /\ C!Max(C!Page(c)) + 1 \in D
          /\ InRange(c, until) = {b \in C!Page(c) : b < until} \cup InRange(C!Max(C!Page(c)) + 1, until)
      BY <2>1, <2>4, <3>1, NextCursor
    <3> QED
      BY <1>1, <2>2, <2>4, <3>2, Zenon
  <2>5. CASE ~(c >= until) /\ C!Page(c) = {}
    <3>1. c < until
      BY <2>1, <2>5
    <3>2. \/ C!FirstWithData(c, until) = C!NoData /\ InRange(c, until) = {}
          \/ /\ C!FirstWithData(c, until) # C!NoData
             /\ C!FirstWithData(c, until) \in D
             /\ InRange(c, until) = InRange(C!FirstWithData(c, until), until)
      BY <2>1, <2>5, <3>1, NextCursor
    <3> QED
      BY <1>1, <2>2, <2>5, <3>2, Zenon
  <2> QED
    BY <2>3, <2>4, <2>5
<1> HIDE DEF D
<1>4. [c \in D |-> G[c]] = [c \in D |-> FetchStep(until, G)[c]]
  BY <1>3
<1> QED
  BY <1>2, <1>4 DEF G

\* Paging has no other outcome: the last cursor at which another one differed would
\* have a later one.
LEMMA RestOnly ==
    ASSUME Market, NEW until \in Nat, until <= now, NEW f, f = FetchStep(until, f)
    PROVE  \A c \in 0..(until + PageLimit) : f[c] = InRange(c, until)
<1> DEFINE D == 0..(until + PageLimit)
           Bad == {c \in D : f[c] # InRange(c, until)}
<1>1. until + PageLimit \in Nat
  BY PageFacts
<1>2. Pages(until, f)
  BY SolutionPages
<1>3. SUFFICES ASSUME Bad # {} PROVE FALSE
  OBVIOUS
<1>4. PICK c \in Bad : \A d \in Bad : c >= d
  BY <1>1, <1>3, GreatestExists
<1>5. c \in D /\ f[c] # InRange(c, until) /\ c \in Nat
  OBVIOUS
<1>6. ASSUME NEW d \in D, c < d PROVE f[d] = InRange(d, until)
  <2>1. d \notin Bad
    BY <1>4, <1>5, <1>6
  <2> QED
    BY <2>1
<1> HIDE DEF Bad
<1>7. CASE c >= until
  <2>1. InRange(c, until) = {}
    <3> SUFFICES ASSUME NEW b \in has, c <= b, b < until PROVE FALSE
      BY DEF InRange
    <3> QED
      BY <1>5, <1>7 DEF Market
  <2> QED
    BY <1>2, <1>5, <1>7, <2>1, Zenon DEF Pages
<1>8. CASE ~(c >= until) /\ C!Page(c) # {}
  <2>1. c < until
    BY <1>5, <1>8
  <2>2. /\ C!Max(C!Page(c)) + 1 \in D /\ c < C!Max(C!Page(c)) + 1
        /\ InRange(c, until) = {b \in C!Page(c) : b < until} \cup InRange(C!Max(C!Page(c)) + 1, until)
    BY <1>5, <1>8, <2>1, NextCursor
  <2>3. f[C!Max(C!Page(c)) + 1] = InRange(C!Max(C!Page(c)) + 1, until)
    BY <1>6, <2>2, Zenon
  <2>4. f[c] = {b \in C!Page(c) : b < until} \cup f[C!Max(C!Page(c)) + 1]
    BY <1>2, <1>5, <1>8, Zenon DEF Pages
  <2> QED
    BY <1>5, <2>2, <2>3, <2>4, Zenon
<1>9. CASE ~(c >= until) /\ C!Page(c) = {}
  <2>1. c < until
    BY <1>5, <1>9
  <2>2. \/ C!FirstWithData(c, until) = C!NoData /\ InRange(c, until) = {}
        \/ /\ C!FirstWithData(c, until) # C!NoData
           /\ C!FirstWithData(c, until) \in D /\ c < C!FirstWithData(c, until)
           /\ InRange(c, until) = InRange(C!FirstWithData(c, until), until)
    BY <1>5, <1>9, <2>1, NextCursor
  <2>3. CASE C!FirstWithData(c, until) = C!NoData
    BY <1>2, <1>5, <1>9, <2>2, <2>3, Zenon DEF Pages
  <2>4. CASE C!FirstWithData(c, until) # C!NoData
    <3>1. f[C!FirstWithData(c, until)] = InRange(C!FirstWithData(c, until), until)
      BY <1>6, <2>2, <2>4, Zenon
    <3>2. f[c] = f[C!FirstWithData(c, until)]
      BY <1>2, <1>5, <1>9, <2>4, Zenon DEF Pages
    <3> QED
      BY <1>5, <2>2, <2>4, <3>1, <3>2, Zenon
  <2> QED
    BY <2>3, <2>4
<1> QED
  BY <1>7, <1>8, <1>9

\* A range comes back whole.
LEMMA FetchWhole ==
    ASSUME Market, NEW since \in Nat, NEW until \in Nat, since <= until, until <= now
    PROVE  C!Fetch(since, until) = InRange(since, until)
<1> DEFINE f == CHOOSE f : f = FetchStep(until, f)
<1>1. C!Fetch(since, until) = f[since]
  BY DEF C!Fetch, FetchStep
<1>2. \E g : g = FetchStep(until, g)
  BY RestSolves
<1>3. f = FetchStep(until, f)
  BY <1>2
<1> HIDE DEF f
<1>4. \A c \in 0..(until + PageLimit) : f[c] = InRange(c, until)
  BY <1>3, RestOnly
<1>5. since \in 0..(until + PageLimit)
  BY PageFacts
<1> QED
  BY <1>1, <1>4, <1>5, Zenon

-----------------------------------------------------------------------------
(***************************************************************************)
(* The invariant of the candle store                                       *)
(***************************************************************************)

\* Bars older than any window that someone keeps up.
OldNow(b) == b < now - C!Shortest
OldFor(p, b) == b < op[p].until - C!Shortest

Types ==
    /\ Market /\ stored \subseteq has /\ partial \subseteq stored
    /\ \A b \in stored : b < now
    /\ DOMAIN op = C!Processes

\* A range under way, and the ranges a process has left: the last goes up to its clock,
\* an earlier one up to bars that are stored.
RangeOK(p, r) ==
    /\ r[1] \in Nat /\ r[2] \in Nat /\ r[1] <= r[2] /\ r[2] <= op[p].until
    /\ r[1] <= op[p].until - Wanted[p] \/ (stored # {} /\ r[1] <= C!Max(stored))
    /\ stored = {} \/ r[2] >= C!Min(stored) \/ (\A b \in has : b < C!Min(stored) => OldNow(b))

Todo(p) == op[p].ranges
Finishes(p, r) == r[2] = op[p].until
Joins(r) == stored # {} /\ r[2] <= C!Max(stored)

Fetching(p) ==
    \/ /\ Len(Todo(p)) = 1 /\ Todo(p) = <<Todo(p)[1]>>
       /\ RangeOK(p, Todo(p)[1]) /\ Finishes(p, Todo(p)[1])
    \/ /\ Len(Todo(p)) = 2 /\ Todo(p) = <<Todo(p)[1], Todo(p)[2]>>
       /\ RangeOK(p, Todo(p)[1]) /\ Joins(Todo(p)[1])
       /\ RangeOK(p, Todo(p)[2]) /\ Finishes(p, Todo(p)[2])

Operation(p) ==
    /\ op[p] = [at |-> op[p].at, until |-> op[p].until, ranges |-> op[p].ranges]
    /\ op[p].until \in Nat /\ op[p].until <= now
    /\ \/ op[p] = C!Idle
       \/ p = Bot /\ op[p].at \in {"serve", "fallback"} /\ op[p].ranges = <<>>
       \/ op[p].at = "fetch" /\ Fetching(p)

\* Where the store's own updates left bars out, and what they left unfinished, is old
\* by the time it can no longer be repaired.
JumpsOld == \A b \in jumped \cap has : OldNow(b)
PartialsNew == \A b \in partial : b >= C!Max(stored) - C!RepairBars \/ OldNow(b)

Covers(r, b) == r[1] <= b /\ b < r[2]
Coming(p, b) == \E i \in 1..Len(Todo(p)) : Covers(Todo(p)[i], b)
PartialsAhead(p) ==
    op[p].at = "fetch" =>
        \A b \in partial : Covers(Todo(p)[Len(Todo(p))], b) \/ OldFor(p, b)
PartialsGone == op[Bot].at = "serve" => \A b \in partial : OldFor(Bot, b)

\* What the bot's window needs is stored or on its way.
WindowComes ==
    op[Bot].at \in {"fetch", "serve"} =>
        \A b \in has : ~OldFor(Bot, b) /\ b < op[Bot].until => b \in stored \/ Coming(Bot, b)

\* What the two properties say, of an exchange with one long gap.
NoHoles == stored # {} => has \cap (C!Min(stored)..C!Max(stored)) \subseteq stored \cup jumped
FrameIsTrue ==
    served # None =>
        \A b \in has \cap (served.until - C!Shortest)..C!Max(served.bars) :
            /\ b >= C!Min(served.bars) =>
                  b \in served.bars \/ (~served.fresh /\ b \in jumped)
            /\ served.fresh => b \notin served.partial

CandlesInv ==
    /\ Types /\ NoHoles /\ FrameIsTrue
    /\ \A p \in C!Processes : Operation(p) /\ PartialsAhead(p)
    /\ JumpsOld /\ PartialsNew /\ PartialsGone /\ WindowComes

LEMMA BoundIs == MaxNow \in Nat /\ PageLimit \in Nat
BY CandleSettings DEF C!Settings

\* The oldest and the newest of a set of bars.
LEMMA Ends ==
    ASSUME NEW n \in Nat, NEW T, T # {}, \A b \in T : b \in Nat /\ b < n
    PROVE  /\ C!Max(T) \in T /\ C!Max(T) \in Nat /\ C!Max(T) < n
           /\ C!Min(T) \in T /\ C!Min(T) \in Nat
           /\ \A b \in T : C!Min(T) <= b /\ b <= C!Max(T)
<1>1. T \subseteq 0..n /\ T \subseteq Nat
  OBVIOUS
<1>2. /\ C!Max(T) \in T /\ C!Max(T) \in Nat /\ C!Max(T) <= n
      /\ \A y \in T : C!Max(T) >= y
  BY <1>1, MaxIs
<1>3. C!Min(T) \in T /\ C!Min(T) \in Nat /\ \A y \in T : C!Min(T) <= y
  BY <1>1, MinIs
<1>4. C!Max(T) < n
  BY <1>2
<1> QED
  BY <1>1, <1>2, <1>3, <1>4

LEMMA ShortestIs ==
    /\ C!Shortest \in Nat /\ C!Shortest >= 1
    /\ \A p \in C!Processes : Wanted[p] \in Nat /\ C!Shortest <= Wanted[p]
<1> DEFINE T == {Wanted[p] : p \in C!Processes}
<1>1. \A p \in C!Processes : Wanted[p] \in Nat \ {0}
  BY CandleSettings DEF C!Settings
<1>2. T \subseteq Nat /\ T # {}
  BY <1>1 DEF C!Processes
<1>3. C!Min(T) \in T /\ C!Min(T) \in Nat /\ \A y \in T : C!Min(T) <= y
  BY <1>2, MinIs
<1>4. C!Shortest = C!Min(T)
  BY DEF C!Shortest
<1> QED
  BY <1>1, <1>3, <1>4

LEMMA StoredEnds ==
    ASSUME Types, stored # {}
    PROVE  /\ C!Max(stored) \in stored /\ C!Max(stored) \in Nat /\ C!Max(stored) < now
           /\ C!Min(stored) \in stored /\ C!Min(stored) \in Nat
           /\ \A b \in stored : C!Min(stored) <= b /\ b <= C!Max(stored)
<1>1. now \in Nat /\ \A b \in stored : b \in Nat /\ b < now
  BY PageFacts DEF Types, Market
<1> QED
  BY <1>1, Ends

\* A step of the store: it keeps what there is, and the first write reaches back at
\* least as far as the shortest window.
Grows ==
    /\ Types /\ Types' /\ has' = has /\ now <= now' /\ stored \subseteq stored'
    /\ stored = {} /\ stored' # {} => \A b \in has : b < C!Min(stored') => OldNow(b)

LEMMA EndsGrow ==
    ASSUME Grows, stored # {}
    PROVE  /\ stored' # {}
           /\ C!Max(stored') \in Nat /\ C!Max(stored) \in Nat /\ C!Max(stored) <= C!Max(stored')
           /\ C!Min(stored') \in Nat /\ C!Min(stored) \in Nat /\ C!Min(stored') <= C!Min(stored)
           /\ \A b \in stored' : C!Min(stored') <= b /\ b <= C!Max(stored')
<1>1. /\ C!Max(stored) \in stored /\ C!Max(stored) \in Nat
      /\ C!Min(stored) \in stored /\ C!Min(stored) \in Nat
  BY StoredEnds DEF Grows
<1>2. stored' # {} /\ stored \subseteq stored'
  BY DEF Grows
<1>3. now' \in Nat /\ \A b \in stored' : b \in Nat /\ b < now'
  <2>1. now' \in 0..MaxNow /\ has' \subseteq Nat /\ stored' \subseteq has' /\ \A b \in stored' : b < now'
    BY Zenon DEF Grows, Types, Market
  <2>2. now' \in Nat
    BY <2>1, BoundIs
  <2> QED
    BY <2>1, <2>2
<1>4. /\ C!Max(stored') \in Nat /\ C!Min(stored') \in Nat
      /\ \A b \in stored' : C!Min(stored') <= b /\ b <= C!Max(stored')
  BY <1>2, <1>3, Ends
<1> QED
  BY <1>1, <1>2, <1>4

LEMMA Older == \A b, n, m, w \in Nat : b < n - w /\ n <= m => b < m - w
OBVIOUS

\* A bar that was old stays old.
LEMMA OldStays == ASSUME Grows, NEW b \in has, OldNow(b) PROVE OldNow(b)'
<1>1. b \in Nat /\ now \in Nat /\ now' \in Nat /\ now <= now' /\ C!Shortest \in Nat
  BY BoundIs, ShortestIs DEF Grows, Types, Market
<1>2. b < now - C!Shortest
  BY DEF OldNow
<1>3. b < now' - C!Shortest
  BY <1>1, <1>2, Older, Zenon
<1> QED
  BY <1>3 DEF OldNow

LEMMA RangeKept ==
    ASSUME Grows, NEW p \in C!Processes, op'[p].until = op[p].until, op[p].until \in Nat,
           NEW r, RangeOK(p, r)
    PROVE  RangeOK(p, r)'
<1>1. /\ r[1] \in Nat /\ r[2] \in Nat /\ r[1] <= r[2] /\ r[2] <= op[p].until
  BY DEF RangeOK
<1>2. r[1] <= op[p].until - Wanted[p] \/ (stored' # {} /\ r[1] <= C!Max(stored'))
  <2>1. CASE r[1] <= op[p].until - Wanted[p]
    BY <2>1
  <2>2. CASE stored # {} /\ r[1] <= C!Max(stored)
    BY <1>1, <2>2, EndsGrow
  <2> QED
    BY <2>1, <2>2 DEF RangeOK
<1>3. stored' = {} \/ r[2] >= C!Min(stored') \/ (\A b \in has' : b < C!Min(stored') => OldNow(b)')
  <2> SUFFICES ASSUME stored' # {}, ~(r[2] >= C!Min(stored')), NEW b \in has, b < C!Min(stored')
               PROVE  OldNow(b)'
    BY DEF Grows
  <2>1. CASE stored = {}
    BY <2>1, OldStays DEF Grows
  <2>2. CASE stored # {}
    <3>1. C!Min(stored') \in Nat /\ C!Min(stored) \in Nat /\ C!Min(stored') <= C!Min(stored)
      BY <2>2, EndsGrow
    <3>2. b \in Nat
      BY DEF Grows, Types, Market
    <3>3. ~(r[2] >= C!Min(stored)) /\ b < C!Min(stored)
      BY <1>1, <3>1, <3>2
    <3>4. OldNow(b)
      BY <2>2, <3>3 DEF RangeOK
    <3> QED
      BY <3>4, OldStays
  <2> QED
    BY <2>1, <2>2
<1> QED
  BY <1>1, <1>2, <1>3 DEF RangeOK

\* What another process has under way stays in order.
LEMMA OperationKept ==
    ASSUME Grows, NEW p \in C!Processes, op'[p] = op[p], Operation(p)
    PROVE  Operation(p)'
<1>1. op[p].until \in Nat /\ op[p].until <= now /\ op'[p].until = op[p].until
  BY DEF Operation
<1>2. now \in Nat /\ now' \in Nat /\ now <= now'
  BY BoundIs DEF Grows, Types, Market
<1>3. op'[p].until <= now'
  BY <1>1, <1>2
<1>4. \A r : RangeOK(p, r) => RangeOK(p, r)'
  BY <1>1, RangeKept
<1>5. \A r : r[2] \in Nat /\ Joins(r) => Joins(r)'
  <2> SUFFICES ASSUME NEW r, r[2] \in Nat, Joins(r) PROVE Joins(r)'
    OBVIOUS
  <2>1. stored # {} /\ r[2] <= C!Max(stored)
    BY DEF Joins
  <2>2. stored' # {} /\ r[2] <= C!Max(stored')
    BY <2>1, EndsGrow
  <2> QED
    BY <2>2 DEF Joins
<1>6. ASSUME Fetching(p) PROVE Fetching(p)'
  <2>1. Todo(p)' = Todo(p)
    BY DEF Todo
  <2>2. \A r : Finishes(p, r) => Finishes(p, r)'
    BY <1>1 DEF Finishes
  <2>3. CASE /\ Len(Todo(p)) = 1 /\ Todo(p) = <<Todo(p)[1]>>
             /\ RangeOK(p, Todo(p)[1]) /\ Finishes(p, Todo(p)[1])
    BY <1>4, <2>1, <2>2, <2>3, Zenon DEF Fetching
  <2>4. CASE /\ Len(Todo(p)) = 2 /\ Todo(p) = <<Todo(p)[1], Todo(p)[2]>>
             /\ RangeOK(p, Todo(p)[1]) /\ Joins(Todo(p)[1])
             /\ RangeOK(p, Todo(p)[2]) /\ Finishes(p, Todo(p)[2])
    <3>1. Todo(p)[1][2] \in Nat
      BY <2>4 DEF RangeOK
    <3> QED
      BY <1>4, <1>5, <2>1, <2>2, <2>4, <3>1, Zenon DEF Fetching
  <2> QED
    BY <1>6, <2>3, <2>4 DEF Fetching
<1>7. \/ op'[p] = C!Idle
      \/ p = Bot /\ op'[p].at \in {"serve", "fallback"} /\ op'[p].ranges = <<>>
      \/ op'[p].at = "fetch" /\ Fetching(p)'
  BY <1>6 DEF Operation
<1>8. op'[p] = [at |-> op'[p].at, until |-> op'[p].until, ranges |-> op'[p].ranges]
  BY DEF Operation
<1> QED
  BY <1>1, <1>3, <1>7, <1>8 DEF Operation

-----------------------------------------------------------------------------
(***************************************************************************)
(* Fetching one range                                                      *)
(***************************************************************************)

\* The range process p stores, and what that leaves.
First1(p) == Todo(p)[1][1]
First2(p) == Todo(p)[1][2]
New(p) == InRange(First1(p), First2(p))
Writes(p) ==
    /\ op[p].at = "fetch" /\ Fetching(p) /\ RangeOK(p, Todo(p)[1])
    /\ stored' = stored \cup New(p) /\ partial' = partial \ New(p)
    /\ jumped' = jumped \cup C!Missed(First1(p), First2(p))
    /\ has' = has /\ now' = now /\ served' = served
    /\ DOMAIN op' = C!Processes
    /\ \A q \in C!Processes : q # p => op'[q] = op[q]
    /\ Len(Todo(p)) = 2 =>
          op'[p] = [at |-> "fetch", until |-> op[p].until, ranges |-> <<Todo(p)[2]>>]
    /\ Len(Todo(p)) = 1 =>
          /\ p = Bot => op'[p] = [at |-> "serve", until |-> op[p].until, ranges |-> <<>>]
          /\ p # Bot => op'[p] = C!Idle

LEMMA FetchWrites ==
    ASSUME Types, NEW p \in C!Processes, Operation(p), C!FetchRange(p)
    PROVE  Writes(p)
<1>1. op[p].at = "fetch" /\ Fetching(p)
  BY DEF C!FetchRange, Operation, C!Idle
<1>2. RangeOK(p, Todo(p)[1]) /\ (Len(Todo(p)) = 1 \/ Len(Todo(p)) = 2)
  BY <1>1 DEF Fetching
<1>3. Head(op[p].ranges) = Todo(p)[1]
  BY <1>1 DEF Fetching, Todo
<1>4. C!Fetch(First1(p), First2(p)) = New(p)
  <2>1. /\ First1(p) \in Nat /\ First2(p) \in Nat /\ First1(p) <= First2(p)
        /\ First2(p) <= op[p].until /\ op[p].until \in Nat /\ op[p].until <= now /\ now \in Nat
    BY <1>2, PageFacts DEF RangeOK, First1, First2, Operation, Types
  <2>2. First2(p) <= now
    BY <2>1
  <2> QED
    BY <2>1, <2>2, FetchWhole DEF New, Types
<1>5. /\ stored' = stored \cup New(p) /\ partial' = partial \ New(p)
      /\ jumped' = jumped \cup C!Missed(First1(p), First2(p))
      /\ has' = has /\ now' = now /\ served' = served
  BY <1>3, <1>4, Zenon DEF C!FetchRange, First1, First2
<1> DEFINE rest == Tail(op[p].ranges)
           then == IF rest # <<>> THEN [op[p] EXCEPT !.ranges = rest]
                   ELSE IF p = Bot THEN [op[p] EXCEPT !.at = "serve", !.ranges = <<>>]
                   ELSE C!Idle
<1>6. op' = [op EXCEPT ![p] = then]
  BY Zenon DEF C!FetchRange
<1>7. op[p] = [at |-> op[p].at, until |-> op[p].until, ranges |-> op[p].ranges]
  BY DEF Operation
<1>8. ASSUME Len(Todo(p)) = 2
      PROVE  then = [at |-> "fetch", until |-> op[p].until, ranges |-> <<Todo(p)[2]>>]
  <2>1. op[p].ranges = <<Todo(p)[1], Todo(p)[2]>>
    BY <1>1, <1>8 DEF Fetching, Todo
  <2>2. rest = <<Todo(p)[2]>> /\ rest # <<>>
    BY <2>1
  <2> HIDE DEF rest
  <2> QED
    BY <1>1, <1>7, <2>2
<1>9. ASSUME Len(Todo(p)) = 1
      PROVE  /\ p = Bot => then = [at |-> "serve", until |-> op[p].until, ranges |-> <<>>]
             /\ p # Bot => then = C!Idle
  <2>1. op[p].ranges = <<Todo(p)[1]>>
    BY <1>1, <1>9 DEF Fetching, Todo
  <2>2. rest = <<>>
    BY <2>1
  <2> HIDE DEF rest
  <2> QED
    BY <1>1, <1>7, <2>2
<1> HIDE DEF then
<1>10. /\ DOMAIN op' = C!Processes /\ op'[p] = then
       /\ \A q \in C!Processes : q # p => op'[q] = op[q]
  BY <1>6 DEF Types
<1> QED
  BY <1>1, <1>2, <1>5, <1>8, <1>9, <1>10, Zenon DEF Writes

LEMMA NewFacts ==
    ASSUME Types, NEW p \in C!Processes, Operation(p), Writes(p)
    PROVE  /\ First1(p) \in Nat /\ First2(p) \in Nat /\ First1(p) <= First2(p)
           /\ First2(p) <= op[p].until /\ op[p].until \in Nat /\ op[p].until <= now /\ now \in Nat
           /\ First2(p) <= now
           /\ New(p) \subseteq has
           /\ \A b \in has : b \in Nat /\ (b \in New(p) <=> First1(p) <= b /\ b < First2(p))
<1>1. /\ First1(p) \in Nat /\ First2(p) \in Nat /\ First1(p) <= First2(p)
      /\ First2(p) <= op[p].until /\ op[p].until \in Nat /\ op[p].until <= now /\ now \in Nat
  BY PageFacts DEF Writes, RangeOK, First1, First2, Operation, Types
<1>2. First2(p) <= now
  BY <1>1
<1>3. /\ New(p) \subseteq has
      /\ \A b \in has : b \in Nat /\ (b \in New(p) <=> First1(p) <= b /\ b < First2(p))
  BY DEF New, InRange, Types, Market
<1> QED
  BY <1>1, <1>2, <1>3

LEMMA WritesTypes ==
    ASSUME Types, NEW p \in C!Processes, Operation(p), Writes(p) PROVE Types'
<1>1. Market' /\ stored' \subseteq has' /\ partial' \subseteq stored'
  <2>1. C!OneLongGap(has)'
    BY DEF Writes, Types, Market, C!OneLongGap
  <2>2. has' \subseteq Nat /\ now' \in 0..MaxNow
    BY DEF Writes, Types, Market
  <2>3. stored' \subseteq has' /\ partial' \subseteq stored'
    BY NewFacts DEF Writes, Types
  <2> QED
    BY <2>1, <2>2, <2>3 DEF Market
<1>2. \A b \in stored' : b < now'
  <2>1. \A b \in New(p) : b < now
    <3> SUFFICES ASSUME NEW b \in New(p) PROVE b < now
      OBVIOUS
    <3>1. b \in Nat /\ b < First2(p) /\ First2(p) \in Nat /\ now \in Nat /\ First2(p) <= now
      BY NewFacts
    <3> QED
      BY <3>1
  <2> QED
    BY <2>1, Zenon DEF Writes, Types
<1> QED
  BY <1>1, <1>2 DEF Types, Writes

\* The first bars ever stored reach back far enough.
LEMMA WritesGrows ==
    ASSUME Types, NEW p \in C!Processes, Operation(p), Writes(p) PROVE Grows
<1>1. Types' /\ has' = has /\ now' = now /\ stored \subseteq stored'
  BY WritesTypes DEF Writes
<1>2. now <= now'
  BY <1>1, PageFacts DEF Types
<1>3. ASSUME stored = {}, stored' # {}, NEW b \in has, b < C!Min(stored') PROVE OldNow(b)
  <2>1. stored' = New(p)
    BY <1>3 DEF Writes
  <2>2. now' \in Nat /\ \A c \in stored' : c \in Nat /\ c < now'
    BY <1>1, BoundIs DEF Types, Market
  <2>3. C!Min(stored') \in Nat /\ \A c \in stored' : C!Min(stored') <= c
    BY <1>3, <2>2, Ends
  <2>4. b \in Nat /\ ~(b \in New(p))
    BY <1>3, <2>1, <2>3, NewFacts
  <2>5. C!Min(stored') \in New(p)
    BY <1>3, <2>1, <2>2, Ends
  <2>6. C!Min(stored') < First2(p) /\ First2(p) \in Nat
    BY <2>5, NewFacts
  <2>7. b < First2(p)
    BY <1>3, <2>3, <2>4, <2>6
  <2>8. b < First1(p)
    BY <2>4, <2>7, NewFacts
  <2>9. First1(p) <= op[p].until - Wanted[p]
    BY <1>3 DEF Writes, RangeOK, First1
  <2>10. C!Shortest \in Nat /\ Wanted[p] \in Nat /\ C!Shortest <= Wanted[p]
    BY ShortestIs
  <2>11. First1(p) \in Nat /\ op[p].until \in Nat /\ op[p].until <= now /\ now \in Nat
    BY NewFacts
  <2>12. b < now - C!Shortest
    <3> DEFINE w == C!Shortest
    <3>1. w \in Nat /\ w <= Wanted[p]
      BY <2>10
    <3> HIDE DEF w
    <3>2. b < now - w
      BY <2>4, <2>8, <2>9, <2>10, <2>11, <3>1
    <3> QED
      BY <3>2 DEF w
  <2> QED
    BY <2>12 DEF OldNow
<1> QED
  BY <1>1, <1>2, <1>3 DEF Grows

\* A range leaves no hole, but those it jumped over.
LEMMA WritesHoles ==
    ASSUME Types, NoHoles, NEW p \in C!Processes, Operation(p), Writes(p)
    PROVE  NoHoles'
<1> SUFFICES ASSUME stored' # {}, NEW b \in has, b \in C!Min(stored')..C!Max(stored'),
                    b \notin stored'
             PROVE  b \in jumped'
  BY DEF NoHoles, Writes
<1>1. Types' /\ now' \in Nat /\ \A c \in stored' : c \in Nat /\ c < now'
  <2>1. Types'
    BY WritesTypes
  <2> QED
    BY <2>1, BoundIs DEF Types, Market
<1>2. /\ C!Min(stored') \in stored' /\ C!Min(stored') \in Nat
      /\ C!Max(stored') \in stored' /\ C!Max(stored') \in Nat
  BY <1>1, Ends
<1>3. /\ b \in Nat /\ C!Min(stored') <= b /\ b <= C!Max(stored')
      /\ b \notin stored /\ ~(First1(p) <= b /\ b < First2(p))
      /\ First1(p) \in Nat /\ First2(p) \in Nat
      /\ \A c \in New(p) : c \in Nat /\ First1(p) <= c /\ c < First2(p)
  <2>1. b \in Nat /\ C!Min(stored') <= b /\ b <= C!Max(stored')
    BY <1>2
  <2>2. stored' = stored \cup New(p)
    BY DEF Writes
  <2>3. First1(p) \in Nat /\ First2(p) \in Nat /\ New(p) \subseteq has
    BY NewFacts, Zenon
  <2>4. \A c \in has : c \in Nat /\ (c \in New(p) <=> First1(p) <= c /\ c < First2(p))
    BY NewFacts, Zenon
  <2>5. \A c \in New(p) : c \in Nat /\ First1(p) <= c /\ c < First2(p)
    BY <2>3, <2>4, Zenon
  <2>6. b \notin stored /\ b \notin New(p)
    BY <2>2, Zenon
  <2> QED
    BY <2>1, <2>3, <2>4, <2>5, <2>6, Zenon
<1>4. CASE stored = {}
  <2>1. C!Min(stored') \in New(p) /\ C!Max(stored') \in New(p)
    BY <1>2, <1>4 DEF Writes
  <2>2. First1(p) <= C!Min(stored') /\ C!Max(stored') < First2(p)
    BY <1>3, <2>1
  <2> QED
    BY <1>2, <1>3, <2>2
<1>5. CASE stored # {}
  <2>1. /\ C!Max(stored) \in Nat /\ C!Min(stored) \in Nat /\ C!Min(stored) <= C!Max(stored)
        /\ \A c \in stored : c \in Nat /\ C!Min(stored) <= c /\ c <= C!Max(stored)
    BY <1>5, StoredEnds DEF Types
  <2>2. CASE b >= C!Min(stored) /\ b <= C!Max(stored)
    <3>1. b \in C!Min(stored)..C!Max(stored)
      BY <1>3, <2>1, <2>2
    <3> QED
      BY <1>3, <1>5, <3>1, Zenon DEF NoHoles, Writes
  <2>3. CASE b > C!Max(stored)
    <3>1. C!Max(stored') \in New(p)
      BY <1>2, <1>3, <2>1, <2>3 DEF Writes
    <3>2. C!Max(stored') < First2(p)
      BY <1>3, <3>1
    <3>3. b < First1(p)
      BY <1>2, <1>3, <3>2
    <3>4. b \in (C!Max(stored) + 1)..(First1(p) - 1)
      BY <1>3, <2>1, <2>3, <3>3
    <3> QED
      BY <1>5, <3>4, Zenon DEF C!Missed, Writes
  <2>4. CASE b < C!Min(stored)
    <3>1. C!Min(stored') \in New(p)
      BY <1>2, <1>3, <2>1, <2>4 DEF Writes
    <3>2. First1(p) <= C!Min(stored')
      BY <1>3, <3>1
    <3>3. First2(p) <= b
      BY <1>2, <1>3, <3>2
    <3>4. b \in First2(p)..(C!Min(stored) - 1)
      BY <1>3, <2>1, <2>4, <3>3
    <3> QED
      BY <1>5, <3>4, Zenon DEF C!Missed, Writes
  <2> QED
    BY <1>3, <2>1, <2>2, <2>3, <2>4
<1> QED
  BY <1>4, <1>5

\* What it jumps over is older than the shortest window.
LEMMA WritesJumps ==
    ASSUME Types, JumpsOld, NEW p \in C!Processes, Operation(p), Writes(p)
    PROVE  JumpsOld'
<1>1. Grows
  BY WritesGrows
<1>2. ASSUME NEW b \in has, b \in C!Missed(First1(p), First2(p)) PROVE OldNow(b)
  <2>1. /\ stored # {}
        /\ b \in (C!Max(stored) + 1)..(First1(p) - 1) \/ b \in First2(p)..(C!Min(stored) - 1)
    BY <1>2 DEF C!Missed
  <2>2. C!Max(stored) \in Nat /\ C!Min(stored) \in Nat
    BY <2>1, StoredEnds
  <2>3. /\ b \in Nat /\ First1(p) \in Nat /\ First2(p) \in Nat
        /\ op[p].until \in Nat /\ op[p].until <= now /\ now \in Nat
    BY NewFacts
  <2>4. CASE b \in (C!Max(stored) + 1)..(First1(p) - 1)
    <3>1. b < First1(p) /\ ~(First1(p) <= C!Max(stored))
      BY <2>2, <2>3, <2>4
    <3>2. First1(p) <= op[p].until - Wanted[p]
      BY <3>1 DEF Writes, RangeOK, First1
    <3> DEFINE w == C!Shortest
    <3>3. w \in Nat /\ Wanted[p] \in Nat /\ w <= Wanted[p]
      BY ShortestIs
    <3> HIDE DEF w
    <3>4. b < now - w
      BY <2>3, <3>1, <3>2, <3>3
    <3> QED
      BY <3>4 DEF w, OldNow
  <2>5. CASE b \in First2(p)..(C!Min(stored) - 1)
    <3>1. b < C!Min(stored) /\ ~(First2(p) >= C!Min(stored))
      BY <2>2, <2>3, <2>5
    <3> QED
      BY <2>1, <3>1 DEF Writes, RangeOK, First2
  <2> QED
    BY <2>1, <2>4, <2>5
<1>3. ASSUME NEW b \in has, b \in jumped PROVE OldNow(b)
  BY <1>3 DEF JumpsOld
<1>4. \A b \in jumped' \cap has' : OldNow(b)'
  <2> SUFFICES ASSUME NEW b \in has, b \in jumped' PROVE OldNow(b)'
    BY DEF Writes
  <2>1. OldNow(b)
    BY <1>2, <1>3 DEF Writes
  <2> QED
    BY <1>1, <2>1, OldStays
<1> QED
  BY <1>4 DEF JumpsOld

\* The process goes on with its last range, serves, or is done.
LEMMA WritesOperation ==
    ASSUME Types, NEW p \in C!Processes, Operation(p), Writes(p)
    PROVE  Operation(p)'
<1>1. op[p].until \in Nat /\ op[p].until <= now /\ now' = now
  BY NewFacts DEF Writes
<1>2. Fetching(p)
  BY DEF Writes
<1>3. CASE Len(Todo(p)) = 1
  <2>1. CASE p = Bot
    <3>1. op'[p] = [at |-> "serve", until |-> op[p].until, ranges |-> <<>>]
      BY <1>3, <2>1, Zenon DEF Writes
    <3> HIDE DEF Writes
    <3> QED
      BY <1>1, <2>1, <3>1 DEF Operation
  <2>2. CASE p # Bot
    <3>1. op'[p] = C!Idle
      BY <1>3, <2>2, Zenon DEF Writes
    <3>2. now \in Nat
      BY NewFacts
    <3> QED
      BY <1>1, <3>1, <3>2 DEF Operation, C!Idle
  <2> QED
    BY <2>1, <2>2
<1>4. CASE Len(Todo(p)) = 2
  <2>1. op'[p] = [at |-> "fetch", until |-> op[p].until, ranges |-> <<Todo(p)[2]>>]
    BY <1>4, Zenon DEF Writes
  <2>2. PICK r : r = Todo(p)[2] /\ RangeOK(p, r) /\ Finishes(p, r)
    BY <1>2, <1>4 DEF Fetching
  <2>3. Todo(p)' = <<r>> /\ Todo(p)'[1] = r /\ Len(Todo(p)') = 1
    BY <2>1, <2>2 DEF Todo
  <2>4. op'[p].until = op[p].until /\ op'[p].at = "fetch"
        /\ op'[p] = [at |-> op'[p].at, until |-> op'[p].until, ranges |-> op'[p].ranges]
    BY <2>1
  <2>5. RangeOK(p, r)'
    BY <1>1, <2>2, <2>4, WritesGrows, RangeKept
  <2>6. Finishes(p, r)'
    BY <2>2, <2>4 DEF Finishes
  <2>7. Fetching(p)'
    <3>1. Todo(p)' = <<Todo(p)'[1]>>
      BY <2>3
    <3>2. RangeOK(p, Todo(p)[1])'
      BY <2>3, <2>5 DEF RangeOK
    <3>3. Finishes(p, Todo(p)[1])'
      BY <2>3, <2>6 DEF Finishes
    <3> QED
      BY <2>3, <3>1, <3>2, <3>3 DEF Fetching
  <2> QED
    BY <1>1, <2>4, <2>7 DEF Operation
<1> QED
  BY <1>2, <1>3, <1>4 DEF Fetching

\* A process has one range left or two.
LEMMA RangesLeft ==
    ASSUME NEW p \in C!Processes, Writes(p)
    PROVE  /\ First1(p) = Todo(p)[1][1] /\ First2(p) = Todo(p)[1][2]
           /\ \/ Len(Todo(p)) = 1
              \/ Len(Todo(p)) = 2 /\ stored # {} /\ First2(p) <= C!Max(stored)
BY DEF Writes, Fetching, Joins, First1, First2

\* A bar old for a process is old now.
LEMMA OldForNow ==
    ASSUME Types, NEW p \in C!Processes, Operation(p), NEW b \in has, OldFor(p, b)
    PROVE  OldNow(b)
<1>1. b \in Nat /\ op[p].until \in Nat /\ now \in Nat /\ op[p].until <= now /\ C!Shortest \in Nat
  <2>1. b \in Nat /\ now \in Nat
    BY BoundIs DEF Types, Market
  <2>2. op[p].until \in Nat /\ op[p].until <= now
    BY DEF Operation
  <2> QED
    BY <2>1, <2>2, ShortestIs
<1>2. b < op[p].until - C!Shortest
  BY DEF OldFor
<1>3. b < now - C!Shortest
  BY <1>1, <1>2, Older, Zenon
<1> QED
  BY <1>3 DEF OldNow

\* Whatever was stored unfinished is near the end of the store or old.
LEMMA WritesPartialsNew ==
    ASSUME Types, PartialsNew, NEW p \in C!Processes, Operation(p), PartialsAhead(p), Writes(p)
    PROVE  PartialsNew'
<1>1. Grows
  BY WritesGrows
<1> SUFFICES ASSUME NEW b \in partial, b \notin New(p), ~OldNow(b)'
             PROVE  b >= C!Max(stored') - C!RepairBars
  BY DEF PartialsNew, Writes
<1>2. b \in has /\ b \in stored /\ b \in Nat
  BY DEF Types, Market
<1>3. ~OldNow(b)
  BY <1>1, <1>2, OldStays
<1>4. b >= C!Max(stored) - C!RepairBars
  BY <1>3 DEF PartialsNew
<1>5. Covers(Todo(p)[Len(Todo(p))], b)
  BY <1>2, <1>3, OldForNow DEF PartialsAhead, Writes
<1>6. Len(Todo(p)) = 2 /\ First2(p) <= C!Max(stored)
  <2> SUFFICES ASSUME Len(Todo(p)) = 1 PROVE FALSE
    BY RangesLeft
  <2>1. First1(p) <= b /\ b < First2(p)
    BY <1>5, RangesLeft DEF Covers
  <2> QED
    BY <1>2, <2>1, NewFacts
<1>7. /\ C!Max(stored) \in Nat /\ C!Max(stored') \in Nat
      /\ \A c \in stored : c \in Nat /\ c <= C!Max(stored)
  BY <1>1, <1>2, EndsGrow, StoredEnds DEF Types, Market
<1>8. C!Max(stored') \in stored'
  <2>1. now' \in Nat /\ \A c \in stored' : c \in Nat /\ c < now'
    BY <1>1, BoundIs DEF Grows, Types, Market
  <2>2. stored' # {}
    BY <1>2 DEF Writes
  <2> QED
    BY <2>1, <2>2, Ends
<1>9. C!Max(stored') <= C!Max(stored)
  <2>1. CASE C!Max(stored') \in stored
    BY <1>7, <2>1
  <2>2. CASE C!Max(stored') \in New(p)
    <3>1. C!Max(stored') < First2(p) /\ First2(p) \in Nat
      BY <2>2, NewFacts
    <3> QED
      BY <1>6, <1>7, <3>1
  <2> QED
    BY <1>8, <2>1, <2>2 DEF Writes
<1> QED
  BY <1>2, <1>4, <1>7, <1>9 DEF C!RepairBars

\* The last range of each process repairs what is unfinished in its window.
LEMMA WritesPartialsAhead ==
    ASSUME Types, NEW p \in C!Processes, Operation(p), Writes(p),
           NEW q \in C!Processes, PartialsAhead(q)
    PROVE  PartialsAhead(q)'
<1>1. partial' \subseteq partial
  BY DEF Writes
<1>2. CASE q # p
  <2>1. op'[q] = op[q]
    BY <1>2 DEF Writes
  <2> QED
    BY <1>1, <2>1 DEF PartialsAhead, Todo, Covers, OldFor
<1>3. CASE q = p
  <2>1. CASE Len(Todo(p)) = 1
    <3>1. op'[p].at # "fetch"
      BY <2>1 DEF Writes, C!Idle
    <3> QED
      BY <1>3, <3>1 DEF PartialsAhead
  <2>2. CASE Len(Todo(p)) = 2
    <3>1. op'[p] = [at |-> "fetch", until |-> op[p].until, ranges |-> <<Todo(p)[2]>>]
      BY <2>2, Zenon DEF Writes
    <3>2. PICK r : r = Todo(p)[2]
      OBVIOUS
    <3>3. Todo(p)'[Len(Todo(p)')] = r /\ Todo(p)[Len(Todo(p))] = r /\ op'[p].until = op[p].until
      BY <2>2, <3>1, <3>2 DEF Todo
    <3>4. op[p].at = "fetch"
      BY DEF Writes
    <3>5. \A b \in partial' : Covers(r, b) \/ OldFor(p, b)
      BY <1>1, <1>3, <3>3, <3>4, Zenon DEF PartialsAhead
    <3>6. \A b : Covers(r, b) <=> Covers(r, b)'
      BY DEF Covers
    <3>7. \A b : OldFor(p, b) => OldFor(p, b)'
      BY <3>3 DEF OldFor
    <3>8. \A b \in partial' : Covers(Todo(p)[Len(Todo(p))], b)' \/ OldFor(p, b)'
      BY <3>3, <3>5, <3>7 DEF Covers
    <3> QED
      BY <1>3, <3>8 DEF PartialsAhead
  <2> QED
    BY <2>1, <2>2, RangesLeft
<1> QED
  BY <1>2, <1>3

LEMMA WritesPartialsGone ==
    ASSUME Types, NEW p \in C!Processes, Operation(p), PartialsAhead(p), PartialsGone, Writes(p)
    PROVE  PartialsGone'
<1> SUFFICES ASSUME op'[Bot].at = "serve", NEW b \in partial, b \notin New(p)
             PROVE  OldFor(Bot, b)'
  BY DEF PartialsGone, Writes
<1>1. CASE p # Bot
  <2>1. op'[Bot] = op[Bot]
    BY <1>1 DEF Writes, C!Processes
  <2> QED
    BY <2>1 DEF PartialsGone, OldFor
<1>2. CASE p = Bot
  <2>1. Len(Todo(p)) = 1
    <3> SUFFICES ASSUME Len(Todo(p)) = 2 PROVE FALSE
      BY RangesLeft
    <3> QED
      BY <1>2 DEF Writes
  <2>2. op'[p].until = op[p].until
    BY <1>2, <2>1 DEF Writes
  <2>3. Covers(Todo(p)[1], b) \/ OldFor(p, b)
    BY <2>1 DEF PartialsAhead, Writes
  <2>4. b \in has
    BY DEF Types
  <2>5. ~Covers(Todo(p)[1], b)
    <3>1. ~(First1(p) <= b /\ b < First2(p))
      BY <2>4, NewFacts
    <3> QED
      BY <3>1, RangesLeft DEF Covers
  <2> QED
    BY <1>2, <2>2, <2>3, <2>5 DEF OldFor
<1> QED
  BY <1>1, <1>2

\* What leaves the bot's ranges is in the store.
LEMMA WritesWindow ==
    ASSUME Types, NEW p \in C!Processes, Operation(p), WindowComes, Writes(p)
    PROVE  WindowComes'
<1> SUFFICES ASSUME op'[Bot].at \in {"fetch", "serve"}, NEW b \in has,
                    ~OldFor(Bot, b)', b < op'[Bot].until
             PROVE  b \in stored' \/ Coming(Bot, b)'
  BY DEF WindowComes, Writes
<1>1. CASE p # Bot
  <2>1. op'[Bot] = op[Bot]
    BY <1>1 DEF Writes, C!Processes
  <2>2. b \in stored \/ Coming(Bot, b)
    BY <2>1 DEF WindowComes, OldFor
  <2> QED
    BY <2>1, <2>2 DEF Coming, Todo, Covers, Writes
<1>2. CASE p = Bot
  <2>1. op'[Bot].until = op[Bot].until
    BY <1>2, RangesLeft DEF Writes
  <2>2. b \in stored \/ Coming(Bot, b)
    <3>1. op[Bot].at = "fetch" /\ ~OldFor(Bot, b) /\ b < op[Bot].until
      BY <1>2, <2>1 DEF Writes, OldFor
    <3> QED
      BY <3>1 DEF WindowComes
  <2>3. CASE Covers(Todo(p)[1], b)
    <3>1. First1(p) <= b /\ b < First2(p)
      BY <2>3, RangesLeft DEF Covers
    <3> QED
      BY <3>1, NewFacts DEF Writes
  <2>4. CASE Len(Todo(p)) = 2 /\ Covers(Todo(p)[2], b)
    <3>1. op'[p] = [at |-> "fetch", until |-> op[p].until, ranges |-> <<Todo(p)[2]>>]
      BY <2>4, Zenon DEF Writes
    <3>2. Todo(p)' = <<Todo(p)[2]>>
      BY <3>1 DEF Todo
    <3>3. Len(Todo(p)') = 1 /\ 1 \in 1..Len(Todo(p)') /\ Todo(p)'[1] = Todo(p)[2]
      BY <3>2
    <3>4. Coming(p, b)'
      BY <2>4, <3>3 DEF Coming, Covers
    <3> QED
      BY <1>2, <3>4
  <2>5. Coming(p, b) => Covers(Todo(p)[1], b) \/ (Len(Todo(p)) = 2 /\ Covers(Todo(p)[2], b))
    <3>1. Len(Todo(p)) = 1 \/ Len(Todo(p)) = 2
      BY RangesLeft
    <3>2. ASSUME NEW i \in 1..Len(Todo(p))
          PROVE  i = 1 \/ (Len(Todo(p)) = 2 /\ i = 2)
      <4>1. CASE Len(Todo(p)) = 1
        BY <4>1
      <4>2. CASE Len(Todo(p)) = 2
        BY <4>2
      <4> QED
        BY <3>1, <4>1, <4>2
    <3> QED
      BY <3>2 DEF Coming
  <2> QED
    BY <1>2, <2>2, <2>3, <2>4, <2>5 DEF Writes
<1> QED
  BY <1>1, <1>2

-----------------------------------------------------------------------------
(***************************************************************************)
(* Beginning an update                                                     *)
(***************************************************************************)

\* The ranges an update begins with: what is missing before the store, and from near
\* its end up to the clock.
Start(p) == now - Wanted[p]
Low(p) == C!Max({C!Max(stored) - C!RepairBars, Start(p)})
Begun(p) ==
    /\ has' = has /\ now' = now /\ stored' = stored /\ partial' = partial
    /\ served' = served /\ jumped' = jumped
    /\ DOMAIN op' = C!Processes
    /\ \A q \in C!Processes : q # p => op'[q] = op[q]
    /\ Start(p) \in Nat /\ Start(p) <= now /\ Start(p) <= now - C!Shortest
    /\ \/ /\ stored = {}
          /\ op'[p] = [at |-> "fetch", until |-> now, ranges |-> <<<<Start(p), now>>>>]
       \/ /\ stored # {} /\ Start(p) < C!Min(stored)
          /\ op'[p] = [at |-> "fetch", until |-> now,
                       ranges |-> <<<<Start(p), C!Min(stored)>>, <<Low(p), now>>>>]
       \/ /\ stored # {} /\ ~(Start(p) < C!Min(stored))
          /\ op'[p] = [at |-> "fetch", until |-> now, ranges |-> <<<<Low(p), now>>>>]

LEMMA BeginBegins ==
    ASSUME Types, NEW p \in C!Processes, C!Begin(p)
    PROVE  Begun(p)
<1>1. now \in Nat /\ now > Wanted[p] /\ Wanted[p] \in Nat /\ C!Shortest \in Nat
      /\ C!Shortest <= Wanted[p]
  BY BoundIs, ShortestIs DEF Types, Market, C!Begin
<1>2. Start(p) \in Nat /\ Start(p) <= now /\ Start(p) <= now - C!Shortest
  <2> DEFINE w == C!Shortest
  <2>1. w \in Nat /\ w <= Wanted[p]
    BY <1>1
  <2> HIDE DEF w
  <2>2. now - Wanted[p] \in Nat /\ now - Wanted[p] <= now /\ now - Wanted[p] <= now - w
    BY <1>1, <2>1
  <2> QED
    BY <2>2 DEF Start, w
<1>3. op' = [op EXCEPT ![p] = [at |-> "fetch", until |-> now, ranges |-> C!Ranges(Start(p), now)]]
  BY DEF C!Begin, Start
<1>4. /\ DOMAIN op' = C!Processes
      /\ \A q \in C!Processes : q # p => op'[q] = op[q]
      /\ op'[p] = [at |-> "fetch", until |-> now, ranges |-> C!Ranges(Start(p), now)]
  BY <1>3 DEF Types
<1>5. \/ stored = {} /\ C!Ranges(Start(p), now) = <<<<Start(p), now>>>>
      \/ /\ stored # {} /\ Start(p) < C!Min(stored)
         /\ C!Ranges(Start(p), now) = <<<<Start(p), C!Min(stored)>>, <<Low(p), now>>>>
      \/ /\ stored # {} /\ ~(Start(p) < C!Min(stored))
         /\ C!Ranges(Start(p), now) = <<<<Low(p), now>>>>
  BY Zenon DEF C!Ranges, Low
<1>6. /\ has' = has /\ now' = now /\ stored' = stored /\ partial' = partial
      /\ served' = served /\ jumped' = jumped
  BY DEF C!Begin
<1>7. \/ /\ stored = {}
         /\ op'[p] = [at |-> "fetch", until |-> now, ranges |-> <<<<Start(p), now>>>>]
      \/ /\ stored # {} /\ Start(p) < C!Min(stored)
         /\ op'[p] = [at |-> "fetch", until |-> now,
                      ranges |-> <<<<Start(p), C!Min(stored)>>, <<Low(p), now>>>>]
      \/ /\ stored # {} /\ ~(Start(p) < C!Min(stored))
         /\ op'[p] = [at |-> "fetch", until |-> now, ranges |-> <<<<Low(p), now>>>>]
  <2> DEFINE ranges == C!Ranges(Start(p), now)
             low == Low(p)
             oldest == C!Min(stored)
  <2>1. op'[p] = [at |-> "fetch", until |-> now, ranges |-> ranges]
    BY <1>4
  <2>2. \/ stored = {} /\ ranges = <<<<Start(p), now>>>>
        \/ stored # {} /\ Start(p) < oldest /\ ranges = <<<<Start(p), oldest>>, <<low, now>>>>
        \/ stored # {} /\ ~(Start(p) < oldest) /\ ranges = <<<<low, now>>>>
    BY <1>5
  <2> HIDE DEF ranges, low, oldest
  <2>3. \/ /\ stored = {}
           /\ op'[p] = [at |-> "fetch", until |-> now, ranges |-> <<<<Start(p), now>>>>]
        \/ /\ stored # {} /\ Start(p) < oldest
           /\ op'[p] = [at |-> "fetch", until |-> now,
                        ranges |-> <<<<Start(p), oldest>>, <<low, now>>>>]
        \/ /\ stored # {} /\ ~(Start(p) < oldest)
           /\ op'[p] = [at |-> "fetch", until |-> now, ranges |-> <<<<low, now>>>>]
    BY <2>1, <2>2, Zenon
  <2> QED
    BY <2>3 DEF low, oldest
<1> QED
  BY <1>2, <1>4, <1>6, <1>7, Zenon DEF Begun

\* Where the second range begins.
LEMMA LowIs ==
    ASSUME Types, NEW p \in C!Processes, Begun(p), stored # {}
    PROVE  /\ C!Max(stored) \in Nat /\ C!Max(stored) < now
           /\ C!Min(stored) \in Nat /\ C!Min(stored) <= C!Max(stored)
           /\ Low(p) \in Nat /\ Low(p) <= now /\ Start(p) <= Low(p)
           /\ C!Max(stored) - 2 <= Low(p)
           /\ Low(p) = Start(p) \/ Low(p) <= C!Max(stored)
           /\ Low(p) = Start(p) \/ Low(p) = C!Max(stored) - 2
<1>1. /\ C!Max(stored) \in Nat /\ C!Max(stored) < now
      /\ C!Min(stored) \in Nat /\ C!Min(stored) <= C!Max(stored) /\ now \in Nat
  BY StoredEnds, BoundIs DEF Types, Market
<1>2. Start(p) \in Nat /\ Start(p) <= now
  BY DEF Begun
<1>3. Low(p) = IF C!Max(stored) - 2 >= Start(p) THEN C!Max(stored) - 2 ELSE Start(p)
  <2>1. C!Max(stored) - 2 \in Int /\ Start(p) \in Int
    BY <1>1, <1>2
  <2> QED
    BY <2>1, MaxOfTwo DEF Low, C!RepairBars
<1> QED
  BY <1>1, <1>2, <1>3

\* The ranges are in order.
LEMMA BegunOperation ==
    ASSUME Types, NEW p \in C!Processes, Begun(p)
    PROVE  Operation(p)'
<1>1. /\ now' = now /\ stored' = stored /\ has' = has /\ now \in Nat
      /\ Start(p) \in Nat /\ Start(p) <= now /\ Start(p) = now - Wanted[p] /\ Wanted[p] \in Nat
  BY BoundIs, ShortestIs DEF Begun, Start, Types, Market
<1>2. /\ op'[p].until = now /\ op'[p].at = "fetch"
      /\ op'[p] = [at |-> op'[p].at, until |-> op'[p].until, ranges |-> op'[p].ranges]
  BY DEF Begun
<1>3. CASE stored = {}
  <2>1. PICK r : r = <<Start(p), now>>
    OBVIOUS
  <2>2. op'[p] = [at |-> "fetch", until |-> now, ranges |-> <<r>>]
    BY <1>3, <2>1 DEF Begun
  <2>3. Len(Todo(p)') = 1 /\ Todo(p)' = <<Todo(p)'[1]>> /\ Todo(p)'[1] = r
    BY <2>2 DEF Todo
  <2>4. RangeOK(p, r)' /\ Finishes(p, r)'
    BY <1>1, <1>2, <1>3, <2>1 DEF RangeOK, Finishes
  <2>5. Fetching(p)'
    BY <2>3, <2>4 DEF Fetching, RangeOK, Finishes
  <2> QED
    BY <1>1, <1>2, <2>5 DEF Operation
<1>4. CASE stored # {} /\ ~(Start(p) < C!Min(stored))
  <2>1. PICK r : r = <<Low(p), now>>
    OBVIOUS
  <2>2. op'[p] = [at |-> "fetch", until |-> now, ranges |-> <<r>>]
    BY <1>4, <2>1 DEF Begun
  <2>3. Len(Todo(p)') = 1 /\ Todo(p)' = <<Todo(p)'[1]>> /\ Todo(p)'[1] = r
    BY <2>2 DEF Todo
  <2>4. RangeOK(p, r)' /\ Finishes(p, r)'
    <3>1. r[1] = Low(p) /\ r[2] = now
      BY <2>1
    <3>2. r[1] \in Nat /\ r[1] <= now
      BY <1>4, <3>1, LowIs
    <3>3. r[1] <= now - Wanted[p] \/ r[1] <= C!Max(stored)
      BY <1>1, <1>4, <3>1, LowIs
    <3>4. now >= C!Min(stored)
      BY <1>1, <1>4, LowIs
    <3> QED
      BY <1>1, <1>2, <1>4, <3>1, <3>2, <3>3, <3>4 DEF RangeOK, Finishes
  <2>5. Fetching(p)'
    BY <2>3, <2>4 DEF Fetching, RangeOK, Finishes
  <2> QED
    BY <1>1, <1>2, <2>5 DEF Operation
<1>5. CASE stored # {} /\ Start(p) < C!Min(stored)
  <2>1. PICK r, q : r = <<Start(p), C!Min(stored)>> /\ q = <<Low(p), now>>
    OBVIOUS
  <2>2. op'[p] = [at |-> "fetch", until |-> now, ranges |-> <<r, q>>]
    BY <1>5, <2>1, Zenon DEF Begun
  <2>3. /\ Len(Todo(p)') = 2 /\ Todo(p)' = <<Todo(p)'[1], Todo(p)'[2]>>
        /\ Todo(p)'[1] = r /\ Todo(p)'[2] = q
    BY <2>2 DEF Todo
  <2>4. RangeOK(p, q)' /\ Finishes(p, q)'
    <3>1. q[1] = Low(p) /\ q[2] = now
      BY <2>1
    <3>2. q[1] \in Nat /\ q[1] <= now
      BY <1>5, <3>1, LowIs
    <3>3. q[1] <= now - Wanted[p] \/ q[1] <= C!Max(stored)
      BY <1>1, <1>5, <3>1, LowIs
    <3>4. now >= C!Min(stored)
      BY <1>1, <1>5, LowIs
    <3> QED
      BY <1>1, <1>2, <1>5, <3>1, <3>2, <3>3, <3>4 DEF RangeOK, Finishes
  <2>5. RangeOK(p, r)' /\ Joins(r)'
    <3>1. r[1] = Start(p) /\ r[2] = C!Min(stored)
      BY <2>1
    <3>2. /\ r[2] \in Nat /\ r[1] <= r[2] /\ r[2] <= now /\ r[2] <= C!Max(stored)
          /\ r[2] >= C!Min(stored)
      BY <1>1, <1>5, <3>1, LowIs
    <3> QED
      BY <1>1, <1>2, <1>5, <3>1, <3>2 DEF RangeOK, Joins
  <2>6. Fetching(p)'
    <3>1. RangeOK(p, Todo(p)[1])' /\ Joins(Todo(p)[1])'
      BY <2>3, <2>5 DEF RangeOK, Joins
    <3>2. RangeOK(p, Todo(p)[2])' /\ Finishes(p, Todo(p)[2])'
      BY <2>3, <2>4 DEF RangeOK, Finishes
    <3> QED
      BY <2>3, <3>1, <3>2 DEF Fetching
  <2> QED
    BY <1>1, <1>2, <2>6 DEF Operation
<1> QED
  BY <1>3, <1>4, <1>5

\* Every bar from the wanted start on is stored already, a jump of the store, or in
\* the ranges; what is unfinished among them is in the last range.
LEMMA BegunReaches ==
    ASSUME Types, NoHoles, NEW p \in C!Processes, Begun(p),
           NEW b \in has, Start(p) <= b, b < now
    PROVE  /\ b \in stored \/ b \in jumped \/ Coming(p, b)'
           /\ stored = {} \/ b >= C!Max(stored) - 2 => Covers(Todo(p)[Len(Todo(p))], b)'
<1>1. b \in Nat /\ now \in Nat /\ Start(p) \in Nat
  <2>1. b \in Nat /\ now \in Nat
    BY BoundIs DEF Types, Market
  <2> QED
    BY <2>1 DEF Begun
<1>2. CASE stored = {}
  <2>1. Todo(p)' = <<<<Start(p), now>>>>
    BY <1>2 DEF Todo, Begun
  <2>2. Len(Todo(p)') = 1 /\ Todo(p)'[1][1] = Start(p) /\ Todo(p)'[1][2] = now
    BY <2>1
  <2>3. Covers(Todo(p)[1], b)' /\ 1 \in 1..Len(Todo(p)')
    BY <2>2 DEF Covers
  <2> QED
    BY <2>2, <2>3 DEF Coming, Covers
<1>3. CASE stored # {}
  <2>1. /\ C!Max(stored) \in Nat /\ C!Min(stored) \in Nat
        /\ Low(p) \in Nat /\ (Low(p) = Start(p) \/ Low(p) = C!Max(stored) - 2)
    BY <1>3, LowIs
  <2>2. CASE b >= C!Max(stored) - 2
    <3>1. Low(p) <= b
      BY <1>1, <2>1, <2>2
    <3>2. PICK n \in 1..2 : Len(Todo(p)') = n /\ Todo(p)'[n] = <<Low(p), now>>
      <4>1. \/ Todo(p)' = <<<<Start(p), C!Min(stored)>>, <<Low(p), now>>>>
            \/ Todo(p)' = <<<<Low(p), now>>>>
        BY <1>3 DEF Todo, Begun
      <4> QED
        BY <4>1
    <3>3. Todo(p)'[n][1] = Low(p) /\ Todo(p)'[n][2] = now /\ n \in 1..Len(Todo(p)')
      BY <3>2
    <3> QED
      BY <3>1, <3>2, <3>3 DEF Coming, Covers
  <2>3. CASE b < C!Min(stored)
    <3>1. Start(p) < C!Min(stored)
      BY <1>1, <2>1, <2>3
    <3>2. Todo(p)' = <<<<Start(p), C!Min(stored)>>, <<Low(p), now>>>>
      BY <1>3, <3>1 DEF Todo, Begun
    <3>3. Todo(p)'[1][1] = Start(p) /\ Todo(p)'[1][2] = C!Min(stored) /\ Len(Todo(p)') = 2
      BY <3>2
    <3>4. Covers(Todo(p)[1], b)' /\ 1 \in 1..Len(Todo(p)')
      BY <2>3, <3>3 DEF Covers
    <3>5. Coming(p, b)'
      BY <3>4 DEF Coming, Covers
    <3> QED
      BY <1>3, <2>2, <3>5
  <2>4. CASE ~(b < C!Min(stored)) /\ ~(b >= C!Max(stored) - 2)
    <3>1. b \in C!Min(stored)..C!Max(stored)
      BY <1>1, <2>1, <2>4
    <3>2. b \in stored \/ b \in jumped
      BY <1>3, <3>1, Zenon DEF NoHoles
    <3> QED
      BY <1>3, <2>4, <3>2
  <2> QED
    BY <2>2, <2>3, <2>4
<1> QED
  BY <1>2, <1>3

-----------------------------------------------------------------------------
(***************************************************************************)
(* Serving the window                                                      *)
(***************************************************************************)

\* With a bar, the newest n bars of a set have every newer one.
LEMMA NewestUpward ==
    ASSUME NEW n \in Nat, NEW T, T \subseteq 0..n, NEW k \in Nat,
           NEW m \in C!Newest(T, k), NEW b \in T, m <= b
    PROVE  b \in C!Newest(T, k)
<1> DEFINE Above(x) == {c \in T : c > x}
<1>1. m \in T /\ Cardinality(Above(m)) < k
  <2>1. C!Cardinality(Above(m)) = Cardinality(Above(m))
    BY DEF C!Cardinality, Cardinality, C!IsFiniteSet, IsFiniteSet
  <2> QED
    BY <2>1 DEF C!Newest
<1>2. IsFiniteSet(Above(m))
  <2>1. IsFiniteSet(0..n)
    BY FS_Interval
  <2>2. Above(m) \subseteq 0..n
    OBVIOUS
  <2> QED
    BY <2>1, <2>2, FS_Subset
<1>3. Above(b) \subseteq Above(m)
  <2> SUFFICES ASSUME NEW c \in T, c > b PROVE c > m
    OBVIOUS
  <2>1. c \in Nat /\ b \in Nat /\ m \in Nat
    BY <1>1
  <2> QED
    BY <2>1
<1>4. Cardinality(Above(b)) \in Nat /\ Cardinality(Above(m)) \in Nat
      /\ Cardinality(Above(b)) <= Cardinality(Above(m))
  BY <1>2, <1>3, FS_Subset, FS_CardinalityType
<1>5. Cardinality(Above(b)) < k
  BY <1>1, <1>4
<1>6. C!Cardinality(Above(b)) = Cardinality(Above(b))
  BY DEF C!Cardinality, Cardinality, C!IsFiniteSet, IsFiniteSet
<1> QED
  BY <1>5, <1>6 DEF C!Newest

LEMMA ServeServes ==
    ASSUME CandlesInv, C!Serve PROVE FrameIsTrue'
<1> DEFINE old == {b \in stored : b < op[Bot].until}
           frame == C!Newest(old, Wanted[Bot])
           fresh == op[Bot].at = "serve"
<1>1. /\ has' = has /\ stored' = stored /\ partial' = partial /\ jumped' = jumped
      /\ op[Bot].at \in {"serve", "fallback"}
  BY DEF C!Serve
<1>2. served' = None \/ (/\ frame # {}
                         /\ served' = [bars |-> frame, until |-> op[Bot].until,
                                       partial |-> frame \cap partial, fresh |-> fresh])
  BY Zenon DEF C!Serve
<1>3. Bot \in C!Processes
  BY DEF C!Processes
<1>4. Types /\ Operation(Bot) /\ PartialsGone /\ WindowComes /\ NoHoles
  BY <1>3 DEF CandlesInv
<1>5. /\ now \in Nat /\ stored \subseteq 0..now /\ stored \subseteq has /\ has \subseteq Nat
      /\ op[Bot].until \in Nat
  <2>1. now \in Nat /\ has \subseteq Nat
    BY <1>4, BoundIs DEF Types, Market
  <2>2. \A b \in stored : b \in Nat /\ b <= now
    BY <1>4, <2>1 DEF Types
  <2> QED
    BY <1>4, <2>1, <2>2 DEF Types, Operation
<1>6. frame \subseteq old /\ old \subseteq stored /\ old \subseteq 0..now /\ Wanted[Bot] \in Nat
  BY <1>3, <1>5, ShortestIs DEF C!Newest
<1>7. CASE served' = None
  BY <1>7 DEF FrameIsTrue
<1>8. CASE /\ frame # {}
           /\ served' = [bars |-> frame, until |-> op[Bot].until,
                         partial |-> frame \cap partial, fresh |-> fresh]
  <2> HIDE DEF frame, fresh
  <2>1. /\ C!Max(frame) \in frame /\ C!Max(frame) \in Nat
        /\ C!Min(frame) \in frame /\ C!Min(frame) \in Nat
    <3>1. \A b \in frame : b \in Nat /\ b < now + 1
      BY <1>5, <1>6
    <3> QED
      BY <1>5, <1>8, <3>1, Ends
  <2>2. C!Max(frame) \in stored /\ C!Min(frame) \in stored /\ C!Max(frame) < op[Bot].until
    BY <1>6, <2>1
  <2>3. ASSUME NEW b \in stored, C!Min(frame) <= b, b <= C!Max(frame) PROVE b \in frame
    <3>1. b \in Nat /\ b < op[Bot].until
      BY <1>5, <2>1, <2>2, <2>3
    <3>2. b \in old
      BY <3>1
    <3> QED
      BY <1>5, <1>6, <2>1, <2>3, <3>2, NewestUpward DEF frame
  <2>4. ASSUME NEW b \in has, ~OldFor(Bot, b), b <= C!Max(frame)
        PROVE  /\ b >= C!Min(frame) => b \in frame \/ (~fresh /\ b \in jumped)
               /\ fresh => b \notin partial
    <3>1. b \in Nat /\ b < op[Bot].until
      BY <1>5, <2>1, <2>2, <2>4
    <3>2. ASSUME fresh PROVE b \in stored /\ b \notin partial
      <4>1. op[Bot].at = "serve" /\ op[Bot].ranges = <<>>
        BY <1>4, <3>2 DEF Operation, C!Idle, fresh
      <4>2. ~Coming(Bot, b)
        BY <4>1 DEF Coming, Todo
      <4>3. b \in stored
        BY <1>4, <2>4, <3>1, <4>1, <4>2 DEF WindowComes
      <4> QED
        BY <1>4, <2>4, <4>1, <4>3 DEF PartialsGone
    <3>3. ASSUME b >= C!Min(frame) PROVE b \in stored \/ b \in jumped
      <4>1. /\ C!Min(stored) \in Nat /\ C!Max(stored) \in Nat /\ stored # {}
            /\ C!Min(stored) <= C!Min(frame) /\ C!Max(frame) <= C!Max(stored)
        BY <1>4, <2>2, StoredEnds
      <4>2. b \in C!Min(stored)..C!Max(stored)
        BY <2>1, <2>4, <3>1, <3>3, <4>1
      <4> QED
        BY <1>4, <4>1, <4>2, Zenon DEF NoHoles
    <3>4. ASSUME b >= C!Min(frame), b \in stored PROVE b \in frame
      <4>1. C!Min(frame) <= b
        BY <2>1, <3>1, <3>4
      <4> QED
        BY <2>3, <2>4, <3>4, <4>1
    <3> QED
      BY <3>2, <3>3, <3>4
  <2>5. /\ served'.bars = frame /\ served'.until = op[Bot].until
        /\ served'.partial \subseteq partial /\ served'.fresh = fresh
    BY <1>8
  <2>6. ASSUME NEW b \in has, b \in (op[Bot].until - C!Shortest)..C!Max(frame)
        PROVE  ~OldFor(Bot, b) /\ b <= C!Max(frame)
    <3> DEFINE w == C!Shortest
    <3>1. w \in Nat /\ b \in Nat
      BY <1>5, ShortestIs
    <3>2. b \in (op[Bot].until - w)..C!Max(frame)
      BY <2>6
    <3> HIDE DEF w
    <3>3. ~(b < op[Bot].until - w) /\ b <= C!Max(frame)
      BY <1>5, <2>1, <3>1, <3>2
    <3> QED
      BY <3>3 DEF OldFor, w
  <2>7. \A b \in has : b \in (op[Bot].until - C!Shortest)..C!Max(frame) =>
            /\ b >= C!Min(frame) => b \in frame \/ (~fresh /\ b \in jumped)
            /\ fresh => b \notin partial
    BY <2>4, <2>6, Zenon
  <2>8. \A b \in has \cap ((op[Bot].until - C!Shortest)..C!Max(frame)) :
            /\ b >= C!Min(frame) => b \in frame \/ (~fresh /\ b \in jumped)
            /\ fresh => b \notin served'.partial
    BY <2>5, <2>7
  <2> QED
    BY <1>1, <2>5, <2>8 DEF FrameIsTrue, C!Shortest
<1> QED
  BY <1>2, <1>7, <1>8

-----------------------------------------------------------------------------
(***************************************************************************)
(* Each step keeps the invariant                                           *)
(***************************************************************************)

\* A frame once served stays true.
LEMMA ServedKept ==
    ASSUME FrameIsTrue, served' = served, has' = has, jumped \subseteq jumped'
    PROVE  FrameIsTrue'
BY DEF FrameIsTrue, C!Shortest

LEMMA InvInit == C!Init /\ C!OneLongGap(has) => CandlesInv
<1> SUFFICES ASSUME C!Init, C!OneLongGap(has) PROVE CandlesInv
  OBVIOUS
<1>1. /\ has \subseteq Nat /\ C!OneLongGap(has) /\ MaxNow \in Nat /\ MaxNow >= 1
      /\ served = None /\ jumped = {}
      /\ op = [p \in C!Processes |-> C!Idle]
      /\ now = C!Max(stored \cup partial \cup {0}) + 1
  BY CandleSettings DEF C!Init, C!Settings
<1>2. PICK s \in Stores : stored = s.bars \cap has /\ partial = s.partial \cap has
  BY DEF C!Init
<1>3. /\ s.bars \subseteq 0..(MaxNow - 1) /\ \A a, c \in s.bars : a..c \subseteq s.bars
      /\ s.partial \subseteq s.bars
      /\ \A b \in s.partial, c \in s.bars : b >= c - C!RepairBars
  BY CandleSettings, Zenon DEF C!Settings
<1>4. stored \subseteq has /\ partial \subseteq stored /\ stored \subseteq 0..(MaxNow - 1)
  BY <1>2, <1>3
<1>5. now \in 0..MaxNow /\ now \in Nat /\ \A b \in stored : b \in Nat /\ b < now
  <2> DEFINE T == stored \cup partial \cup {0}
  <2>1. MaxNow - 1 \in Nat /\ T \subseteq 0..(MaxNow - 1) /\ T # {}
    BY <1>1, <1>4
  <2>2. C!Max(T) \in Nat /\ C!Max(T) <= MaxNow - 1 /\ \A b \in T : C!Max(T) >= b
    BY <2>1, MaxIs
  <2> HIDE DEF T
  <2>3. now = C!Max(T) + 1
    BY <1>1 DEF T
  <2>4. now \in 0..MaxNow /\ now \in Nat
    BY <1>1, <2>2, <2>3
  <2>5. \A b \in stored : b \in T /\ b \in Nat
    BY <1>4 DEF T
  <2> QED
    BY <2>2, <2>3, <2>4, <2>5
<1>6. Types
  BY <1>1, <1>4, <1>5 DEF Types, Market
<1>7. NoHoles
  <2> SUFFICES ASSUME stored # {}, NEW b \in has, b \in C!Min(stored)..C!Max(stored)
               PROVE  b \in stored
    BY DEF NoHoles
  <2>1. C!Max(stored) \in s.bars /\ C!Min(stored) \in s.bars
    BY <1>2, <1>6, StoredEnds
  <2>2. b \in s.bars
    BY <1>3, <2>1
  <2> QED
    BY <1>2, <2>2
<1>8. PartialsNew
  <2> SUFFICES ASSUME NEW b \in partial PROVE b >= C!Max(stored) - C!RepairBars
    BY DEF PartialsNew
  <2>1. stored # {} /\ b \in s.partial
    BY <1>2, <1>4
  <2>2. C!Max(stored) \in s.bars
    BY <1>2, <1>6, <2>1, StoredEnds
  <2> QED
    BY <1>3, <2>1, <2>2
<1>9. \A p \in C!Processes : op[p] = C!Idle /\ op[p].at = "idle" /\ op[p].until = 0
  BY <1>1 DEF C!Idle
<1>10. \A p \in C!Processes : Operation(p) /\ PartialsAhead(p)
  BY <1>5, <1>9 DEF Operation, PartialsAhead, C!Idle
<1>11. JumpsOld /\ PartialsGone /\ WindowComes /\ FrameIsTrue
  BY <1>1, <1>9 DEF JumpsOld, PartialsGone, WindowComes, FrameIsTrue, C!Processes
<1> QED
  BY <1>6, <1>7, <1>8, <1>10, <1>11 DEF CandlesInv

LEMMA InvFetchRange ==
    ASSUME CandlesInv, NEW p \in C!Processes, C!FetchRange(p) PROVE CandlesInv'
<1>1. Types /\ NoHoles /\ Operation(p) /\ PartialsAhead(p) /\ JumpsOld /\ PartialsNew
      /\ PartialsGone /\ WindowComes /\ FrameIsTrue
  BY DEF CandlesInv
<1>2. Writes(p)
  BY <1>1, FetchWrites
<1>3. Types' /\ Grows
  BY <1>1, <1>2, WritesTypes, WritesGrows
<1>4. NoHoles' /\ JumpsOld' /\ PartialsNew'
  BY <1>1, <1>2, WritesHoles, WritesJumps, WritesPartialsNew
<1>5. PartialsGone' /\ WindowComes'
  BY <1>1, <1>2, WritesPartialsGone, WritesWindow
<1>6. FrameIsTrue'
  BY <1>1, <1>2, ServedKept DEF Writes
<1>7. ASSUME NEW q \in C!Processes PROVE Operation(q)' /\ PartialsAhead(q)'
  <2>1. Operation(q) /\ PartialsAhead(q)
    BY DEF CandlesInv
  <2>2. PartialsAhead(q)'
    BY <1>1, <1>2, <2>1, WritesPartialsAhead
  <2>3. CASE q = p
    BY <1>1, <1>2, <2>2, <2>3, WritesOperation
  <2>4. CASE q # p
    <3>1. op'[q] = op[q]
      BY <1>2, <2>4 DEF Writes
    <3> QED
      BY <1>3, <2>1, <2>2, <3>1, OperationKept
  <2> QED
    BY <2>3, <2>4
<1> QED
  BY <1>3, <1>4, <1>5, <1>6, <1>7 DEF CandlesInv

\* What a step leaves alone that changes none of has, now, stored, partial and jumped.
Rests ==
    /\ has' = has /\ now' = now /\ stored' = stored /\ partial' = partial /\ jumped' = jumped
    /\ DOMAIN op' = C!Processes

LEMMA RestsKeep ==
    ASSUME CandlesInv, Rests
    PROVE  /\ Types' /\ Grows /\ NoHoles' /\ JumpsOld' /\ PartialsNew'
           /\ served' = served => FrameIsTrue'
           /\ \A q \in C!Processes : op'[q] = op[q] => Operation(q)' /\ PartialsAhead(q)'
<1>1. Types /\ NoHoles /\ JumpsOld /\ PartialsNew /\ FrameIsTrue
  BY DEF CandlesInv
<1>2. Market'
  BY <1>1 DEF Types, Market, Rests, C!OneLongGap
<1>3. Types'
  BY <1>1, <1>2 DEF Types, Rests
<1>4. now <= now'
  BY <1>1, BoundIs DEF Types, Market, Rests
<1>5. Grows
  BY <1>1, <1>3, <1>4 DEF Grows, Rests
<1>6. NoHoles'
  BY <1>1 DEF NoHoles, Rests
<1>7. JumpsOld' /\ PartialsNew'
  BY <1>1 DEF JumpsOld, PartialsNew, OldNow, Rests
<1>8. served' = served => FrameIsTrue'
  BY <1>1, ServedKept DEF Rests
<1>9. ASSUME NEW q \in C!Processes, op'[q] = op[q] PROVE Operation(q)' /\ PartialsAhead(q)'
  <2>1. Operation(q) /\ PartialsAhead(q)
    BY DEF CandlesInv
  <2>2. Operation(q)'
    BY <1>5, <1>9, <2>1, OperationKept
  <2>3. PartialsAhead(q)'
    BY <1>9, <2>1 DEF PartialsAhead, Todo, Covers, OldFor, Rests
  <2> QED
    BY <2>2, <2>3
<1> QED
  BY <1>3, <1>5, <1>6, <1>7, <1>8, <1>9

LEMMA InvBegin ==
    ASSUME CandlesInv, NEW p \in C!Processes, C!Begin(p) PROVE CandlesInv'
<1>1. Types /\ NoHoles /\ JumpsOld /\ PartialsNew /\ PartialsGone /\ WindowComes
  BY DEF CandlesInv
<1>2. Begun(p)
  BY <1>1, BeginBegins
<1>3. /\ Types' /\ NoHoles' /\ JumpsOld' /\ PartialsNew' /\ FrameIsTrue'
      /\ \A q \in C!Processes : q # p => Operation(q)' /\ PartialsAhead(q)'
  <2>1. Rests /\ served' = served /\ \A q \in C!Processes : q # p => op'[q] = op[q]
    BY <1>2 DEF Begun, Rests
  <2> QED
    BY <2>1, RestsKeep
<1>4. Operation(p)'
  BY <1>1, <1>2, BegunOperation
<1>5. op'[p].at = "fetch" /\ op'[p].until = now /\ partial' = partial /\ has' = has /\ stored' = stored
  BY <1>2 DEF Begun
<1>6. ASSUME NEW b \in has, ~OldNow(b), b < now
      PROVE  /\ Start(p) <= b
             /\ b \in stored \/ Coming(p, b)'
             /\ b >= C!Max(stored) - 2 => Covers(Todo(p)[Len(Todo(p))], b)'
  <2>1. b \in Nat /\ now \in Nat /\ Start(p) \in Nat
    BY <1>1, <1>2, BoundIs DEF Types, Market, Begun
  <2>2. Start(p) <= b
    <3> DEFINE w == C!Shortest
    <3>1. w \in Nat /\ ~(b < now - w) /\ Start(p) <= now - w
      BY <1>2, <1>6, ShortestIs DEF OldNow, Begun
    <3> HIDE DEF w
    <3> QED
      BY <2>1, <3>1
  <2>3. b \notin jumped
    BY <1>1, <1>6 DEF JumpsOld
  <2> QED
    BY <1>1, <1>2, <1>6, <2>2, <2>3, BegunReaches
<1>7. PartialsAhead(p)'
  <2> SUFFICES ASSUME NEW b \in partial, ~OldFor(p, b)'
               PROVE  Covers(Todo(p)[Len(Todo(p))], b)'
    BY <1>5 DEF PartialsAhead
  <2>1. b \in has /\ b < now /\ ~OldNow(b)
    BY <1>1, <1>5 DEF Types, OldFor, OldNow
  <2>2. b >= C!Max(stored) - 2
    BY <1>1, <2>1 DEF PartialsNew, C!RepairBars
  <2> QED
    BY <1>6, <2>1, <2>2
<1>8. PartialsGone' /\ WindowComes'
  <2>1. CASE p = Bot
    <3>1. PartialsGone'
      BY <1>5, <2>1 DEF PartialsGone
    <3>2. ASSUME NEW b \in has, ~OldFor(Bot, b)', b < now PROVE b \in stored \/ Coming(Bot, b)'
      <4>1. ~OldNow(b)
        BY <1>5, <2>1, <3>2 DEF OldFor, OldNow
      <4> QED
        BY <1>6, <2>1, <3>2, <4>1
    <3>3. WindowComes'
      BY <1>5, <2>1, <3>2 DEF WindowComes
    <3> QED
      BY <3>1, <3>3
  <2>2. CASE p # Bot
    <3>1. op'[Bot] = op[Bot]
      BY <1>2, <2>2 DEF Begun, C!Processes
    <3> QED
      BY <1>1, <1>5, <3>1 DEF PartialsGone, WindowComes, Coming, Todo, Covers, OldFor
  <2> QED
    BY <2>1, <2>2
<1> QED
  BY <1>3, <1>4, <1>7, <1>8 DEF CandlesInv

\* A process that stops leaves the store as it is.
LEMMA InvFetchFails ==
    ASSUME CandlesInv, NEW p \in C!Processes, C!FetchFails(p) PROVE CandlesInv'
<1>1. Types /\ PartialsGone /\ WindowComes /\ Operation(p)
  BY DEF CandlesInv
<1>2. /\ Rests /\ served' = served
      /\ \A q \in C!Processes : q # p => op'[q] = op[q]
      /\ \/ p = Bot /\ op'[p] = [op[p] EXCEPT !.at = "fallback", !.ranges = <<>>]
         \/ op'[p] = C!Idle
  BY <1>1 DEF C!FetchFails, Types, Rests
<1>3. /\ Types' /\ NoHoles' /\ JumpsOld' /\ PartialsNew' /\ FrameIsTrue'
      /\ \A q \in C!Processes : q # p => Operation(q)' /\ PartialsAhead(q)'
  BY <1>2, RestsKeep
<1>4. op[p].until \in Nat /\ op[p].until <= now /\ now \in Nat /\ now' = now
  BY <1>1, <1>2, BoundIs DEF Operation, Types, Market, Rests
<1>5. \/ p = Bot /\ op'[p] = [at |-> "fallback", until |-> op[p].until, ranges |-> <<>>]
      \/ op'[p] = C!Idle
  BY <1>1, <1>2 DEF Operation
<1>6. op'[p].at \notin {"fetch", "serve"} /\ Operation(p)'
  BY <1>4, <1>5 DEF Operation, C!Idle
<1>7. PartialsAhead(p)'
  BY <1>6 DEF PartialsAhead
<1>8. PartialsGone' /\ WindowComes'
  <2>1. CASE p = Bot
    BY <1>6, <2>1 DEF PartialsGone, WindowComes
  <2>2. CASE p # Bot
    <3>1. op'[Bot] = op[Bot]
      BY <1>2, <2>2 DEF C!Processes
    <3> QED
      BY <1>1, <1>2, <3>1 DEF PartialsGone, WindowComes, Coming, Todo, Covers, OldFor, Rests
  <2> QED
    BY <2>1, <2>2
<1> QED
  BY <1>3, <1>6, <1>7, <1>8 DEF CandlesInv

LEMMA InvServe == ASSUME CandlesInv, C!Serve PROVE CandlesInv'
<1>1. Types
  BY DEF CandlesInv
<1>2. /\ Rests /\ op'[Bot] = C!Idle /\ Bot \in C!Processes
      /\ \A q \in C!Processes : q # Bot => op'[q] = op[q]
  BY <1>1 DEF C!Serve, Types, Rests, C!Processes
<1>3. /\ Types' /\ NoHoles' /\ JumpsOld' /\ PartialsNew'
      /\ \A q \in C!Processes : q # Bot => Operation(q)' /\ PartialsAhead(q)'
  BY <1>2, RestsKeep
<1>4. FrameIsTrue'
  BY ServeServes
<1>5. now' \in Nat
  BY <1>3, BoundIs DEF Types, Market
<1>6. Operation(Bot)' /\ PartialsAhead(Bot)' /\ PartialsGone' /\ WindowComes'
  BY <1>2, <1>5 DEF Operation, PartialsAhead, PartialsGone, WindowComes, C!Idle
<1> QED
  BY <1>2, <1>3, <1>4, <1>6 DEF CandlesInv

LEMMA InvTick == ASSUME CandlesInv, C!Tick PROVE CandlesInv'
<1>1. Types /\ NoHoles /\ JumpsOld /\ PartialsNew /\ PartialsGone /\ WindowComes
      /\ FrameIsTrue
  BY DEF CandlesInv
<1>2. /\ now' = now + 1 /\ now < MaxNow
      /\ has' = has /\ stored' = stored /\ partial' = partial /\ op' = op
      /\ served' = served /\ jumped' = jumped
  BY DEF C!Tick
<1>3. now \in Nat /\ has \subseteq Nat /\ now' \in Nat /\ now <= now' /\ now' \in 0..MaxNow
  BY <1>1, <1>2, BoundIs DEF Types, Market
<1>4. Types'
  <2>1. Market'
    BY <1>1, <1>2, <1>3 DEF Types, Market, C!OneLongGap
  <2>2. \A b \in stored : b < now'
    <3> SUFFICES ASSUME NEW b \in stored PROVE b < now'
      OBVIOUS
    <3>1. b \in Nat /\ b < now
      BY <1>1, <1>3 DEF Types
    <3> QED
      BY <1>2, <1>3, <3>1
  <2> QED
    BY <1>1, <1>2, <2>1, <2>2 DEF Types
<1>5. Grows
  BY <1>1, <1>2, <1>3, <1>4 DEF Grows
<1>6. NoHoles' /\ FrameIsTrue'
  BY <1>1, <1>2, ServedKept DEF NoHoles
<1>7. JumpsOld'
  <2> SUFFICES ASSUME NEW b \in jumped \cap has PROVE OldNow(b)'
    BY <1>2 DEF JumpsOld
  <2>1. OldNow(b)
    BY <1>1 DEF JumpsOld
  <2> QED
    BY <1>5, <2>1, OldStays
<1>8. PartialsNew'
  <2> SUFFICES ASSUME NEW b \in partial, ~OldNow(b)' PROVE b >= C!Max(stored) - C!RepairBars
    BY <1>2 DEF PartialsNew
  <2>1. b \in has
    BY <1>1 DEF Types
  <2>2. ~OldNow(b)
    BY <1>5, <2>1, OldStays
  <2> QED
    BY <1>1, <2>2 DEF PartialsNew
<1>9. PartialsGone' /\ WindowComes'
  BY <1>1, <1>2 DEF PartialsGone, WindowComes, Coming, Todo, Covers, OldFor
<1>10. ASSUME NEW p \in C!Processes PROVE Operation(p)' /\ PartialsAhead(p)'
  <2>1. Operation(p) /\ PartialsAhead(p)
    BY DEF CandlesInv
  <2>2. Operation(p)'
    BY <1>2, <1>5, <2>1, OperationKept
  <2>3. PartialsAhead(p)'
    BY <1>2, <2>1 DEF PartialsAhead, Todo, Covers, OldFor
  <2> QED
    BY <2>2, <2>3
<1> QED
  BY <1>4, <1>6, <1>7, <1>8, <1>9, <1>10 DEF CandlesInv

LEMMA InvUnchanged == ASSUME CandlesInv, UNCHANGED candles PROVE CandlesInv'
<1>1. /\ has' = has /\ now' = now /\ stored' = stored /\ partial' = partial /\ op' = op
      /\ served' = served /\ jumped' = jumped
  BY DEF candles
<1>2. Types /\ PartialsGone /\ WindowComes
  BY DEF CandlesInv
<1>3. Rests
  BY <1>1, <1>2 DEF Types, Rests
<1>4. /\ Types' /\ NoHoles' /\ JumpsOld' /\ PartialsNew' /\ FrameIsTrue'
      /\ \A q \in C!Processes : Operation(q)' /\ PartialsAhead(q)'
  BY <1>1, <1>3, RestsKeep
<1>5. PartialsGone' /\ WindowComes'
  BY <1>1, <1>2 DEF PartialsGone, WindowComes, Coming, Todo, Covers, OldFor
<1> QED
  BY <1>4, <1>5 DEF CandlesInv

LEMMA InvNext == CandlesInv /\ (C!Next \/ UNCHANGED candles) => CandlesInv'
BY InvBegin, InvFetchRange, InvFetchFails, InvServe, InvTick, InvUnchanged DEF C!Next

-----------------------------------------------------------------------------
(***************************************************************************)
(* The types of the candle store, on any exchange                          *)
(***************************************************************************)

\* What is known of the exchange and the clock, whatever its gaps.
Exchange == has \in Histories /\ now \in 0..MaxNow

LEMMA PageIs ==
    ASSUME Exchange, NEW c \in Nat
    PROVE  /\ C!Page(c) \subseteq 0..now /\ C!Page(c) \subseteq has
           /\ \A b \in C!Page(c) : c <= b /\ b < c + PageLimit /\ b <= now
           /\ c \in has /\ c <= now => c \in C!Page(c)
           /\ now \in Nat /\ PageLimit \in Nat \ {0} /\ has \subseteq Nat
<1>1. PageLimit \in Nat \ {0} /\ MaxNow \in Nat /\ has \subseteq Nat
  BY CandleSettings DEF C!Settings, Exchange
<1>2. now \in Nat
  BY <1>1 DEF Exchange
<1>3. C!Page(c) = {b \in has : c <= b /\ b < c + PageLimit /\ b <= now}
  BY DEF C!Page
<1>4. C!Page(c) \subseteq 0..now
  <2>1. \A b \in C!Page(c) : b \in Nat /\ b <= now
    BY <1>1, <1>3
  <2> QED
    BY <1>2, <2>1
<1>5. c <= c /\ c < c + PageLimit
  BY <1>1
<1> QED
  BY <1>1, <1>2, <1>3, <1>4, <1>5

\* One level of the search at a pair.
LEMMA StepHalves ==
    ASSUME NEW low \in Nat, NEW final \in Nat, NEW g, NEW lo \in low..final, NEW hi \in low..final
    PROVE  SearchStep(low, final, g)[<<lo, hi>>] =
             IF lo >= hi THEN C!Min(C!Page(hi))
             ELSE IF C!Page((lo + hi) \div 2) = {} THEN g[<<(lo + hi) \div 2 + 1, hi>>]
             ELSE g[<<lo, (lo + hi) \div 2>>]
BY DEF SearchStep

\* The search ends on any exchange: a function that solves its equation for pairs less
\* than n apart gives, one level on, one that does for pairs n apart.
Searches(low, final, n, g) ==
    \A lo, hi \in low..final : hi - lo <= n => g[<<lo, hi>>] = SearchStep(low, final, g)[<<lo, hi>>]

LEMMA SearchesFurther ==
    ASSUME NEW low \in Nat, NEW final \in Nat, NEW n \in Nat, NEW g, Searches(low, final, n, g)
    PROVE  Searches(low, final, n + 1, SearchStep(low, final, g))
<1> DEFINE h == SearchStep(low, final, g)
<1>1. SUFFICES ASSUME NEW lo \in low..final, NEW hi \in low..final, hi - lo <= n + 1
               PROVE  h[<<lo, hi>>] = SearchStep(low, final, h)[<<lo, hi>>]
  BY DEF Searches
<1>2. h[<<lo, hi>>] = IF lo >= hi THEN C!Min(C!Page(hi))
                      ELSE IF C!Page((lo + hi) \div 2) = {} THEN g[<<(lo + hi) \div 2 + 1, hi>>]
                      ELSE g[<<lo, (lo + hi) \div 2>>]
  BY StepHalves
<1>3. \A f : SearchStep(low, final, f)[<<lo, hi>>] =
               IF lo >= hi THEN C!Min(C!Page(hi))
               ELSE IF C!Page((lo + hi) \div 2) = {} THEN f[<<(lo + hi) \div 2 + 1, hi>>]
               ELSE f[<<lo, (lo + hi) \div 2>>]
  BY StepHalves
<1>4. \A l, u \in low..final : u - l <= n => g[<<l, u>>] = h[<<l, u>>]
  BY Zenon DEF Searches
<1> HIDE DEF h
<1>5. CASE lo >= hi
  BY <1>2, <1>3, <1>5, Zenon
<1>6. CASE ~(lo >= hi)
  <2> DEFINE mid == (lo + hi) \div 2
  <2>1. /\ mid \in Nat /\ lo \in Nat /\ hi \in Nat /\ lo <= mid /\ mid < hi
        /\ mid \in low..final /\ mid + 1 \in low..final
    BY <1>6, HalfInside
  <2>2. hi - (mid + 1) <= n /\ mid - lo <= n
    <3> HIDE DEF mid
    <3> QED
      BY <1>1, <2>1
  <2>3. g[<<mid + 1, hi>>] = h[<<mid + 1, hi>>] /\ g[<<lo, mid>>] = h[<<lo, mid>>]
    BY <1>4, <2>1, <2>2, Zenon
  <2>4. SearchStep(low, final, h)[<<lo, hi>>] =
          IF lo >= hi THEN C!Min(C!Page(hi))
          ELSE IF C!Page(mid) = {} THEN h[<<mid + 1, hi>>] ELSE h[<<lo, mid>>]
    BY <1>3, Zenon
  <2>5. h[<<lo, hi>>] = IF lo >= hi THEN C!Min(C!Page(hi))
                        ELSE IF C!Page(mid) = {} THEN g[<<mid + 1, hi>>] ELSE g[<<lo, mid>>]
    BY <1>2, Zenon
  <2> HIDE DEF mid
  <2> QED
    BY <1>6, <2>3, <2>4, <2>5
<1> QED
  BY <1>5, <1>6

LEMMA SearchExists ==
    ASSUME NEW low \in Nat, NEW final \in Nat
    PROVE  \E g : g = SearchStep(low, final, g)
<1> DEFINE Bad == {n \in Nat : ~ \E g : Searches(low, final, n, g)}
<1>1. Bad = {}
  <2>1. SUFFICES ASSUME Bad # {} PROVE FALSE
    OBVIOUS
  <2>2. PICK n \in Bad : \A k \in Bad : n <= k
    BY <2>1, LeastExists
  <2>3. n \in Nat /\ ~ \E g : Searches(low, final, n, g)
    OBVIOUS
  <2>4. CASE n = 0
    <3> DEFINE h == SearchStep(low, final, <<>>)
    <3>1. \A lo, hi \in low..final : hi - lo <= 0 => lo >= hi
      OBVIOUS
    <3>2. ASSUME NEW f, NEW lo \in low..final, NEW hi \in low..final, lo >= hi
          PROVE  SearchStep(low, final, f)[<<lo, hi>>] = C!Min(C!Page(hi))
      <4>1. SearchStep(low, final, f)[<<lo, hi>>] =
              IF lo >= hi THEN C!Min(C!Page(hi))
              ELSE IF C!Page((lo + hi) \div 2) = {} THEN f[<<(lo + hi) \div 2 + 1, hi>>]
              ELSE f[<<lo, (lo + hi) \div 2>>]
        BY StepHalves
      <4> QED
        BY <3>2, <4>1, Zenon
    <3>3. ASSUME NEW lo \in low..final, NEW hi \in low..final, hi - lo <= 0
          PROVE  h[<<lo, hi>>] = SearchStep(low, final, h)[<<lo, hi>>]
      <4>1. lo >= hi
        BY <3>1, <3>3, Zenon
      <4>2. h[<<lo, hi>>] = C!Min(C!Page(hi))
        BY <3>2, <4>1
      <4> HIDE DEF h
      <4>3. SearchStep(low, final, h)[<<lo, hi>>] = C!Min(C!Page(hi))
        BY <3>2, <4>1
      <4> QED
        BY <4>2, <4>3
    <3>4. Searches(low, final, 0, h)
      BY <3>3, Zenon DEF Searches
    <3> QED
      BY <2>3, <2>4, <3>4
  <2>5. CASE n # 0
    <3>1. n - 1 \in Nat /\ ~(n <= n - 1) /\ (n - 1) + 1 = n
      BY <2>3, <2>5
    <3>2. n - 1 \notin Bad
      BY <2>2, <3>1, Zenon
    <3>3. PICK g : Searches(low, final, n - 1, g)
      BY <3>1, <3>2
    <3>4. Searches(low, final, (n - 1) + 1, SearchStep(low, final, g))
      BY <3>1, <3>3, SearchesFurther
    <3> QED
      BY <2>3, <3>1, <3>4
  <2> QED
    BY <2>4, <2>5
<1>2. PICK f : Searches(low, final, final, f)
  BY <1>1
<1> DEFINE g == SearchStep(low, final, f)
<1>3. \A w \in (low..final) \X (low..final) : g[w] = SearchStep(low, final, g)[w]
  <2>1. Searches(low, final, final + 1, g)
    BY <1>2, SearchesFurther
  <2>2. \A lo, hi \in low..final : hi - lo <= final + 1
    OBVIOUS
  <2>3. \A lo, hi \in low..final : g[<<lo, hi>>] = SearchStep(low, final, g)[<<lo, hi>>]
    BY <2>1, <2>2, Zenon DEF Searches
  <2> HIDE DEF g
  <2> QED
    BY <2>3
<1>4. g = [w \in (low..final) \X (low..final) |-> g[w]]
  BY DEF SearchStep
<1>5. SearchStep(low, final, g) = [w \in (low..final) \X (low..final) |-> SearchStep(low, final, g)[w]]
  <2> HIDE DEF g
  <2> QED
    BY DEF SearchStep
<1> HIDE DEF g
<1>6. g = SearchStep(low, final, g)
  <2> DEFINE W == (low..final) \X (low..final)
             h == SearchStep(low, final, g)
  <2>1. g = [w \in W |-> g[w]] /\ h = [w \in W |-> h[w]] /\ \A w \in W : g[w] = h[w]
    BY <1>3, <1>4, <1>5
  <2> HIDE DEF W, h
  <2>2. g = h
    BY <2>1
  <2> QED
    BY <2>2 DEF h
<1> QED
  BY <1>6

\* It finds the first bar of some page that has one: the pair it goes on with always
\* ends at a page with bars.
LEMMA SearchFinds ==
    ASSUME NEW low \in Nat, NEW final \in Nat, low <= final, C!Page(final) # {}
    PROVE  \E t \in low..final :
              /\ C!Page(t) # {}
              /\ (CHOOSE f : f = SearchStep(low, final, f))[<<low, final>>] = C!Min(C!Page(t))
<1> DEFINE f == CHOOSE f : f = SearchStep(low, final, f)
           Good(lo, hi) == \E t \in low..final : C!Page(t) # {} /\ f[<<lo, hi>>] = C!Min(C!Page(t))
           Bad == {d \in Nat : \E lo, hi \in low..final : hi - lo = d /\ C!Page(hi) # {} /\ ~Good(lo, hi)}
<1>1. f = SearchStep(low, final, f)
  BY SearchExists
<1> HIDE DEF f
<1>2. Halves(low, final, f)
  BY <1>1, SolutionHalves
<1>3. Bad = {}
  <2>1. SUFFICES ASSUME Bad # {} PROVE FALSE
    OBVIOUS
  <2>2. PICK d \in Bad : \A e \in Bad : d <= e
    BY <2>1, LeastExists
  <2>3. PICK lo \in low..final, hi \in low..final : hi - lo = d /\ C!Page(hi) # {} /\ ~Good(lo, hi)
    OBVIOUS
  <2>4. d \in Nat
    OBVIOUS
  <2>5. CASE lo >= hi
    <3>1. f[<<lo, hi>>] = C!Min(C!Page(hi))
      BY <1>2, <2>5, Zenon DEF Halves
    <3> QED
      BY <2>3, <3>1, Zenon
  <2>6. CASE ~(lo >= hi)
    <3> DEFINE mid == (lo + hi) \div 2
    <3>1. lo < hi
      BY <2>6
    <3>2. /\ mid \in Nat /\ lo \in Nat /\ hi \in Nat /\ lo <= mid /\ mid < hi
          /\ mid \in low..final /\ mid + 1 \in low..final
      BY <3>1, HalfInside
    <3>3. /\ C!Page(mid) = {} => f[<<lo, hi>>] = f[<<mid + 1, hi>>]
          /\ C!Page(mid) # {} => f[<<lo, hi>>] = f[<<lo, mid>>]
      BY <1>2, <2>6, Zenon DEF Halves
    <3> HIDE DEF mid
    <3>4. hi - (mid + 1) \in Nat /\ hi - (mid + 1) < d /\ mid - lo \in Nat /\ mid - lo < d
      BY <2>3, <3>2
    <3>5. \A e \in Nat : e < d => e \notin Bad
      <4> SUFFICES ASSUME NEW e \in Nat, e < d, e \in Bad PROVE FALSE
        OBVIOUS
      <4>1. d <= e
        BY <2>2
      <4> QED
        BY <2>4, <4>1
    <3>6. CASE C!Page(mid) = {}
      <4>1. hi - (mid + 1) \notin Bad
        BY <3>4, <3>5, Zenon
      <4>2. Good(mid + 1, hi)
        BY <2>3, <3>2, <3>4, <4>1, Zenon
      <4>3. f[<<lo, hi>>] = f[<<mid + 1, hi>>]
        BY <3>3, <3>6
      <4> QED
        BY <2>3, <4>2, <4>3, Zenon
    <3>7. CASE C!Page(mid) # {}
      <4>1. mid - lo \notin Bad
        BY <3>4, <3>5, Zenon
      <4>2. Good(lo, mid)
        BY <2>3, <3>2, <3>4, <3>7, <4>1, Zenon
      <4>3. f[<<lo, hi>>] = f[<<lo, mid>>]
        BY <3>3, <3>7
      <4> QED
        BY <2>3, <4>2, <4>3, Zenon
    <3> QED
      BY <3>6, <3>7
  <2> QED
    BY <2>5, <2>6
<1>4. low \in low..final /\ final \in low..final /\ final - low \in Nat
  OBVIOUS
<1>5. final - low \notin Bad
  BY <1>3, Zenon
<1>6. Good(low, final)
  BY <1>4, <1>5, Zenon
<1> QED
  BY <1>6 DEF f

\* What it finds lies ahead of the empty page.
LEMMA FoundAhead ==
    ASSUME Exchange, NEW low \in Nat, NEW high \in Nat, low < high, high <= now, C!Page(low) = {}
    PROVE  \/ C!FirstWithData(low, high) = C!NoData
           \/ /\ C!FirstWithData(low, high) \in Nat
              /\ low < C!FirstWithData(low, high) /\ C!FirstWithData(low, high) < high
<1>1. PageLimit \in Nat \ {0} /\ now \in Nat
  BY PageIs
<1> DEFINE final == C!Max({high - PageLimit, low})
<1>2. final = IF high - PageLimit >= low THEN high - PageLimit ELSE low
  BY <1>1, MaxOfTwo
<1>3. C!FirstWithData(low, high) =
        IF C!Page(final) = {} THEN C!NoData
        ELSE (CHOOSE f : f = SearchStep(low, final, f))[<<low, final>>]
  BY DEF C!FirstWithData, SearchStep
<1> HIDE DEF final
<1>4. SUFFICES ASSUME C!Page(final) # {}
               PROVE  /\ C!FirstWithData(low, high) \in Nat
                      /\ low < C!FirstWithData(low, high) /\ C!FirstWithData(low, high) < high
  BY <1>3
<1>5. final # low
  BY <1>4
<1>6. final \in Nat /\ low <= final /\ final + PageLimit = high
  BY <1>1, <1>2, <1>5
<1>7. PICK t \in low..final :
         /\ C!Page(t) # {}
         /\ (CHOOSE f : f = SearchStep(low, final, f))[<<low, final>>] = C!Min(C!Page(t))
  BY <1>4, <1>6, SearchFinds
<1>8. t \in Nat /\ low <= t /\ t <= final
  BY <1>6
<1> DEFINE start == C!Min(C!Page(t))
<1>9. C!FirstWithData(low, high) = start
  BY <1>3, <1>4, <1>7, Zenon
<1>10. C!Page(t) \subseteq Nat
  BY <1>8, PageIs
<1>11. start \in C!Page(t) /\ start \in Nat
  BY <1>7, <1>10, MinIs
<1>12. t <= start /\ start < t + PageLimit /\ start <= now /\ start \in has
  BY <1>8, <1>11, PageIs
<1> HIDE DEF start
<1>13. start # low
  <2> SUFFICES ASSUME start = low PROVE FALSE
    OBVIOUS
  <2>1. low \in C!Page(low)
    BY <1>12, PageIs
  <2> QED
    BY <2>1
<1>14. low < start /\ start < high
  BY <1>1, <1>6, <1>8, <1>11, <1>12, <1>13
<1> QED
  BY <1>9, <1>11, <1>14

\* The cursor of a download goes on, inside the domain.
LEMMA CursorAhead ==
    ASSUME Exchange, NEW until \in Nat, until <= now, NEW c \in Nat, c < until
    PROVE  /\ c \in 0..(until + PageLimit)
           /\ C!Page(c) # {} =>
                C!Max(C!Page(c)) + 1 \in 0..(until + PageLimit) /\ c < C!Max(C!Page(c)) + 1
           /\ C!Page(c) = {} /\ C!FirstWithData(c, until) # C!NoData =>
                C!FirstWithData(c, until) \in 0..(until + PageLimit) /\ c < C!FirstWithData(c, until)
<1>1. PageLimit \in Nat \ {0} /\ now \in Nat
  BY PageIs
<1>2. c \in 0..(until + PageLimit)
  BY <1>1
<1>3. ASSUME C!Page(c) # {}
      PROVE  C!Max(C!Page(c)) + 1 \in 0..(until + PageLimit) /\ c < C!Max(C!Page(c)) + 1
  <2> DEFINE m == C!Max(C!Page(c))
  <2>1. C!Page(c) \subseteq 0..now
    BY PageIs
  <2>2. m \in C!Page(c) /\ m \in Nat
    BY <1>1, <1>3, <2>1, MaxIs
  <2>3. c <= m /\ m < c + PageLimit
    BY <2>2, PageIs
  <2> HIDE DEF m
  <2>4. m + 1 \in 0..(until + PageLimit) /\ c < m + 1
    BY <1>1, <2>2, <2>3
  <2> QED
    BY <2>4 DEF m
<1>4. ASSUME C!Page(c) = {}, C!FirstWithData(c, until) # C!NoData
      PROVE  C!FirstWithData(c, until) \in 0..(until + PageLimit) /\ c < C!FirstWithData(c, until)
  <2> DEFINE start == C!FirstWithData(c, until)
  <2>1. start \in Nat /\ c < start /\ start < until
    BY <1>4, FoundAhead
  <2> HIDE DEF start
  <2>2. start \in 0..(until + PageLimit)
    BY <1>1, <2>1
  <2> QED
    BY <2>1, <2>2 DEF start
<1> QED
  BY <1>2, <1>3, <1>4

\* A download ends on any exchange: a function that solves its equation on the last n
\* cursors gives, one page on, one that does on the last n + 1.
Downloads(until, n, g) ==
    \A c \in 0..(until + PageLimit) : until - c <= n => g[c] = FetchStep(until, g)[c]

LEMMA DownloadsFurther ==
    ASSUME Exchange, NEW until \in Nat, until <= now, NEW n \in Nat, NEW g, Downloads(until, n, g)
    PROVE  Downloads(until, n + 1, FetchStep(until, g))
<1> DEFINE D == 0..(until + PageLimit)
           h == FetchStep(until, g)
<1>1. SUFFICES ASSUME NEW c \in D, until - c <= n + 1 PROVE h[c] = FetchStep(until, h)[c]
  BY DEF Downloads
<1>2. h[c] = IF c >= until THEN {}
             ELSE IF C!Page(c) # {} THEN {b \in C!Page(c) : b < until} \cup g[C!Max(C!Page(c)) + 1]
             ELSE IF C!FirstWithData(c, until) = C!NoData THEN {} ELSE g[C!FirstWithData(c, until)]
  BY StepPages
<1>3. \A d \in D : until - d <= n => g[d] = h[d]
  BY Zenon DEF Downloads
<1> HIDE DEF h
<1>4. FetchStep(until, h)[c] =
             IF c >= until THEN {}
             ELSE IF C!Page(c) # {} THEN {b \in C!Page(c) : b < until} \cup h[C!Max(C!Page(c)) + 1]
             ELSE IF C!FirstWithData(c, until) = C!NoData THEN {} ELSE h[C!FirstWithData(c, until)]
  BY StepPages
<1>5. PageLimit \in Nat
  BY PageIs
<1>6. \A d \in D : c < d => until - d <= n
  BY <1>1, <1>5
<1>7. CASE c >= until
  BY <1>2, <1>4, <1>7, Zenon
<1>8. CASE ~(c >= until)
  <2>1. c \in Nat /\ c < until
    BY <1>5, <1>8
  <2>2. /\ C!Page(c) # {} => C!Max(C!Page(c)) + 1 \in D /\ c < C!Max(C!Page(c)) + 1
        /\ C!Page(c) = {} /\ C!FirstWithData(c, until) # C!NoData =>
             C!FirstWithData(c, until) \in D /\ c < C!FirstWithData(c, until)
    BY <2>1, CursorAhead
  <2> HIDE DEF D
  <2>3. CASE C!Page(c) # {}
    <3>1. g[C!Max(C!Page(c)) + 1] = h[C!Max(C!Page(c)) + 1]
      BY <1>3, <1>6, <2>2, <2>3, Zenon
    <3> QED
      BY <1>2, <1>4, <1>8, <2>3, <3>1, Zenon
  <2>4. CASE C!Page(c) = {} /\ C!FirstWithData(c, until) # C!NoData
    <3>1. g[C!FirstWithData(c, until)] = h[C!FirstWithData(c, until)]
      BY <1>3, <1>6, <2>2, <2>4, Zenon
    <3> QED
      BY <1>2, <1>4, <1>8, <2>4, <3>1, Zenon
  <2>5. CASE C!Page(c) = {} /\ C!FirstWithData(c, until) = C!NoData
    BY <1>2, <1>4, <1>8, <2>5, Zenon
  <2> QED
    BY <2>3, <2>4, <2>5
<1> QED
  BY <1>7, <1>8

LEMMA DownloadExists ==
    ASSUME Exchange, NEW until \in Nat, until <= now
    PROVE  \E g : g = FetchStep(until, g)
<1> DEFINE D == 0..(until + PageLimit)
           Bad == {n \in Nat : ~ \E g : Downloads(until, n, g)}
<1>1. PageLimit \in Nat
  BY PageIs
<1>2. Bad = {}
  <2>1. SUFFICES ASSUME Bad # {} PROVE FALSE
    OBVIOUS
  <2>2. PICK n \in Bad : \A k \in Bad : n <= k
    BY <2>1, LeastExists
  <2>3. n \in Nat /\ ~ \E g : Downloads(until, n, g)
    OBVIOUS
  <2>4. CASE n = 0
    <3> DEFINE h == FetchStep(until, <<>>)
    <3>1. ASSUME NEW f, NEW c \in D, c >= until PROVE FetchStep(until, f)[c] = {}
      <4>1. FetchStep(until, f)[c] =
               IF c >= until THEN {}
               ELSE IF C!Page(c) # {} THEN {b \in C!Page(c) : b < until} \cup f[C!Max(C!Page(c)) + 1]
               ELSE IF C!FirstWithData(c, until) = C!NoData THEN {} ELSE f[C!FirstWithData(c, until)]
        BY StepPages
      <4> QED
        BY <3>1, <4>1, Zenon
    <3>2. ASSUME NEW c \in D, until - c <= 0 PROVE h[c] = FetchStep(until, h)[c]
      <4>1. c >= until
        BY <1>1, <3>2
      <4>2. h[c] = {}
        BY <3>1, <4>1
      <4> HIDE DEF h
      <4>3. FetchStep(until, h)[c] = {}
        BY <3>1, <4>1
      <4> QED
        BY <4>2, <4>3
    <3>3. Downloads(until, 0, h)
      BY <3>2, Zenon DEF Downloads
    <3> QED
      BY <2>3, <2>4, <3>3
  <2>5. CASE n # 0
    <3>1. n - 1 \in Nat /\ ~(n <= n - 1) /\ (n - 1) + 1 = n
      BY <2>3, <2>5
    <3>2. n - 1 \notin Bad
      BY <2>2, <3>1, Zenon
    <3>3. PICK g : Downloads(until, n - 1, g)
      BY <3>1, <3>2
    <3>4. Downloads(until, (n - 1) + 1, FetchStep(until, g))
      BY <3>1, <3>3, DownloadsFurther
    <3> QED
      BY <2>3, <3>1, <3>4
  <2> QED
    BY <2>4, <2>5
<1>3. PICK f : Downloads(until, until, f)
  BY <1>2
<1> DEFINE g == FetchStep(until, f)
<1>4. \A c \in D : g[c] = FetchStep(until, g)[c]
  <2>1. Downloads(until, until + 1, g)
    BY <1>3, DownloadsFurther
  <2>2. \A c \in D : until - c <= until + 1
    BY <1>1
  <2> QED
    BY <2>1, <2>2, Zenon DEF Downloads
<1>5. g = [c \in D |-> g[c]]
  BY DEF FetchStep
<1> HIDE DEF g
<1>6. FetchStep(until, g) = [c \in D |-> FetchStep(until, g)[c]]
  BY DEF FetchStep
<1>7. g = FetchStep(until, g)
  <2> DEFINE h == FetchStep(until, g)
  <2>1. g = [c \in D |-> g[c]] /\ h = [c \in D |-> h[c]] /\ \A c \in D : g[c] = h[c]
    BY <1>4, <1>5, <1>6
  <2> HIDE DEF D, h
  <2>2. g = h
    BY <2>1
  <2> QED
    BY <2>2 DEF h
<1> QED
  BY <1>7

\* Whatever the exchange's gaps, a download brings back bars it has, closed ones only.
LEMMA FetchCloses ==
    ASSUME Exchange, NEW since \in Nat, NEW until \in Nat, since <= until, until <= now
    PROVE  C!Fetch(since, until) \subseteq {b \in has : b < until}
<1> DEFINE f == CHOOSE f : f = FetchStep(until, f)
           D == 0..(until + PageLimit)
           Closed == {b \in has : b < until}
           Bad == {c \in D : ~(f[c] \subseteq Closed)}
<1>1. C!Fetch(since, until) = f[since]
  BY DEF C!Fetch, FetchStep
<1>2. f = FetchStep(until, f)
  BY DownloadExists
<1> HIDE DEF f
<1>3. Pages(until, f)
  BY <1>2, SolutionPages
<1>4. PageLimit \in Nat /\ until + PageLimit \in Nat
  BY PageIs
<1>5. Bad = {}
  <2>1. SUFFICES ASSUME Bad # {} PROVE FALSE
    OBVIOUS
  <2>2. PICK c \in Bad : \A d \in Bad : c >= d
    BY <1>4, <2>1, GreatestExists
  <2>3. c \in D /\ c \in Nat /\ ~(f[c] \subseteq Closed)
    BY <1>4
  <2>4. ASSUME NEW d \in D, c < d PROVE f[d] \subseteq Closed
    <3>1. d \notin Bad
      BY <1>4, <2>2, <2>3, <2>4
    <3> QED
      BY <3>1
  <2> HIDE DEF Bad
  <2>5. CASE c >= until
    <3>1. f[c] = {}
      BY <1>3, <2>3, <2>5, Zenon DEF Pages
    <3> QED
      BY <2>3, <3>1
  <2>6. CASE ~(c >= until)
    <3>1. c < until
      BY <2>3, <2>6
    <3>2. /\ C!Page(c) # {} => C!Max(C!Page(c)) + 1 \in D /\ c < C!Max(C!Page(c)) + 1
          /\ C!Page(c) = {} /\ C!FirstWithData(c, until) # C!NoData =>
               C!FirstWithData(c, until) \in D /\ c < C!FirstWithData(c, until)
      BY <2>3, <3>1, CursorAhead
    <3>3. CASE C!Page(c) # {}
      <4>1. f[c] = {b \in C!Page(c) : b < until} \cup f[C!Max(C!Page(c)) + 1]
        BY <1>3, <2>3, <2>6, <3>3, Zenon DEF Pages
      <4>2. f[C!Max(C!Page(c)) + 1] \subseteq Closed
        BY <2>4, <3>2, <3>3, Zenon
      <4>3. C!Page(c) \subseteq has
        BY <2>3, PageIs
      <4> QED
        BY <2>3, <4>1, <4>2, <4>3
    <3>4. CASE C!Page(c) = {} /\ C!FirstWithData(c, until) # C!NoData
      <4>1. f[c] = f[C!FirstWithData(c, until)]
        BY <1>3, <2>3, <2>6, <3>4, Zenon DEF Pages
      <4>2. f[C!FirstWithData(c, until)] \subseteq Closed
        BY <2>4, <3>2, <3>4, Zenon
      <4> QED
        BY <2>3, <4>1, <4>2, Zenon
    <3>5. CASE C!Page(c) = {} /\ C!FirstWithData(c, until) = C!NoData
      <4>1. f[c] = {}
        BY <1>3, <2>3, <2>6, <3>5, Zenon DEF Pages
      <4> QED
        BY <2>3, <4>1
    <3> QED
      BY <3>3, <3>4, <3>5
  <2> QED
    BY <2>5, <2>6
<1>6. since \in D
  BY <1>4
<1>7. f[since] \subseteq Closed
  BY <1>5, <1>6
<1> QED
  BY <1>1, <1>7

\* What keeps the types: a process at its ranges has some left, in order and not ahead of
\* the clock.
Operations == [at : {"idle", "fetch", "serve", "fallback"}, until : Nat, ranges : Seq(Nat \X Nat)]
InOrder(r, n) == r[1] <= r[2] /\ r[2] <= n
CandlesTyped ==
    /\ C!TypeOK /\ op \in [C!Processes -> Operations]
    /\ \A p \in C!Processes : op[p].at = "fetch" =>
          op[p].ranges # <<>> /\ \A i \in DOMAIN op[p].ranges : InOrder(op[p].ranges[i], now)

LEMMA OperationEdited ==
    ASSUME NEW x \in Operations
    PROVE  /\ [x EXCEPT !.at = "serve", !.ranges = <<>>] = [at |-> "serve", until |-> x.until, ranges |-> <<>>]
           /\ [x EXCEPT !.at = "fallback", !.ranges = <<>>] = [at |-> "fallback", until |-> x.until, ranges |-> <<>>]
<1>1. PICK a, u, s : x = [at |-> a, until |-> u, ranges |-> s] /\ a = x.at /\ u = x.until
  BY DEF Operations
<1>3. ASSUME NEW t
      PROVE  [x EXCEPT !.at = t, !.ranges = <<>>] = [at |-> t, until |-> u, ranges |-> <<>>]
  <2>1. PICK y : y = [x EXCEPT !.at = t]
    OBVIOUS
  <2>2. y = [at |-> t, until |-> u, ranges |-> s]
    BY <1>1, <2>1
  <2>3. [y EXCEPT !.ranges = <<>>] = [at |-> t, until |-> u, ranges |-> <<>>]
    BY <2>2
  <2>4. [x EXCEPT !.at = t, !.ranges = <<>>] = [[x EXCEPT !.at = t] EXCEPT !.ranges = <<>>]
    OBVIOUS
  <2> QED
    BY <2>1, <2>3, <2>4
<1>4. [x EXCEPT !.at = "serve", !.ranges = <<>>] = [at |-> "serve", until |-> u, ranges |-> <<>>]
  BY <1>3, Zenon
<1>5. [x EXCEPT !.at = "fallback", !.ranges = <<>>] = [at |-> "fallback", until |-> u, ranges |-> <<>>]
  BY <1>3, Zenon
<1> QED
  BY <1>1, <1>4, <1>5, Zenon

LEMMA TypedFacts ==
    ASSUME CandlesTyped
    PROVE  /\ Exchange /\ now \in Nat /\ MaxNow \in Nat /\ has \subseteq Nat
           /\ stored \subseteq has /\ partial \subseteq stored
           /\ \A b \in stored : b \in Nat /\ b < now
<1>1. /\ has \in Histories /\ now \in 0..MaxNow /\ stored \subseteq has /\ partial \subseteq stored
      /\ \A b \in stored : b < now
  BY DEF CandlesTyped, C!TypeOK
<1>2. Exchange
  BY <1>1 DEF Exchange
<1>3. MaxNow \in Nat /\ has \subseteq Nat
  BY <1>1, CandleSettings DEF C!Settings
<1>4. now \in Nat
  BY <1>1, <1>3
<1> QED
  BY <1>1, <1>2, <1>3, <1>4

LEMMA TypedInit == C!Init => CandlesTyped
<1> SUFFICES ASSUME C!Init PROVE CandlesTyped
  OBVIOUS
<1>1. /\ has \in Histories /\ MaxNow \in Nat /\ MaxNow >= 1
      /\ op = [p \in C!Processes |-> C!Idle]
      /\ now = C!Max(stored \cup partial \cup {0}) + 1
  BY CandleSettings DEF C!Init, C!Settings
<1>2. PICK s \in Stores : stored = s.bars \cap has /\ partial = s.partial \cap has
  BY DEF C!Init
<1>3. s.bars \subseteq 0..(MaxNow - 1) /\ s.partial \subseteq s.bars
  BY CandleSettings, Zenon DEF C!Settings
<1>4. stored \subseteq has /\ partial \subseteq stored /\ stored \subseteq 0..(MaxNow - 1)
  BY <1>2, <1>3
<1>5. now \in 0..MaxNow /\ \A b \in stored : b < now
  <2> DEFINE T == stored \cup partial \cup {0}
  <2>1. MaxNow - 1 \in Nat /\ T \subseteq 0..(MaxNow - 1) /\ T # {}
    BY <1>1, <1>4
  <2>2. C!Max(T) \in Nat /\ C!Max(T) <= MaxNow - 1 /\ \A b \in T : C!Max(T) >= b
    BY <2>1, MaxIs
  <2> HIDE DEF T
  <2>3. now = C!Max(T) + 1
    BY <1>1 DEF T
  <2>4. now \in 0..MaxNow
    BY <1>1, <2>2, <2>3
  <2>5. \A b \in stored : b \in T /\ b \in Nat
    BY <1>4 DEF T
  <2> QED
    BY <2>2, <2>3, <2>4, <2>5
<1>6. C!Idle \in Operations /\ C!Idle.at = "idle"
  BY DEF C!Idle, Operations
<1>7. op \in [C!Processes -> Operations] /\ \A p \in C!Processes : op[p].at = "idle"
  BY <1>1, <1>6
<1>8. C!TypeOK
  BY <1>1, <1>4, <1>5, <1>7 DEF C!TypeOK
<1> QED
  BY <1>7, <1>8 DEF CandlesTyped

\* A step of one process that leaves it in order keeps the types.
LEMMA TypedAfter ==
    ASSUME CandlesTyped, NEW p \in C!Processes, NEW o \in Operations,
           op' = [op EXCEPT ![p] = o], has' = has, now' = now,
           o.at = "fetch" => o.ranges # <<>> /\ \A i \in DOMAIN o.ranges : InOrder(o.ranges[i], now),
           stored' \subseteq has, partial' \subseteq stored', \A b \in stored' : b < now
    PROVE  CandlesTyped'
<1>1. op \in [C!Processes -> Operations]
  BY DEF CandlesTyped
<1>2. /\ op' \in [C!Processes -> Operations] /\ op'[p] = o
      /\ \A q \in C!Processes : q # p => op'[q] = op[q]
  BY <1>1
<1>3. ASSUME NEW q \in C!Processes, op'[q].at = "fetch"
      PROVE  op'[q].ranges # <<>> /\ \A i \in DOMAIN op'[q].ranges : InOrder(op'[q].ranges[i], now')
  <2>2. CASE q = p
    BY <1>2, <1>3, <2>2
  <2>3. CASE q # p
    <3>1. op'[q] = op[q]
      BY <1>2, <2>3, Zenon
    <3>2. op[q].ranges # <<>> /\ \A i \in DOMAIN op[q].ranges : InOrder(op[q].ranges[i], now)
      BY <1>3, <3>1, Zenon DEF CandlesTyped
    <3> QED
      BY <3>1, <3>2
  <2> QED
    BY <2>2, <2>3
<1>4. \A q \in C!Processes : op'[q].at \in {"idle", "fetch", "serve", "fallback"}
  BY <1>2 DEF Operations
<1>5. C!TypeOK'
  BY <1>4 DEF CandlesTyped, C!TypeOK
<1> QED
  BY <1>2, <1>3, <1>5 DEF CandlesTyped

LEMMA BeginTyped == ASSUME CandlesTyped, NEW p \in C!Processes, C!Begin(p) PROVE CandlesTyped'
<1> DEFINE start == now - Wanted[p]
           low == C!Max({C!Max(stored) - C!RepairBars, start})
           oldest == C!Min(stored)
           ranges == C!Ranges(start, now)
           o == [at |-> "fetch", until |-> now, ranges |-> ranges]
<1>1. /\ now \in Nat /\ stored \subseteq has /\ partial \subseteq stored
      /\ \A b \in stored : b \in Nat /\ b < now
  BY TypedFacts
<1>2. Wanted[p] \in Nat /\ now > Wanted[p] /\ op' = [op EXCEPT ![p] = o]
      /\ has' = has /\ now' = now /\ stored' = stored /\ partial' = partial
  BY ShortestIs DEF C!Begin
<1>3. start \in Nat /\ start <= now
  BY <1>1, <1>2
<1>4. \/ stored = {} /\ ranges = <<<<start, now>>>>
      \/ stored # {} /\ start < oldest /\ ranges = <<<<start, oldest>>, <<low, now>>>>
      \/ stored # {} /\ ranges = <<<<low, now>>>>
  BY Zenon DEF C!Ranges
<1> HIDE DEF start
<1>5. ASSUME stored # {} PROVE oldest \in Nat /\ oldest <= now /\ low \in Nat /\ low <= now
  <2>1. /\ C!Max(stored) \in Nat /\ C!Max(stored) < now
        /\ oldest \in Nat /\ oldest <= C!Max(stored)
    BY <1>1, <1>5, Ends
  <2>2. low = IF C!Max(stored) - 2 >= start THEN C!Max(stored) - 2 ELSE start
    <3>1. C!Max(stored) - 2 \in Int /\ start \in Int
      BY <1>3, <2>1
    <3> QED
      BY <3>1, MaxOfTwo DEF C!RepairBars
  <2> QED
    BY <1>1, <1>3, <2>1, <2>2
<1> HIDE DEF low, oldest, ranges
<1>6. /\ ranges # <<>> /\ ranges \in Seq(Nat \X Nat)
      /\ \A i \in DOMAIN ranges : InOrder(ranges[i], now)
  <2>1. CASE ranges = <<<<start, now>>>>
    BY <1>1, <1>3, <2>1 DEF InOrder
  <2>2. CASE stored # {} /\ start < oldest /\ ranges = <<<<start, oldest>>, <<low, now>>>>
    <3>1. oldest \in Nat /\ oldest <= now /\ low \in Nat /\ low <= now /\ start <= oldest
      BY <1>3, <1>5, <2>2
    <3> QED
      BY <1>1, <1>3, <2>2, <3>1 DEF InOrder
  <2>3. CASE stored # {} /\ ranges = <<<<low, now>>>>
    BY <1>1, <1>5, <2>3 DEF InOrder
  <2> QED
    BY <1>4, <2>1, <2>2, <2>3
<1>7. o \in Operations /\ o.at = "fetch" /\ o.ranges = ranges
  BY <1>1, <1>6 DEF Operations
<1> HIDE DEF o
<1> QED
  BY <1>1, <1>2, <1>6, <1>7, TypedAfter

LEMMA FetchRangeTyped == ASSUME CandlesTyped, NEW p \in C!Processes, C!FetchRange(p) PROVE CandlesTyped'
<1> DEFINE ranges == op[p].ranges
           r == Head(ranges)
           rest == Tail(ranges)
           bars == C!Fetch(r[1], r[2])
<1>1. /\ op[p].at = "fetch" /\ stored' = stored \cup bars /\ partial' = partial \ bars
      /\ has' = has /\ now' = now
      /\ op' = [op EXCEPT ![p] = IF rest # <<>> THEN [@ EXCEPT !.ranges = rest]
                                 ELSE IF p = Bot THEN [@ EXCEPT !.at = "serve", !.ranges = <<>>]
                                 ELSE C!Idle]
  BY DEF C!FetchRange
<1>2. op[p] \in Operations /\ ranges # <<>> /\ \A i \in DOMAIN ranges : InOrder(ranges[i], now)
  BY <1>1 DEF CandlesTyped
<1>3. PICK u : u = op[p].until
  OBVIOUS
<1> DEFINE o == IF rest # <<>> THEN [at |-> "fetch", until |-> u, ranges |-> rest]
                ELSE IF p = Bot THEN [at |-> "serve", until |-> u, ranges |-> <<>>]
                ELSE C!Idle
<1>4. op' = [op EXCEPT ![p] = o]
  <2>1. [op[p] EXCEPT !.ranges = rest] = [at |-> "fetch", until |-> u, ranges |-> rest]
    <3>1. PICK a, s : op[p] = [at |-> a, until |-> u, ranges |-> s] /\ a = "fetch"
      BY <1>1, <1>2, <1>3 DEF Operations
    <3> HIDE DEF rest
    <3> QED
      BY <3>1
  <2>2. [op[p] EXCEPT !.at = "serve", !.ranges = <<>>] = [at |-> "serve", until |-> u, ranges |-> <<>>]
    BY <1>2, <1>3, OperationEdited
  <2>3. op \in [C!Processes -> Operations]
    BY DEF CandlesTyped
  <2>4. op' = [op EXCEPT ![p] = IF rest # <<>> THEN [op[p] EXCEPT !.ranges = rest]
                                ELSE IF p = Bot THEN [op[p] EXCEPT !.at = "serve", !.ranges = <<>>]
                                ELSE C!Idle]
    BY <1>1
  <2> QED
    BY <2>1, <2>2, <2>4
<1>5. /\ rest \in Seq(Nat \X Nat) /\ r \in Nat \X Nat /\ InOrder(r, now)
      /\ \A i \in DOMAIN rest : InOrder(rest[i], now)
  <2>1. ranges \in Seq(Nat \X Nat) /\ ranges # <<>>
    BY <1>2 DEF Operations
  <2>2. 1 \in DOMAIN ranges /\ r = ranges[1] /\ r \in Nat \X Nat /\ rest \in Seq(Nat \X Nat)
        /\ \A i \in DOMAIN rest : i + 1 \in DOMAIN ranges /\ rest[i] = ranges[i + 1]
    <3> HIDE DEF ranges
    <3> QED
      BY <2>1
  <2> QED
    BY <1>2, <2>2
<1>6. o \in Operations
  <2>1. u \in Nat
    BY <1>2, <1>3 DEF Operations
  <2> HIDE DEF rest
  <2> QED
    BY <1>5, <2>1 DEF Operations, C!Idle
<1>7. o.at = "fetch" => o.ranges # <<>> /\ \A i \in DOMAIN o.ranges : InOrder(o.ranges[i], now)
  BY <1>5 DEF C!Idle
<1>8. bars \subseteq {b \in has : b < now}
  <2>1. /\ Exchange /\ now \in Nat /\ has \subseteq Nat
    BY TypedFacts
  <2>2. r[1] \in Nat /\ r[2] \in Nat /\ r[1] <= r[2] /\ r[2] <= now
    BY <1>5 DEF InOrder
  <2>3. bars \subseteq {b \in has : b < r[2]}
    BY <2>1, <2>2, FetchCloses
  <2> HIDE DEF bars, r
  <2> QED
    BY <2>1, <2>2, <2>3
<1> HIDE DEF o, bars
<1>9. stored' \subseteq has /\ partial' \subseteq stored' /\ \A b \in stored' : b < now
  BY <1>1, <1>8, TypedFacts
<1> QED
  BY <1>1, <1>4, <1>6, <1>7, <1>9, TypedAfter

LEMMA CandlesTypedNext == CandlesTyped /\ (C!Next \/ UNCHANGED candles) => CandlesTyped'
<1> SUFFICES ASSUME CandlesTyped, C!Next \/ UNCHANGED candles PROVE CandlesTyped'
  OBVIOUS
<1>1. /\ now \in Nat /\ MaxNow \in Nat /\ stored \subseteq has /\ partial \subseteq stored
      /\ \A b \in stored : b \in Nat /\ b < now
  BY TypedFacts
<1>2. ASSUME NEW p \in C!Processes, C!FetchFails(p) PROVE CandlesTyped'
  <2>1. op[p] \in Operations
    BY DEF CandlesTyped
  <2>2. PICK o \in Operations : op' = [op EXCEPT ![p] = o] /\ o.at # "fetch"
    <3>1. CASE op' = [op EXCEPT ![p] = C!Idle]
      <4>1. C!Idle \in Operations /\ C!Idle.at # "fetch"
        BY DEF C!Idle, Operations
      <4> QED
        BY <3>1, <4>1
    <3>2. CASE op' = [op EXCEPT ![p] = [@ EXCEPT !.at = "fallback", !.ranges = <<>>]]
      <4> DEFINE o == [op[p] EXCEPT !.at = "fallback", !.ranges = <<>>]
      <4>1. o \in Operations /\ o.at = "fallback"
        <5>1. o = [at |-> "fallback", until |-> op[p].until, ranges |-> <<>>]
          BY <2>1, OperationEdited
        <5> HIDE DEF o
        <5> QED
          BY <2>1, <5>1 DEF Operations
      <4>2. op' = [op EXCEPT ![p] = o]
        BY <3>2
      <4> HIDE DEF o
      <4> QED
        BY <4>1, <4>2
    <3> QED
      BY <1>2, <3>1, <3>2 DEF C!FetchFails
  <2>3. has' = has /\ now' = now /\ stored' = stored /\ partial' = partial
    BY <1>2 DEF C!FetchFails
  <2> QED
    BY <1>1, <2>2, <2>3, TypedAfter
<1>3. ASSUME C!Serve PROVE CandlesTyped'
  <2>1. C!Idle \in Operations /\ C!Idle.at # "fetch" /\ Bot \in C!Processes
    BY DEF C!Idle, Operations, C!Processes
  <2>2. has' = has /\ now' = now /\ stored' = stored /\ partial' = partial
        /\ op' = [op EXCEPT ![Bot] = C!Idle]
    BY <1>3 DEF C!Serve
  <2> QED
    BY <1>1, <2>1, <2>2, TypedAfter
<1>4. ASSUME \/ C!Tick
             \/ UNCHANGED candles
      PROVE  CandlesTyped'
  <2>1. /\ has' = has /\ stored' = stored /\ partial' = partial /\ op' = op
        /\ now' \in 0..MaxNow /\ now <= now'
    BY <1>1, <1>4 DEF C!Tick, candles, CandlesTyped, C!TypeOK
  <2>2. now' \in Nat
    BY <1>1, <2>1
  <2>3. \A b \in stored' : b < now'
    BY <1>1, <2>1, <2>2
  <2>4. C!TypeOK'
    BY <2>1, <2>3 DEF CandlesTyped, C!TypeOK
  <2>5. ASSUME NEW r \in Nat \X Nat, InOrder(r, now) PROVE InOrder(r, now')
    BY <1>1, <2>1, <2>2, <2>5 DEF InOrder
  <2>6. ASSUME NEW p \in C!Processes, op[p].at = "fetch", NEW i \in DOMAIN op[p].ranges
        PROVE  InOrder(op[p].ranges[i], now')
    <3>1. PICK s : s = op[p].ranges
      OBVIOUS
    <3>2. s \in Seq(Nat \X Nat) /\ i \in DOMAIN s /\ InOrder(s[i], now)
      BY <2>6, <3>1 DEF CandlesTyped, Operations
    <3>3. s[i] \in Nat \X Nat
      BY <3>2
    <3>4. InOrder(s[i], now')
      BY <2>5, <3>2, <3>3
    <3> QED
      BY <3>1, <3>4
  <2> QED
    BY <2>1, <2>4, <2>6 DEF CandlesTyped
<1> QED
  BY <1>2, <1>3, <1>4, BeginTyped, FetchRangeTyped DEF C!Next

-----------------------------------------------------------------------------
(***************************************************************************)
(* The held-out period never starts anew and was never selected on, for    *)
(* any markets, lookback and held-out length, however often it is judged   *)
(* while the store grows at both ends.                                     *)
(***************************************************************************)

LEMMA NewerOfTwo == \A a, b \in Int : H!Max({a, b}) = IF a >= b THEN a ELSE b
<1>1. \A T : H!Max(T) = C!Max(T)
  BY DEF H!Max, C!Max
<1> QED
  BY <1>1, MaxOfTwo

\* Numbers that the argument needs the types of.
Numbers ==
    /\ first \in Int /\ last \in Int
    /\ pinned \in Int \cup {None}

\* What the backtest ran over lies before any period that a first attempt, now or
\* later, can hold out: `last` only grows.
SelectedEarly == \A b \in selected : b \in Int /\ b < last + 1 - HoldoutBars

HoldoutInv ==
    /\ Numbers
    /\ pinned = None => SelectedEarly
    /\ H!HeldOutUnseen

\* The period judged at an attempt: from the pinned start on, once there is one.
LEMMA PeriodStart ==
    ASSUME Numbers
    PROVE  /\ H!Start \in Int /\ H!HoldoutStart \in Int
           /\ H!HoldoutStart >= last + 1 - HoldoutBars
           /\ pinned = None => H!Period(pinned).start = H!HoldoutStart
           /\ pinned # None => H!Period(pinned).start = IF pinned >= H!Start THEN pinned ELSE H!Start
<1>1. H!Start \in Int /\ last + 1 - HoldoutBars \in Int
  BY HoldoutSettings DEF H!Settings, Numbers, H!Start
<1>2. H!HoldoutStart = IF last + 1 - HoldoutBars >= H!Start THEN last + 1 - HoldoutBars ELSE H!Start
  BY <1>1, NewerOfTwo, Zenon DEF H!HoldoutStart
<1>3. H!HoldoutStart \in Int /\ H!HoldoutStart >= last + 1 - HoldoutBars
  BY <1>1, <1>2
<1>4. ASSUME pinned # None
      PROVE  H!Max({pinned, H!Start}) = IF pinned >= H!Start THEN pinned ELSE H!Start
  BY <1>1, <1>4, NewerOfTwo DEF Numbers
<1> QED
  BY <1>1, <1>3, <1>4, Zenon DEF H!Period

\* An attempt pins the start of its period, or leaves the pinned one.
Attempt == pinned' = IF H!Period(pinned).bars = {} \/ H!Period(pinned).start <= H!Start
                     THEN pinned ELSE H!Period(pinned).start

LEMMA AttemptPins ==
    ASSUME Numbers, Attempt
    PROVE  /\ pinned # None => pinned' = pinned
           /\ pinned = None => pinned' \in {None, H!HoldoutStart}
<1>1. ASSUME pinned # None PROVE pinned' = pinned
  <2>1. pinned \in Int /\ H!Start \in Int
        /\ H!Period(pinned).start = IF pinned >= H!Start THEN pinned ELSE H!Start
    BY <1>1, PeriodStart DEF Numbers
  <2> QED
    BY <2>1 DEF Attempt
<1>2. ASSUME pinned = None PROVE pinned' \in {None, H!HoldoutStart}
  BY <1>2, PeriodStart, Zenon DEF Attempt
<1> QED
  BY <1>1, <1>2

\* Only attempts touch the pinned start.
LEMMA PinnedBy ==
    H!Next => \/ H!Backtest \/ H!NewBar \/ H!Backfill
              \/ UNCHANGED <<first, last, selected, pinned>>
              \/ Attempt /\ UNCHANGED <<first, last, selected>>
BY Zenon DEF H!Next, H!Promote, H!PromoteCut, Attempt

LEMMA PinKept ==
    ASSUME Numbers, H!Next \/ UNCHANGED holdout
    PROVE  (pinned # None => pinned' = pinned) \/ UNCHANGED H!holdoutvars
BY AttemptPins, PinnedBy DEF H!Backtest, H!NewBar, H!Backfill, H!holdoutvars, holdout

\* A backtest has bars to run over, so its held-out period starts a full length
\* before the newest bar.
LEMMA BacktestEarly ==
    ASSUME Numbers, H!Backtest, pinned = None
    PROVE  SelectedEarly'
<1>1. H!Start \in Int /\ H!HoldoutStart \in Int /\ last + 1 - HoldoutBars \in Int
      /\ H!HoldoutStart = IF last + 1 - HoldoutBars >= H!Start THEN last + 1 - HoldoutBars ELSE H!Start
  <2>1. H!Start \in Int /\ last + 1 - HoldoutBars \in Int
    BY HoldoutSettings DEF H!Settings, Numbers, H!Start
  <2> QED
    BY <2>1, PeriodStart, NewerOfTwo, Zenon DEF H!HoldoutStart
<1>2. selected' = H!Start..(H!HoldoutStart - 1) /\ last' = last
  BY DEF H!Backtest
<1>3. H!Start..(H!HoldoutStart - 1) # {}
  <2>1. Cardinality(H!Start..(H!HoldoutStart - 1)) >= MinBars
    <3>1. \A T : H!Cardinality(T) = Cardinality(T)
      BY DEF H!Cardinality, Cardinality, H!IsFiniteSet, IsFiniteSet
    <3> QED
      BY <3>1 DEF H!Backtest
  <2>2. ~(0 >= MinBars)
    BY HoldoutSettings DEF H!Settings
  <2> QED
    BY <2>1, <2>2, FS_EmptySet, Zenon
<1>4. H!HoldoutStart = last + 1 - HoldoutBars
  BY <1>1, <1>3
<1> QED
  BY <1>1, <1>2, <1>4 DEF SelectedEarly

LEMMA HoldoutInvInit == H!Init => HoldoutInv
<1> SUFFICES ASSUME H!Init PROVE HoldoutInv
  OBVIOUS
<1>1. first \in Int /\ last \in Int
  BY HoldoutSettings DEF H!Init, H!Settings
<1> QED
  BY <1>1 DEF H!Init, HoldoutInv, Numbers, SelectedEarly, H!HeldOutUnseen

LEMMA HoldoutInvNext == HoldoutInv /\ (H!Next \/ UNCHANGED holdout) => HoldoutInv'
<1> SUFFICES ASSUME HoldoutInv, H!Next \/ UNCHANGED holdout PROVE HoldoutInv'
  OBVIOUS
<1>1. CASE Attempt /\ UNCHANGED <<first, last, selected>>
  <2>1. /\ pinned # None => pinned' = pinned
        /\ pinned = None => pinned' \in {None, H!HoldoutStart}
    BY <1>1, AttemptPins DEF HoldoutInv
  <2>2. H!HoldoutStart \in Int /\ H!HoldoutStart >= last + 1 - HoldoutBars /\ last + 1 - HoldoutBars \in Int
    BY PeriodStart, HoldoutSettings DEF HoldoutInv, Numbers, H!Settings
  <2>3. Numbers'
    BY <1>1, <2>1, <2>2 DEF HoldoutInv, Numbers
  <2>4. CASE pinned' = pinned
    BY <1>1, <2>3, <2>4 DEF HoldoutInv, SelectedEarly, H!HeldOutUnseen
  <2>5. CASE pinned = None /\ pinned' = H!HoldoutStart
    <3>1. \A b \in selected : b < H!HoldoutStart
      BY <2>2, <2>5 DEF HoldoutInv, SelectedEarly
    <3>2. pinned' # None
      BY <2>2, <2>5, HoldoutSettings DEF H!Settings
    <3> QED
      BY <1>1, <2>3, <2>5, <3>1, <3>2 DEF HoldoutInv, H!HeldOutUnseen
  <2> QED
    BY <2>1, <2>4, <2>5
<1>2. CASE H!Backtest
  <2>1. Numbers' /\ pinned' = pinned
    BY <1>2 DEF H!Backtest, HoldoutInv, Numbers
  <2>2. CASE pinned = None
    BY <1>2, <2>1, <2>2, BacktestEarly DEF HoldoutInv, H!HeldOutUnseen
  <2>3. CASE pinned # None
    BY <1>2, <2>1, <2>3 DEF H!Backtest, HoldoutInv, H!HeldOutUnseen
  <2> QED
    BY <2>2, <2>3
<1>3. CASE H!NewBar
  <2>1. Numbers' /\ pinned' = pinned /\ selected' = selected /\ last' = last + 1
    BY <1>3 DEF H!NewBar, HoldoutInv, Numbers
  <2>2. last \in Int /\ HoldoutBars \in Int
    BY HoldoutSettings DEF HoldoutInv, Numbers, H!Settings
  <2> QED
    BY <2>1, <2>2 DEF HoldoutInv, SelectedEarly, H!HeldOutUnseen
<1>4. CASE H!Backfill
  BY <1>4, HoldoutSettings DEF H!Backfill, HoldoutInv, Numbers, SelectedEarly, H!HeldOutUnseen, H!Settings
<1>5. CASE UNCHANGED <<first, last, selected, pinned>>
  BY <1>5 DEF HoldoutInv, Numbers, SelectedEarly, H!HeldOutUnseen
<1> QED
  BY <1>1, <1>2, <1>3, <1>4, <1>5, PinnedBy DEF holdout

-----------------------------------------------------------------------------
(***************************************************************************)
(* Merged ranges of the recorder have no second that is in none of them    *)
(***************************************************************************)

\* One more joining of a range s with those it reaches.
Reached(spans, s, v) == {v} \cup {t[2] : t \in {u \in spans : u[1] >= s[1] /\ S!Joins(<<s[1], v>>, u)}}
ReachStep(spans, s, n, f) ==
    [k \in 0..n |-> IF k = 0 THEN s[2] ELSE S!Max(Reached(spans, s, f[k - 1]))]

\* Ranges of seconds up to m, and a second that is in one of them.
Spans(spans, m) == \A s \in spans : s[1] \in Nat /\ s[2] \in 0..m
Inside(spans, b) == \E t \in spans : t[1] <= b /\ b <= t[2]
Reaches(spans, s, m, v) == v \in 0..m /\ \A b \in Nat : s[1] <= b /\ b <= v => Inside(spans, b)

LEMMA ReachGoesOn ==
    ASSUME NEW m \in Nat, NEW spans, Spans(spans, m), NEW s \in spans,
           NEW v, Reaches(spans, s, m, v)
    PROVE  Reaches(spans, s, m, S!Max(Reached(spans, s, v)))
<1> DEFINE T == Reached(spans, s, v)
           w == C!Max(T)
<1>1. v \in Nat /\ v <= m
  BY DEF Reaches
<1>2. T \subseteq 0..m /\ T # {}
  BY <1>1 DEF Reached, Spans
<1>3. w \in T /\ w \in Nat /\ w <= m
  BY <1>2, MaxIs
<1>4. S!Max(T) = w
  BY DEF S!Max, C!Max
<1> HIDE DEF w
<1>5. ASSUME NEW b \in Nat, s[1] <= b, b <= w PROVE Inside(spans, b)
  <2>1. CASE b <= v
    BY <1>5, <2>1 DEF Reaches
  <2>2. CASE ~(b <= v)
    <3>1. w # v
      BY <1>1, <1>5, <2>2
    <3>2. PICK t \in spans : t[2] = w /\ S!Joins(<<s[1], v>>, t)
      BY <1>3, <3>1 DEF Reached
    <3>3. t[1] <= v + 1 /\ t[1] \in Nat
      BY <3>2 DEF S!Joins, Spans
    <3>4. t[1] <= b
      BY <1>1, <2>2, <3>3
    <3> QED
      BY <1>5, <3>2, <3>4 DEF Inside
  <2> QED
    BY <2>1, <2>2
<1>6. w \in 0..m
  BY <1>3
<1> QED
  BY <1>4, <1>5, <1>6 DEF Reaches

\* The recursion is defined, however many ranges there are.
LEMMA ReachExists ==
    ASSUME NEW spans, NEW s, NEW n \in Nat
    PROVE  \E f : f = ReachStep(spans, s, n, f)
<1> DEFINE Bad == {k \in Nat : ~ \E f : f = ReachStep(spans, s, k, f)}
<1> SUFFICES ASSUME Bad # {} PROVE FALSE
  OBVIOUS
<1>1. PICK k \in Bad : \A j \in Bad : k <= j
  <2>1. Bad \subseteq Nat
    OBVIOUS
  <2> QED
    BY <2>1, LeastExists
<1>2. k \in Nat /\ ~ \E f : f = ReachStep(spans, s, k, f)
  BY <1>1
<1>3. CASE k = 0
  <2> DEFINE f == [i \in 0..0 |-> s[2]]
  <2>1. f = ReachStep(spans, s, 0, f)
    BY DEF ReachStep
  <2> QED
    BY <1>2, <1>3, <2>1
<1>4. CASE k # 0
  <2>1. k - 1 \in Nat /\ k - 1 \notin Bad
    BY <1>1, <1>2, <1>4
  <2>2. PICK g : g = ReachStep(spans, s, k - 1, g)
    BY <2>1
  <2> DEFINE f == [i \in 0..k |-> IF i = k THEN S!Max(Reached(spans, s, g[k - 1])) ELSE g[i]]
  <2>3. \A i \in 0..(k - 1) : f[i] = g[i]
    BY <2>1, <1>2
  <2>4. \A i \in 0..(k - 1) : g[i] = IF i = 0 THEN s[2] ELSE S!Max(Reached(spans, s, g[i - 1]))
    BY <2>2, Zenon DEF ReachStep
  <2>5. f[k] = S!Max(Reached(spans, s, g[k - 1]))
    BY <1>2
  <2>6. ASSUME NEW i \in 0..k
        PROVE  f[i] = IF i = 0 THEN s[2] ELSE S!Max(Reached(spans, s, f[i - 1]))
    <3> HIDE DEF f
    <3>1. CASE i = k
      <4>1. k - 1 \in 0..(k - 1)
        BY <1>2, <1>4
      <4>2. f[k - 1] = g[k - 1]
        BY <2>3, <4>1
      <4> QED
        BY <1>4, <2>5, <3>1, <4>2
    <3>2. CASE i # k /\ i = 0
      <4>1. 0 \in 0..(k - 1)
        BY <1>2, <1>4
      <4> QED
        BY <2>3, <2>4, <3>2, <4>1
    <3>3. CASE i # k /\ i # 0
      <4>1. i \in 0..(k - 1) /\ i - 1 \in 0..(k - 1)
        BY <1>2, <1>4, <3>3
      <4>2. f[i] = g[i] /\ f[i - 1] = g[i - 1]
        BY <2>3, <4>1
      <4>3. g[i] = S!Max(Reached(spans, s, g[i - 1]))
        BY <2>4, <3>3, <4>1
      <4> QED
        BY <3>3, <4>2, <4>3
    <3> QED
      BY <3>1, <3>2, <3>3
  <2>7. f = ReachStep(spans, s, k, f)
    <3>1. ReachStep(spans, s, k, f) = [i \in 0..k |-> f[i]]
      BY <2>6 DEF ReachStep
    <3> QED
      BY <3>1
  <2> QED
    BY <1>2, <2>7
<1> QED
  BY <1>3, <1>4

LEMMA ReachStays ==
    ASSUME NEW m \in Nat, NEW spans, Spans(spans, m), NEW s \in spans, NEW n \in Nat,
           NEW f, f = ReachStep(spans, s, n, f), NEW i \in 0..n
    PROVE  Reaches(spans, s, m, f[i])
<1> DEFINE Bad == {k \in 0..n : ~Reaches(spans, s, m, f[k])}
<1> SUFFICES ASSUME Bad # {} PROVE FALSE
  OBVIOUS
<1>1. PICK k \in Bad : \A j \in Bad : k <= j
  <2>1. Bad \subseteq Nat
    OBVIOUS
  <2> QED
    BY <2>1, LeastExists
<1>2. k \in 0..n /\ k \in Nat /\ ~Reaches(spans, s, m, f[k])
  BY <1>1
<1>3. \A j \in 0..n : f[j] = IF j = 0 THEN s[2] ELSE S!Max(Reached(spans, s, f[j - 1]))
  BY Zenon DEF ReachStep
<1>4. CASE k = 0
  <2>1. f[k] = s[2] /\ s[2] \in 0..m
    BY <1>2, <1>3, <1>4 DEF Spans
  <2>2. Reaches(spans, s, m, s[2])
    BY <2>1 DEF Reaches, Inside
  <2> QED
    BY <1>2, <2>1, <2>2
<1>5. CASE k # 0
  <2>1. k - 1 \in 0..n /\ k - 1 \notin Bad
    BY <1>1, <1>2, <1>5
  <2>2. Reaches(spans, s, m, f[k - 1])
    BY <2>1
  <2>3. f[k] = S!Max(Reached(spans, s, f[k - 1]))
    BY <1>2, <1>3, <1>5
  <2> QED
    BY <1>2, <2>2, <2>3, ReachGoesOn
<1> QED
  BY <1>4, <1>5

LEMMA MergedReaches ==
    ASSUME NEW m \in Nat, NEW spans, IsFiniteSet(spans), Spans(spans, m), NEW s \in spans
    PROVE  Reaches(spans, s, m, S!MergedEnd(spans, s))
<1> DEFINE n == S!Cardinality(spans)
           f == CHOOSE f : f = ReachStep(spans, s, n, f)
<1>1. n \in Nat
  <2>1. n = Cardinality(spans)
    BY DEF S!Cardinality, Cardinality, S!IsFiniteSet, IsFiniteSet
  <2> QED
    BY <2>1, FS_CardinalityType
<1>2. S!MergedEnd(spans, s) = f[n]
  BY DEF S!MergedEnd, ReachStep, Reached
<1> HIDE DEF n
<1>3. f = ReachStep(spans, s, n, f)
  BY <1>1, ReachExists
<1> HIDE DEF f
<1>4. n \in 0..n
  BY <1>1
<1>5. Reaches(spans, s, m, f[n])
  BY <1>1, <1>3, <1>4, ReachStays
<1> QED
  BY <1>2, <1>5

\* Every second of a merged range is in one of the ranges merged.
LEMMA MergedInside ==
    ASSUME NEW m \in Nat, NEW spans, IsFiniteSet(spans), Spans(spans, m), NEW s \in spans,
           NEW b \in Nat, s[1] <= b, b <= S!MergedEnd(spans, s)
    PROVE  Inside(spans, b)
BY MergedReaches DEF Reaches

LEMMA MergedIsSecond ==
    ASSUME NEW m \in Nat, NEW spans, IsFiniteSet(spans), Spans(spans, m), NEW s \in spans
    PROVE  S!MergedEnd(spans, s) \in Nat
<1>1. S!MergedEnd(spans, s) \in 0..m
  BY MergedReaches DEF Reaches
<1> QED
  BY <1>1

-----------------------------------------------------------------------------
(***************************************************************************)
(* The invariant of the recorder                                           *)
(***************************************************************************)

\* What an import covers it stored.
RowsStored ==
    \A r \in rows, f \in S!FeedNames : \A b \in posted[f] :
        r[1] <= b /\ b <= r[2] => b \in items[f]

\* An item is known from an import, or from an answer to a request after it.
KnownFrom ==
    \A f \in S!FeedNames : \A x \in items[f] :
        S!Imported(x) \/ \E r \in fetches : r.feed = f /\ r.parsed /\ x <= r.at

\* What the recorder answers for is stored.
VouchedStored ==
    \A f \in S!FeedNames : \A b \in posted[f] :
        S!Vouched(f, b) /\ ~S!Imported(b) => b \in items[f]

RecorderInv ==
    /\ S!TypeOK /\ items \in [S!FeedNames -> SUBSET Nat] /\ IsFiniteSet(rows)
    /\ RowsStored /\ KnownFrom /\ VouchedStored

LEMMA RecorderTypes ==
    ASSUME S!TypeOK
    PROVE  /\ second \in Nat /\ second >= 1 /\ MaxClock \in Nat
           /\ PageSize \in Nat \ {0}
           /\ \A f \in S!FeedNames :
                 /\ \A b \in posted[f] : b \in Nat /\ b >= 1
                 /\ \A b \in items[f] : b \in posted[f] /\ b <= second
           /\ \A r \in fetches : r.feed \in S!FeedNames /\ r.at \in Nat /\ r.at <= second
           /\ \A r \in rows : r[1] \in Nat /\ r[1] >= 1 /\ r[2] \in Nat /\ r[1] <= r[2] /\ r[2] <= second
<1>1. MaxClock \in Nat /\ PageSize \in Nat \ {0}
      /\ Postings \subseteq [S!FeedNames -> SUBSET (Nat \ {0})]
  BY RecorderSettings DEF S!Settings
<1>2. second \in Nat /\ second >= 1
  BY <1>1 DEF S!TypeOK
<1>3. \A f \in S!FeedNames : posted[f] \subseteq Nat \ {0}
  BY <1>1 DEF S!TypeOK
<1>4. ASSUME NEW f \in S!FeedNames
      PROVE  /\ \A b \in posted[f] : b \in Nat /\ b >= 1
             /\ \A b \in items[f] : b \in posted[f] /\ b <= second
  <2>1. items[f] \subseteq posted[f] \cap (1..second)
    BY DEF S!TypeOK
  <2> QED
    BY <1>2, <1>3, <2>1
<1>5. \A r \in fetches : r.feed \in S!FeedNames /\ r.at \in Nat /\ r.at <= second
  BY <1>2 DEF S!TypeOK
<1>6. \A r \in rows : r[1] \in Nat /\ r[1] >= 1 /\ r[2] \in Nat /\ r[1] <= r[2] /\ r[2] <= second
  BY <1>2 DEF S!TypeOK
<1> QED
  BY <1>1, <1>2, <1>4, <1>5, <1>6

\* A batch has the newest items: with one, every newer one, and the newest of all.
LEMMA BatchUpward ==
    ASSUME NEW n \in Nat, NEW T, T \subseteq 0..n, NEW k \in Nat \ {0}
    PROVE  /\ \A x \in S!Newest(T, k), b \in T : x <= b => b \in S!Newest(T, k)
           /\ n \in T => n \in S!Newest(T, k)
           /\ T # {} => S!Newest(T, k) # {}
<1>1. S!Newest(T, k) = C!Newest(T, k)
  <2>1. \A U : S!Cardinality(U) = C!Cardinality(U)
    BY DEF S!Cardinality, C!Cardinality, S!IsFiniteSet, C!IsFiniteSet
  <2> QED
    BY <2>1 DEF S!Newest, C!Newest
<1>2. \A x \in C!Newest(T, k), b \in T : x <= b => b \in C!Newest(T, k)
  BY NewestUpward
<1>3. ASSUME NEW b \in T, \A c \in T : c <= b PROVE b \in S!Newest(T, k)
  <2>1. {c \in T : c > b} = {}
    <3> SUFFICES ASSUME NEW c \in T, c > b PROVE FALSE
      OBVIOUS
    <3>1. c \in Nat /\ b \in Nat /\ c <= b
      BY <1>3
    <3> QED
      BY <3>1
  <2>2. S!Cardinality({}) = 0
    <3>1. S!Cardinality({}) = Cardinality({})
      BY DEF S!Cardinality, Cardinality, S!IsFiniteSet, IsFiniteSet
    <3> QED
      BY <3>1, FS_EmptySet
  <2>3. S!Cardinality({c \in T : c > b}) < k
    BY <2>1, <2>2
  <2> QED
    BY <2>3 DEF S!Newest
<1>4. n \in T => n \in S!Newest(T, k)
  BY <1>3
<1>5. T # {} => S!Newest(T, k) # {}
  BY <1>3, GreatestExists
<1> QED
  BY <1>1, <1>2, <1>4, <1>5

\* The answers to the requests for a feed.
Reads(f) == {r \in fetches : r.feed = f /\ r.parsed}
Batch(f) == S!Newest({b \in posted[f] : b <= second}, PageSize)

LEMMA VouchedIs ==
    ASSUME NEW f, NEW b
    PROVE  S!Vouched(f, b) <=>
             /\ \E r \in Reads(f) : r.at <= b
             /\ \E r \in Reads(f) : r.at >= b
             /\ \A r \in Reads(f) :
                   r.at >= b /\ r.at = S!Min({q.at : q \in {q \in Reads(f) : q.at >= b}}) => ~r.gap
             /\ \A s \in rows : s[1] <= b
BY DEF S!Vouched, Reads

\* An answer whose batch joins what is known brings all the seconds in between.
LEMMA ReadJoins ==
    ASSUME RecorderInv, NEW f \in S!FeedNames, NEW b \in posted[f], b <= second,
           ~S!Gap(f, Batch(f)), \E r \in Reads(f) : r.at <= b,
           \A r \in Reads(f) : ~(r.at >= b),
           \A s \in rows : s[1] <= b, ~S!Imported(b)
    PROVE  b \in Batch(f)
<1> DEFINE T == {c \in posted[f] : c <= second}
<1>1. S!TypeOK /\ KnownFrom
  BY DEF RecorderInv
<1>2. /\ second \in Nat /\ T \subseteq 0..second /\ b \in T /\ b \in Nat /\ PageSize \in Nat \ {0}
      /\ \A r \in fetches : r.at \in Nat
      /\ \A r \in rows : r[1] \in Nat /\ r[2] \in Nat
      /\ \A x \in items[f] : x \in Nat
  BY <1>1, RecorderTypes
<1>3. Batch(f) = S!Newest(T, PageSize) /\ Batch(f) # {}
  BY <1>2, BatchUpward DEF Batch
<1>4. PICK x \in Batch(f) : x \in items[f]
  <2>1. \E r \in fetches : r.feed = f
    BY DEF Reads
  <2> QED
    BY <1>3, <2>1 DEF S!Gap
<1>5. x <= b
  <2>1. CASE S!Imported(x)
    <3>1. PICK s \in rows : s[1] <= x /\ x <= s[2]
      BY <2>1 DEF S!Imported
    <3>2. s[1] <= b /\ ~(b <= s[2])
      BY DEF S!Imported
    <3> QED
      BY <1>2, <1>4, <3>1, <3>2
  <2>2. CASE \E r \in fetches : r.feed = f /\ r.parsed /\ x <= r.at
    <3>1. PICK r \in Reads(f) : x <= r.at
      BY <2>2 DEF Reads
    <3>2. ~(r.at >= b) /\ r.at \in Nat
      BY <1>2 DEF Reads
    <3> QED
      BY <1>2, <1>4, <3>1, <3>2
  <2> QED
    BY <1>1, <1>4, <2>1, <2>2 DEF KnownFrom
<1>6. \A y \in S!Newest(T, PageSize), c \in T : y <= c => c \in S!Newest(T, PageSize)
  BY <1>2, BatchUpward
<1> QED
  BY <1>2, <1>3, <1>4, <1>5, <1>6, Zenon

\* One more answer to a request for f.
Reply(f, gap) == [feed |-> f, at |-> second, parsed |-> TRUE, gap |-> gap]
Answered(f) ==
    /\ fetches' = fetches \cup {Reply(f, S!Gap(f, Batch(f)))}
    /\ items' = [items EXCEPT ![f] = @ \cup Batch(f)]
    /\ posted' = posted /\ second' = second /\ rows' = rows

\* After it the recorder answers for no second it has not stored.
LEMMA AnswerVouches ==
    ASSUME RecorderInv, NEW f \in S!FeedNames, Answered(f), NEW b \in posted[f],
           S!Vouched(f, b)', ~S!Imported(b)
    PROVE  b \in items[f] \cup Batch(f)
<1> DEFINE new == Reply(f, S!Gap(f, Batch(f)))
           Later(q) == q.at >= b
<1>1. S!TypeOK /\ VouchedStored
  BY DEF RecorderInv
<1>2. /\ second \in Nat /\ b \in Nat /\ PageSize \in Nat \ {0}
      /\ \A r \in fetches : r.at \in Nat /\ r.at <= second
      /\ {c \in posted[f] : c <= second} \subseteq 0..second
  BY <1>1, RecorderTypes
<1>3. /\ new.feed = f /\ new.parsed /\ new.at = second /\ new.gap = S!Gap(f, Batch(f))
      /\ new \in fetches' /\ Reads(f)' = Reads(f) \cup {new} /\ Reads(f) \subseteq fetches
  BY DEF Answered, Reads, Reply
<1> HIDE DEF new
<1>4. /\ \E r \in Reads(f)' : r.at <= b
      /\ \E r \in Reads(f)' : r.at >= b
      /\ \A r \in Reads(f)' :
            r.at >= b /\ r.at = S!Min({q.at : q \in {q \in Reads(f)' : q.at >= b}}) => ~r.gap
      /\ \A s \in rows : s[1] <= b
  <2>1. rows' = rows
    BY DEF Answered
  <2> QED
    BY <2>1 DEF S!Vouched, Reads
<1>5. \A r \in Reads(f)' : r.at \in Nat /\ r.at <= second
  BY <1>2, <1>3
<1>6. b <= second
  BY <1>2, <1>4, <1>5
<1>7. CASE b = second
  <2>1. second \in {c \in posted[f] : c <= second}
    BY <1>2, <1>7
  <2> QED
    BY <1>2, <1>7, <2>1, BatchUpward DEF Batch
<1>8. CASE b # second
  <2>1. b < second
    BY <1>2, <1>6, <1>8
  <2>2. \E r \in Reads(f) : r.at <= b
    BY <1>2, <1>3, <1>4, <2>1
  <2> DEFINE A == {q.at : q \in {q \in Reads(f) : q.at >= b}}
             B == {q.at : q \in {q \in Reads(f)' : q.at >= b}}
  <2>3. B = A \cup {second}
    BY <1>2, <1>3, <2>1
  <2>4. A \subseteq 0..second
    BY <1>2, <1>3
  <2>5. CASE A = {}
    <3>1. B = {second}
      BY <2>3, <2>5
    <3>2. S!Min({second}) = second
      BY <1>2 DEF S!Min
    <3>3. ~new.gap
      BY <1>2, <1>3, <1>4, <2>1, <3>1, <3>2
    <3>4. \A r \in Reads(f) : ~(r.at >= b)
      BY <2>5
    <3> QED
      BY <1>3, <1>4, <1>6, <2>2, <3>3, <3>4, ReadJoins
  <2>6. CASE A # {}
    <3>1. C!Min(A) \in A /\ C!Min(A) \in Nat /\ \A a \in A : C!Min(A) <= a
      <4>1. A \subseteq Nat
        BY <1>2, <2>4
      <4> QED
        BY <2>6, <4>1, MinIs
    <3>2. C!Min(B) \in B /\ C!Min(B) \in Nat /\ \A a \in B : C!Min(B) <= a
      <4>1. B \subseteq Nat /\ B # {}
        BY <1>2, <2>3, <2>4
      <4> QED
        BY <4>1, MinIs
    <3> HIDE DEF A, B
    <3>3. C!Min(A) = C!Min(B)
      <4> DEFINE a == C!Min(A)
                 c == C!Min(B)
      <4>1. a <= second /\ a \in B /\ (c \in A \/ c = second)
        BY <1>2, <2>3, <2>4, <3>1, <3>2
      <4>2. c <= a /\ a \in Nat /\ c \in Nat
        BY <3>1, <3>2, <4>1
      <4>3. a <= c
        BY <1>2, <3>1, <4>1
      <4> HIDE DEF a, c
      <4>4. a = c
        BY <4>2, <4>3
      <4> QED
        BY <4>4 DEF a, c
    <3>4. S!Min(A) = S!Min(B)
      BY <3>3 DEF S!Min, C!Min
    <3>5. \A r \in Reads(f) : r.at >= b /\ r.at = S!Min(A) => ~r.gap
      BY <1>3, <1>4, <3>4 DEF B
    <3>6. \E r \in Reads(f) : r.at >= b
      BY <2>6 DEF A
    <3>7. S!Vouched(f, b)
      BY <1>4, <2>2, <3>5, <3>6, VouchedIs DEF A
    <3> QED
      BY <1>1, <3>7 DEF VouchedStored
  <2> QED
    BY <2>5, <2>6
<1> QED
  BY <1>7, <1>8

LEMMA RecorderNumbers ==
    /\ Len(Feeds) \in Nat /\ Len(Feeds) >= 1 /\ DOMAIN Feeds = 1..Len(Feeds)
    /\ \A i \in 1..Len(Feeds) : Feeds[i] \in S!FeedNames
    /\ Interval \in Nat /\ MaxBackoff \in Nat /\ \A r \in Resets \cup {0} : r \in Nat
    /\ \A a, b \in Int : S!Max({a, b}) = IF a >= b THEN a ELSE b
    /\ \A a, b \in Int : S!Min({a, b}) = IF a <= b THEN a ELSE b
<1>1. /\ Feeds \in Seq(S!FeedNames) /\ Feeds # <<>>
      /\ Interval \in Nat /\ MaxBackoff \in Nat /\ Resets \subseteq Nat
  BY RecorderSettings DEF S!Settings
<1>2. /\ Len(Feeds) \in Nat /\ Len(Feeds) >= 1 /\ DOMAIN Feeds = 1..Len(Feeds)
      /\ \A i \in 1..Len(Feeds) : Feeds[i] \in S!FeedNames
  BY <1>1
<1>3. \A T : S!Max(T) = C!Max(T) /\ S!Min(T) = C!Min(T)
  BY DEF S!Max, C!Max, S!Min, C!Min
<1>4. /\ \A a, b \in Int : S!Max({a, b}) = IF a >= b THEN a ELSE b
      /\ \A a, b \in Int : S!Min({a, b}) = IF a <= b THEN a ELSE b
  BY <1>3, MaxOfTwo, MinOfTwo
<1> QED
  BY <1>1, <1>2, <1>4

\* A request, by what it stores.
StoresReply(f) ==
    \/ fetches' = fetches /\ items' = items
    \/ /\ fetches' = fetches \cup {[feed |-> f, at |-> second, parsed |-> FALSE, gap |-> S!Gap(f, {})]}
       /\ items' = [items EXCEPT ![f] = @ \cup {}]
    \/ Answered(f)

LEMMA RecordStores ==
    ASSUME S!TypeOK, S!Record
    PROVE  /\ posted' = posted /\ second' = second /\ rows' = rows /\ restarts' = restarts
           /\ cursor' \in 1..Len(Feeds) /\ backoff' \in 0..MaxBackoff /\ wait' \in Nat
           /\ \E f \in S!FeedNames : StoresReply(f)
<1> DEFINE f == Feeds[cursor]
<1>1. /\ posted' = posted /\ second' = second /\ rows' = rows /\ restarts' = restarts
  BY DEF S!Record
<1>2. cursor \in 1..Len(Feeds) /\ backoff \in 0..MaxBackoff /\ backoff \in Nat /\ f \in S!FeedNames
  BY RecorderNumbers DEF S!TypeOK
<1>3. S!Advance => cursor' \in 1..Len(Feeds)
  <2>1. \A n \in Nat \ {0} : \A c \in 1..n : (c % n) + 1 \in 1..n
    <3> SUFFICES ASSUME NEW n \in Nat \ {0}, NEW c \in 1..n PROVE (c % n) + 1 \in 1..n
      OBVIOUS
    <3>1. c % n \in Nat /\ c % n < n
      OBVIOUS
    <3> QED
      BY <3>1
  <2>2. Len(Feeds) \in Nat \ {0}
    BY RecorderNumbers
  <2> QED
    BY <1>2, <2>1, <2>2, Zenon DEF S!Advance
<1>4. \A a, b \in Int : S!Max({a, b}) = IF a >= b THEN a ELSE b
  BY RecorderNumbers
<1>5. PICK reset \in Resets \cup {0} :
        \/ S!Advance /\ wait' = Interval /\ UNCHANGED <<backoff, fetches, items>>
        \/ /\ backoff' = S!Min({S!Max({backoff * 2, Interval}), MaxBackoff})
           /\ wait' = S!Max({backoff', reset})
           /\ UNCHANGED <<cursor, fetches, items>>
        \/ /\ S!Advance /\ backoff' = 0
           /\ wait' = S!Max({Interval, IF reset = 0 THEN 0 ELSE reset + 1})
           /\ \/ UNCHANGED <<fetches, items>>
              \/ S!StoreBatch(f, {}, FALSE)
              \/ S!StoreBatch(f, Batch(f), TRUE)
  BY Zenon DEF S!Record, Batch
<1>6. reset \in Nat /\ Interval \in Nat /\ MaxBackoff \in Nat
  BY RecorderNumbers
<1>7. S!StoreBatch(f, {}, FALSE) => StoresReply(f)
  BY DEF S!StoreBatch, StoresReply
<1>8. S!StoreBatch(f, Batch(f), TRUE) => StoresReply(f)
  BY <1>1 DEF S!StoreBatch, StoresReply, Answered, Reply
<1>9. CASE S!Advance /\ wait' = Interval /\ UNCHANGED <<backoff, fetches, items>>
  BY <1>1, <1>2, <1>3, <1>6, <1>9 DEF StoresReply
<1>10. CASE /\ backoff' = S!Min({S!Max({backoff * 2, Interval}), MaxBackoff})
            /\ wait' = S!Max({backoff', reset})
            /\ UNCHANGED <<cursor, fetches, items>>
  <2>1. PICK u \in Nat : u = S!Max({backoff * 2, Interval})
    <3>1. backoff * 2 \in Nat
      BY <1>2
    <3> QED
      BY <1>4, <1>6, <3>1
  <2>2. backoff' = IF u <= MaxBackoff THEN u ELSE MaxBackoff
    <3>1. \A a, b \in Int : S!Min({a, b}) = IF a <= b THEN a ELSE b
      BY RecorderNumbers
    <3>2. backoff' = S!Min({u, MaxBackoff}) /\ u \in Int /\ MaxBackoff \in Int
      BY <1>6, <1>10, <2>1
    <3> QED
      BY <3>1, <3>2, Zenon
  <2>3. backoff' \in 0..MaxBackoff /\ backoff' \in Nat
    BY <1>6, <2>1, <2>2
  <2>4. wait' \in Nat
    BY <1>4, <1>6, <1>10, <2>3
  <2> QED
    BY <1>1, <1>2, <1>10, <2>3, <2>4 DEF StoresReply
<1>11. CASE /\ S!Advance /\ backoff' = 0
            /\ wait' = S!Max({Interval, IF reset = 0 THEN 0 ELSE reset + 1})
            /\ \/ UNCHANGED <<fetches, items>>
               \/ S!StoreBatch(f, {}, FALSE)
               \/ S!StoreBatch(f, Batch(f), TRUE)
  <2>1. PICK u \in Nat : u = IF reset = 0 THEN 0 ELSE reset + 1
    BY <1>6
  <2>2. wait' \in Nat
    BY <1>4, <1>6, <1>11, <2>1
  <2>3. backoff' \in 0..MaxBackoff
    BY <1>6, <1>11
  <2>4. StoresReply(f)
    BY <1>7, <1>8, <1>11 DEF StoresReply
  <2> QED
    BY <1>1, <1>2, <1>3, <1>11, <2>2, <2>3, <2>4
<1> QED
  BY <1>5, <1>9, <1>10, <1>11

LEMMA RowOfFetches ==
    ASSUME NEW f, NEW n, NEW B, NEW p \in B, NEW g \in B
    PROVE  LET r == [feed |-> f, at |-> n, parsed |-> p, gap |-> g] IN
           r.feed = f /\ r.at = n /\ {r.parsed, r.gap} \subseteq B
OBVIOUS

LEMMA RecordKeeps == ASSUME RecorderInv, S!Record PROVE RecorderInv'
<1>1. /\ S!TypeOK /\ items \in [S!FeedNames -> SUBSET Nat] /\ IsFiniteSet(rows)
      /\ RowsStored /\ KnownFrom /\ VouchedStored
  BY DEF RecorderInv
<1>2. /\ posted' = posted /\ second' = second /\ rows' = rows /\ restarts' = restarts
      /\ cursor' \in 1..Len(Feeds) /\ backoff' \in 0..MaxBackoff /\ wait' \in Nat
  BY <1>1, RecordStores
<1>3. PICK f \in S!FeedNames : StoresReply(f)
  BY <1>1, RecordStores
<1>4. second \in 1..second /\ \A g \in S!FeedNames : items[g] \subseteq posted[g] \cap (1..second)
  BY <1>1, RecorderTypes DEF S!TypeOK
<1>5. Batch(f) \subseteq posted[f] \cap (1..second)
  <2> SUFFICES ASSUME NEW b \in posted[f], b <= second PROVE b \in 1..second
    BY DEF Batch, S!Newest
  <2> QED
    BY <1>1, RecorderTypes
<1>6. /\ items' \in [S!FeedNames -> SUBSET Nat]
      /\ \A g \in S!FeedNames : items[g] \subseteq items'[g] /\ items'[g] \subseteq posted[g] \cap (1..second)
      /\ \A g \in S!FeedNames : g # f => items'[g] = items[g]
  BY <1>1, <1>3, <1>4, <1>5 DEF StoresReply, Answered
<1>7. /\ fetches \subseteq fetches'
      /\ \A r \in fetches' : r \in fetches \/ (r.feed = f /\ r.at = second /\ {r.parsed, r.gap} \subseteq BOOLEAN)
  <2>1. S!Gap(f, {}) \in BOOLEAN /\ S!Gap(f, Batch(f)) \in BOOLEAN
    BY DEF S!Gap
  <2>2. CASE fetches' = fetches
    BY <2>2
  <2>3. CASE fetches' = fetches \cup {[feed |-> f, at |-> second, parsed |-> FALSE, gap |-> S!Gap(f, {})]}
    <3> DEFINE r == [feed |-> f, at |-> second, parsed |-> FALSE, gap |-> S!Gap(f, {})]
    <3>1. r.feed = f /\ r.at = second /\ {r.parsed, r.gap} \subseteq BOOLEAN
      BY <2>1, RowOfFetches
    <3> QED
      BY <2>3, <3>1, Zenon
  <2>4. CASE fetches' = fetches \cup {Reply(f, S!Gap(f, Batch(f)))}
    <3> DEFINE r == Reply(f, S!Gap(f, Batch(f)))
    <3>1. r.feed = f /\ r.at = second /\ {r.parsed, r.gap} \subseteq BOOLEAN
      BY <2>1, RowOfFetches DEF Reply
    <3> QED
      BY <2>4, <3>1, Zenon
  <2> QED
    BY <1>3, <2>2, <2>3, <2>4 DEF StoresReply, Answered
<1>8. S!TypeOK'
  <2>1. \A r \in fetches' : r.feed \in S!FeedNames /\ r.at \in 1..second /\ {r.parsed, r.gap} \subseteq BOOLEAN
    BY <1>1, <1>4, <1>7 DEF S!TypeOK
  <2> QED
    BY <1>1, <1>2, <1>6, <2>1 DEF S!TypeOK
<1>9. RowsStored' /\ \A b : S!Imported(b)' <=> S!Imported(b)
  BY <1>1, <1>2, <1>6 DEF RowsStored, S!Imported
<1>10. CASE items' = items /\ \A g \in S!FeedNames : Reads(g)' = Reads(g)
  <2>1. KnownFrom'
    BY <1>1, <1>7, <1>9, <1>10 DEF KnownFrom
  <2>2. ASSUME NEW g \in S!FeedNames, NEW b PROVE S!Vouched(g, b)' <=> S!Vouched(g, b)
    BY <1>2, <1>10 DEF S!Vouched, Reads
  <2>3. VouchedStored'
    BY <1>1, <1>2, <1>9, <1>10, <2>2 DEF VouchedStored
  <2> QED
    BY <1>1, <1>2, <1>6, <1>8, <1>9, <2>1, <2>3 DEF RecorderInv
<1>11. CASE Answered(f)
  <2>1. ASSUME NEW g \in S!FeedNames, g # f PROVE Reads(g)' = Reads(g)
    BY <1>11, <2>1 DEF Answered, Reads, Reply
  <2>2. ASSUME NEW g \in S!FeedNames, g # f, NEW b PROVE S!Vouched(g, b)' <=> S!Vouched(g, b)
    BY <1>2, <2>1, <2>2 DEF S!Vouched, Reads
  <2>3. items'[f] = items[f] \cup Batch(f)
    BY <1>1, <1>11 DEF Answered
  <2>4. KnownFrom'
    <3> SUFFICES ASSUME NEW g \in S!FeedNames, NEW x \in items'[g]
                 PROVE  S!Imported(x) \/ \E r \in fetches' : r.feed = g /\ r.parsed /\ x <= r.at
      BY <1>9 DEF KnownFrom
    <3>1. CASE x \in items[g]
      BY <1>1, <1>7, <3>1 DEF KnownFrom
    <3>2. CASE x \notin items[g]
      <4>1. g = f /\ x \in Batch(f)
        BY <1>6, <2>3, <3>2
      <4>2. x <= second
        BY <4>1 DEF Batch, S!Newest
      <4>3. Reply(f, S!Gap(f, Batch(f))) \in fetches'
        BY <1>11 DEF Answered
      <4> QED
        BY <4>1, <4>2, <4>3 DEF Reply
    <3> QED
      BY <3>1, <3>2
  <2>5. VouchedStored'
    <3> SUFFICES ASSUME NEW g \in S!FeedNames, NEW b \in posted[g], S!Vouched(g, b)', ~S!Imported(b)
                 PROVE  b \in items'[g]
      BY <1>2, <1>9 DEF VouchedStored
    <3>1. CASE g = f
      BY <1>11, <2>3, <3>1, AnswerVouches
    <3>2. CASE g # f
      BY <1>1, <1>6, <2>2, <3>2 DEF VouchedStored
    <3> QED
      BY <3>1, <3>2
  <2> QED
    BY <1>1, <1>2, <1>6, <1>8, <1>9, <2>4, <2>5 DEF RecorderInv
<1>12. CASE /\ fetches' = fetches \cup {[feed |-> f, at |-> second, parsed |-> FALSE, gap |-> S!Gap(f, {})]}
            /\ items' = [items EXCEPT ![f] = @ \cup {}]
  <2>1. items' = items
    BY <1>1, <1>12
  <2>2. \A g \in S!FeedNames : Reads(g)' = Reads(g)
    BY <1>12 DEF Reads
  <2> QED
    BY <1>10, <2>1, <2>2
<1>13. CASE fetches' = fetches /\ items' = items
  BY <1>10, <1>13 DEF Reads
<1> QED
  BY <1>3, <1>11, <1>12, <1>13 DEF StoresReply

\* What an archive brings, and the range it is taken to cover.
Kept(a, f) == posted[f] \cap (a.from)..(a.to)
All(a) == UNION {Kept(a, f) : f \in S!FeedNames}
Bounds(a) == IF a.bounded THEN <<a.from, a.to>> ELSE <<S!Min(All(a)), S!Max(All(a))>>

LEMMA ImportBounds ==
    ASSUME S!TypeOK, NEW a \in Imports, a.to <= second, All(a) # {}
    PROVE  /\ Bounds(a)[1] \in 1..second /\ Bounds(a)[2] \in Bounds(a)[1]..second
           /\ a.from <= Bounds(a)[1] /\ Bounds(a)[2] <= a.to /\ a.from \in Nat /\ a.to \in Nat
           /\ \A b \in All(a) : Bounds(a)[1] <= b /\ b <= Bounds(a)[2]
<1>1. second \in Nat /\ a.from \in Nat /\ a.from >= 1 /\ a.to \in Nat /\ a.to <= second
  BY RecorderTypes, RecorderSettings DEF S!Settings
<1>2. \A b \in All(a) : b \in Nat /\ a.from <= b /\ b <= a.to /\ b < second + 1
  <2> SUFFICES ASSUME NEW f \in S!FeedNames, NEW b \in posted[f], b \in (a.from)..(a.to)
               PROVE  b \in Nat /\ a.from <= b /\ b <= a.to /\ b < second + 1
    BY DEF All, Kept
  <2> QED
    BY <1>1
<1>3. /\ C!Max(All(a)) \in All(a) /\ C!Min(All(a)) \in All(a)
      /\ \A b \in All(a) : C!Min(All(a)) <= b /\ b <= C!Max(All(a))
  BY <1>1, <1>2, Ends
<1>4. S!Max(All(a)) = C!Max(All(a)) /\ S!Min(All(a)) = C!Min(All(a))
  BY DEF S!Max, C!Max, S!Min, C!Min
<1> DEFINE low == C!Min(All(a))
           high == C!Max(All(a))
<1>5. low \in Nat /\ high \in Nat /\ a.from <= low /\ low <= high /\ high <= a.to
  BY <1>2, <1>3
<1>6. Bounds(a) = IF a.bounded THEN <<a.from, a.to>> ELSE <<low, high>>
  BY <1>4 DEF Bounds
<1>7. \A b \in All(a) : low <= b /\ b <= high
  BY <1>3
<1> HIDE DEF low, high
<1>8. CASE a.bounded
  <2>1. Bounds(a)[1] = a.from /\ Bounds(a)[2] = a.to
    BY <1>6, <1>8
  <2> QED
    BY <1>1, <1>2, <1>5, <2>1
<1>9. CASE ~a.bounded
  <2>1. Bounds(a)[1] = low /\ Bounds(a)[2] = high
    BY <1>6, <1>9
  <2> QED
    BY <1>1, <1>5, <1>7, <2>1
<1> QED
  BY <1>8, <1>9

LEMMA ImportKeeps == ASSUME RecorderInv, NEW a \in Imports, S!Import(a) PROVE RecorderInv'
<1>1. /\ S!TypeOK /\ items \in [S!FeedNames -> SUBSET Nat] /\ IsFiniteSet(rows)
      /\ RowsStored /\ KnownFrom /\ VouchedStored
  BY DEF RecorderInv
<1>2. /\ a.to <= second /\ posted' = posted /\ second' = second /\ fetches' = fetches
      /\ cursor' = cursor /\ backoff' = backoff /\ wait' = wait /\ restarts' = restarts
  BY DEF S!Import
<1>3. items' = [f \in S!FeedNames |-> items[f] \cup Kept(a, f)]
  <2>1. \A f \in S!FeedNames : [g \in S!FeedNames |-> posted[g] \cap (a.from)..(a.to)][f] = Kept(a, f)
    BY DEF Kept
  <2> QED
    BY <2>1 DEF S!Import
<1>4. rows' = IF All(a) = {} THEN rows ELSE rows \cup {Bounds(a)}
  <2> DEFINE kept == [f \in S!FeedNames |-> posted[f] \cap (a.from)..(a.to)]
             all == UNION {kept[f] : f \in S!FeedNames}
  <2>1. rows' = IF all = {} THEN rows
                ELSE rows \cup {IF a.bounded THEN <<a.from, a.to>> ELSE <<S!Min(all), S!Max(all)>>}
    BY Zenon DEF S!Import
  <2>2. all = All(a)
    BY DEF All, Kept
  <2> HIDE DEF all
  <2> QED
    BY <2>1, <2>2 DEF Bounds
<1>5. /\ second \in Nat
      /\ \A f \in S!FeedNames : \A b \in posted[f] : b \in Nat /\ b >= 1
      /\ a.from \in Nat /\ a.from >= 1 /\ a.to \in Nat
  BY <1>1, RecorderTypes, RecorderSettings DEF S!Settings
<1>6. \A f \in S!FeedNames : /\ Kept(a, f) \subseteq posted[f] \cap (1..second)
                             /\ Kept(a, f) \subseteq Nat /\ Kept(a, f) \subseteq All(a)
  <2> SUFFICES ASSUME NEW f \in S!FeedNames, NEW b \in posted[f], b \in (a.from)..(a.to)
               PROVE  b \in 1..second /\ b \in Nat /\ b \in All(a)
    BY DEF Kept
  <2>1. b \in All(a)
    BY DEF All, Kept
  <2> QED
    BY <1>2, <1>5, <2>1
<1>7. /\ items' \in [S!FeedNames -> SUBSET Nat]
      /\ \A f \in S!FeedNames : /\ items'[f] = items[f] \cup Kept(a, f)
                                /\ items'[f] \subseteq posted[f] \cap (1..second)
  <2>1. \A f \in S!FeedNames : items[f] \subseteq posted[f] \cap (1..second)
    BY <1>1 DEF S!TypeOK
  <2> QED
    BY <1>1, <1>3, <1>6, <2>1
<1>8. IsFiniteSet(rows') /\ rows \subseteq rows'
  BY <1>1, <1>4, FS_AddElement
<1>9. All(a) # {} =>
        /\ Bounds(a)[1] \in 1..second /\ Bounds(a)[2] \in Bounds(a)[1]..second
        /\ a.from <= Bounds(a)[1] /\ Bounds(a)[2] <= a.to
        /\ \A b \in All(a) : Bounds(a)[1] <= b /\ b <= Bounds(a)[2]
  BY <1>1, <1>2, ImportBounds
<1>10. S!TypeOK'
  <2>1. \A r \in rows' : r[1] \in 1..second /\ r[2] \in r[1]..second
    BY <1>1, <1>4, <1>9 DEF S!TypeOK
  <2> QED
    BY <1>1, <1>2, <1>7, <2>1 DEF S!TypeOK
<1>11. RowsStored'
  <2> SUFFICES ASSUME NEW r \in rows', NEW f \in S!FeedNames, NEW b \in posted[f],
                      r[1] <= b, b <= r[2]
               PROVE  b \in items'[f]
    BY <1>2 DEF RowsStored
  <2>1. CASE r \in rows
    BY <1>1, <1>7, <2>1 DEF RowsStored
  <2>2. CASE r \notin rows
    <3>1. All(a) # {} /\ r = Bounds(a)
      BY <1>4, <2>2
    <3>2. b \in (a.from)..(a.to)
      <4>1. /\ Bounds(a)[1] \in Nat /\ Bounds(a)[2] \in Nat /\ b \in Nat
            /\ a.from <= Bounds(a)[1] /\ Bounds(a)[2] <= a.to
        BY <1>5, <1>9, <3>1
      <4> QED
        BY <1>5, <3>1, <4>1
    <3> QED
      BY <1>7, <3>2 DEF Kept
  <2> QED
    BY <2>1, <2>2
<1>12. \A b : S!Imported(b) => S!Imported(b)'
  BY <1>8 DEF S!Imported
<1>13. KnownFrom'
  <2> SUFFICES ASSUME NEW f \in S!FeedNames, NEW x \in items'[f]
               PROVE  S!Imported(x)' \/ \E r \in fetches : r.feed = f /\ r.parsed /\ x <= r.at
    BY <1>2 DEF KnownFrom
  <2>1. CASE x \in items[f]
    BY <1>1, <1>12, <2>1 DEF KnownFrom
  <2>2. CASE x \in Kept(a, f)
    <3>1. x \in All(a) /\ All(a) # {}
      BY <1>6, <2>2
    <3>2. Bounds(a) \in rows' /\ Bounds(a)[1] <= x /\ x <= Bounds(a)[2]
      BY <1>4, <1>9, <3>1
    <3> QED
      BY <3>2 DEF S!Imported
  <2> QED
    BY <1>7, <2>1, <2>2
<1>14. VouchedStored'
  <2> SUFFICES ASSUME NEW f \in S!FeedNames, NEW b \in posted[f],
                      S!Vouched(f, b)', ~S!Imported(b)'
               PROVE  b \in items'[f]
    BY <1>2 DEF VouchedStored
  <2>1. S!Vouched(f, b)
    BY <1>2, <1>8 DEF S!Vouched
  <2> QED
    BY <1>1, <1>7, <1>12, <2>1 DEF VouchedStored
<1> QED
  BY <1>7, <1>8, <1>10, <1>11, <1>13, <1>14 DEF RecorderInv

\* Steps that store nothing.
RecorderRests ==
    /\ posted' = posted /\ items' = items /\ fetches' = fetches /\ rows' = rows
    /\ second' \in second..MaxClock
    /\ cursor' \in 1..Len(Feeds) /\ backoff' \in 0..MaxBackoff /\ wait' \in Nat
    /\ restarts' \in 0..MaxRestarts

LEMMA RecorderRestsKeep == ASSUME RecorderInv, RecorderRests PROVE RecorderInv'
<1>1. /\ S!TypeOK /\ items \in [S!FeedNames -> SUBSET Nat] /\ IsFiniteSet(rows)
      /\ RowsStored /\ KnownFrom /\ VouchedStored
  BY DEF RecorderInv
<1>2. /\ posted' = posted /\ items' = items /\ fetches' = fetches /\ rows' = rows
      /\ second' \in second..MaxClock
  BY DEF RecorderRests
<1>3. second \in Nat /\ second >= 1 /\ second' \in Nat /\ second <= second' /\ second' \in 1..MaxClock
  BY <1>1, <1>2, RecorderTypes
<1>4. S!TypeOK'
  <2>1. \A f \in S!FeedNames : items[f] \subseteq posted[f] \cap (1..second')
    <3>1. \A f \in S!FeedNames : items[f] \subseteq posted[f] \cap (1..second)
      BY <1>1 DEF S!TypeOK
    <3>2. 1..second \subseteq 1..second'
      BY <1>3
    <3> QED
      BY <3>1, <3>2
  <2>2. \A r \in fetches : r.feed \in S!FeedNames /\ r.at \in 1..second' /\ {r.parsed, r.gap} \subseteq BOOLEAN
    BY <1>1, <1>3 DEF S!TypeOK
  <2>3. \A r \in rows : r[1] \in 1..second' /\ r[2] \in r[1]..second'
    BY <1>1, <1>3 DEF S!TypeOK
  <2> QED
    BY <1>1, <1>2, <1>3, <2>1, <2>2, <2>3 DEF S!TypeOK, RecorderRests
<1>5. \A b : S!Imported(b)' <=> S!Imported(b)
  BY <1>2 DEF S!Imported
<1>6. \A f, b : S!Vouched(f, b)' <=> S!Vouched(f, b)
  BY <1>2 DEF S!Vouched
<1>7. RowsStored' /\ KnownFrom' /\ VouchedStored'
  BY <1>1, <1>2, <1>5, <1>6 DEF RowsStored, KnownFrom, VouchedStored
<1> QED
  BY <1>1, <1>2, <1>4, <1>7 DEF RecorderInv

LEMMA RecorderInvNext == RecorderInv /\ (S!Next \/ UNCHANGED recorder) => RecorderInv'
<1> SUFFICES ASSUME RecorderInv, S!Next \/ UNCHANGED recorder PROVE RecorderInv'
  OBVIOUS
<1>1. /\ second \in Nat /\ second \in 1..MaxClock /\ MaxClock \in Nat
      /\ cursor \in 1..Len(Feeds) /\ backoff \in 0..MaxBackoff /\ wait \in Nat
      /\ restarts \in 0..MaxRestarts
  BY RecorderTypes DEF RecorderInv, S!TypeOK
<1>2. CASE S!Tick
  <2>1. wait' \in Nat
    <3>1. wait' = S!Max({wait - 1, 0}) /\ wait - 1 \in Int
      BY <1>1, <1>2 DEF S!Tick
    <3>2. wait' = IF wait - 1 >= 0 THEN wait - 1 ELSE 0
      BY <3>1, RecorderNumbers
    <3> QED
      BY <1>1, <3>2
  <2>2. RecorderRests
    BY <1>1, <1>2, <2>1 DEF S!Tick, RecorderRests
  <2> QED
    BY <2>2, RecorderRestsKeep
<1>3. CASE S!Restart
  <2>1. 1 \in 1..Len(Feeds) /\ 0 \in 0..MaxBackoff /\ MaxRestarts \in Nat
    BY RecorderNumbers, RecorderSettings DEF S!Settings
  <2>2. RecorderRests
    BY <1>1, <1>3, <2>1 DEF S!Restart, RecorderRests
  <2> QED
    BY <2>2, RecorderRestsKeep
<1>4. CASE UNCHANGED recorder
  <2>1. RecorderRests
    BY <1>1, <1>4 DEF recorder, RecorderRests
  <2> QED
    BY <2>1, RecorderRestsKeep
<1> QED
  BY <1>2, <1>3, <1>4, RecordKeeps, ImportKeeps DEF S!Next

LEMMA RecorderInvInit == S!Init => RecorderInv
<1> SUFFICES ASSUME S!Init PROVE RecorderInv
  OBVIOUS
<1>1. /\ posted \in Postings /\ second = 1 /\ items = [f \in S!FeedNames |-> {}]
      /\ fetches = {} /\ rows = {} /\ cursor = 1 /\ backoff = 0 /\ wait = 0 /\ restarts = 0
  BY DEF S!Init
<1>2. MaxClock \in Nat \ {0} /\ MaxRestarts \in Nat /\ MaxBackoff \in Nat /\ 1 \in 1..Len(Feeds)
  BY RecorderNumbers, RecorderSettings DEF S!Settings
<1>3. S!TypeOK
  BY <1>1, <1>2 DEF S!TypeOK
<1>4. IsFiniteSet(rows)
  BY <1>1, FS_EmptySet
<1>5. RowsStored /\ KnownFrom /\ VouchedStored
  BY <1>1 DEF RowsStored, KnownFrom, VouchedStored, S!Vouched
<1> QED
  BY <1>1, <1>3, <1>4, <1>5 DEF RecorderInv

LEMMA LiveStartIs == ASSUME S!TypeOK, fetches # {} PROVE S!LiveStart \in Nat
<1> DEFINE A == {r.at : r \in fetches}
<1>1. A \subseteq Nat /\ A # {}
  BY RecorderTypes
<1>2. C!Min(A) \in Nat
  BY <1>1, MinIs
<1>3. S!LiveStart = C!Min(A)
  BY DEF S!LiveStart, S!Min, C!Min
<1> QED
  BY <1>2, <1>3

\* A second of a covered window is in an import or at or after the first answer.
LEMMA CoveredInside ==
    ASSUME RecorderInv, NEW t \in 1..second, S!Covered(t),
           NEW b \in Nat, t - Window < b, b <= t
    PROVE  S!Imported(b) \/ (fetches # {} /\ S!LiveStart <= b)
<1>1. S!TypeOK /\ IsFiniteSet(rows)
  BY DEF RecorderInv
<1>2. second \in Nat /\ Window \in Nat /\ t \in Nat
  BY <1>1, RecorderTypes, RecorderSettings DEF S!Settings
<1> DEFINE spans == rows \cup S!LiveSpan
<1>3. IsFiniteSet(spans)
  <2>1. S!LiveSpan = {} \/ spans = rows \cup {<<S!LiveStart, second>>}
    BY DEF S!LiveSpan
  <2> QED
    BY <1>1, <2>1, FS_AddElement
<1>4. fetches # {} => S!LiveStart \in Nat
  BY <1>1, LiveStartIs
<1>5. Spans(spans, second)
  <2>1. \A s \in rows : s[1] \in Nat /\ s[2] \in 0..second
    BY <1>1, <1>2, RecorderTypes
  <2>2. \A s \in S!LiveSpan : s[1] \in Nat /\ s[2] \in 0..second
    BY <1>2, <1>4 DEF S!LiveSpan
  <2> QED
    BY <2>1, <2>2 DEF Spans
<1>6. PICK u \in S!coverage : u[1] <= t - Window + 1 /\ u[2] >= t
  BY DEF S!Covered
<1>7. PICK s \in spans : u = <<s[1], S!MergedEnd(spans, s)>>
  BY DEF S!coverage
<1> HIDE DEF spans
<1>8. S!MergedEnd(spans, s) \in Nat
  BY <1>2, <1>3, <1>5, MergedIsSecond
<1>9. s[1] <= b /\ b <= S!MergedEnd(spans, s)
  <2>1. s[1] \in Nat /\ u[1] = s[1] /\ u[2] = S!MergedEnd(spans, s)
    BY <1>5, <1>7 DEF Spans
  <2> QED
    BY <1>2, <1>6, <1>8, <2>1
<1>10. PICK r \in spans : r[1] <= b /\ b <= r[2]
  BY <1>2, <1>3, <1>5, <1>9, MergedInside DEF Inside
<1>11. CASE r \in rows
  BY <1>10, <1>11 DEF S!Imported
<1>12. CASE r \in S!LiveSpan
  BY <1>10, <1>12 DEF S!LiveSpan
<1> QED
  BY <1>11, <1>12 DEF spans

LEMMA InvCounts == RecorderInv => S!CoveredIsCounted
<1> SUFFICES ASSUME RecorderInv, NEW t \in 1..second, NEW f \in S!FeedNames, S!Covered(t),
                    NEW b \in S!InWindow(posted[f], t) \ S!Mentions(t)[f]
             PROVE  fetches # {} /\ S!LiveStart <= b /\ ~S!Imported(b) /\ ~S!Vouched(f, b)
  BY DEF S!CoveredIsCounted
<1>1. S!TypeOK /\ RowsStored /\ VouchedStored
  BY DEF RecorderInv
<1>2. second \in Nat /\ t \in Nat /\ t <= second
  BY <1>1, RecorderTypes
<1>3. b \in posted[f] /\ t - Window < b /\ b <= t /\ b \notin items[f]
  BY DEF S!Mentions, S!InWindow
<1>4. b \in Nat /\ b >= 1
  BY <1>1, <1>3, RecorderTypes
<1>5. ~S!Imported(b)
  BY <1>1, <1>3 DEF RowsStored, S!Imported
<1>6. fetches # {} /\ S!LiveStart <= b
  BY <1>1, <1>2, <1>3, <1>4, <1>5, CoveredInside
<1>7. ~S!Vouched(f, b)
  BY <1>1, <1>3, <1>5 DEF VouchedStored
<1> QED
  BY <1>5, <1>6, <1>7

-----------------------------------------------------------------------------
(***************************************************************************)
(* Rows of a window from the one that ends m bars on                       *)
(***************************************************************************)

\* The rows at which a series that needs m bars is a number.
From(m) == {i \in R!Rows : i + 1 >= m}

LEMMA FromIs ==
    ASSUME spec.lookback \in Nat
    PROVE  /\ \A m \in Nat : \A i : i \in From(m) <=> i \in Nat /\ i < spec.lookback /\ i + 1 >= m
           /\ R!Rows = From(1) /\ \A i : i \in R!Rows <=> i \in Nat /\ i < spec.lookback
BY DEF From, R!Rows

LEMMA RollingFrom ==
    ASSUME spec.lookback \in Nat, NEW m \in Nat \ {0}, NEW p \in Nat \ {0}
    PROVE  R!Rolling(From(m), p) = From(m + p - 1)
<1>1. m + p - 1 \in Nat
  OBVIOUS
<1>2. ASSUME NEW i PROVE i \in R!Rolling(From(m), p) <=> i \in From(m + p - 1)
  <2>1. CASE i \in Nat /\ i < spec.lookback
    <3>1. i \in R!Rolling(From(m), p) <=> i >= p - 1 /\ (i - p + 1)..i \subseteq From(m)
      BY <2>1, FromIs DEF R!Rolling
    <3>2. ASSUME i >= p - 1, (i - p + 1)..i \subseteq From(m) PROVE i + 1 >= m + p - 1
      <4>1. i - p + 1 \in From(m)
        BY <2>1, <3>2
      <4>2. i - p + 1 + 1 >= m
        BY <4>1 DEF From
      <4> QED
        BY <2>1, <4>2
    <3>3. ASSUME i + 1 >= m + p - 1 PROVE i >= p - 1 /\ (i - p + 1)..i \subseteq From(m)
      <4>1. i >= p - 1
        BY <2>1, <3>3
      <4>2. ASSUME NEW j \in (i - p + 1)..i PROVE j \in From(m)
        <5>1. j \in Nat /\ j < spec.lookback /\ j + 1 >= m
          BY <2>1, <3>3, <4>1
        <5> QED
          BY <5>1, FromIs
      <4> QED
        BY <4>1, <4>2
    <3>4. i \in From(m + p - 1) <=> i + 1 >= m + p - 1
      BY <1>1, <2>1, FromIs
    <3> QED
      BY <3>1, <3>2, <3>3, <3>4, Zenon
  <2>2. CASE ~(i \in Nat /\ i < spec.lookback)
    <3>1. i \notin R!Rows
      BY <2>2, FromIs
    <3> QED
      BY <3>1 DEF R!Rolling, From
  <2> QED
    BY <2>1, <2>2
<1> QED
  BY <1>2

\* Averages seeded by the first numbers of a series, and those of its changes.
LEMMA FirstRow ==
    ASSUME spec.lookback \in Nat, NEW m \in Nat \ {0}, From(m) # {}
    PROVE  R!Min(From(m)) = m - 1 /\ m - 1 < spec.lookback
<1>1. PICK i : i \in From(m)
  OBVIOUS
<1>2. i \in Nat /\ i < spec.lookback /\ i + 1 >= m
  BY <1>1, FromIs
<1>3. m - 1 \in Nat /\ m - 1 < spec.lookback
  BY <1>2
<1>4. m - 1 \in From(m) /\ \A j \in From(m) : m - 1 <= j
  BY <1>3, FromIs
<1>5. \A x \in From(m) : x \in Nat
  BY FromIs
<1>6. R!Min(From(m)) \in From(m) /\ \A j \in From(m) : R!Min(From(m)) <= j
  BY <1>4 DEF R!Min
<1>7. R!Min(From(m)) <= m - 1 /\ m - 1 <= R!Min(From(m)) /\ R!Min(From(m)) \in Nat
  BY <1>4, <1>5, <1>6
<1> QED
  BY <1>3, <1>7

LEMMA SeededFrom ==
    ASSUME spec.lookback \in Nat, NEW m \in Nat \ {0}, NEW w \in Nat
    PROVE  {i \in R!Rows : From(m) # {} /\ i >= R!Min(From(m)) + w /\ R!Min(From(m))..i \subseteq From(m)}
             = From(m + w)
<1> DEFINE T == {i \in R!Rows : From(m) # {} /\ i >= R!Min(From(m)) + w /\ R!Min(From(m))..i \subseteq From(m)}
<1>1. m + w \in Nat
  OBVIOUS
<1>2. CASE From(m) = {}
  <2>1. T = {}
    BY <1>2
  <2>2. ASSUME NEW i \in From(m + w) PROVE FALSE
    <3>1. i \in Nat /\ i < spec.lookback /\ i + 1 >= m
      BY <1>1, FromIs
    <3> QED
      BY <1>2, <3>1, FromIs
  <2> QED
    BY <2>1, <2>2
<1>3. CASE From(m) # {}
  <2>1. R!Min(From(m)) = m - 1
    BY <1>3, FirstRow
  <2>2. T = {i \in R!Rows : i >= m - 1 + w /\ (m - 1)..i \subseteq From(m)}
    BY <1>3, <2>1
  <2>3. ASSUME NEW i \in R!Rows
        PROVE  i >= m - 1 + w /\ (m - 1)..i \subseteq From(m) <=> i + 1 >= m + w
    <3>1. i \in Nat /\ i < spec.lookback
      BY FromIs
    <3>2. (m - 1)..i \subseteq From(m)
      <4> SUFFICES ASSUME NEW j \in (m - 1)..i PROVE j \in From(m)
        OBVIOUS
      <4>1. j \in Nat /\ j < spec.lookback /\ j + 1 >= m
        BY <3>1
      <4> QED
        BY <4>1, FromIs
    <3>3. i >= m - 1 + w <=> i + 1 >= m + w
      BY <3>1
    <3> QED
      BY <3>2, <3>3, Zenon
  <2>4. T = {i \in R!Rows : i + 1 >= m + w}
    BY <2>2, <2>3, Zenon
  <2> QED
    BY <2>4 DEF From
<1> QED
  BY <1>2, <1>3

LEMMA SmoothedFrom ==
    ASSUME spec.lookback \in Nat, NEW m \in Nat \ {0}, NEW p \in Nat \ {0}
    PROVE  /\ R!Smoothed(From(m), p) = From(m + p - 1)
           /\ R!SmoothedChange(From(m), p) = From(m + p)
<1>1. R!SmoothedChange(From(m), p) = From(m + p)
  BY SeededFrom DEF R!SmoothedChange
<1>2. R!Smoothed(From(m), p)
        = {i \in R!Rows : From(m) # {} /\ i >= R!Min(From(m)) + p - 1 /\ R!Min(From(m))..i \subseteq From(m)}
  BY DEF R!Smoothed
<1>3. CASE From(m) = {}
  <2>1. {i \in R!Rows : From(m) # {} /\ i >= R!Min(From(m)) + p - 1 /\ R!Min(From(m))..i \subseteq From(m)}
        = {i \in R!Rows : From(m) # {} /\ i >= R!Min(From(m)) + (p - 1) /\ R!Min(From(m))..i \subseteq From(m)}
    BY <1>3
  <2>2. p - 1 \in Nat /\ m + (p - 1) = m + p - 1
    OBVIOUS
  <2> QED
    BY <1>1, <1>2, <2>1, <2>2, SeededFrom
<1>4. CASE From(m) # {}
  <2>1. R!Min(From(m)) = m - 1 /\ m - 1 + p - 1 = m - 1 + (p - 1)
    BY <1>4, FirstRow
  <2>2. p - 1 \in Nat /\ m + (p - 1) = m + p - 1
    OBVIOUS
  <2>3. {i \in R!Rows : From(m) # {} /\ i >= R!Min(From(m)) + p - 1 /\ R!Min(From(m))..i \subseteq From(m)}
        = {i \in R!Rows : From(m) # {} /\ i >= R!Min(From(m)) + (p - 1) /\ R!Min(From(m))..i \subseteq From(m)}
    BY <2>1
  <2> QED
    BY <1>1, <1>2, <2>2, <2>3, SeededFrom
<1> QED
  BY <1>3, <1>4

LEMMA ShiftedFrom ==
    ASSUME spec.lookback \in Nat, NEW m \in Nat \ {0}, NEW b \in Nat
    PROVE  R!Shifted(From(m), b) = From(m + b)
<1>1. m + b \in Nat
  OBVIOUS
<1>2. ASSUME NEW i \in R!Rows PROVE i - b \in From(m) <=> i + 1 >= m + b
  <2>1. i \in Nat /\ i < spec.lookback
    BY FromIs
  <2>2. i - b \in From(m) <=> i - b \in Nat /\ i - b < spec.lookback /\ i - b + 1 >= m
    BY FromIs
  <2> QED
    BY <2>1, <2>2
<1>3. {i \in R!Rows : i - b \in From(m)} = {i \in R!Rows : i + 1 >= m + b}
  BY <1>2, Zenon
<1> QED
  BY <1>3 DEF R!Shifted, From

\* A series that has nothing before the bar counted for it makes none that has.
LEMMA FromShrinks ==
    ASSUME spec.lookback \in Nat, NEW m \in Nat, NEW n \in Nat, m >= n
    PROVE  From(m) \subseteq From(n)
<1> SUFFICES ASSUME NEW i \in From(m) PROVE i \in From(n)
  OBVIOUS
<1>1. i \in Nat /\ i < spec.lookback /\ i + 1 >= m
  BY FromIs
<1>2. i + 1 >= n
  BY <1>1
<1> QED
  BY <1>1, <1>2, FromIs

LEMMA RollingInside ==
    ASSUME spec.lookback \in Nat, NEW m \in Nat \ {0}, NEW p \in Nat \ {0}, NEW x, x \subseteq From(m)
    PROVE  R!Rolling(x, p) \subseteq From(m + p - 1)
<1> SUFFICES ASSUME NEW i \in R!Rolling(x, p) PROVE i \in From(m + p - 1)
  OBVIOUS
<1>1. i \in R!Rows /\ i >= p - 1 /\ (i - p + 1)..i \subseteq x
  BY DEF R!Rolling
<1>2. i \in Nat /\ i < spec.lookback
  BY <1>1, FromIs
<1>3. i - p + 1 \in x
  BY <1>1, <1>2
<1>4. i - p + 1 + 1 >= m
  BY <1>3 DEF From
<1>5. i + 1 >= m + p - 1 /\ m + p - 1 \in Nat
  BY <1>2, <1>4
<1> QED
  BY <1>2, <1>5, FromIs

LEMMA SeededInside ==
    ASSUME spec.lookback \in Nat, NEW m \in Nat \ {0}, NEW w \in Nat, NEW x, x \subseteq From(m), x # {},
           NEW i \in R!Rows, i >= R!Min(x) + w
    PROVE  i \in From(m + w)
<1>1. \A j \in x : j \in Nat /\ j + 1 >= m
  BY FromIs
<1>2. PICK j \in x : \A l \in x : j <= l
  <2>1. x \subseteq Nat
    BY <1>1
  <2> QED
    BY <2>1, LeastExists
<1>3. R!Min(x) \in x
  BY <1>2 DEF R!Min
<1>4. R!Min(x) \in Nat /\ R!Min(x) + 1 >= m
  BY <1>1, <1>3
<1>5. i \in Nat /\ i < spec.lookback
  BY FromIs
<1>6. i + 1 >= m + w /\ m + w \in Nat
  BY <1>4, <1>5
<1> QED
  BY <1>5, <1>6, FromIs

LEMMA SmoothedInside ==
    ASSUME spec.lookback \in Nat, NEW m \in Nat \ {0}, NEW p \in Nat \ {0}, NEW x, x \subseteq From(m)
    PROVE  /\ R!Smoothed(x, p) \subseteq From(m + p - 1)
           /\ R!SmoothedChange(x, p) \subseteq From(m + p)
<1>1. ASSUME NEW i \in R!SmoothedChange(x, p) PROVE i \in From(m + p)
  BY <1>1, SeededInside DEF R!SmoothedChange
<1>2. ASSUME NEW i \in R!Smoothed(x, p) PROVE i \in From(m + p - 1)
  <2>1. i \in R!Rows /\ x # {} /\ i >= R!Min(x) + p - 1
    BY <1>2 DEF R!Smoothed
  <2>2. \A j \in x : j \in Nat
    BY FromIs
  <2>3. PICK j \in x : \A l \in x : j <= l
    <3>1. x \subseteq Nat
      BY <2>2
    <3> QED
      BY <2>1, <3>1, LeastExists
  <2>4. R!Min(x) \in Nat
    BY <2>2, <2>3 DEF R!Min
  <2>5. p - 1 \in Nat /\ i >= R!Min(x) + (p - 1) /\ m + (p - 1) = m + p - 1
    BY <2>1, <2>4
  <2>6. i \in From(m + (p - 1))
    BY <2>1, <2>5, SeededInside
  <2> QED
    BY <2>5, <2>6
<1> QED
  BY <1>1, <1>2

LEMMA ShiftedInside ==
    ASSUME spec.lookback \in Nat, NEW m \in Nat \ {0}, NEW b \in Nat, NEW x, x \subseteq From(m)
    PROVE  R!Shifted(x, b) \subseteq From(m + b)
<1> SUFFICES ASSUME NEW i \in R!Shifted(x, b) PROVE i \in From(m + b)
  OBVIOUS
<1>1. i \in R!Rows /\ i - b \in From(m)
  BY DEF R!Shifted
<1>2. i \in Nat /\ i < spec.lookback /\ i - b + 1 >= m /\ m + b \in Nat
  BY <1>1, FromIs
<1>3. i + 1 >= m + b
  BY <1>2
<1> QED
  BY <1>2, <1>3, FromIs

\* Of two series that start, what both have starts with the later.
LEMMA BothFrom ==
    ASSUME spec.lookback \in Nat, NEW m \in Nat, NEW n \in Nat
    PROVE  From(m) \cap From(n) = From(IF m >= n THEN m ELSE n)
BY DEF From, R!Rows

-----------------------------------------------------------------------------
(***************************************************************************)
(* An indicator fills the rows it needs bars for, and no others            *)
(***************************************************************************)

Kinds == {"sma", "highest", "ema", "rsi", "roc", "atr", "macd", "stoch", "sentiment", "fear_greed"}
Periods(d) == d.fn \in Kinds /\ d.p \in Nat \ {0} /\ d.q \in Nat \ {0} /\ d.r \in Nat \ {0}

LaterOf(a, b) == IF a >= b THEN a ELSE b

LEMMA LongerIs == \A a, b \in Nat : R!Max({a, b}) = LaterOf(a, b)
<1> SUFFICES ASSUME NEW a \in Nat, NEW b \in Nat PROVE R!Max({a, b}) = LaterOf(a, b)
  OBVIOUS
<1>1. LaterOf(a, b) \in {a, b} /\ \A y \in {a, b} : LaterOf(a, b) >= y
  BY DEF LaterOf
<1>2. R!Max({a, b}) \in {a, b} /\ \A y \in {a, b} : R!Max({a, b}) >= y
  BY <1>1 DEF R!Max
<1>3. LaterOf(a, b) \in Nat /\ R!Max({a, b}) \in Nat
  BY <1>1, <1>2
<1> QED
  BY <1>1, <1>2, <1>3

\* What an indicator needs, per kind.
LEMMA NeedsAre ==
    ASSUME NEW d, Periods(d), NEW n \in Nat \ {0}
    PROVE  /\ d.fn \in {"sma", "highest", "ema"} =>
                /\ R!Outputs(d.fn) = {""} /\ DOMAIN R!Needs(d, n) = {""}
                /\ R!Needs(d, n)[""] = n + d.p - 1
           /\ d.fn \in {"rsi", "roc"} =>
                /\ R!Outputs(d.fn) = {""} /\ DOMAIN R!Needs(d, n) = {""}
                /\ R!Needs(d, n)[""] = n + d.p
           /\ d.fn = "atr" =>
                /\ R!Outputs(d.fn) = {""} /\ DOMAIN R!Needs(d, n) = {""}
                /\ R!Needs(d, n)[""] = d.p + 1
           /\ d.fn = "fear_greed" =>
                /\ R!Outputs(d.fn) = {""} /\ DOMAIN R!Needs(d, n) = {""} /\ R!Needs(d, n)[""] = 1
<1>1. n + (d.p + 1) - 1 = n + d.p
  BY DEF Periods
<1> QED
  BY <1>1 DEF R!Needs, R!Outputs

\* The need of the one output most indicators have.
Own(d, n) == IF d.fn \in {"sma", "highest", "ema"} THEN n + d.p - 1
             ELSE IF d.fn \in {"rsi", "roc"} THEN n + d.p
             ELSE IF d.fn = "atr" THEN d.p + 1 ELSE 1

LEMMA SingleNeeds ==
    ASSUME NEW d, Periods(d), NEW n \in Nat \ {0}, d.fn \notin {"macd", "stoch", "sentiment"}
    PROVE  /\ R!Outputs(d.fn) = {""} /\ DOMAIN R!Needs(d, n) = {""}
           /\ R!Needs(d, n)[""] = Own(d, n) /\ Own(d, n) \in Nat \ {0}
<1>1. n + d.p - 1 \in Nat \ {0} /\ n + d.p \in Nat \ {0} /\ d.p + 1 \in Nat \ {0}
  BY DEF Periods
<1>2. CASE d.fn \in {"sma", "highest", "ema"}
  BY <1>1, <1>2, NeedsAre, Zenon DEF Own
<1>3. CASE d.fn \in {"rsi", "roc"}
  <2>1. Own(d, n) = n + d.p
    BY <1>3 DEF Own
  <2> QED
    BY <1>1, <1>3, <2>1, NeedsAre, Zenon
<1>4. CASE d.fn = "atr"
  <2>1. Own(d, n) = d.p + 1
    BY <1>4 DEF Own
  <2> QED
    BY <1>1, <1>4, <2>1, NeedsAre, Zenon
<1>5. CASE d.fn = "fear_greed"
  <2>1. Own(d, n) = 1
    BY <1>5 DEF Own
  <2>2. 1 \in Nat \ {0}
    OBVIOUS
  <2> QED
    BY <1>5, <2>1, <2>2, NeedsAre, Zenon
<1> QED
  BY <1>2, <1>3, <1>4, <1>5 DEF Periods, Kinds

\* What fills the rows from that need on, or some of them, is right.
LEMMA SingleFills ==
    ASSUME NEW d, Periods(d), NEW n \in Nat \ {0}, d.fn \notin {"macd", "stoch", "sentiment"},
           NEW x, NEW fill, fill = R!Single(x)
    PROVE  /\ DOMAIN fill = R!Outputs(d.fn)
           /\ x = From(Own(d, n)) => \A out \in R!Outputs(d.fn) : fill[out] = From(R!Needs(d, n)[out])
           /\ x \subseteq From(Own(d, n)) =>
                 \A out \in R!Outputs(d.fn) : fill[out] \subseteq From(R!Needs(d, n)[out])
<1>1. R!Outputs(d.fn) = {""} /\ R!Needs(d, n)[""] = Own(d, n)
  BY SingleNeeds
<1>2. DOMAIN fill = {""} /\ fill[""] = x
  BY DEF R!Single
<1> QED
  BY <1>1, <1>2

LEMMA MacdNeeds ==
    ASSUME NEW d, Periods(d), NEW n \in Nat \ {0}, d.fn = "macd"
    PROVE  /\ R!Outputs(d.fn) = {"macd", "signal", "hist"}
           /\ DOMAIN R!Needs(d, n) = {"macd", "signal", "hist"}
           /\ R!Needs(d, n)["macd"] = n + LaterOf(d.p, d.q) - 1
           /\ R!Needs(d, n)["signal"] = n + LaterOf(d.p, d.q) + d.r - 2
           /\ R!Needs(d, n)["hist"] = n + LaterOf(d.p, d.q) + d.r - 2
<1>1. R!Max({d.p, d.q}) = LaterOf(d.p, d.q)
  BY LongerIs DEF Periods
<1>2. R!Needs(d, n) = [out \in R!Outputs("macd") |->
                         IF out = "macd" THEN n + LaterOf(d.p, d.q) - 1 ELSE n + LaterOf(d.p, d.q) + d.r - 2]
  BY <1>1 DEF R!Needs
<1>3. R!Outputs("macd") = {"macd", "signal", "hist"}
  BY DEF R!Outputs
<1> QED
  BY <1>2, <1>3

LEMMA StochNeeds ==
    ASSUME NEW d, Periods(d), NEW n \in Nat \ {0}, d.fn = "stoch"
    PROVE  /\ R!Outputs(d.fn) = {"k", "d"} /\ DOMAIN R!Needs(d, n) = {"k", "d"}
           /\ R!Needs(d, n)["k"] = d.p + d.r - 1
           /\ R!Needs(d, n)["d"] = d.p + d.r + d.q - 2
<1>1. R!Needs(d, n) = [out \in R!Outputs("stoch") |-> IF out = "k" THEN d.p + d.r - 1 ELSE d.p + d.r + d.q - 2]
  BY DEF R!Needs
<1>2. R!Outputs("stoch") = {"k", "d"}
  BY DEF R!Outputs
<1> QED
  BY <1>1, <1>2

LEMMA SentimentNeeds ==
    ASSUME NEW d, d.fn = "sentiment", NEW n
    PROVE  /\ R!Outputs(d.fn) = {"score", "mentions"} /\ DOMAIN R!Needs(d, n) = {"score", "mentions"}
           /\ R!Needs(d, n)["score"] = 1 /\ R!Needs(d, n)["mentions"] = 1
<1>1. R!Outputs(d.fn) = {"score", "mentions"}
  BY DEF R!Outputs
<1>2. R!Needs(d, n) = [out \in R!Outputs(d.fn) |-> 1]
  BY DEF R!Needs
<1> QED
  BY <1>1, <1>2

\* They are positive, and one per output.
LEMMA NeedsType ==
    ASSUME NEW d, Periods(d), NEW n \in Nat \ {0}
    PROVE  /\ DOMAIN R!Needs(d, n) = R!Outputs(d.fn)
           /\ \A out \in R!Outputs(d.fn) : R!Needs(d, n)[out] \in Nat \ {0}
<1>1. CASE d.fn \in {"sma", "highest", "ema", "rsi", "roc", "atr", "fear_greed"}
  <2>1. d.fn \notin {"macd", "stoch", "sentiment"}
    BY <1>1
  <2>2. R!Outputs(d.fn) = {""} /\ DOMAIN R!Needs(d, n) = {""} /\ R!Needs(d, n)[""] \in Nat \ {0}
    BY <2>1, SingleNeeds, Zenon
  <2> QED
    BY <2>2
<1>2. CASE d.fn = "macd"
  <2>1. LaterOf(d.p, d.q) \in Nat \ {0}
    BY DEF Periods, LaterOf
  <2>2. n + LaterOf(d.p, d.q) - 1 \in Nat \ {0} /\ n + LaterOf(d.p, d.q) + d.r - 2 \in Nat \ {0}
    BY <2>1 DEF Periods
  <2>3. /\ R!Outputs(d.fn) = {"macd", "signal", "hist"}
        /\ DOMAIN R!Needs(d, n) = {"macd", "signal", "hist"}
        /\ R!Needs(d, n)["macd"] \in Nat \ {0}
        /\ R!Needs(d, n)["signal"] \in Nat \ {0}
        /\ R!Needs(d, n)["hist"] \in Nat \ {0}
    BY <1>2, <2>2, MacdNeeds, Zenon
  <2> QED
    BY <2>3, Zenon
<1>3. CASE d.fn = "stoch"
  <2>1. d.p + d.r - 1 \in Nat \ {0} /\ d.p + d.r + d.q - 2 \in Nat \ {0}
    BY DEF Periods
  <2> QED
    BY <1>3, <2>1, StochNeeds
<1>4. CASE d.fn = "sentiment"
  BY <1>4, SentimentNeeds
<1> QED
  BY <1>1, <1>2, <1>3, <1>4 DEF Periods, Kinds

LEMMA MacdFills ==
    ASSUME spec.lookback \in Nat, NEW d, Periods(d), NEW m \in Nat \ {0}, d.fn = "macd", NEW w
    PROVE  /\ DOMAIN R!Filled(d, From(m), w) = R!Outputs(d.fn)
           /\ \A out \in R!Outputs(d.fn) : R!Filled(d, From(m), w)[out] = From(R!Needs(d, m)[out])
<1> DEFINE longer == LaterOf(d.p, d.q)
           line == R!Smoothed(From(m), d.p) \cap R!Smoothed(From(m), d.q)
           signal == R!Smoothed(line, d.r)
<1>0. d.p \in Nat \ {0} /\ d.q \in Nat \ {0} /\ d.r \in Nat \ {0}
  BY DEF Periods
<1>1. R!Smoothed(From(m), d.p) = From(m + d.p - 1) /\ R!Smoothed(From(m), d.q) = From(m + d.q - 1)
  BY <1>0, SmoothedFrom
<1>2. line = From(m + longer - 1)
  <2>1. m + d.p - 1 \in Nat /\ m + d.q - 1 \in Nat
    BY <1>0
  <2>2. line = From(IF m + d.p - 1 >= m + d.q - 1 THEN m + d.p - 1 ELSE m + d.q - 1)
    BY <1>1, <2>1, BothFrom
  <2>3. (IF m + d.p - 1 >= m + d.q - 1 THEN m + d.p - 1 ELSE m + d.q - 1) = m + longer - 1
    BY <1>0 DEF LaterOf
  <2> QED
    BY <2>2, <2>3, Zenon
<1>3. longer \in Nat \ {0}
  BY <1>0 DEF LaterOf
<1> HIDE DEF longer, line
<1>4. m + longer - 1 \in Nat \ {0}
  BY <1>3
<1>5. signal = From(m + longer + d.r - 2)
  <2>1. signal = From(m + longer - 1 + d.r - 1)
    BY <1>0, <1>2, <1>4, SmoothedFrom
  <2>2. m + longer - 1 + d.r - 1 = m + longer + d.r - 2
    BY <1>0, <1>3
  <2> QED
    BY <2>1, <2>2, Zenon
<1> HIDE DEF signal
<1>6. line \cap signal = From(m + longer + d.r - 2)
  <2>1. m + longer - 1 \in Nat /\ m + longer + d.r - 2 \in Nat
    BY <1>0, <1>3
  <2>2. m + longer + d.r - 2 >= m + longer - 1
    BY <1>0, <1>3
  <2>3. line \cap signal
          = From(IF m + longer - 1 >= m + longer + d.r - 2 THEN m + longer - 1 ELSE m + longer + d.r - 2)
    BY <1>2, <1>5, <2>1, BothFrom
  <2>4. (IF m + longer - 1 >= m + longer + d.r - 2 THEN m + longer - 1 ELSE m + longer + d.r - 2)
          = m + longer + d.r - 2
    BY <2>1, <2>2
  <2> QED
    BY <2>3, <2>4, Zenon
<1>7. R!Filled(d, From(m), w) = R!Macd(From(m), d)
  BY DEF R!Filled
<1>8. R!Outputs(d.fn) = {"macd", "signal", "hist"} /\ R!Outputs("macd") = {"macd", "signal", "hist"}
  BY DEF R!Outputs
<1>9. R!Macd(From(m), d) = [out \in R!Outputs("macd") |->
          CASE out = "macd" -> line [] out = "signal" -> signal [] out = "hist" -> line \cap signal]
  BY Zenon DEF R!Macd, line, signal
<1>10. /\ DOMAIN R!Macd(From(m), d) = {"macd", "signal", "hist"}
       /\ R!Macd(From(m), d)["macd"] = line /\ R!Macd(From(m), d)["signal"] = signal
       /\ R!Macd(From(m), d)["hist"] = line \cap signal
  BY <1>8, <1>9
<1>11. /\ R!Needs(d, m)["macd"] = m + longer - 1
       /\ R!Needs(d, m)["signal"] = m + longer + d.r - 2
       /\ R!Needs(d, m)["hist"] = m + longer + d.r - 2
  BY MacdNeeds DEF longer
<1> QED
  BY <1>2, <1>5, <1>6, <1>7, <1>8, <1>10, <1>11

LEMMA StochFills ==
    ASSUME spec.lookback \in Nat, NEW d, Periods(d), NEW m \in Nat \ {0}, d.fn = "stoch", NEW x
    PROVE  /\ DOMAIN R!Filled(d, x, R!Whole) = R!Outputs(d.fn)
           /\ \A out \in R!Outputs(d.fn) : R!Filled(d, x, R!Whole)[out] = From(R!Needs(d, m)[out])
<1> DEFINE raw == R!Rolling(R!Rows, d.p) \ R!Rolling({}, d.p)
           k == IF d.r > 1 THEN R!Rolling(raw, d.r) ELSE raw
<1>0. d.p \in Nat \ {0} /\ d.q \in Nat \ {0} /\ d.r \in Nat \ {0}
  BY DEF Periods
<1>1. raw = From(d.p)
  <2>1. R!Rolling(R!Rows, d.p) = From(1 + d.p - 1)
    BY <1>0, FromIs, RollingFrom
  <2>2. 1 + d.p - 1 = d.p
    BY <1>0
  <2>3. R!Rolling({}, d.p) = {}
    <3> SUFFICES ASSUME NEW i \in R!Rolling({}, d.p) PROVE FALSE
      OBVIOUS
    <3>1. i \in R!Rows /\ (i - d.p + 1)..i \subseteq {}
      BY DEF R!Rolling
    <3>2. i \in (i - d.p + 1)..i
      BY <1>0, <3>1, FromIs
    <3> QED
      BY <3>1, <3>2
  <2> QED
    BY <2>1, <2>2, <2>3, Zenon
<1> HIDE DEF raw
<1>2. k = From(d.p + d.r - 1)
  <2>1. CASE d.r > 1
    BY <1>0, <1>1, <2>1, RollingFrom
  <2>2. CASE ~(d.r > 1)
    <3>1. d.p + d.r - 1 = d.p
      BY <1>0, <2>2
    <3> QED
      BY <1>1, <2>2, <3>1
  <2> QED
    BY <2>1, <2>2
<1> HIDE DEF k
<1>3. R!Rolling(k, d.q) = From(d.p + d.r + d.q - 2)
  <2>1. d.p + d.r - 1 \in Nat \ {0}
    BY <1>0
  <2>2. R!Rolling(k, d.q) = From(d.p + d.r - 1 + d.q - 1)
    BY <1>0, <1>2, <2>1, RollingFrom
  <2>3. d.p + d.r - 1 + d.q - 1 = d.p + d.r + d.q - 2
    BY <1>0
  <2> QED
    BY <2>2, <2>3, Zenon
<1>4. R!Filled(d, x, R!Whole) = R!Stoch(d, {})
  BY DEF R!Filled, R!Whole
<1>5. R!Outputs(d.fn) = {"k", "d"} /\ R!Outputs("stoch") = {"k", "d"}
  BY DEF R!Outputs
<1>6. R!Stoch(d, {}) = [out \in R!Outputs("stoch") |-> IF out = "k" THEN k ELSE R!Rolling(k, d.q)]
  BY Zenon DEF R!Stoch, k, raw
<1>7. DOMAIN R!Stoch(d, {}) = {"k", "d"} /\ R!Stoch(d, {})["k"] = k /\ R!Stoch(d, {})["d"] = R!Rolling(k, d.q)
  BY <1>5, <1>6
<1> QED
  BY <1>2, <1>3, <1>4, <1>5, <1>7, StochNeeds

LEMMA MacdInside ==
    ASSUME spec.lookback \in Nat, NEW d, Periods(d), NEW m \in Nat \ {0}, d.fn = "macd", NEW w,
           NEW x, x \subseteq From(m)
    PROVE  /\ DOMAIN R!Filled(d, x, w) = R!Outputs(d.fn)
           /\ \A out \in R!Outputs(d.fn) : R!Filled(d, x, w)[out] \subseteq From(R!Needs(d, m)[out])
<1> DEFINE longer == LaterOf(d.p, d.q)
           line == R!Smoothed(x, d.p) \cap R!Smoothed(x, d.q)
           signal == R!Smoothed(line, d.r)
<1>0. d.p \in Nat \ {0} /\ d.q \in Nat \ {0} /\ d.r \in Nat \ {0}
  BY DEF Periods
<1>1. R!Smoothed(x, d.p) \subseteq From(m + d.p - 1) /\ R!Smoothed(x, d.q) \subseteq From(m + d.q - 1)
  BY <1>0, SmoothedInside
<1>2. line \subseteq From(m + longer - 1)
  BY <1>1 DEF LaterOf
<1>3. longer \in Nat \ {0}
  BY <1>0 DEF LaterOf
<1> HIDE DEF longer, line
<1>4. m + longer - 1 \in Nat \ {0} /\ m + longer - 1 + d.r - 1 = m + longer + d.r - 2
  BY <1>0, <1>3
<1>5. signal \subseteq From(m + longer + d.r - 2)
  <2>1. signal \subseteq From(m + longer - 1 + d.r - 1)
    BY <1>0, <1>2, <1>4, SmoothedInside
  <2> QED
    BY <1>4, <2>1, Zenon
<1> HIDE DEF signal
<1>7. R!Filled(d, x, w) = R!Macd(x, d)
  BY DEF R!Filled
<1>8. R!Outputs(d.fn) = {"macd", "signal", "hist"} /\ R!Outputs("macd") = {"macd", "signal", "hist"}
  BY DEF R!Outputs
<1>9. R!Macd(x, d) = [out \in R!Outputs("macd") |->
          CASE out = "macd" -> line [] out = "signal" -> signal [] out = "hist" -> line \cap signal]
  BY Zenon DEF R!Macd, line, signal
<1>10. /\ DOMAIN R!Macd(x, d) = {"macd", "signal", "hist"}
       /\ R!Macd(x, d)["macd"] = line /\ R!Macd(x, d)["signal"] = signal
       /\ R!Macd(x, d)["hist"] = line \cap signal
  BY <1>8, <1>9
<1>11. /\ R!Needs(d, m)["macd"] = m + longer - 1
       /\ R!Needs(d, m)["signal"] = m + longer + d.r - 2
       /\ R!Needs(d, m)["hist"] = m + longer + d.r - 2
  BY MacdNeeds DEF longer
<1>12. ASSUME NEW out \in {"macd", "signal", "hist"}
       PROVE  R!Macd(x, d)[out] \subseteq From(R!Needs(d, m)[out])
  <2>1. CASE out = "macd"
    BY <1>2, <1>10, <1>11, <2>1, Zenon
  <2>2. CASE out = "signal"
    BY <1>5, <1>10, <1>11, <2>2, Zenon
  <2>3. CASE out = "hist"
    BY <1>5, <1>10, <1>11, <2>3
  <2> QED
    BY <1>12, <2>1, <2>2, <2>3
<1> QED
  BY <1>7, <1>8, <1>10, <1>12

LEMMA StochInside ==
    ASSUME spec.lookback \in Nat, NEW d, Periods(d), NEW m \in Nat \ {0}, d.fn = "stoch", NEW x, NEW w
    PROVE  /\ DOMAIN R!Filled(d, x, w) = R!Outputs(d.fn)
           /\ \A out \in R!Outputs(d.fn) : R!Filled(d, x, w)[out] \subseteq From(R!Needs(d, m)[out])
<1> DEFINE raw == R!Rolling(R!Rows, d.p) \ R!Rolling(w.flat, d.p)
           k == IF d.r > 1 THEN R!Rolling(raw, d.r) ELSE raw
<1>0. d.p \in Nat \ {0} /\ d.q \in Nat \ {0} /\ d.r \in Nat \ {0}
  BY DEF Periods
<1>1. raw \subseteq From(d.p)
  <2>1. R!Rolling(R!Rows, d.p) = From(1 + d.p - 1)
    BY <1>0, FromIs, RollingFrom
  <2>2. 1 + d.p - 1 = d.p
    BY <1>0
  <2> QED
    BY <2>1, <2>2
<1> HIDE DEF raw
<1>2. k \subseteq From(d.p + d.r - 1)
  <2>1. CASE d.r > 1
    BY <1>0, <1>1, <2>1, RollingInside
  <2>2. CASE ~(d.r > 1)
    <3>1. d.p + d.r - 1 = d.p
      BY <1>0, <2>2
    <3> QED
      BY <1>1, <2>2, <3>1
  <2> QED
    BY <2>1, <2>2
<1> HIDE DEF k
<1>3. R!Rolling(k, d.q) \subseteq From(d.p + d.r + d.q - 2)
  <2>1. d.p + d.r - 1 \in Nat \ {0}
    BY <1>0
  <2>2. R!Rolling(k, d.q) \subseteq From(d.p + d.r - 1 + d.q - 1)
    BY <1>0, <1>2, <2>1, RollingInside
  <2>3. d.p + d.r - 1 + d.q - 1 = d.p + d.r + d.q - 2
    BY <1>0
  <2> QED
    BY <2>2, <2>3, Zenon
<1>4. R!Filled(d, x, w) = R!Stoch(d, w.flat)
  BY DEF R!Filled
<1>5. R!Outputs(d.fn) = {"k", "d"} /\ R!Outputs("stoch") = {"k", "d"}
  BY DEF R!Outputs
<1>6. R!Stoch(d, w.flat) = [out \in R!Outputs("stoch") |-> IF out = "k" THEN k ELSE R!Rolling(k, d.q)]
  BY Zenon DEF R!Stoch, k, raw
<1>7. DOMAIN R!Stoch(d, w.flat) = {"k", "d"} /\ R!Stoch(d, w.flat)["k"] = k
      /\ R!Stoch(d, w.flat)["d"] = R!Rolling(k, d.q)
  BY <1>5, <1>6
<1> QED
  BY <1>2, <1>3, <1>4, <1>5, <1>7, StochNeeds

LEMMA SentimentFills ==
    ASSUME spec.lookback \in Nat, NEW d, d.fn = "sentiment", NEW m, NEW x, NEW w
    PROVE  /\ DOMAIN R!Filled(d, x, w) = R!Outputs(d.fn)
           /\ \A out \in R!Outputs(d.fn) : R!Filled(d, x, w)[out] \subseteq From(R!Needs(d, m)[out])
           /\ w = R!Whole => \A out \in R!Outputs(d.fn) : R!Filled(d, x, w)[out] = From(R!Needs(d, m)[out])
<1>1. /\ R!Outputs(d.fn) = {"score", "mentions"} /\ R!Outputs("sentiment") = {"score", "mentions"}
      /\ \A out \in R!Outputs(d.fn) : R!Needs(d, m)[out] = 1
  BY SentimentNeeds
<1>2. R!Filled(d, x, w) = R!Sentiment(w)
  BY DEF R!Filled
<1>3. /\ DOMAIN R!Sentiment(w) = {"score", "mentions"}
      /\ R!Sentiment(w)["mentions"] = R!Rows \cap w.covered
      /\ R!Sentiment(w)["score"] = R!Rows \cap w.covered \cap w.spoken
  BY <1>1 DEF R!Sentiment
<1>4. w = R!Whole => w.covered = R!Rows /\ w.spoken = R!Rows
  BY DEF R!Whole
<1>5. From(1) = R!Rows
  BY FromIs
<1> QED
  BY <1>1, <1>2, <1>3, <1>4, <1>5

\* On data without a hole.
LEMMA WholeFrom ==
    ASSUME spec.lookback \in Nat, NEW d, Periods(d), NEW m \in Nat \ {0}
    PROVE  /\ DOMAIN R!Filled(d, From(m), R!Whole) = R!Outputs(d.fn)
           /\ \A out \in R!Outputs(d.fn) : R!Filled(d, From(m), R!Whole)[out] = From(R!Needs(d, m)[out])
<1>0. d.p \in Nat \ {0} /\ d.q \in Nat \ {0} /\ d.r \in Nat \ {0}
  BY DEF Periods
<1>1. CASE d.fn \in {"sma", "highest"}
  <2>1. R!Filled(d, From(m), R!Whole) = R!Single(R!Rolling(From(m), d.p))
    BY <1>1 DEF R!Filled
  <2>2. R!Rolling(From(m), d.p) = From(Own(d, m))
    BY <1>0, <1>1, RollingFrom DEF Own
  <2> QED
    BY <1>1, <2>1, <2>2, SingleFills
<1>2. CASE d.fn = "ema"
  <2>1. R!Filled(d, From(m), R!Whole) = R!Single(R!Smoothed(From(m), d.p))
    BY <1>2 DEF R!Filled
  <2>2. R!Smoothed(From(m), d.p) = From(Own(d, m))
    BY <1>0, <1>2, SmoothedFrom DEF Own
  <2> QED
    BY <1>2, <2>1, <2>2, SingleFills
<1>3. CASE d.fn = "rsi"
  <2>1. R!Filled(d, From(m), R!Whole) = R!Single(R!SmoothedChange(From(m), d.p))
    BY <1>3 DEF R!Filled
  <2>2. R!SmoothedChange(From(m), d.p) = From(Own(d, m))
    BY <1>0, <1>3, SmoothedFrom DEF Own
  <2> QED
    BY <1>3, <2>1, <2>2, SingleFills
<1>4. CASE d.fn = "roc"
  <2>1. R!Filled(d, From(m), R!Whole) = R!Single(R!Roc(From(m), d.p))
    BY <1>4 DEF R!Filled
  <2>2. R!Roc(From(m), d.p) = From(m) \cap From(m + d.p)
    BY <1>0, ShiftedFrom DEF R!Roc
  <2>3. From(m) \cap From(m + d.p) = From(m + d.p)
    <3>1. m \in Nat /\ m + d.p \in Nat /\ (IF m >= m + d.p THEN m ELSE m + d.p) = m + d.p
      BY <1>0
    <3> QED
      BY <3>1, BothFrom
  <2>4. Own(d, m) = m + d.p
    BY <1>4 DEF Own
  <2> QED
    <3>1. R!Filled(d, From(m), R!Whole) = R!Single(From(Own(d, m)))
      BY <2>1, <2>2, <2>3, <2>4, Zenon
    <3> QED
      BY <1>4, <3>1, SingleFills
<1>5. CASE d.fn = "atr"
  <2>1. R!Filled(d, From(m), R!Whole) = R!Single(R!Atr(d.p))
    BY <1>5 DEF R!Filled
  <2>2. \A i \in R!Rows : i >= d.p <=> i + 1 >= d.p + 1
    BY <1>0, FromIs
  <2>3. R!Atr(d.p) = From(d.p + 1)
    BY <2>2, Zenon DEF R!Atr, From
  <2>4. Own(d, m) = d.p + 1
    BY <1>5 DEF Own
  <2> QED
    BY <1>5, <2>1, <2>3, <2>4, SingleFills
<1>6. CASE d.fn = "fear_greed"
  <2>1. R!Filled(d, From(m), R!Whole) = R!Single(R!Rows)
    BY <1>6 DEF R!Filled, R!Whole
  <2>2. R!Rows = From(Own(d, m))
    BY <1>6, FromIs DEF Own
  <2> QED
    BY <1>6, <2>1, <2>2, SingleFills
<1> QED
  BY <1>1, <1>2, <1>3, <1>4, <1>5, <1>6, MacdFills, StochFills, SentimentFills DEF Periods, Kinds

\* Only three kinds look at more than their input, and they at nothing else.
LEMMA HolesShow ==
    ASSUME NEW d, Periods(d), NEW x, NEW w, R!Filled(d, R!Rows, w) = R!Filled(d, R!Rows, R!Whole)
    PROVE  R!Filled(d, x, w) = R!Filled(d, x, R!Whole)
<1>1. CASE d.fn \in {"sma", "highest", "ema", "rsi", "roc", "atr", "macd"}
  BY <1>1 DEF R!Filled
<1>2. CASE d.fn \in {"stoch", "sentiment", "fear_greed"}
  <2>1. \A y, v : R!Filled(d, x, v) = R!Filled(d, y, v)
    BY <1>2 DEF R!Filled
  <2> QED
    BY <2>1
<1> QED
  BY <1>1, <1>2 DEF Periods, Kinds

LEMMA FilledFrom ==
    ASSUME spec.lookback \in Nat, NEW d, Periods(d), NEW m \in Nat \ {0},
           NEW w, R!Filled(d, R!Rows, w) = R!Filled(d, R!Rows, R!Whole)
    PROVE  /\ DOMAIN R!Filled(d, From(m), w) = R!Outputs(d.fn)
           /\ \A out \in R!Outputs(d.fn) : R!Filled(d, From(m), w)[out] = From(R!Needs(d, m)[out])
<1>1. R!Filled(d, From(m), w) = R!Filled(d, From(m), R!Whole)
  BY HolesShow
<1> QED
  BY <1>1, WholeFrom

\* On any data, and on an input with holes.
LEMMA FilledInside ==
    ASSUME spec.lookback \in Nat, NEW d, Periods(d), NEW m \in Nat \ {0}, NEW w, NEW x, x \subseteq From(m)
    PROVE  /\ DOMAIN R!Filled(d, x, w) = R!Outputs(d.fn)
           /\ \A out \in R!Outputs(d.fn) : R!Filled(d, x, w)[out] \subseteq From(R!Needs(d, m)[out])
<1>0. d.p \in Nat \ {0} /\ d.q \in Nat \ {0} /\ d.r \in Nat \ {0}
  BY DEF Periods
<1>1. CASE d.fn \in {"sma", "highest"}
  <2>1. R!Filled(d, x, w) = R!Single(R!Rolling(x, d.p))
    BY <1>1 DEF R!Filled
  <2>2. R!Rolling(x, d.p) \subseteq From(Own(d, m))
    BY <1>0, <1>1, RollingInside DEF Own
  <2> QED
    BY <1>1, <2>1, <2>2, SingleFills
<1>2. CASE d.fn = "ema"
  <2>1. R!Filled(d, x, w) = R!Single(R!Smoothed(x, d.p))
    BY <1>2 DEF R!Filled
  <2>2. R!Smoothed(x, d.p) \subseteq From(Own(d, m))
    BY <1>0, <1>2, SmoothedInside DEF Own
  <2> QED
    BY <1>2, <2>1, <2>2, SingleFills
<1>3. CASE d.fn = "rsi"
  <2>1. R!Filled(d, x, w) = R!Single(R!SmoothedChange(x, d.p))
    BY <1>3 DEF R!Filled
  <2>2. R!SmoothedChange(x, d.p) \subseteq From(Own(d, m))
    BY <1>0, <1>3, SmoothedInside DEF Own
  <2> QED
    BY <1>3, <2>1, <2>2, SingleFills
<1>4. CASE d.fn = "roc"
  <2>1. R!Filled(d, x, w) = R!Single(R!Roc(x, d.p))
    BY <1>4 DEF R!Filled
  <2>2. R!Shifted(x, d.p) \subseteq From(m + d.p)
    BY <1>0, ShiftedInside
  <2>3. R!Roc(x, d.p) \subseteq From(Own(d, m))
    BY <1>4, <2>2 DEF R!Roc, Own
  <2> QED
    BY <1>4, <2>1, <2>3, SingleFills
<1>5. CASE d.fn = "atr"
  <2>1. R!Filled(d, x, w) = R!Filled(d, From(m), R!Whole)
    BY <1>5 DEF R!Filled
  <2> QED
    BY <2>1, WholeFrom
<1>6. CASE d.fn = "fear_greed"
  <2>1. R!Filled(d, x, w) = R!Single(R!Rows \cap w.known)
    BY <1>6 DEF R!Filled
  <2>2. R!Rows \cap w.known \subseteq From(Own(d, m))
    BY <1>6, FromIs DEF Own
  <2> QED
    BY <1>6, <2>1, <2>2, SingleFills
<1> QED
  BY <1>1, <1>2, <1>3, <1>4, <1>5, <1>6, MacdInside, StochInside, SentimentFills DEF Periods, Kinds

-----------------------------------------------------------------------------
(***************************************************************************)
(* What refers to what, in how many steps                                  *)
(***************************************************************************)

Size == Len(Names)
Further(Q) ==
    Q \cup {r \in R!Named \X R!Named : \E b \in R!Named : <<r[1], b>> \in Q /\ <<b, r[2]>> \in Q}
Paths(Q, n, f) == [k \in 0..n |-> IF k = 0 THEN Q ELSE Further(f[k - 1])]

LEMMA SizeIs ==
    /\ Size \in Nat /\ DOMAIN Names = 1..Size /\ Names \in Seq(R!Named) /\ R!Column \notin R!Named
    /\ \A i \in 1..Size : Names[i] \in R!Named
    /\ \A n \in R!Named : \E i \in 1..Size : Names[i] = n
    /\ \A i, j \in 1..Size : Names[i] = Names[j] => i = j
<1>1. Names \in Seq(R!Named) /\ R!Column \notin R!Named
      /\ \A i, j \in DOMAIN Names : Names[i] = Names[j] => i = j
  BY RuleSettings DEF R!Settings
<1>2. Size \in Nat /\ DOMAIN Names = 1..Size
  BY <1>1 DEF Size
<1> QED
  BY <1>1, <1>2 DEF R!Named

LEMMA PathsExist ==
    ASSUME NEW Q, NEW n \in Nat
    PROVE  \E f : f = Paths(Q, n, f)
<1> DEFINE Bad == {k \in Nat : ~ \E f : f = Paths(Q, k, f)}
<1> SUFFICES ASSUME Bad # {} PROVE FALSE
  OBVIOUS
<1>1. PICK k \in Bad : \A j \in Bad : k <= j
  <2>1. Bad \subseteq Nat
    OBVIOUS
  <2> QED
    BY <2>1, LeastExists
<1>2. k \in Nat /\ ~ \E f : f = Paths(Q, k, f)
  BY <1>1
<1>3. CASE k = 0
  <2> DEFINE f == [i \in 0..0 |-> Q]
  <2>1. f = Paths(Q, 0, f)
    BY DEF Paths
  <2> QED
    BY <1>2, <1>3, <2>1
<1>4. CASE k # 0
  <2>1. k - 1 \in Nat /\ k - 1 \notin Bad
    BY <1>1, <1>2, <1>4
  <2>2. PICK g : g = Paths(Q, k - 1, g)
    BY <2>1
  <2> DEFINE f == [i \in 0..k |-> IF i = k THEN Further(g[k - 1]) ELSE g[i]]
  <2>3. \A i \in 0..(k - 1) : f[i] = g[i]
    BY <2>1, <1>2
  <2>4. \A i \in 0..(k - 1) : g[i] = IF i = 0 THEN Q ELSE Further(g[i - 1])
    BY <2>2, Zenon DEF Paths
  <2>5. f[k] = Further(g[k - 1])
    BY <1>2
  <2>6. ASSUME NEW i \in 0..k
        PROVE  f[i] = IF i = 0 THEN Q ELSE Further(f[i - 1])
    <3> HIDE DEF f
    <3>1. CASE i = k
      <4>1. k - 1 \in 0..(k - 1)
        BY <1>2, <1>4
      <4>2. f[k - 1] = g[k - 1]
        BY <2>3, <4>1
      <4> QED
        BY <1>4, <2>5, <3>1, <4>2
    <3>2. CASE i # k /\ i = 0
      <4>1. 0 \in 0..(k - 1)
        BY <1>2, <1>4
      <4> QED
        BY <2>3, <2>4, <3>2, <4>1
    <3>3. CASE i # k /\ i # 0
      <4>1. i \in 0..(k - 1) /\ i - 1 \in 0..(k - 1)
        BY <1>2, <1>4, <3>3
      <4>2. f[i] = g[i] /\ f[i - 1] = g[i - 1]
        BY <2>3, <4>1
      <4>3. g[i] = Further(g[i - 1])
        BY <2>4, <3>3, <4>1
      <4> QED
        BY <3>3, <4>2, <4>3
    <3> QED
      BY <3>1, <3>2, <3>3
  <2>7. f = Paths(Q, k, f)
    <3>1. Paths(Q, k, f) = [i \in 0..k |-> f[i]]
      BY <2>6 DEF Paths
    <3> QED
      BY <3>1
  <2> QED
    BY <1>2, <2>7
<1> QED
  BY <1>3, <1>4

LEMMA ReachInIs ==
    \A k \in 0..Size : R!ReachIn[k] = IF k = 0 THEN R!Refers ELSE Further(R!ReachIn[k - 1])
<1>1. R!ReachIn = CHOOSE f : f = Paths(R!Refers, Size, f)
  BY Zenon DEF R!ReachIn, Paths, Further, Size
<1>2. \E f : f = Paths(R!Refers, Size, f)
  BY PathsExist, SizeIs
<1>3. R!ReachIn = Paths(R!Refers, Size, R!ReachIn)
  BY <1>1, <1>2, Zenon
<1> QED
  BY <1>3, Zenon DEF Paths

LEMMA ReachNext ==
    ASSUME NEW k \in Nat, k + 1 \in 0..Size
    PROVE  R!ReachIn[k + 1] = Further(R!ReachIn[k])
<1>1. R!ReachIn[k + 1] = IF k + 1 = 0 THEN R!Refers ELSE Further(R!ReachIn[k + 1 - 1])
  BY ReachInIs
<1>2. k + 1 # 0 /\ k + 1 - 1 = k
  OBVIOUS
<1> QED
  BY <1>1, <1>2, Zenon

\* A reference more is a step more, and more steps reach no less.
LEMMA ReachMore ==
    ASSUME NEW k \in Nat, k + 1 \in 0..Size
    PROVE  R!ReachIn[k] \subseteq R!ReachIn[k + 1]
<1>2. R!ReachIn[k + 1] = Further(R!ReachIn[k])
  BY ReachNext
<1> QED
  BY <1>2 DEF Further

LEMMA ReachUp ==
    ASSUME NEW j \in Nat, NEW k \in 0..Size, j <= k
    PROVE  R!ReachIn[j] \subseteq R!ReachIn[k]
<1> DEFINE Bad == {i \in Nat : j <= i /\ i <= k /\ ~(R!ReachIn[j] \subseteq R!ReachIn[i])}
<1>1. k \in Nat
  BY SizeIs
<1>2. SUFFICES ASSUME Bad # {} PROVE FALSE
  BY <1>1
<1>3. PICK i \in Bad : \A l \in Bad : i <= l
  <2>1. Bad \subseteq Nat
    OBVIOUS
  <2> QED
    BY <1>2, <2>1, LeastExists
<1>4. i \in Nat /\ j <= i /\ i <= k /\ ~(R!ReachIn[j] \subseteq R!ReachIn[i])
  BY <1>3
<1>5. i # j
  BY <1>4
<1>6. i - 1 \in Nat /\ i - 1 \notin Bad /\ j <= i - 1 /\ i - 1 <= k
  BY <1>1, <1>3, <1>4, <1>5
<1>7. R!ReachIn[j] \subseteq R!ReachIn[i - 1]
  BY <1>6
<1>8. i - 1 + 1 = i /\ i - 1 + 1 \in 0..Size
  BY <1>4, <1>6, SizeIs
<1>9. R!ReachIn[i - 1] \subseteq R!ReachIn[i]
  BY <1>6, <1>8, ReachMore
<1> QED
  BY <1>4, <1>7, <1>9

LEMMA RefersReach ==
    ASSUME NEW k \in 0..Size PROVE R!Refers \subseteq R!ReachIn[k]
<1>1. 0 \in Nat /\ 0 \in 0..Size /\ 0 <= k
  BY SizeIs
<1>2. R!ReachIn[0] = R!Refers
  BY <1>1, ReachInIs
<1> QED
  BY <1>1, <1>2, ReachUp

LEMMA ReachNamed ==
    ASSUME NEW k \in 0..Size PROVE R!ReachIn[k] \subseteq R!Named \X R!Named
<1> DEFINE Bad == {i \in 0..Size : ~(R!ReachIn[i] \subseteq R!Named \X R!Named)}
<1> SUFFICES ASSUME Bad # {} PROVE FALSE
  OBVIOUS
<1>1. PICK i \in Bad : \A j \in Bad : i <= j
  <2>1. Bad \subseteq Nat
    BY SizeIs
  <2> QED
    BY <2>1, LeastExists
<1>2. i \in Nat /\ i \in 0..Size /\ ~(R!ReachIn[i] \subseteq R!Named \X R!Named)
  BY <1>1, SizeIs
<1>3. CASE i = 0
  <2>1. R!ReachIn[i] = R!Refers
    BY <1>2, <1>3, ReachInIs
  <2> QED
    BY <1>2, <2>1 DEF R!Refers
<1>4. CASE i # 0
  <2>1. i - 1 \in 0..Size /\ i - 1 \notin Bad
    BY <1>1, <1>2, <1>4, SizeIs
  <2>2. R!ReachIn[i - 1] \subseteq R!Named \X R!Named
    BY <2>1
  <2>3. R!ReachIn[i] = Further(R!ReachIn[i - 1])
    BY <1>2, <1>4, ReachInIs, Zenon
  <2> QED
    BY <1>2, <2>2, <2>3 DEF Further
<1> QED
  BY <1>3, <1>4

LEMMA ReachOneMore ==
    ASSUME NEW k \in Nat, k + 1 \in 0..Size, NEW a, NEW b, NEW c,
           <<a, b>> \in R!ReachIn[k], <<b, c>> \in R!Refers
    PROVE  <<a, c>> \in R!ReachIn[k + 1]
<1>1. k \in 0..Size
  BY SizeIs
<1>2. R!ReachIn[k + 1] = Further(R!ReachIn[k])
  BY ReachNext
<1>3. <<b, c>> \in R!ReachIn[k]
  BY <1>1, RefersReach
<1>4. b \in R!Named /\ c \in R!Named
  BY DEF R!Refers
<1>5. a \in R!Named
  BY <1>1, ReachNamed
<1> QED
  BY <1>2, <1>3, <1>4, <1>5 DEF Further

-----------------------------------------------------------------------------
(***************************************************************************)
(* An order of the indicators with each after those it refers to           *)
(***************************************************************************)

\* Pairs whose second name stands before the first in s.
Earlier(s) == {r \in R!Named \X R!Named :
                 \E i, j \in DOMAIN s : i < j /\ s[j] = r[1] /\ s[i] = r[2]}
OneToOne(s) == \A i, j \in DOMAIN s : s[i] = s[j] => i = j

LEMMA EarlierIsAnOrder ==
    ASSUME NEW s \in Seq(R!Named), OneToOne(s)
    PROVE  /\ \A n : <<n, n>> \notin Earlier(s)
           /\ \A Q : Q \subseteq Earlier(s) => Further(Q) \subseteq Earlier(s)
<1>0. DOMAIN s \subseteq Nat
  OBVIOUS
<1>1. ASSUME NEW n, <<n, n>> \in Earlier(s) PROVE FALSE
  <2>1. PICK i, j \in DOMAIN s : i < j /\ s[j] = n /\ s[i] = n
    BY <1>1 DEF Earlier
  <2>2. i = j
    BY <2>1 DEF OneToOne
  <2> QED
    BY <1>0, <2>1, <2>2
<1>2. ASSUME NEW Q, Q \subseteq Earlier(s), NEW r \in Further(Q) PROVE r \in Earlier(s)
  <2>1. CASE r \in Q
    BY <1>2, <2>1
  <2>2. CASE r \notin Q
    <3>1. r \in R!Named \X R!Named
      BY <1>2, <2>2 DEF Further
    <3>2. PICK b \in R!Named : <<r[1], b>> \in Q /\ <<b, r[2]>> \in Q
      BY <1>2, <2>2 DEF Further
    <3>3. <<r[1], b>> \in Earlier(s) /\ <<b, r[2]>> \in Earlier(s)
      BY <1>2, <3>2
    <3>4. PICK i, j \in DOMAIN s : i < j /\ s[j] = r[1] /\ s[i] = b
      BY <3>3 DEF Earlier
    <3>5. PICK k, l \in DOMAIN s : k < l /\ s[l] = b /\ s[k] = r[2]
      BY <3>3 DEF Earlier
    <3>6. i = l
      BY <3>4, <3>5 DEF OneToOne
    <3>7. k < j
      BY <1>0, <3>4, <3>5, <3>6
    <3> QED
      BY <3>1, <3>4, <3>5, <3>7 DEF Earlier
  <2> QED
    BY <2>1, <2>2
<1> QED
  BY <1>1, <1>2

LEMMA OrderedIsAcyclic ==
    ASSUME NEW s \in Seq(R!Named), OneToOne(s), R!Refers \subseteq Earlier(s)
    PROVE  ~R!Cyclic
<1> DEFINE Bad == {i \in 0..Size : ~(R!ReachIn[i] \subseteq Earlier(s))}
<1>1. Bad = {}
  <2> SUFFICES ASSUME Bad # {} PROVE FALSE
    OBVIOUS
  <2>1. PICK i \in Bad : \A j \in Bad : i <= j
    <3>1. Bad \subseteq Nat
      BY SizeIs
    <3> QED
      BY <3>1, LeastExists
  <2>2. i \in Nat /\ i \in 0..Size /\ ~(R!ReachIn[i] \subseteq Earlier(s))
    BY <2>1, SizeIs
  <2>3. CASE i = 0
    BY <2>2, <2>3, ReachInIs
  <2>4. CASE i # 0
    <3>1. i - 1 \in 0..Size /\ i - 1 \notin Bad
      BY <2>1, <2>2, <2>4, SizeIs
    <3>2. R!ReachIn[i - 1] \subseteq Earlier(s)
      BY <3>1
    <3>3. R!ReachIn[i] = Further(R!ReachIn[i - 1])
      BY <2>2, <2>4, ReachInIs, Zenon
    <3> QED
      BY <2>2, <3>2, <3>3, EarlierIsAnOrder, Zenon
  <2> QED
    BY <2>3, <2>4
<1>2. Size \in 0..Size
  BY SizeIs
<1>3. R!ReachIn[Size] \subseteq Earlier(s)
  BY <1>1, <1>2
<1> QED
  BY <1>3, EarlierIsAnOrder DEF R!Cyclic, Size

-----------------------------------------------------------------------------
(***************************************************************************)
(* Counting names                                                          *)
(***************************************************************************)

LEMMA NamedFinite == IsFiniteSet(R!Named) /\ Cardinality(R!Named) <= Size
<1>1. Names \in Surjection(1..Size, R!Named)
  BY SizeIs DEF Surjection, R!Named
<1>2. IsFiniteSet(1..Size) /\ Cardinality(1..Size) = Size
  BY SizeIs, FS_Interval
<1> QED
  BY <1>1, <1>2, FS_Surjection

LEMMA SameCount == \A T : R!Cardinality(T) = Cardinality(T)
BY DEF R!Cardinality, Cardinality, R!IsFiniteSet, IsFiniteSet

LEMMA UpToCount == \A n \in Nat : IsFiniteSet(1..n) /\ Cardinality(1..n) = n
<1> SUFFICES ASSUME NEW n \in Nat PROVE IsFiniteSet(1..n) /\ Cardinality(1..n) = n
  OBVIOUS
<1> QED
  BY FS_Interval

\* A sequence of names without repetition is no longer than there are names, and
\* has as many of them as it is long.
LEMMA SequenceFits ==
    ASSUME NEW s \in Seq(R!Named), OneToOne(s)
    PROVE  /\ Len(s) <= Size
           /\ {s[i] : i \in DOMAIN s} \subseteq R!Named
           /\ Cardinality({s[i] : i \in DOMAIN s}) = Len(s)
<1> DEFINE T == {s[i] : i \in DOMAIN s}
<1>1. DOMAIN s = 1..Len(s) /\ Len(s) \in Nat /\ T \subseteq R!Named
  OBVIOUS
<1>2. IsFiniteSet(1..Len(s)) /\ Cardinality(1..Len(s)) = Len(s)
  BY <1>1, UpToCount
<1>3. s \in Bijection(1..Len(s), T)
  BY <1>1 DEF Bijection, Injection, Surjection, OneToOne, IsInjective
<1>4. IsFiniteSet(T) /\ Cardinality(T) = Len(s)
  <2>1. ExistsBijection(1..Len(s), T)
    BY <1>3 DEF ExistsBijection
  <2> QED
    BY <1>2, <2>1, FS_Bijection
<1>5. Cardinality(T) <= Cardinality(R!Named) /\ Cardinality(R!Named) \in Nat
  BY <1>1, NamedFinite, FS_Subset, FS_CardinalityType
<1> HIDE DEF T
<1>6. Len(s) <= Size
  BY <1>1, <1>4, <1>5, NamedFinite, SizeIs
<1> QED
  BY <1>1, <1>4, <1>6 DEF T

-----------------------------------------------------------------------------
(***************************************************************************)
(* The settings of a spec                                                  *)
(***************************************************************************)

Frames == [name : R!Named, k : Nat, ok : BOOLEAN, need : Nat \ {0}]

LEMMA SpecIs ==
    ASSUME spec \in Specs
    PROVE  /\ spec.lookback \in Nat \ {0} /\ spec.rule.cross \in BOOLEAN
           /\ R!Operands(spec.rule.sides) /\ spec.rule.sides # <<>>
           /\ \A n \in R!Named : Periods(R!Ind(n)) /\ R!Operands(R!Inputs(n))
<1>1. /\ spec.lookback \in Nat \ {0} /\ spec.rule.cross \in BOOLEAN
      /\ R!Operands(spec.rule.sides) /\ spec.rule.sides # <<>>
  BY RuleSettings DEF R!Settings
<1>2. ASSUME NEW n \in R!Named PROVE Periods(R!Ind(n)) /\ R!Operands(R!Inputs(n))
  <2>1. /\ spec.ind[n].fn \in Kinds
        /\ {spec.ind[n].p, spec.ind[n].q, spec.ind[n].r} \subseteq Nat \ {0}
        /\ R!Operands(spec.ind[n].inputs)
    BY RuleSettings DEF R!Settings, Kinds
  <2>2. Periods(R!Ind(n))
    BY <2>1 DEF Periods, R!Ind
  <2>3. R!Operands(<<>>)
    BY DEF R!Operands
  <2> QED
    BY <2>1, <2>2, <2>3 DEF R!Inputs, R!Ind
<1> QED
  BY <1>1, <1>2

LEMMA OperandsAre ==
    ASSUME NEW ops, R!Operands(ops)
    PROVE  /\ Len(ops) \in Nat /\ DOMAIN ops = 1..Len(ops)
           /\ \A i \in 1..Len(ops) : ops[i].shift \in Nat
<1>1. ops \in Seq({ops[i] : i \in DOMAIN ops}) /\ \A i \in DOMAIN ops : ops[i].shift \in Nat
  BY DEF R!Operands
<1>2. Len(ops) \in Nat /\ DOMAIN ops = 1..Len(ops)
  BY <1>1
<1> QED
  BY <1>1, <1>2

-----------------------------------------------------------------------------
(***************************************************************************)
(* What the compiler keeps                                                 *)
(***************************************************************************)

Settled == DOMAIN needs \cup failed

\* m is the need of the first k of some operands, all known.
IsNeed(m, ops, k) ==
    /\ \A i \in 1..k : R!Known(ops[i]) /\ R!NeedOf(ops[i]) <= m
    /\ m = 1 \/ \E i \in 1..k : m = R!NeedOf(ops[i])
FrameFits(f) ==
    /\ f.k <= Len(R!Inputs(f.name))
    /\ f.ok => IsNeed(f.need, R!Inputs(f.name), f.k)
    /\ ~f.ok => errors # {}
Resolved(n) ==
    \E m \in Nat \ {0} :
       /\ needs[n] = R!Needs(R!Ind(n), m)
       /\ IsNeed(m, R!Inputs(n), Len(R!Inputs(n)))

RulesTyped ==
    /\ spec \in Specs /\ phase \in {"compile", "refused", "ready", "run", "done"}
    /\ next \in 0..Size /\ visiting \in Seq(Frames) /\ order \in Seq(R!Named)
    /\ DOMAIN needs \subseteq R!Named /\ failed \subseteq R!Named
\* No name is on the stack twice or when it is settled, and each leads to those above it.
StackFits ==
    /\ \A i, j \in DOMAIN visiting : visiting[i].name = visiting[j].name => i = j
    /\ \A i \in DOMAIN visiting : visiting[i].name \notin Settled /\ FrameFits(visiting[i])
    /\ \A i, j \in DOMAIN visiting :
          i < j => <<visiting[i].name, visiting[j].name>> \in R!ReachIn[j - i - 1]
\* The loop leaves none of the names it has passed.
NoneLeft == \A i \in 1..next : Names[i] \in Settled \cup R!Stacked
\* The resolved indicators are in an order that evaluates each after those it reads.
OrderFits ==
    /\ OneToOne(order) /\ {order[i] : i \in DOMAIN order} = DOMAIN needs
    /\ \A n \in DOMAIN needs : Resolved(n)
    /\ \A j \in DOMAIN order : \A i \in 1..Len(R!Inputs(order[j])) :
          LET m == R!Inputs(order[j])[i].ref IN
          m # R!Column => \E k \in DOMAIN order : k < j /\ order[k] = m
\* An error is one of the spec, and nothing fails without one.
ErrorsFit ==
    /\ phase = "compile" => (errors # {} => ~R!WellFormed)
    /\ failed # {} => errors # {}
\* What is taken is whole and has the bars; what is refused is not, or has too few.
Judged ==
    /\ phase \in {"ready", "run", "done"} =>
          /\ R!WellFormed /\ DOMAIN needs = R!Named /\ ~R!TooShort(R!RuleNeed)
          /\ \A i \in DOMAIN spec.rule.sides : R!Known(spec.rule.sides[i])
    /\ phase = "refused" =>
          \/ ~R!WellFormed
          \/ /\ DOMAIN needs = R!Named /\ R!TooShort(R!RuleNeed)
             /\ \A i \in DOMAIN spec.rule.sides : R!Known(spec.rule.sides[i])
\* In v the outputs of n are numbers from exactly the bar counted for them, or from no
\* bar before it.
FillsAll(n, v) ==
    /\ DOMAIN v[n] = R!Outputs(R!Ind(n).fn)
    /\ \A out \in R!Outputs(R!Ind(n).fn) : v[n][out] = From(needs[n][out])
FillsInside(n, v) ==
    /\ DOMAIN v[n] = R!Outputs(R!Ind(n).fn)
    /\ \A out \in R!Outputs(R!Ind(n).fn) : v[n][out] \subseteq From(needs[n][out])
\* The first of the order have been evaluated, none to more than was counted, and to all
\* of it where no data with a hole are behind them.
Evaluated ==
    /\ phase \notin {"run", "done"} => values = <<>>
    /\ phase \in {"run", "done"} => window \in Windows
    /\ \E k \in 0..Len(order) : DOMAIN values = {order[i] : i \in 1..k} /\ (phase = "done" => k = Len(order))
    /\ \A n \in DOMAIN values : FillsInside(n, values)
    /\ \A U \in SUBSET (R!Named \ R!Gappy) :
          R!Closed(U) => \A n \in U \cap DOMAIN values : FillsAll(n, values)
RulesInv ==
    RulesTyped /\ StackFits /\ NoneLeft /\ OrderFits /\ ErrorsFit /\ Judged /\ Evaluated

LEMMA RulesBegin == R!Init => RulesInv
<1> SUFFICES ASSUME R!Init PROVE RulesInv
  OBVIOUS
<1>1. /\ spec \in Specs /\ phase = "compile" /\ next = 0 /\ visiting = <<>> /\ needs = <<>>
      /\ failed = {} /\ errors = {} /\ order = <<>> /\ values = <<>>
  BY DEF R!Init
<1>2. RulesTyped
  BY <1>1, SizeIs DEF RulesTyped
<1>3. StackFits /\ NoneLeft
  BY <1>1 DEF StackFits, NoneLeft
<1>4. OrderFits
  BY <1>1 DEF OrderFits, OneToOne
<1>5. ErrorsFit /\ Judged
  BY <1>1 DEF ErrorsFit, Judged
<1>6. Evaluated
  <2>1. 0 \in 0..Len(order) /\ DOMAIN values = {order[i] : i \in 1..0} /\ DOMAIN values = {}
    BY <1>1
  <2> QED
    BY <1>1, <2>1, Zenon DEF Evaluated
<1> QED
  BY <1>2, <1>3, <1>4, <1>5, <1>6 DEF RulesInv

\* What is well formed is settled by the spec.
LEMMA SpecDecides ==
    ASSUME spec' = spec
    PROVE  /\ (R!WellFormed)' <=> R!WellFormed
           /\ \A k : (R!ReachIn)'[k] = R!ReachIn[k]
           /\ \A n : (R!Inputs(n))' = R!Inputs(n) /\ (R!Ind(n))' = R!Ind(n)
<1>1. (R!Refers)' = R!Refers
  BY DEF R!Refers, R!Inputs, R!Ind
<1>2. (R!ReachIn)' = R!ReachIn
  BY <1>1, Zenon DEF R!ReachIn
<1>3. \A n : (R!Inputs(n))' = R!Inputs(n) /\ (R!Ind(n))' = R!Ind(n)
  BY DEF R!Inputs, R!Ind
<1>4. (R!WellFormed)' <=> R!WellFormed
  BY <1>2, <1>3 DEF R!WellFormed, R!Cyclic, R!Defined
<1> QED
  BY <1>2, <1>3, <1>4

\* What is known stays known, and needs what it did.
LEMMA NeedsStay ==
    ASSUME spec' = spec, DOMAIN needs \subseteq DOMAIN needs',
           \A n \in DOMAIN needs : needs'[n] = needs[n]
    PROVE  /\ \A o : R!Known(o) => (R!Known(o))' /\ (R!NeedOf(o))' = R!NeedOf(o)
           /\ \A m, ops, k : IsNeed(m, ops, k) => IsNeed(m, ops, k)'
           /\ \A n \in DOMAIN needs : Resolved(n) => Resolved(n)'
<1>1. \A o : R!Known(o) => (R!Known(o))' /\ (R!NeedOf(o))' = R!NeedOf(o)
  BY DEF R!Known, R!NeedOf
<1>2. ASSUME NEW m, NEW ops, NEW k, IsNeed(m, ops, k) PROVE IsNeed(m, ops, k)'
  <2>1. /\ \A i \in 1..k : R!Known(ops[i]) /\ R!NeedOf(ops[i]) <= m
        /\ m = 1 \/ \E i \in 1..k : m = R!NeedOf(ops[i])
    BY <1>2 DEF IsNeed
  <2>2. \A i \in 1..k : (R!Known(ops[i]))' /\ (R!NeedOf(ops[i]))' = R!NeedOf(ops[i])
    BY <1>1, <2>1
  <2>3. \A i \in 1..k : (R!NeedOf(ops[i]))' <= m
    BY <2>1, <2>2
  <2>4. m = 1 \/ \E i \in 1..k : m = (R!NeedOf(ops[i]))'
    BY <2>1, <2>2
  <2> QED
    BY <2>2, <2>3, <2>4 DEF IsNeed
<1>3. ASSUME NEW n \in DOMAIN needs, Resolved(n) PROVE Resolved(n)'
  <2>1. PICK m \in Nat \ {0} : /\ needs[n] = R!Needs(R!Ind(n), m)
                               /\ IsNeed(m, R!Inputs(n), Len(R!Inputs(n)))
    BY <1>3 DEF Resolved
  <2>2. (R!Inputs(n))' = R!Inputs(n) /\ (R!Ind(n))' = R!Ind(n)
    BY DEF R!Inputs, R!Ind
  <2>3. needs'[n] = (R!Needs(R!Ind(n), m))'
    <3>1. needs'[n] = R!Needs(R!Ind(n), m)
      BY <2>1
    <3> QED
      BY <3>1 DEF R!Needs, R!Outputs, R!Ind
  <2>4. IsNeed(m, R!Inputs(n), Len(R!Inputs(n)))'
    <3>1. \A ops, k : IsNeed(m, ops, k) => IsNeed(m, ops, k)'
      BY <1>2
    <3>2. IsNeed(m, R!Inputs(n), Len(R!Inputs(n)))
      BY <2>1
    <3> QED
      BY <2>2, <3>1, <3>2 DEF IsNeed, R!Known, R!NeedOf
  <2> QED
    BY <2>3, <2>4 DEF Resolved
<1> QED
  BY <1>1, <1>2, <1>3

LEMMA FramesStay ==
    ASSUME spec' = spec, DOMAIN needs \subseteq DOMAIN needs',
           \A n \in DOMAIN needs : needs'[n] = needs[n], errors # {} => errors' # {},
           NEW f, FrameFits(f), NEW i, visiting'[i] = f
    PROVE  FrameFits(visiting[i])'
<1>1. (R!Inputs(visiting[i].name))' = R!Inputs(f.name)
  BY DEF R!Inputs, R!Ind
<1>2. f.ok => IsNeed(f.need, R!Inputs(f.name), f.k)
  BY DEF FrameFits
<1>3. f.ok => IsNeed(visiting[i].need, R!Inputs(visiting[i].name), visiting[i].k)'
  <2> SUFFICES ASSUME f.ok
               PROVE  IsNeed(visiting[i].need, R!Inputs(visiting[i].name), visiting[i].k)'
    OBVIOUS
  <2>0. PICK ops : ops = R!Inputs(f.name)
    OBVIOUS
  <2>1. /\ \A j \in 1..f.k : R!Known(ops[j]) /\ R!NeedOf(ops[j]) <= f.need
        /\ f.need = 1 \/ \E j \in 1..f.k : f.need = R!NeedOf(ops[j])
    BY <1>2, <2>0 DEF IsNeed
  <2>2. \A o : R!Known(o) => (R!Known(o))' /\ (R!NeedOf(o))' = R!NeedOf(o)
    BY NeedsStay
  <2>3. /\ \A j \in 1..f.k : (R!Known(ops[j]))' /\ (R!NeedOf(ops[j]))' <= f.need
        /\ f.need = 1 \/ \E j \in 1..f.k : f.need = (R!NeedOf(ops[j]))'
    BY <2>1, <2>2
  <2> QED
    BY <1>1, <2>0, <2>3 DEF IsNeed
<1> QED
  BY <1>1, <1>3 DEF FrameFits

LEMMA OrderStays ==
    ASSUME OrderFits, UNCHANGED <<spec, needs, order>> PROVE OrderFits'
<1>1. \A n : (R!Inputs(n))' = R!Inputs(n)
  BY DEF R!Inputs, R!Ind
<1>2. \A n \in DOMAIN needs : Resolved(n) => Resolved(n)'
  BY NeedsStay
<1> QED
  BY <1>1, <1>2 DEF OrderFits, OneToOne

\* Before a window is evaluated, and where one starts to be.
LEMMA UnevaluatedStays ==
    ASSUME Evaluated, phase \notin {"run", "done"}, phase' # "done",
           phase' \in {"run", "done"} => window' \in Windows, values' = values, order' \in Seq(R!Named)
    PROVE  Evaluated'
<1>1. values' = <<>>
  BY DEF Evaluated
<1>2. DOMAIN values' = {} /\ 0 \in 0..Len(order') /\ {order'[i] : i \in 1..0} = {}
  BY <1>1
<1>3. \E k \in 0..Len(order') : DOMAIN values' = {order'[i] : i \in 1..k} /\ (phase' = "done" => k = Len(order'))
  BY <1>2
<1>4. /\ \A n \in DOMAIN values' : FillsInside(n, values)'
      /\ \A U : \A n \in U \cap DOMAIN values' : FillsAll(n, values)'
  BY <1>2, Zenon
<1> QED
  BY <1>1, <1>3, <1>4, Zenon DEF Evaluated

\* Neither the data nor what reads them changes while a window is evaluated.
LEMMA FilledStays ==
    ASSUME spec' = spec
    PROVE  /\ \A d, x, w : (R!Filled(d, x, w))' = R!Filled(d, x, w)
           /\ (R!Rows)' = R!Rows /\ (R!Whole)' = R!Whole /\ \A m : From(m)' = From(m)
           /\ \A n : (R!Ind(n))' = R!Ind(n)
<1>1. (R!Rows)' = R!Rows /\ \A n : (R!Ind(n))' = R!Ind(n)
  BY DEF R!Rows, R!Ind
<1>2. (R!Whole)' = R!Whole /\ \A m : From(m)' = From(m)
  BY <1>1 DEF R!Whole, From
<1>3. /\ \A x, p : (R!Rolling(x, p))' = R!Rolling(x, p) /\ (R!Shifted(x, p))' = R!Shifted(x, p)
      /\ \A x, p : (R!Smoothed(x, p))' = R!Smoothed(x, p) /\ (R!SmoothedChange(x, p))' = R!SmoothedChange(x, p)
      /\ \A p : (R!Atr(p))' = R!Atr(p)
  BY <1>1 DEF R!Rolling, R!Shifted, R!Smoothed, R!SmoothedChange, R!Atr
<1>4. /\ \A x, p : (R!Roc(x, p))' = R!Roc(x, p)
      /\ \A w : (R!Sentiment(w))' = R!Sentiment(w)
  BY <1>1, <1>3 DEF R!Roc, R!Sentiment
<1>5. \A x, d : (R!Macd(x, d))' = R!Macd(x, d)
  <2> SUFFICES ASSUME NEW x, NEW d PROVE (R!Macd(x, d))' = R!Macd(x, d)
    OBVIOUS
  <2> DEFINE line == R!Smoothed(x, d.p) \cap R!Smoothed(x, d.q)
             signal == R!Smoothed(line, d.r)
  <2>1. line' = line
    BY <1>3
  <2>2. signal' = signal
    <3>1. PICK l : l = line
      OBVIOUS
    <3>2. (R!Smoothed(l, d.r))' = R!Smoothed(l, d.r) /\ l = line'
      BY <1>3, <2>1, <3>1
    <3> HIDE DEF line
    <3> QED
      BY <3>1, <3>2
  <2>3. R!Macd(x, d) = [out \in R!Outputs("macd") |->
            CASE out = "macd" -> line [] out = "signal" -> signal [] out = "hist" -> line \cap signal]
    BY Zenon DEF R!Macd, line, signal
  <2>4. (R!Macd(x, d))' = [out \in R!Outputs("macd") |->
            CASE out = "macd" -> line' [] out = "signal" -> signal' [] out = "hist" -> line' \cap signal']
    BY Zenon DEF R!Macd, line, signal
  <2> HIDE DEF line, signal
  <2> QED
    BY <2>1, <2>2, <2>3, <2>4
<1>6. \A d, x : (R!Stoch(d, x))' = R!Stoch(d, x)
  BY <1>1, <1>3 DEF R!Stoch
<1>7. \A d, x, w : (R!Filled(d, x, w))' = R!Filled(d, x, w)
  BY <1>1, <1>3, <1>4, <1>5, <1>6 DEF R!Filled
<1> QED
  BY <1>1, <1>2, <1>7

LEMMA EvaluationStays ==
    ASSUME UNCHANGED <<spec, needs, window>>, NEW v, v = values'
    PROVE  /\ (R!Gappy)' = R!Gappy /\ \A U : (R!Closed(U))' <=> R!Closed(U)
           /\ \A n : FillsAll(n, values)' <=> FillsAll(n, v)
           /\ \A n : FillsInside(n, values)' <=> FillsInside(n, v)
<1>1. (R!Gappy)' = R!Gappy
  BY FilledStays DEF R!Gappy
<1>2. (R!Refers)' = R!Refers
  BY DEF R!Refers, R!Inputs, R!Ind
<1>3. \A U : (R!Closed(U))' <=> R!Closed(U)
  BY <1>2 DEF R!Closed
<1>4. \A n : (R!Outputs(R!Ind(n).fn))' = R!Outputs(R!Ind(n).fn)
  BY DEF R!Outputs, R!Ind
<1>5. \A n, out : From(needs[n][out])' = From(needs[n][out])
  BY FilledStays DEF From
<1>6. /\ \A n : FillsAll(n, values)' <=> FillsAll(n, v)
      /\ \A n : FillsInside(n, values)' <=> FillsInside(n, v)
  BY <1>4, <1>5 DEF FillsAll, FillsInside
<1> QED
  BY <1>1, <1>3, <1>6

-----------------------------------------------------------------------------
(***************************************************************************)
(* Every step of the compiler keeps the invariant                          *)
(***************************************************************************)

LEMMA VisitKeeps == RulesInv /\ R!Visit => RulesInv'
<1> SUFFICES ASSUME RulesInv, R!Visit PROVE RulesInv'
  OBVIOUS
<1>0. RulesTyped /\ StackFits /\ NoneLeft /\ OrderFits /\ ErrorsFit /\ Judged /\ Evaluated
  BY DEF RulesInv
<1>1. /\ phase = "compile" /\ visiting = <<>> /\ next < Size /\ next' = next + 1
      /\ visiting' = IF Names[next + 1] \in Settled THEN <<>> ELSE <<R!Enter(Names[next + 1])>>
      /\ UNCHANGED <<spec, phase, needs, failed, errors, order, values>>
  BY DEF R!Visit, Settled, Size
<1>2. next + 1 \in 1..Size /\ Names[next + 1] \in R!Named
  BY <1>0, <1>1, SizeIs DEF RulesTyped
<1> DEFINE n == Names[next + 1]
<1>3. R!Enter(n) \in Frames /\ R!Enter(n).name = n
  BY <1>2 DEF R!Enter, Frames
<1>4. RulesTyped'
  <2>1. visiting' \in Seq(Frames)
    BY <1>1, <1>3
  <2>2. next' \in 0..Size
    BY <1>0, <1>1, <1>2, SizeIs DEF RulesTyped
  <2> QED
    BY <1>0, <1>1, <2>1, <2>2 DEF RulesTyped, Size
<1>5. StackFits'
  <2>1. CASE n \in Settled
    BY <1>1, <2>1 DEF StackFits
  <2>2. CASE n \notin Settled
    <3>1. DOMAIN visiting' = {1} /\ visiting'[1] = R!Enter(n)
      BY <1>1, <2>2
    <3>2. Settled' = Settled
      BY <1>1 DEF Settled
    <3>3. FrameFits(R!Enter(n))
      <4>1. Len(R!Inputs(n)) \in Nat
        BY <1>0, <1>2, SpecIs, OperandsAre DEF RulesTyped
      <4> QED
        BY <4>1 DEF FrameFits, R!Enter, IsNeed
    <3>4. FrameFits(visiting[1])'
      BY <1>1, <3>1, <3>3, FramesStay
    <3> QED
      BY <1>3, <2>2, <3>1, <3>2, <3>4 DEF StackFits
  <2> QED
    BY <2>1, <2>2
<1>6. NoneLeft'
  <2> SUFFICES ASSUME NEW i \in 1..(next + 1)
               PROVE  Names[i] \in Settled' \cup (R!Stacked)'
    BY <1>1 DEF NoneLeft
  <2>1. Settled' = Settled /\ R!Stacked = {}
    BY <1>1 DEF Settled, R!Stacked
  <2>2. CASE i <= next
    BY <1>0, <2>1, <2>2 DEF NoneLeft, RulesTyped
  <2>3. CASE i = next + 1 /\ n \in Settled
    BY <2>1, <2>3
  <2>4. CASE i = next + 1 /\ n \notin Settled
    <3>1. DOMAIN visiting' = {1} /\ visiting'[1].name = n
      BY <1>1, <1>3, <2>4
    <3> QED
      BY <2>4, <3>1 DEF R!Stacked
  <2> QED
    BY <1>0, <2>2, <2>3, <2>4 DEF RulesTyped
<1>7. OrderFits' /\ Evaluated'
  BY <1>0, <1>1, OrderStays, UnevaluatedStays DEF RulesTyped
<1>8. ErrorsFit' /\ Judged'
  BY <1>0, <1>1, SpecDecides DEF ErrorsFit, Judged
<1> QED
  BY <1>4, <1>5, <1>6, <1>7, <1>8 DEF RulesInv

\* The frame on top of the stack and the operand it has come to.
LEMMA OnTop ==
    ASSUME RulesInv, visiting # <<>>
    PROVE  /\ Len(visiting) \in Nat \ {0} /\ Len(visiting) \in DOMAIN visiting
           /\ DOMAIN visiting = 1..Len(visiting) /\ R!Top = visiting[Len(visiting)]
           /\ \A i \in 1..Len(visiting) : visiting[i] \in Frames
           /\ R!Top \in Frames /\ R!Top.name \in R!Named /\ R!Top.name \notin Settled
           /\ FrameFits(R!Top)
           /\ Len(R!Inputs(R!Top.name)) \in Nat
           /\ R!Resolving => /\ R!Top.k + 1 \in 1..Len(R!Inputs(R!Top.name))
                             /\ R!Top.k + 1 \in DOMAIN R!Inputs(R!Top.name)
                             /\ R!Operand = R!Inputs(R!Top.name)[R!Top.k + 1]
                             /\ R!Operand.shift \in Nat
<1>1. visiting \in Seq(Frames) /\ StackFits /\ spec \in Specs
  BY DEF RulesInv, RulesTyped
<1>2. /\ Len(visiting) \in Nat \ {0} /\ Len(visiting) \in DOMAIN visiting
      /\ DOMAIN visiting = 1..Len(visiting) /\ R!Top = visiting[Len(visiting)]
      /\ \A i \in 1..Len(visiting) : visiting[i] \in Frames
  BY <1>1 DEF R!Top
<1>3. R!Top \in Frames /\ R!Top.name \in R!Named /\ R!Top.k \in Nat
  BY <1>2 DEF Frames
<1>4. R!Top.name \notin Settled /\ FrameFits(R!Top)
  BY <1>1, <1>2 DEF StackFits
<1>5. R!Operands(R!Inputs(R!Top.name))
  BY <1>1, <1>3, SpecIs
<1>6. /\ Len(R!Inputs(R!Top.name)) \in Nat
      /\ DOMAIN R!Inputs(R!Top.name) = 1..Len(R!Inputs(R!Top.name))
      /\ \A i \in 1..Len(R!Inputs(R!Top.name)) : R!Inputs(R!Top.name)[i].shift \in Nat
  BY <1>5, OperandsAre
<1>7. ASSUME R!Resolving
      PROVE  /\ R!Top.k + 1 \in 1..Len(R!Inputs(R!Top.name))
             /\ R!Operand = R!Inputs(R!Top.name)[R!Top.k + 1]
  BY <1>3, <1>6, <1>7 DEF R!Resolving, R!Operand
<1> QED
  BY <1>2, <1>3, <1>4, <1>6, <1>7

\* The frame on top changes, and still fits.
LEMMA TopChanges ==
    ASSUME RulesInv, visiting # <<>>, UNCHANGED <<spec, needs, failed>>, errors # {} => errors' # {},
           NEW l, l = Len(visiting), NEW frame \in Frames, frame.name = R!Top.name,
           visiting' = [visiting EXCEPT ![l] = frame], FrameFits(visiting[l])'
    PROVE  visiting' \in Seq(Frames) /\ StackFits' /\ (R!Stacked)' = R!Stacked
<1>0. StackFits /\ visiting \in Seq(Frames)
  BY DEF RulesInv, RulesTyped
<1>1. /\ l \in DOMAIN visiting /\ DOMAIN visiting = 1..l /\ l \in Nat
      /\ R!Top = visiting[l]
  BY OnTop
<1>2. /\ DOMAIN visiting' = DOMAIN visiting /\ visiting'[l] = frame
      /\ \A i \in DOMAIN visiting : i # l => visiting'[i] = visiting[i]
      /\ \A i \in DOMAIN visiting : visiting'[i].name = visiting[i].name
  BY <1>1
<1>3. visiting' \in Seq(Frames)
  BY <1>0, <1>1
<1>4. Settled' = Settled /\ (R!ReachIn)' = R!ReachIn
  <2>1. (R!Refers)' = R!Refers
    BY DEF R!Refers, R!Inputs, R!Ind
  <2>2. (R!ReachIn)' = R!ReachIn
    BY <2>1, Zenon DEF R!ReachIn
  <2> QED
    BY <2>2 DEF Settled
<1>5. ASSUME NEW i \in DOMAIN visiting PROVE FrameFits(visiting[i])'
  <2>1. CASE i = l
    BY <2>1
  <2>2. CASE i # l
    <3>1. FrameFits(visiting[i])
      BY <1>0 DEF StackFits
    <3>2. PICK f : f = visiting[i]
      OBVIOUS
    <3>3. FrameFits(f) /\ visiting'[i] = f
      BY <1>2, <2>2, <3>1, <3>2
    <3> QED
      BY <3>3, FramesStay
  <2> QED
    BY <2>1, <2>2
<1>6. \A i, j \in DOMAIN visiting' : visiting'[i].name = visiting'[j].name => i = j
  BY <1>0, <1>2 DEF StackFits
<1>7. \A i, j \in DOMAIN visiting' :
          i < j => <<visiting'[i].name, visiting'[j].name>> \in (R!ReachIn)'[j - i - 1]
  BY <1>0, <1>2, <1>4 DEF StackFits
<1>8. \A i \in DOMAIN visiting' : visiting'[i].name \notin Settled'
  BY <1>0, <1>2, <1>4 DEF StackFits
<1>9. StackFits'
  BY <1>2, <1>5, <1>6, <1>7, <1>8 DEF StackFits
<1>10. (R!Stacked)' = R!Stacked
  BY <1>2 DEF R!Stacked
<1> QED
  BY <1>3, <1>9, <1>10

\* The rest of a step that resolves or fails an operand.
LEMMA OperandDone ==
    ASSUME RulesInv, visiting' \in Seq(Frames), StackFits', (R!Stacked)' = R!Stacked, phase = "compile",
           UNCHANGED <<spec, phase, next, needs, failed, order, values>>, ErrorsFit'
    PROVE  RulesInv'
<1>0. RulesTyped /\ StackFits /\ NoneLeft /\ OrderFits /\ ErrorsFit /\ Judged /\ Evaluated
  BY DEF RulesInv
<1>1. RulesTyped'
  BY <1>0 DEF RulesTyped, Size
<1>2. NoneLeft'
  BY <1>0 DEF NoneLeft, Settled
<1>3. OrderFits' /\ Evaluated'
  BY <1>0, OrderStays, UnevaluatedStays DEF RulesTyped
<1>4. Judged'
  BY <1>0 DEF Judged
<1> QED
  BY <1>1, <1>2, <1>3, <1>4 DEF RulesInv

\* What is known needs a bar at least.
LEMMA NeedIsPositive ==
    ASSUME spec \in Specs, DOMAIN needs \subseteq R!Named, \A n \in DOMAIN needs : Resolved(n),
           NEW o, R!Known(o), o.shift \in Nat
    PROVE  R!NeedOf(o) \in Nat \ {0}
<1>1. CASE o.ref = R!Column
  BY <1>1 DEF R!NeedOf
<1>2. CASE o.ref # R!Column
  <2>1. o.ref \in DOMAIN needs /\ o.out \in DOMAIN needs[o.ref] /\ o.ref \in R!Named
    BY <1>2 DEF R!Known
  <2>2. PICK m \in Nat \ {0} : needs[o.ref] = R!Needs(R!Ind(o.ref), m)
    BY <2>1 DEF Resolved
  <2>3. needs[o.ref][o.out] \in Nat \ {0}
    BY <2>1, <2>2, NeedsType, SpecIs
  <2> QED
    BY <1>2, <2>3 DEF R!NeedOf
<1> QED
  BY <1>1, <1>2

\* Without its operand or another one, the need is the greatest so far.
LEMMA NeedGrows ==
    ASSUME NEW m \in Nat \ {0}, NEW ops, NEW k \in Nat, IsNeed(m, ops, k),
           R!Known(ops[k + 1]),
           \A i \in 1..(k + 1) : R!Known(ops[i]) => R!NeedOf(ops[i]) \in Nat
    PROVE  /\ R!Max({m, R!NeedOf(ops[k + 1])}) \in Nat \ {0}
           /\ IsNeed(R!Max({m, R!NeedOf(ops[k + 1])}), ops, k + 1)
<1> DEFINE n == R!NeedOf(ops[k + 1])
<1>0. n \in Nat
  OBVIOUS
<1>1. R!Max({m, n}) = LaterOf(m, n)
  BY <1>0, LongerIs
<1>2. LaterOf(m, n) \in Nat \ {0} /\ m <= LaterOf(m, n) /\ n <= LaterOf(m, n)
      /\ (LaterOf(m, n) = m \/ LaterOf(m, n) = n)
  BY <1>0 DEF LaterOf
<1>3. /\ \A i \in 1..k : R!Known(ops[i]) /\ R!NeedOf(ops[i]) <= m
      /\ m = 1 \/ \E i \in 1..k : m = R!NeedOf(ops[i])
  BY DEF IsNeed
<1> HIDE DEF n
<1>4. ASSUME NEW i \in 1..(k + 1) PROVE R!Known(ops[i]) /\ R!NeedOf(ops[i]) <= LaterOf(m, n)
  <2>1. CASE i = k + 1
    BY <1>2, <2>1 DEF n
  <2>2. CASE i # k + 1
    <3>1. i \in 1..k
      BY <2>2
    <3>2. R!Known(ops[i]) /\ R!NeedOf(ops[i]) <= m
      BY <1>3, <3>1
    <3>3. R!NeedOf(ops[i]) \in Nat
      BY <3>2
    <3>4. R!NeedOf(ops[i]) <= LaterOf(m, n)
      BY <1>2, <3>2, <3>3
    <3> QED
      BY <3>2, <3>4
  <2> QED
    BY <2>1, <2>2
<1> QED
  BY <1>1, <1>2, <1>3, <1>4 DEF IsNeed, n

LEMMA FrameEdited ==
    ASSUME NEW f \in Frames, NEW m, NEW b
    PROVE  /\ [f EXCEPT !.k = @ + 1, !.need = m] = [name |-> f.name, k |-> f.k + 1, ok |-> f.ok, need |-> m]
           /\ [f EXCEPT !.k = @ + 1, !.ok = b] = [name |-> f.name, k |-> f.k + 1, ok |-> b, need |-> f.need]
<1>1. PICK n, k, o, d : f = [name |-> n, k |-> k, ok |-> o, need |-> d]
  BY DEF Frames
<1>2. f.name = n /\ f.k = k /\ f.ok = o /\ f.need = d
  BY <1>1
<1> DEFINE g == [name |-> n, k |-> k + 1, ok |-> o, need |-> d]
<1>3. [f EXCEPT !.k = f.k + 1] = g
  BY <1>1, <1>2
<1>4. /\ [g EXCEPT !.need = m] = [name |-> n, k |-> k + 1, ok |-> o, need |-> m]
      /\ [g EXCEPT !.ok = b] = [name |-> n, k |-> k + 1, ok |-> b, need |-> d]
  OBVIOUS
<1>5. /\ [f EXCEPT !.k = f.k + 1, !.need = m] = [[f EXCEPT !.k = f.k + 1] EXCEPT !.need = m]
      /\ [f EXCEPT !.k = f.k + 1, !.ok = b] = [[f EXCEPT !.k = f.k + 1] EXCEPT !.ok = b]
  OBVIOUS
<1> HIDE DEF g
<1>6. /\ [f EXCEPT !.k = @ + 1, !.need = m] = [name |-> n, k |-> k + 1, ok |-> o, need |-> m]
      /\ [f EXCEPT !.k = @ + 1, !.ok = b] = [name |-> n, k |-> k + 1, ok |-> b, need |-> d]
  BY <1>3, <1>4, <1>5
<1> QED
  BY <1>2, <1>6

LEMMA ResolveKeeps == RulesInv /\ R!Resolve => RulesInv'
<1> SUFFICES ASSUME RulesInv, R!Resolve PROVE RulesInv'
  OBVIOUS
<1>0. RulesTyped /\ StackFits /\ OrderFits /\ ErrorsFit /\ DOMAIN needs \subseteq R!Named
  BY DEF RulesInv, RulesTyped
<1>1. /\ phase = "compile" /\ visiting # <<>> /\ R!Known(R!Operand) /\ R!Resolving
      /\ visiting' = [visiting EXCEPT ![Len(visiting)] =
                        [R!Top EXCEPT !.k = @ + 1, !.need = R!Max({@, R!NeedOf(R!Operand)})]]
      /\ UNCHANGED <<spec, phase, next, needs, failed, errors, order, values>>
  BY DEF R!Resolve, R!Resolving, R!SetTop
<1>2. PICK f, ops, l : f = R!Top /\ ops = R!Inputs(R!Top.name) /\ l = Len(visiting)
  OBVIOUS
<1>3. /\ l \in DOMAIN visiting /\ f \in Frames /\ FrameFits(f) /\ Len(ops) \in Nat
      /\ f.k + 1 \in 1..Len(ops) /\ R!Operand = ops[f.k + 1]
  BY <1>1, <1>2, OnTop
<1>4. /\ f.name \in R!Named /\ f.k \in Nat /\ f.ok \in BOOLEAN /\ f.need \in Nat \ {0}
      /\ f = [name |-> f.name, k |-> f.k, ok |-> f.ok, need |-> f.need]
  BY <1>3 DEF Frames
<1>5. PICK m : m = R!Max({f.need, R!NeedOf(ops[f.k + 1])})
  OBVIOUS
<1> DEFINE g == [name |-> f.name, k |-> f.k + 1, ok |-> f.ok, need |-> m]
<1>6. visiting' = [visiting EXCEPT ![l] = g]
  <2>1. [f EXCEPT !.k = @ + 1, !.need = R!Max({@, R!NeedOf(ops[f.k + 1])})] = g
    <3>1. [f EXCEPT !.k = @ + 1, !.need = m] = g
      BY <1>3, FrameEdited
    <3> QED
      BY <1>5, <3>1
  <2> QED
    BY <1>1, <1>2, <1>3, <2>1
<1>7. \A i \in 1..Len(ops) : R!Known(ops[i]) => R!NeedOf(ops[i]) \in Nat \ {0}
  <2>1. \A i \in 1..Len(ops) : ops[i].shift \in Nat
    BY <1>0, <1>2, <1>4, SpecIs, OperandsAre DEF RulesTyped
  <2> QED
    BY <1>0, <2>1, NeedIsPositive DEF RulesTyped, OrderFits
<1>8. m \in Nat \ {0} /\ (f.ok => IsNeed(m, ops, f.k + 1))
  <2>1. R!NeedOf(ops[f.k + 1]) \in Nat
    BY <1>1, <1>3, <1>7
  <2>2. m \in Nat \ {0}
    <3>1. R!Max({f.need, R!NeedOf(ops[f.k + 1])}) = LaterOf(f.need, R!NeedOf(ops[f.k + 1]))
      BY <1>4, <2>1, LongerIs
    <3> QED
      BY <1>4, <1>5, <2>1, <3>1 DEF LaterOf
  <2>3. ASSUME f.ok PROVE IsNeed(m, ops, f.k + 1)
    <3>1. IsNeed(f.need, ops, f.k)
      BY <1>2, <1>3, <2>3 DEF FrameFits
    <3>2. \A i \in 1..(f.k + 1) : R!Known(ops[i]) => R!NeedOf(ops[i]) \in Nat
      BY <1>3, <1>4, <1>7
    <3> QED
      BY <1>1, <1>3, <1>4, <1>5, <3>1, <3>2, NeedGrows
  <2> QED
    BY <2>2, <2>3
<1>9. g \in Frames /\ g.name = R!Top.name
  BY <1>2, <1>4, <1>8 DEF Frames
<1>10. FrameFits(g)
  <2>1. g.k = f.k + 1 /\ g.name = f.name /\ g.ok = f.ok /\ g.need = m
    OBVIOUS
  <2>2. ~f.ok => errors # {}
    BY <1>3 DEF FrameFits
  <2> HIDE DEF g
  <2> QED
    BY <1>2, <1>3, <1>8, <2>1, <2>2 DEF FrameFits
<1> HIDE DEF g
<1>11. FrameFits(visiting[l])'
  <2>1. visiting'[l] = g
    BY <1>3, <1>6
  <2> QED
    BY <1>1, <1>10, <2>1, FramesStay
<1>12. visiting' \in Seq(Frames) /\ StackFits' /\ (R!Stacked)' = R!Stacked
  BY <1>1, <1>2, <1>6, <1>9, <1>11, TopChanges
<1>13. ErrorsFit'
  BY <1>0, <1>1, SpecDecides DEF ErrorsFit
<1> QED
  BY <1>1, <1>12, <1>13, OperandDone

LEMMA StackIsShort == RulesTyped /\ StackFits => Len(visiting) \in Nat /\ Len(visiting) <= Size
<1> SUFFICES ASSUME RulesTyped, StackFits PROVE Len(visiting) \in Nat /\ Len(visiting) <= Size
  OBVIOUS
<1> DEFINE l == Len(visiting)
           s == [j \in 1..l |-> visiting[j].name]
<1>1. visiting \in Seq(Frames) /\ l \in Nat /\ DOMAIN visiting = 1..l
  BY DEF RulesTyped
<1>2. \A j \in 1..l : visiting[j].name \in R!Named
  <2>1. \A j \in 1..l : visiting[j] \in Frames
    BY <1>1
  <2> QED
    BY <2>1 DEF Frames
<1>3. s \in Seq(R!Named) /\ Len(s) = l
  BY <1>1, <1>2
<1>4. OneToOne(s)
  BY <1>1 DEF OneToOne, StackFits
<1> QED
  BY <1>1, <1>3, <1>4, SequenceFits

\* What makes an operand fail is a mistake of the spec.
LEMMA FailureIsOfTheSpec ==
    ASSUME RulesInv, R!Resolving, ~R!Known(R!Operand),
           R!Operand.ref \notin R!Named \ (DOMAIN needs \cup failed \cup R!Stacked)
    PROVE  ~R!WellFormed /\ (R!Operand.ref \in failed => errors # {})
<1>0. RulesTyped /\ StackFits /\ OrderFits /\ ErrorsFit /\ phase = "compile" /\ visiting # <<>>
  BY DEF RulesInv, R!Resolving
<1> DEFINE o == R!Operand
           n == R!Top.name
<1>1. n \in R!Named /\ \E i \in DOMAIN R!Inputs(n) : R!Inputs(n)[i] = o
  BY <1>0, OnTop
<1>2. CASE o.ref \in failed
  BY <1>0, <1>2 DEF ErrorsFit
<1>3. CASE o.ref \in R!Stacked
  <2> DEFINE l == Len(visiting)
  <2>0. l \in Nat \ {0} /\ l \in DOMAIN visiting /\ DOMAIN visiting = 1..l /\ n = visiting[l].name
    BY <1>0, OnTop
  <2>1. PICK i \in DOMAIN visiting : visiting[i].name = o.ref
    BY <1>3 DEF R!Stacked
  <2>2. o.ref \in R!Named
    BY <2>1, <2>0, <1>0, OnTop DEF Frames
  <2>3. <<n, o.ref>> \in R!Refers
    BY <1>1, <2>2 DEF R!Refers
  <2>4. l <= Size
    BY <1>0, StackIsShort
  <2>5. <<o.ref, o.ref>> \in R!ReachIn[Size]
    <3>1. CASE i = l
      <4>1. Size \in 0..Size
        BY SizeIs
      <4>2. o.ref = n
        BY <2>0, <2>1, <3>1
      <4> QED
        BY <2>3, <4>1, <4>2, RefersReach
    <3>2. CASE i # l
      <4>1. i < l /\ l - i - 1 \in Nat /\ l - i - 1 + 1 \in 0..Size /\ l - i - 1 + 1 <= Size
        BY <2>0, <2>1, <2>4, <3>2, SizeIs
      <4>2. <<o.ref, n>> \in R!ReachIn[l - i - 1]
        BY <1>0, <2>0, <2>1, <4>1 DEF StackFits
      <4>3. <<o.ref, o.ref>> \in R!ReachIn[l - i - 1 + 1]
        BY <2>3, <4>1, <4>2, ReachOneMore
      <4>4. l - i - 1 + 1 \in Nat /\ Size \in 0..Size
        BY <4>1, SizeIs
      <4>5. R!ReachIn[l - i - 1 + 1] \subseteq R!ReachIn[Size]
        BY <4>1, <4>4, ReachUp
      <4> QED
        BY <4>3, <4>5
    <3> QED
      BY <3>1, <3>2
  <2>6. R!Cyclic
    BY <2>2, <2>5 DEF R!Cyclic, Size
  <2>7. o.ref \notin failed
    <3>1. visiting[i].name \notin Settled
      BY <1>0, <2>1 DEF StackFits
    <3> QED
      BY <2>1, <3>1 DEF Settled
  <2> QED
    BY <2>6, <2>7 DEF R!WellFormed
<1>4. CASE o.ref \notin failed /\ o.ref \notin R!Stacked
  <2>1. ~R!Defined(o)
    <3>1. o.ref # R!Column
      BY DEF R!Known
    <3>2. CASE o.ref \in DOMAIN needs
      <4>1. o.out \notin DOMAIN needs[o.ref] /\ o.ref \in R!Named
        BY <1>0, <3>2 DEF R!Known, RulesTyped
      <4>2. PICK m \in Nat \ {0} : needs[o.ref] = R!Needs(R!Ind(o.ref), m)
        BY <1>0, <3>2 DEF OrderFits, Resolved
      <4>3. DOMAIN needs[o.ref] = R!Outputs(R!Ind(o.ref).fn)
        BY <1>0, <4>1, <4>2, NeedsType, SpecIs DEF RulesTyped
      <4> QED
        BY <3>1, <4>1, <4>3 DEF R!Defined
    <3>3. CASE o.ref \notin DOMAIN needs
      BY <1>4, <3>1, <3>3 DEF R!Defined
    <3> QED
      BY <3>2, <3>3
  <2> QED
    BY <1>1, <1>4, <2>1 DEF R!WellFormed
<1> QED
  BY <1>2, <1>3, <1>4

LEMMA FailOperandKeeps == RulesInv /\ R!FailOperand => RulesInv'
<1> SUFFICES ASSUME RulesInv, R!FailOperand PROVE RulesInv'
  OBVIOUS
<1>0. RulesTyped /\ StackFits /\ OrderFits /\ ErrorsFit
  BY DEF RulesInv
<1>1. /\ phase = "compile" /\ visiting # <<>> /\ ~R!Known(R!Operand) /\ R!Resolving
      /\ R!Operand.ref \notin R!Named \ (DOMAIN needs \cup failed \cup R!Stacked)
      /\ errors' = errors \cup R!Cause(R!Operand)
      /\ visiting' = [visiting EXCEPT ![Len(visiting)] = [R!Top EXCEPT !.k = @ + 1, !.ok = FALSE]]
      /\ UNCHANGED <<spec, phase, next, needs, failed, order, values>>
  BY DEF R!FailOperand, R!Resolving, R!SetTop, R!Unresolved
<1>2. PICK f, l : f = R!Top /\ l = Len(visiting)
  OBVIOUS
<1>3. l \in DOMAIN visiting /\ f \in Frames /\ f.k + 1 <= Len(R!Inputs(f.name))
  BY <1>1, <1>2, OnTop
<1> DEFINE g == [name |-> f.name, k |-> f.k + 1, ok |-> FALSE, need |-> f.need]
<1>4. visiting' = [visiting EXCEPT ![l] = g]
  <2>1. [f EXCEPT !.k = @ + 1, !.ok = FALSE] = g
    BY <1>3, FrameEdited
  <2> QED
    BY <1>1, <1>2, <2>1
<1>5. g \in Frames /\ g.name = R!Top.name
  BY <1>2, <1>3 DEF Frames
<1>6. ~R!WellFormed /\ (R!Operand.ref \in failed => errors # {})
  BY <1>1, FailureIsOfTheSpec
<1>7. errors' # {}
  <2>1. CASE R!Operand.ref \in failed
    BY <1>1, <1>6, <2>1
  <2>2. CASE R!Operand.ref \notin failed
    <3>1. R!Cause(R!Operand) # {}
      BY <2>2 DEF R!Cause
    <3> QED
      BY <1>1, <3>1
  <2> QED
    BY <2>1, <2>2
<1>8. FrameFits(visiting[l])'
  <2>1. visiting'[l] = g /\ g.k = f.k + 1 /\ g.name = f.name /\ g.ok = FALSE
    BY <1>3, <1>4
  <2> HIDE DEF g
  <2>2. (R!Inputs(visiting[l].name))' = R!Inputs(f.name)
    <3>1. visiting'[l].name = f.name /\ spec' = spec
      BY <1>1, <2>1
    <3> QED
      BY <3>1 DEF R!Inputs, R!Ind
  <2> QED
    BY <1>3, <1>7, <2>1, <2>2 DEF FrameFits
<1> HIDE DEF g
<1>9. visiting' \in Seq(Frames) /\ StackFits' /\ (R!Stacked)' = R!Stacked
  BY <1>1, <1>2, <1>4, <1>5, <1>7, <1>8, TopChanges
<1>10. ErrorsFit'
  BY <1>1, <1>6, <1>7, SpecDecides DEF ErrorsFit
<1> QED
  BY <1>1, <1>9, <1>10, OperandDone

LEMMA DescendKeeps == RulesInv /\ R!Descend => RulesInv'
<1> SUFFICES ASSUME RulesInv, R!Descend PROVE RulesInv'
  OBVIOUS
<1>0. /\ RulesTyped /\ StackFits /\ NoneLeft /\ OrderFits /\ ErrorsFit /\ Judged /\ Evaluated
      /\ spec \in Specs /\ visiting \in Seq(Frames)
  BY DEF RulesInv, RulesTyped
<1>1. /\ phase = "compile" /\ visiting # <<>> /\ R!Resolving
      /\ R!Operand.ref \in R!Named \ (Settled \cup R!Stacked)
      /\ visiting' = Append(visiting, R!Enter(R!Operand.ref))
      /\ UNCHANGED <<spec, phase, next, needs, failed, errors, order, values>>
  BY DEF R!Descend, R!Resolving, Settled
<1>2. PICK n, ref, l : n = R!Top.name /\ ref = R!Operand.ref /\ l = Len(visiting)
  OBVIOUS
<1>3. /\ l \in Nat \ {0} /\ DOMAIN visiting = 1..l /\ visiting[l].name = n /\ n \in R!Named
      /\ \E i \in DOMAIN R!Inputs(n) : R!Inputs(n)[i].ref = ref
  BY <1>1, <1>2, OnTop
<1>4. l <= Size
  BY <1>0, <1>2, StackIsShort
<1>5. R!Enter(ref) \in Frames /\ R!Enter(ref).name = ref
  BY <1>1, <1>2 DEF R!Enter, Frames
<1>6. /\ visiting' \in Seq(Frames) /\ DOMAIN visiting' = 1..(l + 1) /\ visiting'[l + 1] = R!Enter(ref)
      /\ \A i \in 1..l : visiting'[i] = visiting[i]
  BY <1>0, <1>1, <1>2, <1>5
<1>7. RulesTyped'
  BY <1>0, <1>1, <1>6 DEF RulesTyped, Size
<1>8. /\ Settled' = Settled
      /\ \A i \in 1..l : visiting'[i].name = visiting[i].name /\ i \in 1..(l + 1)
      /\ visiting'[l + 1].name = ref /\ l + 1 \in 1..(l + 1)
  BY <1>1, <1>3, <1>5, <1>6 DEF Settled
<1>9. ref \notin Settled /\ \A i \in 1..l : visiting[i].name # ref
  BY <1>1, <1>2, <1>3 DEF R!Stacked
<1>10. \A i, j \in DOMAIN visiting' : visiting'[i].name = visiting'[j].name => i = j
  <2>1. \A i, j \in 1..l : visiting[i].name = visiting[j].name => i = j
    BY <1>0, <1>3 DEF StackFits
  <2> QED
    BY <1>3, <1>6, <1>8, <1>9, <2>1
<1>11. ASSUME NEW i \in DOMAIN visiting'
       PROVE  visiting'[i].name \notin Settled' /\ FrameFits(visiting[i])'
  <2>1. CASE i \in 1..l
    <3>1. FrameFits(visiting[i]) /\ visiting[i].name \notin Settled
      BY <1>0, <1>3, <2>1 DEF StackFits
    <3>2. PICK f : f = visiting[i]
      OBVIOUS
    <3>3. FrameFits(f) /\ visiting'[i] = f
      BY <1>6, <2>1, <3>1, <3>2
    <3>4. FrameFits(visiting[i])'
      BY <1>1, <3>3, FramesStay
    <3> QED
      BY <1>8, <2>1, <3>1, <3>4
  <2>2. CASE i = l + 1
    <3>1. FrameFits(R!Enter(ref))
      <4>1. Len(R!Inputs(ref)) \in Nat
        BY <1>0, <1>1, <1>2, SpecIs, OperandsAre
      <4> QED
        BY <4>1 DEF FrameFits, R!Enter, IsNeed
    <3>2. PICK f : f = R!Enter(ref)
      OBVIOUS
    <3>3. FrameFits(f) /\ visiting'[i] = f
      BY <1>6, <2>2, <3>1, <3>2
    <3>4. FrameFits(visiting[i])'
      BY <1>1, <3>3, FramesStay
    <3> QED
      BY <1>8, <1>9, <2>2, <3>4
  <2> QED
    BY <1>3, <1>6, <2>1, <2>2
<1>12. ASSUME NEW i \in DOMAIN visiting', NEW j \in DOMAIN visiting', i < j
       PROVE  <<visiting'[i].name, visiting'[j].name>> \in R!ReachIn[j - i - 1]
  <2>1. CASE j \in 1..l
    <3>1. i \in 1..l
      BY <1>3, <1>6, <1>12, <2>1
    <3>2. <<visiting[i].name, visiting[j].name>> \in R!ReachIn[j - i - 1]
      BY <1>0, <1>3, <1>12, <2>1, <3>1 DEF StackFits
    <3> QED
      BY <1>8, <2>1, <3>1, <3>2
  <2>2. CASE j = l + 1
    <3>0. i \in 1..l /\ i \in Nat
      BY <1>3, <1>6, <1>12, <2>2
    <3>1. <<n, ref>> \in R!Refers
      BY <1>1, <1>2, <1>3 DEF R!Refers
    <3>2. CASE i = l
      <4>1. j - i - 1 = 0 /\ 0 \in 0..Size
        BY <1>3, <2>2, <3>2, SizeIs
      <4>2. <<n, ref>> \in R!ReachIn[0]
        BY <3>1, <4>1, RefersReach
      <4>3. visiting'[i].name = n /\ visiting'[j].name = ref
        BY <1>3, <1>8, <2>2, <3>0, <3>2
      <4> QED
        BY <4>1, <4>2, <4>3
    <3>3. CASE i # l
      <4>1. i < l /\ l - i - 1 \in Nat /\ l - i - 1 + 1 \in 0..Size /\ j - i - 1 = l - i - 1 + 1
        BY <1>3, <1>4, <2>2, <3>0, <3>3, SizeIs
      <4>2. <<visiting[i].name, n>> \in R!ReachIn[l - i - 1]
        <5>1. l \in DOMAIN visiting /\ i \in DOMAIN visiting
          BY <1>3, <3>0
        <5> QED
          BY <1>0, <1>3, <4>1, <5>1 DEF StackFits
      <4>3. <<visiting[i].name, ref>> \in R!ReachIn[l - i - 1 + 1]
        BY <3>1, <4>1, <4>2, ReachOneMore
      <4> QED
        BY <1>8, <2>2, <3>0, <4>1, <4>3
    <3> QED
      BY <3>2, <3>3
  <2> QED
    BY <1>3, <1>6, <2>1, <2>2
<1>13. StackFits'
  <2>1. \A k : (R!ReachIn)'[k] = R!ReachIn[k]
    BY <1>1, SpecDecides
  <2>2. \A i, j \in DOMAIN visiting' :
          i < j => <<visiting'[i].name, visiting'[j].name>> \in (R!ReachIn)'[j - i - 1]
    BY <1>12, <2>1
  <2> QED
    BY <1>10, <1>11, <2>2 DEF StackFits
<1>14. NoneLeft'
  <2>1. R!Stacked \subseteq (R!Stacked)'
    BY <1>3, <1>6, <1>8 DEF R!Stacked
  <2> QED
    BY <1>0, <1>1, <1>8, <2>1 DEF NoneLeft
<1>15. OrderFits' /\ Evaluated' /\ ErrorsFit' /\ Judged'
  BY <1>0, <1>1, OrderStays, UnevaluatedStays, SpecDecides DEF ErrorsFit, Judged, RulesTyped
<1> QED
  BY <1>7, <1>13, <1>14, <1>15 DEF RulesInv

\* The top of the stack goes, and its name is settled.
LEMMA Popped ==
    ASSUME RulesInv, visiting # <<>>, visiting' = SubSeq(visiting, 1, Len(visiting) - 1),
           NEW n, n = R!Top.name, Settled' = Settled \cup {n},
           spec' = spec, DOMAIN needs \subseteq DOMAIN needs',
           \A m \in DOMAIN needs : needs'[m] = needs[m], errors' = errors, next' = next
    PROVE  visiting' \in Seq(Frames) /\ StackFits' /\ NoneLeft'
<1>0. StackFits /\ NoneLeft /\ visiting \in Seq(Frames)
  BY DEF RulesInv, RulesTyped
<1>1. PICK l : l = Len(visiting)
  OBVIOUS
<1>2. /\ l \in Nat \ {0} /\ DOMAIN visiting = 1..l /\ visiting[l].name = n
  BY <1>1, OnTop
<1>3. /\ visiting' \in Seq(Frames) /\ DOMAIN visiting' = 1..(l - 1)
      /\ \A i \in 1..(l - 1) : visiting'[i] = visiting[i] /\ i \in 1..l /\ i # l
  BY <1>0, <1>1, <1>2
<1>4. ASSUME NEW i \in 1..(l - 1) PROVE FrameFits(visiting[i])' /\ visiting'[i].name \notin Settled'
  <2>1. FrameFits(visiting[i]) /\ visiting[i].name \notin Settled /\ visiting[i].name # n
    <3>1. i \in DOMAIN visiting /\ l \in DOMAIN visiting /\ i # l
      BY <1>2, <1>3
    <3>2. FrameFits(visiting[i]) /\ visiting[i].name \notin Settled
      BY <1>0, <3>1 DEF StackFits
    <3>3. visiting[i].name # visiting[l].name
      BY <1>0, <3>1 DEF StackFits
    <3> QED
      BY <1>2, <3>2, <3>3
  <2>2. PICK f : f = visiting[i]
    OBVIOUS
  <2>3. FrameFits(f) /\ visiting'[i] = f
    BY <1>3, <2>1, <2>2
  <2>4. FrameFits(visiting[i])'
    BY <2>3, FramesStay
  <2> QED
    BY <1>3, <2>1, <2>4
<1>5. \A i, j \in DOMAIN visiting' : visiting'[i].name = visiting'[j].name => i = j
  BY <1>0, <1>2, <1>3 DEF StackFits
<1>6. \A i, j \in DOMAIN visiting' :
          i < j => <<visiting'[i].name, visiting'[j].name>> \in (R!ReachIn)'[j - i - 1]
  <2>1. \A k : (R!ReachIn)'[k] = R!ReachIn[k]
    BY SpecDecides
  <2>2. \A i, j \in DOMAIN visiting' :
          i < j => <<visiting[i].name, visiting[j].name>> \in R!ReachIn[j - i - 1]
    BY <1>0, <1>2, <1>3 DEF StackFits
  <2> QED
    BY <1>3, <2>1, <2>2
<1>7. StackFits'
  BY <1>3, <1>4, <1>5, <1>6 DEF StackFits
<1>8. R!Stacked \subseteq (R!Stacked)' \cup {n}
  <2> SUFFICES ASSUME NEW i \in DOMAIN visiting PROVE visiting[i].name \in (R!Stacked)' \cup {n}
    BY DEF R!Stacked
  <2>1. CASE i = l
    BY <1>2, <2>1
  <2>2. CASE i # l
    <3>1. i \in 1..(l - 1)
      BY <1>2, <2>2
    <3>2. visiting'[i].name \in (R!Stacked)'
      BY <1>3, <3>1 DEF R!Stacked
    <3> QED
      BY <1>3, <3>1, <3>2
  <2> QED
    BY <2>1, <2>2
<1>9. NoneLeft'
  BY <1>0, <1>8 DEF NoneLeft
<1> QED
  BY <1>3, <1>7, <1>9

\* The resolved name comes last in the order.
LEMMA OrderGrows ==
    ASSUME RulesInv, NEW n \in R!Named, n \notin DOMAIN needs, NEW m \in Nat \ {0},
           IsNeed(m, R!Inputs(n), Len(R!Inputs(n))),
           spec' = spec, order' = Append(order, n), DOMAIN needs' = DOMAIN needs \cup {n},
           needs'[n] = R!Needs(R!Ind(n), m), \A k \in DOMAIN needs : needs'[k] = needs[k]
    PROVE  order' \in Seq(R!Named) /\ OrderFits'
<1>0. OrderFits /\ order \in Seq(R!Named)
  BY DEF RulesInv, RulesTyped
<1>1. PICK l : l = Len(order)
  OBVIOUS
<1>2. /\ l \in Nat /\ DOMAIN order = 1..l /\ order' \in Seq(R!Named) /\ DOMAIN order' = 1..(l + 1)
      /\ order'[l + 1] = n /\ \A i \in 1..l : order'[i] = order[i]
  BY <1>0, <1>1
<1>3. /\ \A i, j \in 1..l : order[i] = order[j] => i = j
      /\ \A i \in 1..l : order[i] \in DOMAIN needs /\ order[i] # n
      /\ \A k \in DOMAIN needs : \E i \in 1..l : order[i] = k
  <2>1. OneToOne(order) /\ {order[i] : i \in DOMAIN order} = DOMAIN needs /\ DOMAIN order = 1..l
    BY <1>0, <1>2, Zenon DEF OrderFits
  <2>2. \A i, j \in 1..l : order[i] = order[j] => i = j
    BY <2>1, Zenon DEF OneToOne
  <2>3. \A i \in 1..l : order[i] \in DOMAIN needs
    BY <2>1
  <2>4. \A k \in DOMAIN needs : \E i \in 1..l : order[i] = k
    BY <2>1
  <2>5. \A i \in 1..l : order[i] # n
    BY <2>3
  <2> QED
    BY <2>2, <2>3, <2>4, <2>5, Zenon
<1>4. OneToOne(order)'
  <2> SUFFICES ASSUME NEW i \in 1..(l + 1), NEW j \in 1..(l + 1), order'[i] = order'[j] PROVE i = j
    BY <1>2 DEF OneToOne
  <2>1. i \in 1..l \/ i = l + 1
    BY <1>2
  <2>2. j \in 1..l \/ j = l + 1
    BY <1>2
  <2> QED
    BY <1>2, <1>3, <2>1, <2>2
<1>5. {order'[i] : i \in DOMAIN order'} = DOMAIN needs'
  <2>1. ASSUME NEW i \in 1..(l + 1) PROVE order'[i] \in DOMAIN needs'
    <3>1. i \in 1..l \/ i = l + 1
      BY <1>2
    <3> QED
      BY <1>2, <1>3, <3>1
  <2>2. ASSUME NEW k \in DOMAIN needs' PROVE \E i \in 1..(l + 1) : order'[i] = k
    <3>1. CASE k = n
      <4>1. l + 1 \in 1..(l + 1)
        BY <1>2
      <4> QED
        BY <1>2, <3>1, <4>1
    <3>2. CASE k # n
      <4>1. PICK i \in 1..l : order[i] = k
        BY <1>3, <3>2
      <4>2. i \in 1..(l + 1)
        BY <1>2
      <4> QED
        BY <1>2, <4>1, <4>2
    <3> QED
      BY <3>1, <3>2
  <2> QED
    BY <1>2, <2>1, <2>2
<1>6. /\ \A k : (R!Inputs(k))' = R!Inputs(k) /\ (R!Ind(k))' = R!Ind(k)
      /\ \A k, ops, i : IsNeed(k, ops, i) => IsNeed(k, ops, i)'
      /\ \A k \in DOMAIN needs : Resolved(k) => Resolved(k)'
  <2>1. \A k : (R!Inputs(k))' = R!Inputs(k) /\ (R!Ind(k))' = R!Ind(k)
    BY SpecDecides
  <2>2. DOMAIN needs \subseteq DOMAIN needs'
    OBVIOUS
  <2> QED
    BY <2>1, <2>2, NeedsStay
<1>7. Resolved(n)'
  <2>1. PICK ops : ops = R!Inputs(n)
    OBVIOUS
  <2>2. IsNeed(m, ops, Len(ops))'
    BY <1>6, <2>1
  <2>3. needs'[n] = (R!Needs(R!Ind(n), m))'
    BY <1>6 DEF R!Needs, R!Outputs
  <2>4. IsNeed(m, R!Inputs(n), Len(R!Inputs(n)))'
    BY <1>6, <2>1, <2>2 DEF IsNeed, R!Known, R!NeedOf
  <2> QED
    BY <2>3, <2>4 DEF Resolved
<1>8. \A k \in DOMAIN needs' : Resolved(k)'
  <2>1. \A k \in DOMAIN needs : Resolved(k)'
    BY <1>0, <1>6 DEF OrderFits
  <2> QED
    BY <1>7, <2>1 DEF Resolved
<1>9. ASSUME NEW j \in DOMAIN order', NEW i \in 1..Len(R!Inputs(order'[j])),
             R!Inputs(order'[j])[i].ref # R!Column
      PROVE  \E k \in DOMAIN order' : k < j /\ order'[k] = R!Inputs(order'[j])[i].ref
  <2>1. CASE j \in 1..l
    <3>1. order'[j] = order[j]
      BY <1>2, <2>1
    <3>2. \E k \in DOMAIN order : k < j /\ order[k] = R!Inputs(order[j])[i].ref
      BY <1>0, <1>2, <1>9, <2>1, <3>1 DEF OrderFits
    <3>3. PICK k \in 1..l : k < j /\ order[k] = R!Inputs(order[j])[i].ref
      BY <1>2, <3>2
    <3>4. k \in DOMAIN order' /\ order'[k] = order[k]
      BY <1>2
    <3> QED
      BY <3>1, <3>3, <3>4
  <2>2. CASE j = l + 1
    <3>1. order'[j] = n /\ R!Known(R!Inputs(n)[i])
      BY <1>2, <1>9, <2>2 DEF IsNeed
    <3>2. R!Inputs(n)[i].ref \in DOMAIN needs
      BY <1>9, <3>1 DEF R!Known
    <3>3. PICK k \in 1..l : order[k] = R!Inputs(n)[i].ref
      BY <1>3, <3>2
    <3>4. k \in DOMAIN order' /\ k < j /\ order'[k] = order[k]
      BY <1>2, <2>2
    <3> QED
      BY <3>1, <3>3, <3>4
  <2> QED
    BY <1>2, <2>1, <2>2
<1>10. \A j \in DOMAIN order' : \A i \in 1..Len((R!Inputs(order[j]))') :
          (R!Inputs(order[j]))'[i].ref # R!Column =>
             \E k \in DOMAIN order' : k < j /\ order'[k] = (R!Inputs(order[j]))'[i].ref
  <2>1. \A j \in DOMAIN order' : (R!Inputs(order[j]))' = R!Inputs(order'[j])
    BY DEF R!Inputs, R!Ind
  <2> QED
    BY <1>9, <2>1
<1>11. OrderFits'
  BY <1>4, <1>5, <1>8, <1>10 DEF OrderFits
<1> QED
  BY <1>2, <1>11

LEMMA SettleKeeps == RulesInv /\ R!Settle => RulesInv'
<1> SUFFICES ASSUME RulesInv, R!Settle PROVE RulesInv'
  OBVIOUS
<1>0. RulesTyped /\ StackFits /\ NoneLeft /\ OrderFits /\ ErrorsFit /\ Judged /\ Evaluated
  BY DEF RulesInv
<1>1. PICK f : f = R!Top
  OBVIOUS
<1>2. /\ phase = "compile" /\ visiting # <<>> /\ f.k = Len(R!Inputs(f.name))
      /\ visiting' = SubSeq(visiting, 1, Len(visiting) - 1)
      /\ UNCHANGED <<spec, phase, next, errors, values>>
      /\ IF f.ok
         THEN /\ needs' = [n \in DOMAIN needs \cup {f.name} |->
                             IF n = f.name THEN R!Needs(R!Ind(n), f.need) ELSE needs[n]]
              /\ order' = Append(order, f.name) /\ failed' = failed
         ELSE failed' = failed \cup {f.name} /\ needs' = needs /\ order' = order
  BY <1>1 DEF R!Settle
<1>3. /\ f.name \in R!Named /\ f.name \notin Settled /\ FrameFits(f)
      /\ f.need \in Nat \ {0} /\ f.ok \in BOOLEAN
  BY <1>1, <1>2, OnTop DEF Frames
<1>4. /\ DOMAIN needs \subseteq DOMAIN needs' /\ \A m \in DOMAIN needs : needs'[m] = needs[m]
      /\ Settled' = Settled \cup {f.name}
      /\ f.ok => DOMAIN needs' = DOMAIN needs \cup {f.name}
                 /\ needs'[f.name] = R!Needs(R!Ind(f.name), f.need)
  BY <1>2, <1>3 DEF Settled
<1>5. visiting' \in Seq(Frames) /\ StackFits' /\ NoneLeft'
  BY <1>1, <1>2, <1>4, Popped
<1>6. order' \in Seq(R!Named) /\ OrderFits'
  <2>1. CASE f.ok
    <3>1. IsNeed(f.need, R!Inputs(f.name), Len(R!Inputs(f.name)))
      BY <1>2, <1>3, <2>1 DEF FrameFits
    <3>2. f.name \notin DOMAIN needs
      BY <1>3 DEF Settled
    <3> QED
      BY <1>2, <1>3, <1>4, <2>1, <3>1, <3>2, OrderGrows
  <2>2. CASE ~f.ok
    BY <1>0, <1>2, <2>2, OrderStays DEF RulesTyped
  <2> QED
    BY <2>1, <2>2
<1>7. RulesTyped'
  <2>1. DOMAIN needs' \subseteq R!Named /\ failed' \subseteq R!Named
    BY <1>0, <1>2, <1>3 DEF RulesTyped
  <2> QED
    BY <1>0, <1>2, <1>5, <1>6, <2>1 DEF RulesTyped, Size
<1>8. ErrorsFit'
  <2>1. (R!WellFormed)' <=> R!WellFormed
    BY <1>2, SpecDecides
  <2>2. failed' # {} => errors # {}
    BY <1>0, <1>2, <1>3 DEF ErrorsFit, FrameFits
  <2> QED
    BY <1>0, <1>2, <2>1, <2>2 DEF ErrorsFit
<1>9. Evaluated'
  BY <1>0, <1>2, <1>6, UnevaluatedStays
<1>10. Judged'
  BY <1>2 DEF Judged
<1> QED
  BY <1>5, <1>6, <1>7, <1>8, <1>9, <1>10 DEF RulesInv

-----------------------------------------------------------------------------
(***************************************************************************)
(* The rule                                                                *)
(***************************************************************************)

\* One of finitely many numbers is the greatest.
LEMMA OneIsGreatest ==
    ASSUME NEW n \in Nat \ {0}, NEW f, \A i \in 1..n : f[i] \in Nat
    PROVE  \E i \in 1..n : \A j \in 1..n : f[j] <= f[i]
<1> DEFINE Fine(k) == \E i \in 1..k : \A j \in 1..k : f[j] <= f[i]
           Bad == {k \in 1..n : ~Fine(k)}
<1>1. SUFFICES Bad = {}
  <2>1. n \in 1..n
    OBVIOUS
  <2> QED
    BY <2>1
<1>2. SUFFICES ASSUME Bad # {} PROVE FALSE
  OBVIOUS
<1>3. PICK k \in Bad : \A j \in Bad : k <= j
  <2>1. Bad \subseteq Nat
    OBVIOUS
  <2> QED
    BY <1>2, <2>1, LeastExists
<1>4. k \in 1..n /\ ~Fine(k)
  BY <1>3
<1>5. CASE k = 1
  <2>1. \A j \in 1..1 : j = 1 /\ f[j] <= f[1]
    OBVIOUS
  <2> QED
    BY <1>4, <1>5, <2>1
<1>6. CASE k # 1
  <2>1. k - 1 \in 1..n /\ k - 1 \notin Bad
    <3>1. k \in Nat /\ k - 1 \in 1..n /\ ~(k <= k - 1)
      BY <1>4, <1>6
    <3> HIDE DEF Bad
    <3> QED
      BY <1>3, <3>1
  <2>2. PICK i \in 1..(k - 1) : \A j \in 1..(k - 1) : f[j] <= f[i]
    BY <2>1
  <2>3. i \in 1..k /\ k \in 1..k /\ f[i] \in Nat /\ f[k] \in Nat /\ i \in 1..n
    BY <1>4, <2>1
  <2>4. \A j \in 1..k : j = k \/ j \in 1..(k - 1)
    BY <1>4
  <2>5. CASE f[k] <= f[i]
    BY <1>4, <2>2, <2>3, <2>4, <2>5
  <2>6. CASE ~(f[k] <= f[i])
    <3>1. \A j \in 1..k : f[j] \in Nat
      BY <1>4
    <3>2. f[i] <= f[k]
      BY <2>3, <2>6
    <3>3. ASSUME NEW j \in 1..k PROVE f[j] <= f[k]
      <4>1. f[j] \in Nat /\ f[k] \in Nat /\ f[i] \in Nat
        BY <2>3, <3>1
      <4>2. CASE j = k
        BY <4>1, <4>2
      <4>3. CASE j # k
        <5>1. f[j] <= f[i]
          BY <2>2, <2>4, <4>3
        <5> QED
          BY <3>2, <4>1, <5>1
      <4> QED
        BY <4>2, <4>3
    <3> QED
      BY <1>4, <2>3, <3>3
  <2> QED
    BY <2>5, <2>6
<1> QED
  BY <1>5, <1>6

\* A rule whose sides are known needs the most that one of them needs.
LEMMA SidesNeed ==
    ASSUME RulesInv, \A i \in DOMAIN spec.rule.sides : R!Known(spec.rule.sides[i])
    PROVE  /\ R!NeedOfAll(spec.rule.sides) \in Nat \ {0}
           /\ \E i \in DOMAIN spec.rule.sides : R!NeedOfAll(spec.rule.sides) = R!NeedOf(spec.rule.sides[i])
           /\ \A i \in DOMAIN spec.rule.sides :
                 /\ R!NeedOf(spec.rule.sides[i]) \in Nat \ {0}
                 /\ R!NeedOf(spec.rule.sides[i]) <= R!NeedOfAll(spec.rule.sides)
<1>1. PICK ops : ops = spec.rule.sides
  OBVIOUS
<1>2. /\ spec \in Specs /\ DOMAIN needs \subseteq R!Named /\ \A n \in DOMAIN needs : Resolved(n)
      /\ R!Operands(ops) /\ ops # <<>>
  BY <1>1, SpecIs DEF RulesInv, RulesTyped, OrderFits
<1>3. DOMAIN ops = 1..Len(ops) /\ Len(ops) \in Nat \ {0} /\ \A i \in 1..Len(ops) : ops[i].shift \in Nat
  <2>1. ops \in Seq({ops[i] : i \in DOMAIN ops})
    BY <1>2 DEF R!Operands
  <2> QED
    BY <1>2, <2>1, OperandsAre
<1>4. \A i \in 1..Len(ops) : R!NeedOf(ops[i]) \in Nat \ {0}
  BY <1>1, <1>2, <1>3, NeedIsPositive
<1> DEFINE f == [i \in 1..Len(ops) |-> R!NeedOf(ops[i])]
           T == {R!NeedOf(ops[i]) : i \in DOMAIN ops}
<1>5. PICK i \in 1..Len(ops) : \A j \in 1..Len(ops) : f[j] <= f[i]
  <2>1. \A j \in 1..Len(ops) : f[j] \in Nat
    BY <1>4
  <2> HIDE DEF f
  <2> QED
    BY <1>3, <2>1, OneIsGreatest
<1>6. R!NeedOf(ops[i]) \in T /\ \A y \in T : R!NeedOf(ops[i]) >= y
  <2>1. \A j \in 1..Len(ops) : R!NeedOf(ops[j]) <= R!NeedOf(ops[i])
    BY <1>5
  <2> QED
    BY <1>3, <1>4, <2>1
<1>7. R!Max(T) \in T /\ \A y \in T : R!Max(T) >= y
  <2> HIDE DEF T
  <2> QED
    BY <1>6 DEF R!Max
<1>8. R!NeedOfAll(ops) = R!Max(T)
  BY DEF R!NeedOfAll
<1>9. R!Max(T) \in Nat \ {0}
  BY <1>3, <1>4, <1>7
<1>10. \A j \in DOMAIN ops : R!NeedOf(ops[j]) <= R!Max(T)
  <2> SUFFICES ASSUME NEW j \in DOMAIN ops PROVE R!NeedOf(ops[j]) <= R!Max(T)
    OBVIOUS
  <2>1. R!Max(T) >= R!NeedOf(ops[j]) /\ R!NeedOf(ops[j]) \in Nat
    BY <1>3, <1>4, <1>7
  <2> HIDE DEF T
  <2> QED
    BY <1>9, <2>1
<1>11. \E j \in DOMAIN ops : R!NeedOfAll(ops) = R!NeedOf(ops[j])
  BY <1>7, <1>8
<1> HIDE DEF T, f
<1> QED
  BY <1>1, <1>3, <1>4, <1>8, <1>9, <1>10, <1>11

\* With no name left and no error, the spec is whole but for its rule.
LEMMA NothingMissing ==
    ASSUME RulesInv, phase = "compile", visiting = <<>>, next = Size, errors = {}
    PROVE  /\ DOMAIN needs = R!Named /\ ~R!Cyclic
           /\ \A o : R!Known(o) <=> R!Defined(o)
           /\ \A n \in R!Named : \A i \in DOMAIN R!Inputs(n) : R!Defined(R!Inputs(n)[i])
<1>0. RulesTyped /\ NoneLeft /\ OrderFits /\ ErrorsFit /\ spec \in Specs /\ order \in Seq(R!Named)
  BY DEF RulesInv, RulesTyped
<1>1. DOMAIN needs = R!Named
  <2>1. failed = {} /\ R!Stacked = {}
    BY <1>0 DEF ErrorsFit, R!Stacked
  <2>2. ASSUME NEW n \in R!Named PROVE n \in DOMAIN needs
    <3>1. PICK i \in 1..Size : Names[i] = n
      BY SizeIs
    <3> QED
      BY <1>0, <2>1, <3>1 DEF NoneLeft, Settled
  <2> QED
    BY <1>0, <2>2 DEF RulesTyped
<1>2. \A n \in R!Named : DOMAIN needs[n] = R!Outputs(R!Ind(n).fn)
  <2> SUFFICES ASSUME NEW n \in R!Named PROVE DOMAIN needs[n] = R!Outputs(R!Ind(n).fn)
    OBVIOUS
  <2>1. PICK m \in Nat \ {0} : needs[n] = R!Needs(R!Ind(n), m)
    BY <1>0, <1>1 DEF OrderFits, Resolved
  <2> QED
    BY <1>0, <2>1, NeedsType, SpecIs
<1>3. \A o : R!Known(o) <=> R!Defined(o)
  BY <1>1, <1>2 DEF R!Known, R!Defined
<1>4. ASSUME NEW n \in R!Named, NEW i \in DOMAIN R!Inputs(n) PROVE R!Known(R!Inputs(n)[i])
  <2>1. DOMAIN R!Inputs(n) = 1..Len(R!Inputs(n))
    BY <1>0, SpecIs, OperandsAre
  <2> QED
    BY <1>0, <1>1, <1>4, <2>1 DEF OrderFits, Resolved, IsNeed
<1>5. R!Refers \subseteq Earlier(order)
  <2> SUFFICES ASSUME NEW a \in R!Named, NEW b \in R!Named, <<a, b>> \in R!Refers
               PROVE  <<a, b>> \in Earlier(order)
    BY DEF R!Refers
  <2>1. PICK i \in DOMAIN R!Inputs(a) : R!Inputs(a)[i].ref = b
    BY DEF R!Refers
  <2>2. PICK j \in DOMAIN order : order[j] = a
    BY <1>0, <1>1 DEF OrderFits
  <2>3. i \in 1..Len(R!Inputs(order[j])) /\ b # R!Column
    BY <1>0, <2>1, <2>2, SpecIs, OperandsAre, SizeIs
  <2>4. \E k \in DOMAIN order : k < j /\ order[k] = b
    BY <1>0, <2>1, <2>2, <2>3 DEF OrderFits
  <2> QED
    BY <2>2, <2>4 DEF Earlier
<1>6. ~R!Cyclic
  BY <1>0, <1>5, OrderedIsAcyclic DEF OrderFits
<1> QED
  BY <1>1, <1>3, <1>4, <1>6

LEMMA JudgeKeeps == RulesInv /\ R!Judge => RulesInv'
<1> SUFFICES ASSUME RulesInv, R!Judge PROVE RulesInv'
  OBVIOUS
<1>0. RulesTyped /\ StackFits /\ NoneLeft /\ OrderFits /\ ErrorsFit /\ Judged /\ Evaluated
  BY DEF RulesInv
<1> DEFINE AllKnown == \A i \in DOMAIN spec.rule.sides : R!Known(spec.rule.sides[i])
<1>1. /\ phase = "compile" /\ visiting = <<>> /\ next = Size
      /\ errors' = errors \cup
           IF AllKnown
           THEN IF R!TooShort(R!RuleNeed) THEN {<<"rule", "lookback">>} ELSE {}
           ELSE {<<"rule", "operand">>}
      /\ phase' = IF errors' = {} THEN "ready" ELSE "refused"
      /\ UNCHANGED <<spec, next, visiting, needs, failed, order, values>>
  BY DEF R!Judge, Size
<1>2. phase' \in {"ready", "refused"}
  BY <1>1
<1>3. RulesTyped'
  BY <1>0, <1>1, <1>2 DEF RulesTyped, Size
<1>4. StackFits' /\ NoneLeft'
  BY <1>0, <1>1 DEF StackFits, NoneLeft, Settled, R!Stacked
<1>5. OrderFits' /\ Evaluated'
  BY <1>0, <1>1, <1>2, OrderStays, UnevaluatedStays DEF RulesTyped
<1>6. ErrorsFit'
  BY <1>0, <1>1, <1>2 DEF ErrorsFit
<1>7. (R!WellFormed)' <=> R!WellFormed
  BY <1>1, SpecDecides
<1>8. /\ (R!TooShort(R!RuleNeed))' <=> R!TooShort(R!RuleNeed)
      /\ AllKnown' <=> AllKnown
  BY <1>1 DEF R!TooShort, R!RuleNeed, R!NeedOfAll, R!NeedOf, R!Known
<1>9. CASE errors # {}
  <2>1. ~R!WellFormed /\ phase' = "refused"
    BY <1>0, <1>1, <1>9 DEF ErrorsFit
  <2>2. Judged'
    BY <1>7, <2>1 DEF Judged
  <2> QED
    BY <1>3, <1>4, <1>5, <1>6, <2>2 DEF RulesInv
<1>10. CASE errors = {}
  <2>1. /\ DOMAIN needs = R!Named /\ ~R!Cyclic /\ \A o : R!Known(o) <=> R!Defined(o)
        /\ \A n \in R!Named : \A i \in DOMAIN R!Inputs(n) : R!Defined(R!Inputs(n)[i])
    BY <1>1, <1>10, NothingMissing
  <2>2. R!WellFormed <=> AllKnown
    BY <2>1 DEF R!WellFormed
  <2>3. CASE AllKnown /\ ~R!TooShort(R!RuleNeed)
    <3>1. phase' = "ready"
      BY <1>1, <1>10, <2>3
    <3>2. Judged'
      BY <1>1, <1>7, <1>8, <2>1, <2>2, <2>3, <3>1 DEF Judged
    <3> QED
      BY <1>3, <1>4, <1>5, <1>6, <3>2 DEF RulesInv
  <2>4. CASE AllKnown /\ R!TooShort(R!RuleNeed)
    <3>1. phase' = "refused"
      BY <1>1, <2>4
    <3>2. Judged'
      BY <1>1, <1>8, <2>1, <2>4, <3>1 DEF Judged
    <3> QED
      BY <1>3, <1>4, <1>5, <1>6, <3>2 DEF RulesInv
  <2>5. CASE ~AllKnown
    <3>1. phase' = "refused" /\ ~R!WellFormed
      BY <1>1, <2>2, <2>5
    <3>2. Judged'
      BY <1>7, <3>1 DEF Judged
    <3> QED
      BY <1>3, <1>4, <1>5, <1>6, <3>2 DEF RulesInv
  <2> QED
    BY <2>3, <2>4, <2>5
<1> QED
  BY <1>9, <1>10

-----------------------------------------------------------------------------
(***************************************************************************)
(* Evaluation                                                              *)
(***************************************************************************)

\* An operand is a number from its need on if its indicator is in v, and from no bar
\* before it.
LEMMA RowsOfOperand ==
    ASSUME RulesInv, NEW o, o.shift \in Nat, R!Known(o), NEW v
    PROVE  /\ R!NeedOf(o) \in Nat \ {0}
           /\ o.ref = R!Column \/ FillsAll(o.ref, v) => R!RowsOf(o, v) = From(R!NeedOf(o))
           /\ o.ref = R!Column \/ FillsInside(o.ref, v) => R!RowsOf(o, v) \subseteq From(R!NeedOf(o))
<1>0. /\ RulesTyped /\ OrderFits /\ spec \in Specs /\ spec.lookback \in Nat \ {0}
      /\ DOMAIN needs \subseteq R!Named
  BY SpecIs DEF RulesInv, RulesTyped
<1>1. R!NeedOf(o) \in Nat \ {0}
  BY <1>0, NeedIsPositive DEF OrderFits
<1>2. CASE o.ref = R!Column
  <2>1. R!RowsOf(o, v) = R!Shifted(From(1), o.shift)
    BY <1>0, <1>2, FromIs DEF R!RowsOf
  <2>2. R!NeedOf(o) = 1 + o.shift
    BY <1>2 DEF R!NeedOf
  <2>3. R!RowsOf(o, v) = From(R!NeedOf(o))
    BY <1>0, <1>1, <2>1, <2>2, ShiftedFrom
  <2> QED
    BY <1>1, <2>3
<1>3. CASE o.ref # R!Column
  <2>1. o.ref \in DOMAIN needs /\ o.ref \in R!Named /\ o.out \in DOMAIN needs[o.ref]
    BY <1>0, <1>3 DEF R!Known
  <2>2. PICK m \in Nat \ {0} : needs[o.ref] = R!Needs(R!Ind(o.ref), m)
    BY <1>0, <2>1 DEF OrderFits, Resolved
  <2>3. o.out \in R!Outputs(R!Ind(o.ref).fn) /\ needs[o.ref][o.out] \in Nat \ {0}
    BY <1>0, <2>1, <2>2, NeedsType, SpecIs
  <2>4. R!NeedOf(o) = needs[o.ref][o.out] + o.shift
    BY <1>3, <2>3 DEF R!NeedOf
  <2>5. R!RowsOf(o, v) = R!Shifted(v[o.ref][o.out], o.shift)
    BY <1>3 DEF R!RowsOf
  <2>6. ASSUME FillsAll(o.ref, v) PROVE R!RowsOf(o, v) = From(R!NeedOf(o))
    <3>1. v[o.ref][o.out] = From(needs[o.ref][o.out])
      BY <2>3, <2>6 DEF FillsAll
    <3> QED
      BY <1>0, <2>3, <2>4, <2>5, <3>1, ShiftedFrom
  <2>7. ASSUME FillsInside(o.ref, v) PROVE R!RowsOf(o, v) \subseteq From(R!NeedOf(o))
    <3>1. v[o.ref][o.out] \subseteq From(needs[o.ref][o.out])
      BY <2>3, <2>7 DEF FillsInside
    <3> QED
      BY <1>0, <2>3, <2>4, <2>5, <3>1, ShiftedInside
  <2> QED
    BY <1>1, <1>3, <2>6, <2>7
<1> QED
  BY <1>2, <1>3

\* Several operands are numbers from the greatest of their needs.
LEMMA RowsOfOperands ==
    ASSUME RulesInv, NEW ops, R!Operands(ops), NEW m \in Nat \ {0}, IsNeed(m, ops, Len(ops)), NEW v
    PROVE  /\ (\A i \in 1..Len(ops) : ops[i].ref = R!Column \/ FillsAll(ops[i].ref, v)) =>
                 R!RowsOfAll(ops, v) = From(m)
           /\ (\A i \in 1..Len(ops) : ops[i].ref = R!Column \/ FillsInside(ops[i].ref, v)) =>
                 R!RowsOfAll(ops, v) \subseteq From(m)
<1>0. spec.lookback \in Nat
  BY SpecIs DEF RulesInv, RulesTyped
<1>1. DOMAIN ops = 1..Len(ops) /\ \A i \in 1..Len(ops) : ops[i].shift \in Nat
  BY OperandsAre
<1>2. /\ \A i \in 1..Len(ops) : R!Known(ops[i]) /\ R!NeedOf(ops[i]) <= m
      /\ m = 1 \/ \E i \in 1..Len(ops) : m = R!NeedOf(ops[i])
  BY DEF IsNeed
<1>3. \A i \in 1..Len(ops) : R!NeedOf(ops[i]) \in Nat \ {0}
  BY <1>1, <1>2, RowsOfOperand
<1>4. R!RowsOfAll(ops, v) = {r \in R!Rows : \A i \in 1..Len(ops) : r \in R!RowsOf(ops[i], v)}
  BY <1>1 DEF R!RowsOfAll
<1>5. ASSUME \A i \in 1..Len(ops) : R!RowsOf(ops[i], v) \subseteq From(R!NeedOf(ops[i])),
             NEW r \in R!RowsOfAll(ops, v)
      PROVE  r \in From(m)
  <2>1. r \in R!Rows /\ r \in Nat /\ \A i \in 1..Len(ops) : r + 1 >= R!NeedOf(ops[i])
    BY <1>0, <1>4, <1>5, FromIs DEF From
  <2>2. r + 1 >= 1
    BY <2>1
  <2>3. r + 1 >= m
    BY <1>2, <2>1, <2>2
  <2> QED
    BY <2>1, <2>3 DEF From
<1>6. ASSUME \A i \in 1..Len(ops) : R!RowsOf(ops[i], v) = From(R!NeedOf(ops[i])), NEW r \in From(m)
      PROVE  r \in R!RowsOfAll(ops, v)
  <2>1. r \in R!Rows /\ r \in Nat /\ r + 1 >= m
    BY <1>0, FromIs DEF From
  <2>2. ASSUME NEW i \in 1..Len(ops) PROVE r \in R!RowsOf(ops[i], v)
    <3>1. r + 1 >= R!NeedOf(ops[i])
      BY <1>2, <1>3, <2>1
    <3> QED
      BY <1>6, <2>1, <3>1 DEF From
  <2> QED
    BY <1>4, <2>1, <2>2
<1>7. ASSUME \A i \in 1..Len(ops) : ops[i].ref = R!Column \/ FillsAll(ops[i].ref, v)
      PROVE  R!RowsOfAll(ops, v) = From(m)
  <2>1. \A i \in 1..Len(ops) : R!RowsOf(ops[i], v) = From(R!NeedOf(ops[i]))
    BY <1>1, <1>2, <1>7, RowsOfOperand
  <2> QED
    BY <1>5, <1>6, <2>1
<1>8. ASSUME \A i \in 1..Len(ops) : ops[i].ref = R!Column \/ FillsInside(ops[i].ref, v)
      PROVE  R!RowsOfAll(ops, v) \subseteq From(m)
  <2>1. \A i \in 1..Len(ops) : R!RowsOf(ops[i], v) \subseteq From(R!NeedOf(ops[i]))
    BY <1>1, <1>2, <1>8, RowsOfOperand
  <2> QED
    BY <1>5, <2>1
<1> QED
  BY <1>7, <1>8

\* An indicator evaluated after those it reads fills what they do, through its own need.
LEMMA NextFilled ==
    ASSUME RulesInv, NEW n \in DOMAIN needs, NEW v, NEW w, NEW filled,
           filled = R!Filled(R!Ind(n), R!InputRows(n, v), w)
    PROVE  /\ /\ \A i \in 1..Len(R!Inputs(n)) : R!Inputs(n)[i].ref = R!Column \/ FillsAll(R!Inputs(n)[i].ref, v)
              /\ R!Filled(R!Ind(n), R!Rows, w) = R!Filled(R!Ind(n), R!Rows, R!Whole)
              => /\ DOMAIN filled = R!Outputs(R!Ind(n).fn)
                 /\ \A out \in R!Outputs(R!Ind(n).fn) : filled[out] = From(needs[n][out])
           /\ (\A i \in 1..Len(R!Inputs(n)) : R!Inputs(n)[i].ref = R!Column \/ FillsInside(R!Inputs(n)[i].ref, v))
              => /\ DOMAIN filled = R!Outputs(R!Ind(n).fn)
                 /\ \A out \in R!Outputs(R!Ind(n).fn) : filled[out] \subseteq From(needs[n][out])
<1>0. RulesTyped /\ OrderFits /\ spec \in Specs /\ spec.lookback \in Nat /\ n \in R!Named
  BY SpecIs DEF RulesInv, RulesTyped
<1>1. PICK m \in Nat \ {0} : /\ needs[n] = R!Needs(R!Ind(n), m)
                             /\ IsNeed(m, R!Inputs(n), Len(R!Inputs(n)))
  BY <1>0 DEF OrderFits, Resolved
<1>2. R!Operands(R!Inputs(n)) /\ Periods(R!Ind(n))
  BY <1>0, SpecIs
<1>3. R!InputRows(n, v) = R!RowsOfAll(R!Inputs(n), v)
  <2>1. CASE R!TakesInput(R!Ind(n).fn)
    BY <2>1 DEF R!InputRows, R!Inputs
  <2>2. CASE ~R!TakesInput(R!Ind(n).fn)
    <3>1. R!Inputs(n) = <<>> /\ R!InputRows(n, v) = R!Rows
      BY <2>2 DEF R!InputRows, R!Inputs
    <3>2. R!RowsOfAll(<<>>, v) = R!Rows
      BY DEF R!RowsOfAll
    <3> QED
      BY <3>1, <3>2
  <2> QED
    BY <2>1, <2>2
<1>4. ASSUME \A i \in 1..Len(R!Inputs(n)) : R!Inputs(n)[i].ref = R!Column \/ FillsAll(R!Inputs(n)[i].ref, v),
             R!Filled(R!Ind(n), R!Rows, w) = R!Filled(R!Ind(n), R!Rows, R!Whole)
      PROVE  /\ DOMAIN filled = R!Outputs(R!Ind(n).fn)
             /\ \A out \in R!Outputs(R!Ind(n).fn) : filled[out] = From(needs[n][out])
  <2>1. filled = R!Filled(R!Ind(n), From(m), w)
    BY <1>1, <1>2, <1>3, <1>4, RowsOfOperands
  <2> QED
    BY <1>0, <1>1, <1>2, <1>4, <2>1, FilledFrom
<1>5. ASSUME \A i \in 1..Len(R!Inputs(n)) : R!Inputs(n)[i].ref = R!Column \/ FillsInside(R!Inputs(n)[i].ref, v)
      PROVE  /\ DOMAIN filled = R!Outputs(R!Ind(n).fn)
             /\ \A out \in R!Outputs(R!Ind(n).fn) : filled[out] \subseteq From(needs[n][out])
  <2>1. R!InputRows(n, v) \subseteq From(m)
    BY <1>1, <1>2, <1>3, <1>5, RowsOfOperands
  <2> QED
    BY <1>0, <1>1, <1>2, <2>1, FilledInside
<1> QED
  BY <1>4, <1>5

\* How many have been evaluated.
LEMMA EvaluatedCount ==
    ASSUME RulesInv
    PROVE  \E k \in 0..Len(order) :
             /\ R!Cardinality(DOMAIN values) = k /\ DOMAIN values = {order[i] : i \in 1..k}
             /\ phase = "done" => k = Len(order)
             /\ k < Len(order) => order[k + 1] \notin DOMAIN values
<1>1. OrderFits /\ order \in Seq(R!Named)
  BY DEF RulesInv, RulesTyped
<1>2. PICK k \in 0..Len(order) : DOMAIN values = {order[i] : i \in 1..k} /\ (phase = "done" => k = Len(order))
  BY DEF RulesInv, Evaluated
<1> DEFINE s == [i \in 1..k |-> order[i]]
<1>3. k \in Nat /\ k <= Len(order) /\ Len(order) \in Nat /\ DOMAIN order = 1..Len(order)
  BY <1>1
<1>4. s \in Seq(R!Named) /\ Len(s) = k /\ DOMAIN s = 1..k
  <2>1. \A i \in 1..k : order[i] \in R!Named
    BY <1>1, <1>3
  <2> QED
    BY <1>3, <2>1
<1>5. OneToOne(s)
  BY <1>1, <1>3, <1>4 DEF OrderFits, OneToOne
<1>6. {s[i] : i \in DOMAIN s} = DOMAIN values
  BY <1>2, <1>4
<1> HIDE DEF s
<1>7. Cardinality(DOMAIN values) = k
  <2>1. Cardinality({s[i] : i \in DOMAIN s}) = Len(s)
    BY <1>4, <1>5, SequenceFits
  <2> QED
    BY <1>4, <1>6, <2>1
<1>8. ASSUME k < Len(order) PROVE order[k + 1] \notin DOMAIN values
  <2>1. k + 1 \in DOMAIN order /\ \A i \in 1..k : i \in DOMAIN order /\ i # k + 1
    BY <1>3, <1>8
  <2>2. \A i, j \in DOMAIN order : order[i] = order[j] => i = j
    BY <1>1 DEF OrderFits, OneToOne
  <2> QED
    BY <1>2, <2>1, <2>2
<1> QED
  BY <1>2, <1>7, <1>8, SameCount

\* What is compiled stays so while it is evaluated.
LEMMA CompiledStays ==
    ASSUME RulesInv, UNCHANGED <<spec, next, visiting, needs, failed, errors, order>>,
           phase' = phase \/ (phase = "ready" /\ phase' = "run") \/ (phase = "run" /\ phase' = "done")
    PROVE  RulesTyped' /\ StackFits' /\ NoneLeft' /\ OrderFits' /\ ErrorsFit' /\ Judged'
<1>0. RulesTyped /\ StackFits /\ NoneLeft /\ OrderFits /\ ErrorsFit /\ Judged
  BY DEF RulesInv
<1>1. RulesTyped'
  BY <1>0 DEF RulesTyped, Size
<1>2. StackFits'
  <2>1. ASSUME NEW i \in DOMAIN visiting PROVE FrameFits(visiting[i])'
    <3>1. PICK f : f = visiting[i]
      OBVIOUS
    <3>2. FrameFits(f) /\ visiting'[i] = f
      BY <1>0, <2>1, <3>1 DEF StackFits
    <3> QED
      BY <3>2, FramesStay
  <2>2. \A j : (R!ReachIn)'[j] = R!ReachIn[j]
    BY SpecDecides
  <2> QED
    BY <1>0, <2>1, <2>2 DEF StackFits, Settled
<1>3. NoneLeft'
  BY <1>0 DEF NoneLeft, Settled, R!Stacked
<1>4. (R!WellFormed)' <=> R!WellFormed
  BY SpecDecides
<1>5. OrderFits' /\ ErrorsFit'
  BY <1>0, <1>4, OrderStays DEF ErrorsFit
<1>6. Judged'
  <2>1. /\ (R!TooShort(R!RuleNeed))' <=> R!TooShort(R!RuleNeed)
        /\ \A i : (R!Known(spec.rule.sides[i]))' <=> R!Known(spec.rule.sides[i])
    BY DEF R!TooShort, R!RuleNeed, R!NeedOfAll, R!NeedOf, R!Known
  <2> QED
    BY <1>0, <1>4, <2>1 DEF Judged
<1> QED
  BY <1>1, <1>2, <1>3, <1>5, <1>6

LEMMA RulesRested == RulesInv /\ UNCHANGED rules => RulesInv'
<1> SUFFICES ASSUME RulesInv, UNCHANGED rules PROVE RulesInv'
  OBVIOUS
<1>1. RulesTyped' /\ StackFits' /\ NoneLeft' /\ OrderFits' /\ ErrorsFit' /\ Judged'
  BY CompiledStays DEF rules
<1>2. Evaluated
  BY DEF RulesInv
<1>3. PICK v : v = values'
  OBVIOUS
<1>4. /\ (R!Gappy)' = R!Gappy /\ \A U : (R!Closed(U))' <=> R!Closed(U)
      /\ \A n : FillsAll(n, values)' <=> FillsAll(n, v)
      /\ \A n : FillsInside(n, values)' <=> FillsInside(n, v)
      /\ UNCHANGED <<phase, values, window, order>>
  BY <1>3, EvaluationStays DEF rules
<1>5. /\ \A n \in DOMAIN values' : FillsInside(n, values)'
      /\ \A U \in SUBSET (R!Named \ R!Gappy) :
            R!Closed(U) => \A n \in U \cap DOMAIN values' : FillsAll(n, values)'
  BY <1>2, <1>3, <1>4 DEF Evaluated
<1>6. Evaluated'
  BY <1>2, <1>4, <1>5 DEF Evaluated
<1> QED
  BY <1>1, <1>6 DEF RulesInv

LEMMA StartKeeps == RulesInv /\ R!Start => RulesInv'
<1> SUFFICES ASSUME RulesInv, R!Start PROVE RulesInv'
  OBVIOUS
<1>1. /\ phase = "ready" /\ phase' = "run" /\ window' \in Windows
      /\ UNCHANGED <<spec, next, visiting, needs, failed, errors, order>> /\ values' = values
  BY DEF R!Start, R!compiled
<1>2. RulesTyped' /\ StackFits' /\ NoneLeft' /\ OrderFits' /\ ErrorsFit' /\ Judged'
  BY <1>1, CompiledStays
<1>3. Evaluated'
  BY <1>1, UnevaluatedStays DEF RulesInv, RulesTyped
<1> QED
  BY <1>2, <1>3 DEF RulesInv

LEMMA EvaluateKeeps == RulesInv /\ R!Evaluate => RulesInv'
<1> SUFFICES ASSUME RulesInv, R!Evaluate PROVE RulesInv'
  OBVIOUS
<1>0. RulesTyped /\ OrderFits /\ Evaluated /\ spec \in Specs /\ order \in Seq(R!Named)
  BY DEF RulesInv, RulesTyped
<1>1. PICK k \in 0..Len(order) :
         /\ R!Cardinality(DOMAIN values) = k /\ DOMAIN values = {order[i] : i \in 1..k}
         /\ phase = "done" => k = Len(order)
         /\ k < Len(order) => order[k + 1] \notin DOMAIN values
  BY EvaluatedCount
<1>2. /\ phase = "run" /\ UNCHANGED <<spec, next, visiting, needs, failed, errors, order, window>>
      /\ IF k < Len(order)
         THEN /\ values' = [n \in DOMAIN values \cup {order[k + 1]} |->
                              IF n \in DOMAIN values THEN values[n]
                              ELSE R!Filled(R!Ind(n), R!InputRows(n, values), window)]
              /\ UNCHANGED phase
         ELSE phase' = "done" /\ UNCHANGED values
  BY <1>1 DEF R!Evaluate, R!compiled
<1>3. phase' \in {"run", "done"} /\ window' \in Windows
  BY <1>0, <1>2 DEF Evaluated
<1>4. RulesTyped' /\ StackFits' /\ NoneLeft' /\ OrderFits' /\ ErrorsFit' /\ Judged'
  BY <1>2, <1>3, CompiledStays
<1>5. PICK new : new = values'
  OBVIOUS
<1>6. /\ (R!Gappy)' = R!Gappy /\ \A U : (R!Closed(U))' <=> R!Closed(U)
      /\ \A n : FillsAll(n, values)' <=> FillsAll(n, new)
      /\ \A n : FillsInside(n, values)' <=> FillsInside(n, new)
  BY <1>2, <1>5, EvaluationStays
<1>7. SUFFICES /\ \E j \in 0..Len(order) : DOMAIN new = {order[i] : i \in 1..j} /\ (phase' = "done" => j = Len(order))
               /\ \A n \in DOMAIN new : FillsInside(n, new)
               /\ \A U \in SUBSET (R!Named \ R!Gappy) : R!Closed(U) => \A n \in U \cap DOMAIN new : FillsAll(n, new)
  <2>1. /\ \A n \in DOMAIN values' : FillsInside(n, values)'
        /\ \A U \in SUBSET (R!Named \ R!Gappy) :
              R!Closed(U) => \A n \in U \cap DOMAIN values' : FillsAll(n, values)'
    BY <1>5, <1>6, <1>7
  <2>2. Evaluated'
    BY <1>2, <1>3, <1>5, <1>6, <1>7, <2>1 DEF Evaluated
  <2> QED
    BY <1>4, <2>2 DEF RulesInv
<1>8. /\ \A n \in DOMAIN values : FillsInside(n, values)
      /\ \A U \in SUBSET (R!Named \ R!Gappy) : R!Closed(U) => \A n \in U \cap DOMAIN values : FillsAll(n, values)
  BY <1>0 DEF Evaluated
<1>9. CASE ~(k < Len(order))
  <2>1. k = Len(order) /\ new = values
    BY <1>0, <1>2, <1>5, <1>9
  <2> QED
    BY <1>1, <1>8, <2>1
<1>10. CASE k < Len(order)
  <2>1. PICK n : n = order[k + 1]
    OBVIOUS
  <2>2. /\ k + 1 \in DOMAIN order /\ k \in Nat /\ k + 1 \in 0..Len(order) /\ n \in DOMAIN needs
        /\ n \in R!Named /\ n \notin DOMAIN values
    <3>1. k + 1 \in DOMAIN order /\ k \in Nat /\ k + 1 \in 0..Len(order)
      BY <1>0, <1>10
    <3> QED
      BY <1>0, <1>1, <1>10, <2>1, <3>1 DEF OrderFits
  <2>3. /\ DOMAIN new = DOMAIN values \cup {n} /\ new[n] = R!Filled(R!Ind(n), R!InputRows(n, values), window)
        /\ \A j \in DOMAIN values : new[j] = values[j]
    BY <1>2, <1>5, <1>10, <2>1, <2>2
  <2>4. DOMAIN new = {order[i] : i \in 1..(k + 1)}
    <3>1. \A i : i \in 1..(k + 1) <=> i \in 1..k \/ i = k + 1
      BY <2>2
    <3> QED
      BY <1>1, <2>1, <2>3, <3>1
  <2>5. ASSUME NEW i \in 1..Len(R!Inputs(n)), R!Inputs(n)[i].ref # R!Column
        PROVE  R!Inputs(n)[i].ref \in DOMAIN values /\ R!Inputs(n)[i].ref \in R!Named
    <3>1. PICK j \in DOMAIN order : j < k + 1 /\ order[j] = R!Inputs(n)[i].ref
      BY <1>0, <2>1, <2>2, <2>5 DEF OrderFits
    <3>2. j \in 1..k
      BY <1>0, <2>2, <3>1
    <3> QED
      BY <1>0, <1>1, <3>1, <3>2
  <2>6. FillsInside(n, new)
    <3>1. \A i \in 1..Len(R!Inputs(n)) : R!Inputs(n)[i].ref = R!Column \/ FillsInside(R!Inputs(n)[i].ref, values)
      BY <1>8, <2>5
    <3> QED
      BY <2>2, <2>3, <3>1, NextFilled DEF FillsInside
  <2>7. ASSUME NEW U \in SUBSET (R!Named \ R!Gappy), R!Closed(U), n \in U PROVE FillsAll(n, new)
    <3>1. R!Filled(R!Ind(n), R!Rows, window) = R!Filled(R!Ind(n), R!Rows, R!Whole)
      BY <2>2, <2>7 DEF R!Gappy
    <3>2. ASSUME NEW i \in 1..Len(R!Inputs(n)), R!Inputs(n)[i].ref # R!Column
          PROVE  FillsAll(R!Inputs(n)[i].ref, values)
      <4>1. PICK r : r = R!Inputs(n)[i].ref
        OBVIOUS
      <4>2. r \in DOMAIN values /\ r \in R!Named
        BY <2>5, <3>2, <4>1
      <4>3. i \in DOMAIN R!Inputs(n)
        BY <1>0, <2>2, SpecIs, OperandsAre
      <4>4. <<n, r>> \in R!Refers
        BY <2>2, <4>1, <4>2, <4>3 DEF R!Refers
      <4>5. r \in U
        BY <2>7, <4>4 DEF R!Closed
      <4> QED
        BY <1>8, <2>7, <4>1, <4>2, <4>5
    <3> QED
      BY <2>2, <2>3, <3>1, <3>2, NextFilled DEF FillsAll
  <2>8. \A j \in DOMAIN new : FillsInside(j, new)
    BY <1>8, <2>3, <2>6 DEF FillsInside
  <2>9. ASSUME NEW U \in SUBSET (R!Named \ R!Gappy), R!Closed(U), NEW j \in U \cap DOMAIN new PROVE FillsAll(j, new)
    <3>1. CASE j = n
      BY <2>7, <2>9, <3>1
    <3>2. CASE j # n
      <4>1. j \in DOMAIN values /\ new[j] = values[j] /\ FillsAll(j, values)
        BY <1>8, <2>3, <2>9, <3>2
      <4> QED
        BY <4>1 DEF FillsAll
    <3> QED
      BY <3>1, <3>2
  <2>10. k + 1 \in 0..Len(order) /\ phase' # "done"
    BY <1>2, <1>10, <2>2
  <2> QED
    BY <2>4, <2>8, <2>9, <2>10
<1> QED
  BY <1>9, <1>10

-----------------------------------------------------------------------------
(***************************************************************************)
(* What data without a hole fill, round by round                           *)
(***************************************************************************)

Full == [n \in R!Named |-> [out \in R!Outputs(R!Ind(n).fn) |-> R!Rows]]
Round(v) == [n \in R!Named |-> R!Filled(R!Ind(n), R!InputRows(n, v), R!Whole)]
Rounds(n, f) == [k \in 0..n |-> IF k = 0 THEN Full ELSE Round(f[k - 1])]

LEMMA RoundsExist ==
    ASSUME NEW n \in Nat
    PROVE  \E f : f = Rounds(n, f)
<1> DEFINE Bad == {k \in Nat : ~ \E f : f = Rounds(k, f)}
<1> SUFFICES ASSUME Bad # {} PROVE FALSE
  OBVIOUS
<1>1. PICK k \in Bad : \A j \in Bad : k <= j
  <2>1. Bad \subseteq Nat
    OBVIOUS
  <2> QED
    BY <2>1, LeastExists
<1>2. k \in Nat /\ ~ \E f : f = Rounds(k, f)
  BY <1>1
<1>3. CASE k = 0
  <2> DEFINE f == [i \in 0..0 |-> Full]
  <2>1. f = Rounds(0, f)
    BY DEF Rounds
  <2> QED
    BY <1>2, <1>3, <2>1
<1>4. CASE k # 0
  <2>1. k - 1 \in Nat /\ k - 1 \notin Bad
    BY <1>1, <1>2, <1>4
  <2>2. PICK g : g = Rounds(k - 1, g)
    BY <2>1
  <2> DEFINE f == [i \in 0..k |-> IF i = k THEN Round(g[k - 1]) ELSE g[i]]
  <2>3. \A i \in 0..(k - 1) : f[i] = g[i]
    BY <2>1, <1>2
  <2>4. \A i \in 0..(k - 1) : g[i] = IF i = 0 THEN Full ELSE Round(g[i - 1])
    BY <2>2, Zenon DEF Rounds
  <2>5. f[k] = Round(g[k - 1])
    BY <1>2
  <2>6. ASSUME NEW i \in 0..k
        PROVE  f[i] = IF i = 0 THEN Full ELSE Round(f[i - 1])
    <3> HIDE DEF f
    <3>1. CASE i = k
      <4>1. k - 1 \in 0..(k - 1)
        BY <1>2, <1>4
      <4>2. f[k - 1] = g[k - 1]
        BY <2>3, <4>1
      <4> QED
        BY <1>4, <2>5, <3>1, <4>2
    <3>2. CASE i # k /\ i = 0
      <4>1. 0 \in 0..(k - 1)
        BY <1>2, <1>4
      <4> QED
        BY <2>3, <2>4, <3>2, <4>1
    <3>3. CASE i # k /\ i # 0
      <4>1. i \in 0..(k - 1) /\ i - 1 \in 0..(k - 1)
        BY <1>2, <1>4, <3>3
      <4>2. f[i] = g[i] /\ f[i - 1] = g[i - 1]
        BY <2>3, <4>1
      <4>3. g[i] = Round(g[i - 1])
        BY <2>4, <3>3, <4>1
      <4> QED
        BY <3>3, <4>2, <4>3
    <3> QED
      BY <3>1, <3>2, <3>3
  <2>7. f = Rounds(k, f)
    <3>1. Rounds(k, f) = [i \in 0..k |-> f[i]]
      BY <2>6 DEF Rounds
    <3> QED
      BY <3>1
  <2> QED
    BY <1>2, <2>7
<1> QED
  BY <1>3, <1>4

LEMMA IdealIs ==
    \A k \in 0..Size : R!Ideal[k] = IF k = 0 THEN Full ELSE Round(R!Ideal[k - 1])
<1>1. R!Ideal = CHOOSE f : f = Rounds(Size, f)
  BY Zenon DEF R!Ideal, Rounds, Round, Full, Size
<1>2. \E f : f = Rounds(Size, f)
  BY RoundsExist, SizeIs
<1>3. R!Ideal = Rounds(Size, R!Ideal)
  BY <1>1, <1>2, Zenon
<1> QED
  BY <1>3, Zenon DEF Rounds

\* After k rounds the first k of the order are numbers from the bars counted for them.
LEMMA IdealFills ==
    ASSUME RulesInv
    PROVE  \A n \in DOMAIN needs : FillsAll(n, R!Ideal[Size])
<1>0. /\ OrderFits /\ order \in Seq(R!Named) /\ DOMAIN needs \subseteq R!Named
  BY DEF RulesInv, RulesTyped
<1>1. Len(order) \in Nat /\ DOMAIN order = 1..Len(order) /\ Len(order) <= Size /\ Size \in Nat
  <2>1. OneToOne(order)
    BY <1>0 DEF OrderFits
  <2>2. Len(order) <= Size
    BY <1>0, <2>1, SequenceFits
  <2> QED
    BY <1>0, <2>2, SizeIs
<1> DEFINE Fine(k) == \A j \in DOMAIN order : j <= k => FillsAll(order[j], R!Ideal[k])
           Bad == {k \in 0..Size : ~Fine(k)}
<1>2. Bad = {}
  <2> SUFFICES ASSUME Bad # {} PROVE FALSE
    OBVIOUS
  <2>1. PICK k \in Bad : \A j \in Bad : k <= j
    <3>1. Bad \subseteq Nat
      BY <1>1
    <3> HIDE DEF Bad
    <3> QED
      BY <3>1, LeastExists
  <2>2. k \in 0..Size /\ k \in Nat
    BY <1>1, <2>1
  <2>3. PICK j \in DOMAIN order : j <= k /\ ~FillsAll(order[j], R!Ideal[k])
    BY <2>1
  <2>4. j \in Nat \ {0} /\ k # 0 /\ k - 1 \in 0..Size /\ k - 1 < k
    BY <1>1, <2>2, <2>3
  <2>5. Fine(k - 1)
    <3>1. k - 1 \notin Bad
      BY <2>1, <2>2, <2>4
    <3> QED
      BY <2>4, <3>1
  <2>6. PICK n, v : n = order[j] /\ v = R!Ideal[k - 1]
    OBVIOUS
  <2>7. n \in DOMAIN needs /\ n \in R!Named
    BY <1>0, <2>3, <2>6 DEF OrderFits
  <2>8. R!Ideal[k] = Round(v)
    BY <2>2, <2>4, <2>6, IdealIs, Zenon
  <2>9. R!Ideal[k][n] = R!Filled(R!Ind(n), R!InputRows(n, v), R!Whole)
    BY <2>7, <2>8 DEF Round
  <2>10. ASSUME NEW i \in 1..Len(R!Inputs(n)), R!Inputs(n)[i].ref # R!Column
         PROVE  FillsAll(R!Inputs(n)[i].ref, v)
    <3>1. PICK l \in DOMAIN order : l < j /\ order[l] = R!Inputs(n)[i].ref
      BY <1>0, <2>3, <2>6, <2>10 DEF OrderFits
    <3>2. l <= k - 1
      BY <1>1, <2>2, <2>3, <2>4, <3>1
    <3> QED
      BY <2>5, <2>6, <3>1, <3>2
  <2>11. FillsAll(n, R!Ideal[k])
    BY <2>7, <2>9, <2>10, NextFilled DEF FillsAll
  <2> QED
    BY <2>3, <2>6, <2>11
<1>3. Fine(Size)
  BY <1>1, <1>2
<1> SUFFICES ASSUME NEW n \in DOMAIN needs PROVE FillsAll(n, R!Ideal[Size])
  OBVIOUS
<1>4. PICK j \in DOMAIN order : order[j] = n
  BY <1>0 DEF OrderFits
<1>5. j <= Size
  BY <1>1
<1> QED
  BY <1>3, <1>4, <1>5

\* The rule has its values exactly where the lookback is long enough.
LEMMA AnsweredIs ==
    ASSUME RulesInv, \A i \in DOMAIN spec.rule.sides : R!Known(spec.rule.sides[i]), NEW v,
           \A i \in DOMAIN spec.rule.sides :
              spec.rule.sides[i].ref = R!Column \/ FillsAll(spec.rule.sides[i].ref, v)
    PROVE  R!Answered(v) <=> ~R!TooShort(R!RuleNeed)
<1>1. PICK ops, all, look, cross : /\ ops = spec.rule.sides /\ all = R!NeedOfAll(ops)
                                   /\ look = spec.lookback /\ cross = spec.rule.cross
  OBVIOUS
<1>2. R!Operands(ops) /\ look \in Nat \ {0} /\ cross \in BOOLEAN
  BY <1>1, SpecIs DEF RulesInv, RulesTyped
<1>3. Len(ops) \in Nat /\ DOMAIN ops = 1..Len(ops)
  BY <1>2, OperandsAre
<1>4. all \in Nat \ {0} /\ IsNeed(all, ops, Len(ops))
  BY <1>1, <1>3, SidesNeed DEF IsNeed
<1>5. R!RowsOfAll(ops, v) = From(all)
  BY <1>1, <1>2, <1>3, <1>4, RowsOfOperands
<1>6. R!Answered(v) <=> (look - 1 \in From(all) /\ (cross => look - 2 \in From(all)))
  BY <1>1, <1>5, Zenon DEF R!Answered
<1>7. look - 1 \in From(all) <=> look >= all
  BY <1>1, <1>2, <1>4, FromIs
<1>8. look - 2 \in From(all) <=> look >= all + 1
  BY <1>1, <1>2, <1>4, FromIs
<1>9. R!TooShort(R!RuleNeed) <=> look < all + IF cross THEN 1 ELSE 0
  <2>1. R!RuleNeed = all + IF cross THEN 1 ELSE 0
    BY <1>1 DEF R!RuleNeed
  <2>2. PICK need : need = all + IF cross THEN 1 ELSE 0
    OBVIOUS
  <2>3. need \in Nat /\ need >= 1
    BY <1>4, <2>2
  <2>4. R!Max({need, 1}) = LaterOf(need, 1)
    BY <2>3, LongerIs
  <2>5. LaterOf(need, 1) = need
    BY <2>3 DEF LaterOf
  <2> QED
    BY <1>1, <2>1, <2>2, <2>4, <2>5 DEF R!TooShort
<1>10. CASE cross
  <2>1. R!TooShort(R!RuleNeed) <=> look < all + 1
    BY <1>9, <1>10
  <2>2. (look >= all /\ look >= all + 1) <=> ~(look < all + 1)
    BY <1>2, <1>4
  <2> QED
    BY <1>6, <1>7, <1>8, <1>10, <2>1, <2>2, Zenon
<1>11. CASE ~cross
  <2>1. R!TooShort(R!RuleNeed) <=> look < all + 0
    BY <1>9, <1>11
  <2>2. look >= all <=> ~(look < all + 0)
    BY <1>2, <1>4
  <2> QED
    BY <1>6, <1>7, <1>11, <2>1, <2>2, Zenon
<1> QED
  BY <1>10, <1>11

-----------------------------------------------------------------------------
(***************************************************************************)
(* The properties of the rules                                             *)
(***************************************************************************)

LEMMA RulesInvNext == RulesInv /\ (R!Next \/ UNCHANGED rules) => RulesInv'
BY RulesRested, VisitKeeps, DescendKeeps, ResolveKeeps, FailOperandKeeps, SettleKeeps,
   JudgeKeeps, StartKeeps, EvaluateKeeps DEF R!Next

LEMMA NeedsAreExact == RulesInv => R!NeedIsExact
<1> SUFFICES ASSUME RulesInv, NEW n \in DOMAIN values, NEW out \in DOMAIN values[n]
             PROVE  /\ values[n][out] \subseteq From(needs[n][out])
                    /\ R!Complete({n}) => values[n][out] = From(needs[n][out])
  BY DEF R!NeedIsExact, From
<1>1. Evaluated
  BY DEF RulesInv
<1>2. FillsInside(n, values)
  BY <1>1 DEF Evaluated
<1>3. ASSUME R!Complete({n}) PROVE FillsAll(n, values)
  <2>1. PICK U \in SUBSET (R!Named \ R!Gappy) : {n} \subseteq U /\ R!Closed(U)
    BY <1>3 DEF R!Complete
  <2> QED
    BY <1>1, <2>1 DEF Evaluated
<1> QED
  BY <1>2, <1>3 DEF FillsInside, FillsAll

LEMMA AcceptedExactly == RulesInv => R!AcceptsExactly
<1> SUFFICES ASSUME RulesInv PROVE R!AcceptsExactly
  OBVIOUS
<1>0. /\ OrderFits /\ Judged /\ Evaluated /\ spec \in Specs /\ order \in Seq(R!Named)
  BY DEF RulesInv, RulesTyped
<1> DEFINE AllKnown == \A i \in DOMAIN spec.rule.sides : R!Known(spec.rule.sides[i])
<1>1. ASSUME AllKnown PROVE R!Answered(R!Ideal[Size]) <=> ~R!TooShort(R!RuleNeed)
  <2>1. \A i \in DOMAIN spec.rule.sides :
           spec.rule.sides[i].ref = R!Column \/ FillsAll(spec.rule.sides[i].ref, R!Ideal[Size])
    BY <1>1, IdealFills DEF R!Known
  <2> QED
    BY <1>1, <2>1, AnsweredIs
<1>2. phase = "refused" => ~R!WellFormed \/ ~R!Answered(R!Ideal[Size])
  BY <1>0, <1>1 DEF Judged
<1>3. phase = "ready" => R!WellFormed /\ R!Answered(R!Ideal[Size]) /\ DOMAIN needs = R!Named
  BY <1>0, <1>1 DEF Judged
<1>4. ASSUME NEW j \in DOMAIN order, NEW i \in DOMAIN R!Inputs(order[j]),
             R!Inputs(order[j])[i].ref # R!Column
      PROVE  \E k \in 1..(j - 1) : order[k] = R!Inputs(order[j])[i].ref
  <2>1. order[j] \in R!Named
    BY <1>0
  <2>2. i \in 1..Len(R!Inputs(order[j]))
    BY <1>0, <2>1, SpecIs, OperandsAre
  <2>3. PICK k \in DOMAIN order : k < j /\ order[k] = R!Inputs(order[j])[i].ref
    BY <1>0, <1>4, <2>2 DEF OrderFits
  <2>4. k \in 1..(j - 1)
    BY <1>0, <2>3
  <2> QED
    BY <2>3, <2>4
<1>5. ASSUME phase = "done",
             R!Complete({spec.rule.sides[i].ref : i \in DOMAIN spec.rule.sides} \ {R!Column})
      PROVE  R!Answered(values)
  <2>1. AllKnown /\ ~R!TooShort(R!RuleNeed)
    BY <1>0, <1>5 DEF Judged
  <2>2. PICK U \in SUBSET (R!Named \ R!Gappy) :
           {spec.rule.sides[i].ref : i \in DOMAIN spec.rule.sides} \ {R!Column} \subseteq U /\ R!Closed(U)
    BY <1>5 DEF R!Complete
  <2>3. DOMAIN values = DOMAIN needs
    <3>1. PICK k \in 0..Len(order) : DOMAIN values = {order[i] : i \in 1..k} /\ k = Len(order)
      BY <1>5, EvaluatedCount
    <3>2. DOMAIN order = 1..Len(order)
      BY <1>0
    <3> QED
      BY <1>0, <3>1, <3>2 DEF OrderFits
  <2>4. ASSUME NEW i \in DOMAIN spec.rule.sides, spec.rule.sides[i].ref # R!Column
        PROVE  FillsAll(spec.rule.sides[i].ref, values)
    <3>1. spec.rule.sides[i].ref \in U /\ spec.rule.sides[i].ref \in DOMAIN values
      BY <2>1, <2>2, <2>3, <2>4 DEF R!Known
    <3> QED
      BY <1>0, <2>2, <3>1 DEF Evaluated
  <2> QED
    BY <2>1, <2>4, AnsweredIs
<1> HIDE DEF AllKnown
<1> QED
  BY <1>2, <1>3, <1>4, <1>5 DEF R!AcceptsExactly, Size

-----------------------------------------------------------------------------
(***************************************************************************)
(* The types of the other machines                                         *)
(***************************************************************************)

\* Where the period starts, inside the store if there are bars in it.
LEMMA PeriodInside ==
    ASSUME H!TypeOK
    PROVE  /\ first \in Nat /\ last \in Nat /\ First <= first /\ last <= MaxBar
           /\ First \in Nat /\ MaxBar \in Nat
           /\ H!Start \in Nat /\ first <= H!Start
           /\ H!HoldoutStart \in Int /\ (H!HoldoutStart <= last + 1 \/ H!HoldoutStart = H!Start)
<1>1. /\ First \in Nat /\ MaxBar \in Nat /\ Lookback \in Nat \ {0} /\ HoldoutBars \in Nat
      /\ first \in First..MaxBar /\ last \in first..MaxBar
  BY HoldoutSettings DEF H!Settings, H!TypeOK
<1>2. first \in Nat /\ last \in Nat /\ First <= first /\ last <= MaxBar
  BY <1>1
<1>3. H!Start \in Nat /\ first <= H!Start
  BY <1>1, <1>2 DEF H!Start
<1>4. H!HoldoutStart = IF last + 1 - HoldoutBars >= H!Start THEN last + 1 - HoldoutBars ELSE H!Start
  <2>1. H!Start \in Int /\ last + 1 - HoldoutBars \in Int
    BY <1>1, <1>2, <1>3
  <2> QED
    BY <2>1, NewerOfTwo, Zenon DEF H!HoldoutStart
<1>5. H!HoldoutStart \in Int /\ (H!HoldoutStart <= last + 1 \/ H!HoldoutStart = H!Start)
  BY <1>1, <1>2, <1>3, <1>4
<1> QED
  BY <1>1, <1>2, <1>3, <1>5

\* An attempt pins a bar of the store.
LEMMA AttemptInside ==
    ASSUME HoldoutInv, H!TypeOK, Attempt
    PROVE  pinned' \in {None} \cup First..MaxBar
<1>1. Numbers /\ pinned \in {None} \cup First..MaxBar
  BY DEF HoldoutInv, H!TypeOK
<1>2. CASE pinned # None
  <2>1. pinned' = pinned
    BY <1>1, <1>2, AttemptPins
  <2> QED
    BY <1>1, <2>1
<1>3. CASE pinned = None
  <2> DEFINE start == H!HoldoutStart
  <2>1. H!Period(pinned).start = start /\ H!Period(pinned).bars = start..last
    BY <1>3 DEF H!Period
  <2>2. CASE start..last = {} \/ start <= H!Start
    BY <1>1, <2>1, <2>2 DEF Attempt
  <2>3. CASE ~(start..last = {}) /\ ~(start <= H!Start)
    <3>1. /\ first \in Nat /\ last \in Nat /\ First <= first /\ last <= MaxBar
          /\ First \in Nat /\ MaxBar \in Nat /\ H!Start \in Nat /\ first <= H!Start
      BY PeriodInside
    <3>2. start \in Int
      BY <1>1, PeriodStart
    <3>3. pinned' = start
      BY <2>1, <2>3, Zenon DEF Attempt
    <3> HIDE DEF start
    <3>4. start \in First..MaxBar
      BY <2>3, <3>1, <3>2
    <3> QED
      BY <3>3, <3>4
  <2> QED
    BY <2>2, <2>3
<1> QED
  BY <1>2, <1>3

\* So does a backtest select them.
LEMMA SelectedInside ==
    ASSUME HoldoutInv, H!TypeOK
    PROVE  H!Start..(H!HoldoutStart - 1) \subseteq First..MaxBar
<1>1. /\ first \in Nat /\ last \in Nat /\ First <= first /\ last <= MaxBar
      /\ First \in Nat /\ MaxBar \in Nat /\ H!Start \in Nat /\ first <= H!Start
      /\ H!HoldoutStart <= last + 1 \/ H!HoldoutStart = H!Start
  BY PeriodInside
<1>2. H!HoldoutStart \in Int
  BY PeriodStart DEF HoldoutInv
<1> QED
  BY <1>1, <1>2

LEMMA HoldoutTyped == ASSUME HoldoutInv, H!TypeOK, H!Next \/ UNCHANGED holdout PROVE H!TypeOK'
<1> DEFINE States == {None, "candidate", "backtest_passed", "paper", "rejected"}
           Verdict == {None, "PASS", "FAIL", "INSUFFICIENT_EVIDENCE"}
<1>1. /\ market \in Markets /\ first \in First..MaxBar /\ last \in first..MaxBar
      /\ state \in States /\ pinned \in {None} \cup First..MaxBar /\ held \in Verdict
      /\ selected \subseteq First..MaxBar
  BY DEF H!TypeOK
<1>2. First \in Nat /\ MaxBar \in Nat
  BY HoldoutSettings DEF H!Settings
<1>3. CASE H!Backtest
  <2>1. UNCHANGED <<market, first, last, pinned, held>>
        /\ selected' \in {H!Start..(H!HoldoutStart - 1), selected}
        /\ state' \in {state, "candidate", "backtest_passed"}
    BY <1>3 DEF H!Backtest
  <2>2. selected' \subseteq First..MaxBar
    BY <1>1, <2>1, SelectedInside
  <2> QED
    BY <1>1, <2>1, <2>2 DEF H!TypeOK
<1>4. CASE H!Promote \/ H!PromoteCut
  <2>1. H!Judge(H!Period(pinned)) \in Verdict
    BY DEF H!Judge
  <2>2. UNCHANGED <<market, first, last, selected>> /\ state' \in {state, "paper", "rejected"}
        /\ held' \in {held, H!Judge(H!Period(pinned))} /\ (pinned' = pinned \/ Attempt)
    BY <1>4, Zenon DEF H!Promote, H!PromoteCut, Attempt
  <2>3. pinned' \in {None} \cup First..MaxBar
    BY <1>1, <2>2, AttemptInside
  <2> QED
    BY <1>1, <2>1, <2>2, <2>3 DEF H!TypeOK
<1>5. CASE H!NewBar
  <2>1. UNCHANGED <<market, first, state, pinned, held, selected>> /\ last < MaxBar /\ last' = last + 1
    BY <1>5 DEF H!NewBar
  <2>2. last' \in first'..MaxBar
    BY <1>1, <1>2, <2>1
  <2> QED
    BY <1>1, <2>1, <2>2 DEF H!TypeOK
<1>6. CASE H!Backfill
  <2>1. UNCHANGED <<market, last, state, pinned, held, selected>> /\ first' \in First..(first - 1)
    BY <1>6 DEF H!Backfill
  <2>2. first' \in First..MaxBar /\ last' \in first'..MaxBar
    BY <1>1, <1>2, <2>1
  <2> QED
    BY <1>1, <2>1, <2>2 DEF H!TypeOK
<1>7. CASE UNCHANGED holdout
  BY <1>1, <1>7 DEF H!TypeOK, holdout
<1> QED
  BY <1>3, <1>4, <1>5, <1>6, <1>7 DEF H!Next

LEMMA RulesTypesHold == RulesInv => R!TypeOK
<1> SUFFICES ASSUME RulesInv PROVE R!TypeOK
  OBVIOUS
<1>1. RulesTyped /\ StackFits /\ OrderFits /\ Evaluated /\ order \in Seq(R!Named)
  BY DEF RulesInv, RulesTyped
<1>2. Len(visiting) <= Len(Names)
  BY <1>1, StackIsShort DEF Size
<1>3. /\ {order[i] : i \in DOMAIN order} = DOMAIN needs
      /\ Cardinality({order[i] : i \in DOMAIN order}) = Len(order)
  BY <1>1, SequenceFits DEF OrderFits
<1>4. Len(order) = R!Cardinality(DOMAIN needs)
  BY <1>3, SameCount
<1>5. DOMAIN values \subseteq R!Named
  <2>1. PICK k \in 0..Len(order) : DOMAIN values = {order[i] : i \in 1..k}
    BY <1>1 DEF Evaluated
  <2>2. \A i \in 1..k : order[i] \in R!Named
    BY <1>1, <2>1
  <2> QED
    BY <2>1, <2>2
<1>6. phase \in {"run", "done"} => window \in Windows
  BY <1>1 DEF Evaluated
<1> QED
  BY <1>1, <1>2, <1>3, <1>4, <1>5, <1>6 DEF R!TypeOK, RulesTyped, Size

-----------------------------------------------------------------------------
(***************************************************************************)
(* The theorems                                                            *)
(***************************************************************************)

FocusedInv ==
    /\ focus = "rules" => RulesInv
    /\ focus = "candles" /\ C!OneLongGap(has) => CandlesInv
    /\ focus = "recorder" => RecorderInv
    /\ focus = "holdout" => HoldoutInv

LEMMA FocusedInit == InputsInit => FocusedInv
BY RulesBegin, InvInit, RecorderInvInit, HoldoutInvInit, Zenon DEF InputsInit, FocusedInv

LEMMA FocusedNext == FocusedInv /\ [InputsNext]_allvars => FocusedInv'
<1> SUFFICES ASSUME FocusedInv, [InputsNext]_allvars PROVE FocusedInv'
  OBVIOUS
<1>1. focus' = focus
  BY DEF InputsNext, allvars
<1>2. CASE focus = "candles"
  <2>1. C!Next \/ UNCHANGED candles
    BY <1>2 DEF InputsNext, allvars
  <2>2. has' = has
    BY <2>1 DEF C!Next, C!Tick, C!Serve, C!Begin, C!FetchRange, C!FetchFails, candles
  <2>3. C!OneLongGap(has') <=> C!OneLongGap(has)
    BY <2>2
  <2> QED
    BY <1>1, <1>2, <2>1, <2>2, <2>3, InvNext DEF FocusedInv
<1>3. CASE focus = "holdout"
  <2>1. H!Next \/ UNCHANGED holdout
    BY <1>3 DEF InputsNext, allvars
  <2> QED
    BY <1>1, <1>3, <2>1, HoldoutInvNext DEF FocusedInv
<1>4. CASE focus = "recorder"
  <2>1. S!Next \/ UNCHANGED recorder
    BY <1>4 DEF InputsNext, allvars
  <2> QED
    BY <1>1, <1>4, <2>1, RecorderInvNext DEF FocusedInv
<1>5. CASE focus = "rules"
  <2>1. R!Next \/ UNCHANGED rules
    BY <1>5 DEF InputsNext, allvars
  <2> QED
    BY <1>1, <1>5, <2>1, RulesInvNext DEF FocusedInv
<1> QED
  BY <1>1, <1>2, <1>3, <1>4, <1>5 DEF FocusedInv

TypedInv ==
    /\ TypeOK /\ FocusedInv
    /\ focus = "candles" => CandlesTyped
    /\ focus = "holdout" => H!TypeOK

LEMMA HoldoutTypedInit == H!Init => H!TypeOK
BY DEF H!Init, H!TypeOK

LEMMA TypedBegins == InputsInit => TypedInv
<1> SUFFICES ASSUME InputsInit PROVE TypedInv
  OBVIOUS
<1>1. FocusedInv
  BY FocusedInit
<1>2. TypeOK
  BY InitHolds, Zenon DEF InputsInit
<1>3. focus = "candles" => CandlesTyped
  BY TypedInit, Zenon DEF InputsInit
<1>4. focus = "holdout" => H!TypeOK
  BY HoldoutTypedInit, Zenon DEF InputsInit
<1> QED
  BY <1>1, <1>2, <1>3, <1>4 DEF TypedInv

LEMMA TypedStays == TypedInv /\ [InputsNext]_allvars => TypedInv'
<1> SUFFICES ASSUME TypedInv, [InputsNext]_allvars PROVE TypedInv'
  OBVIOUS
<1>1. FocusedInv' /\ focus' = focus
  BY FocusedNext DEF TypedInv, InputsNext, allvars
<1>2. TypeOK'
  <2>1. [Next]_rpcvars
    BY Zenon DEF InputsNext, allvars
  <2> QED
    BY <2>1, TypesKept DEF TypedInv
<1>3. CASE focus = "candles"
  <2>1. C!Next \/ UNCHANGED candles
    BY <1>3 DEF InputsNext, allvars
  <2>2. CandlesTyped'
    BY <1>3, <2>1, CandlesTypedNext DEF TypedInv
  <2> QED
    BY <1>1, <1>2, <1>3, <2>2 DEF TypedInv
<1>4. CASE focus = "holdout"
  <2>1. H!Next \/ UNCHANGED holdout
    BY <1>4 DEF InputsNext, allvars
  <2>2. H!TypeOK'
    BY <1>4, <2>1, HoldoutTyped DEF TypedInv, FocusedInv
  <2> QED
    BY <1>1, <1>2, <1>4, <2>2 DEF TypedInv
<1> QED
  BY <1>1, <1>2, <1>3, <1>4 DEF TypedInv

\* The store has no hole but where the exchange has none or an update jumped, for every
\* page size, history with one long gap, lookback and order of the two processes'
\* steps, failures and deaths (_fetch_range, _first_page_with_data, update_pair).
THEOREM StoreHasNoHoles == Spec => []HolesAreJumps
<1>1. FocusedInv => HolesAreJumps
  BY DEF FocusedInv, CandlesInv, NoHoles, HolesAreJumps, C!HolesAreJumps
<1> QED
  BY <1>1, FocusedInit, FocusedNext, PTL DEF Spec

\* The frame the bot evaluates is the exchange's series, without a bar missing or
\* unfinished in the shortest window anyone keeps up (window_pair, update_pair).
THEOREM ServedWindowsAreTrue == Spec => []ServedIsTrue
<1>1. FocusedInv => ServedIsTrue
  BY DEF FocusedInv, CandlesInv, FrameIsTrue, ServedIsTrue, C!ServedIsTrue
<1> QED
  BY <1>1, FocusedInit, FocusedNext, PTL DEF Spec

\* What the count of a covered window lacks was posted in a second that only the live
\* recorder covers and for which it does not answer, for all feeds, page sizes, postings,
\* imports and orders of requests, failures and restarts: what an import covers is
\* counted, and so is what two reads without a gap enclose (_store, _merge, coverage).
THEOREM CoveredWindowsAreCounted == Spec => []CoveredIsCounted
<1>1. FocusedInv => CoveredIsCounted
  BY InvCounts DEF FocusedInv, CoveredIsCounted
<1> QED
  BY <1>1, FocusedInit, FocusedNext, PTL DEF Spec

\* No bar that decides was in the backtest that led to the held-out period (evaluate,
\* holdout, split).
THEOREM SelectionNeverDecides == Spec => []HeldOutUnseen
<1>1. FocusedInv => HeldOutUnseen
  BY DEF FocusedInv, HoldoutInv, HeldOutUnseen
<1> QED
  BY <1>1, FocusedInit, FocusedNext, PTL DEF Spec

\* The held-out period of a hash never starts anew, whatever is retried or cut off
\* (_to_paper, holdout).
THEOREM PeriodStaysPinned == Spec => PinHolds
<1>1. FocusedInv /\ [InputsNext]_allvars => [pinned # None => pinned' = pinned]_H!holdoutvars
  <2> SUFFICES ASSUME FocusedInv, [InputsNext]_allvars
               PROVE  (pinned # None => pinned' = pinned) \/ UNCHANGED H!holdoutvars
    OBVIOUS
  <2>1. CASE focus = "holdout" /\ (H!Next \/ UNCHANGED holdout)
    BY <2>1, PinKept DEF FocusedInv, HoldoutInv
  <2>2. CASE UNCHANGED holdout
    BY <2>2 DEF holdout, H!holdoutvars
  <2> QED
    BY <2>1, <2>2 DEF InputsNext, allvars
<1> QED
  BY <1>1, FocusedInit, FocusedNext, PTL DEF Spec, PinHolds, H!PinHolds

\* For every spec whose indicators, of any periods, refer to each other in any way, and
\* every window: an output is a number at no bar before the one the compiler counted, and
\* from that very bar on where the data behind it have no hole (Rules.NeedIsExact).
THEOREM OutputsAreWhereCounted == Spec => []NeedIsExact
<1>1. FocusedInv => NeedIsExact
  BY NeedsAreExact DEF FocusedInv, NeedIsExact
<1> QED
  BY <1>1, FocusedInit, FocusedNext, PTL DEF Spec

\* A spec is refused exactly for a cycle, an undefined operand or a lookback in which
\* even data without a hole leave its rule without a value; one that is taken evaluates
\* each indicator after those it reads, and its rule misses a value on the last bar, or a
\* cross on the one before, only where the data behind it have a hole: posts not covered
\* or without a mention, a day without an index, a flat range (Rules.AcceptsExactly).
THEOREM SpecsAreJudged == Spec => []AcceptsExactly
<1>1. FocusedInv => AcceptsExactly
  BY AcceptedExactly DEF FocusedInv, AcceptsExactly
<1> QED
  BY <1>1, FocusedInit, FocusedNext, PTL DEF Spec

\* The variables of all five machines keep their types; a candle store holds only
\* closed bars that the exchange has, whatever its gaps (_fetch_range, update_pair).
THEOREM InputsTyped == Spec => []InputsTypeOK
<1>1. TypedInv => InputsTypeOK
  BY RulesTypesHold DEF TypedInv, FocusedInv, CandlesTyped, RecorderInv, InputsTypeOK
<1> QED
  BY <1>1, TypedBegins, TypedStays, PTL DEF Spec

=============================================================================
