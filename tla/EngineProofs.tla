---------------------------- MODULE EngineProofs ----------------------------
(***************************************************************************)
(* What the engine's operators return, for every price, size and setting:  *)
(* the facts the invariance proofs of the machines built on Engine cite.   *)
(***************************************************************************)
EXTENDS Engine, TLAPS

(***************************************************************************)
(* Fixed-point arithmetic                                                  *)
(***************************************************************************)

\* A percentage of a natural is a natural.
LEMMA PercentType ==
    ASSUME NEW x \in Nat, NEW p \in Nat
    PROVE  Percent(x, p) \in Nat
BY DEF Percent

\* A percentage is monotone in what it is taken of.
LEMMA PercentMonotone ==
    ASSUME NEW x \in Nat, NEW y \in Nat, NEW p \in Nat, x <= y
    PROVE  Percent(x, p) <= Percent(y, p)
<1>1. /\ x * p \in Nat
      /\ y * p \in Nat
      /\ x * p <= y * p
  OBVIOUS
<1>2. QED
  BY <1>1 DEF Percent

\* The whole of an amount is the amount.
LEMMA PercentWhole ==
    ASSUME NEW x \in Nat
    PROVE  Percent(x, 100) = x
BY DEF Percent

\* The cost model never takes more than the notional.
LEMMA ImpactType ==
    ASSUME NEW n \in Nat
    PROVE  Impact(n) \in 0..n
<1>1. /\ n * CostBps \in Nat
      /\ n * CostBps <= n * 10000
  BY SizingAssumption
<1>2. QED
  BY <1>1 DEF Impact

LEMMA SizeBoughtType ==
    ASSUME NEW n \in Nat, NEW price \in Nat \ {0}
    PROVE  SizeBought(n, price) \in Nat
<1>1. n - Impact(n) \in Nat
  BY ImpactType
<1>2. (n - Impact(n)) * SizeUnit \in Nat
  BY <1>1, SizingAssumption
<1>3. QED
  BY <1>2 DEF SizeBought

LEMMA WorthType ==
    ASSUME NEW size \in Nat, NEW price \in Nat
    PROVE  Worth(size, price) \in Nat
<1>1. size * price \in Nat
  OBVIOUS
<1>2. QED
  BY <1>1, SizingAssumption DEF Worth

\* A sale brings in at least minus the network fee.
LEMMA ProceedsType ==
    ASSUME NEW n \in Nat
    PROVE  Proceeds(n) \in Int /\ Proceeds(n) >= -NetworkFee
BY ImpactType, SizingAssumption DEF Proceeds

(***************************************************************************)
(* Levels                                                                  *)
(***************************************************************************)

\* The binding level is a natural, and is at least each of its two parts.
LEMMA StopLevelType ==
    ASSUME NEW pos \in Position
    PROVE  /\ TrailingLevel(pos) \in Nat
           /\ StopLevel(pos) \in Nat
           /\ StopLevel(pos) >= pos.stop
           /\ StopLevel(pos) >= TrailingLevel(pos)
<1>1. pos.highest_price \in Nat /\ pos.stop \in Nat /\ 100 - Trailing \in Nat
  BY RiskAssumption DEF Position
<1>2. TrailingLevel(pos) \in Nat
  BY <1>1, PercentType DEF TrailingLevel
<1>3. QED
  BY <1>1, <1>2 DEF StopLevel, AtLeast

LEMMA EntryLevelsType ==
    ASSUME NEW price \in Nat
    PROVE  EntryStop(price) \in Nat /\ EntryTarget(price) \in Nat
<1>1. 100 - StopLoss \in Nat /\ 100 + TakeProfit \in Nat
  BY RiskAssumption
<1>2. QED
  BY <1>1, PercentType DEF EntryStop, EntryTarget

\* Ratcheting keeps the position's identity and never lowers its level.
LEMMA UpdateTrailingRatchets ==
    ASSUME NEW pos \in Position, NEW high \in Nat
    PROVE  LET new == UpdateTrailing(pos, high)
           IN  /\ new \in Position
               /\ new.cost_basis = pos.cost_basis
               /\ new.entry_ts = pos.entry_ts
               /\ StopLevel(new) >= StopLevel(pos)
<1> DEFINE new == UpdateTrailing(pos, high)
<1>1. /\ new \in Position
      /\ new.cost_basis = pos.cost_basis
      /\ new.entry_ts = pos.entry_ts
      /\ new.stop = pos.stop
      /\ new.highest_price >= pos.highest_price
      /\ pos.trailing_active => new.trailing_active
  <2>1. pos.highest_price \in Nat /\ NewPeak(pos.highest_price, high) \in Nat
        /\ NewPeak(pos.highest_price, high) >= pos.highest_price
    BY DEF Position, NewPeak, AtLeast
  <2>2. CASE Arms(pos, high)
    <3>1. new = [pos EXCEPT !.trailing_active = TRUE,
                            !.highest_price = NewPeak(pos.highest_price, high)]
      BY <2>2 DEF UpdateTrailing
    <3>2. new \in Position
      BY <3>1, <2>1 DEF Position
    <3>3. QED
      BY <2>1, <3>1, <3>2 DEF Position
  <2>3. CASE ~Arms(pos, high)
    BY <2>1, <2>3 DEF UpdateTrailing
  <2>4. QED
    BY <2>2, <2>3
<1>2. TrailingLevel(new) >= TrailingLevel(pos)
  <2>1. CASE Trailing > 0 /\ pos.trailing_active
    <3>1. Percent(new.highest_price, 100 - Trailing) >= Percent(pos.highest_price, 100 - Trailing)
      <4>1. 100 - Trailing \in Nat /\ new.highest_price \in Nat /\ pos.highest_price \in Nat
        BY <1>1, RiskAssumption DEF Position
      <4>2. QED
        BY <1>1, <4>1, PercentMonotone
    <3>2. QED
      BY <1>1, <2>1, <3>1 DEF TrailingLevel
  <2>2. CASE ~(Trailing > 0 /\ pos.trailing_active)
    <3>1. TrailingLevel(pos) = 0
      BY <2>2 DEF TrailingLevel
    <3>2. TrailingLevel(new) \in Nat
      BY <1>1, StopLevelType
    <3>3. QED
      BY <3>1, <3>2
  <2>3. QED
    BY <2>1, <2>2
<1>3. QED
  <2>1. /\ TrailingLevel(pos) \in Nat
        /\ TrailingLevel(new) \in Nat
        /\ pos.stop \in Nat
    BY <1>1, StopLevelType DEF Position
  <2>2. StopLevel(new) >= StopLevel(pos)
    BY <1>1, <1>2, <2>1 DEF StopLevel, AtLeast
  <2>3. QED
    BY <1>1, <2>2

(***************************************************************************)
(* Fills                                                                   *)
(***************************************************************************)

\* An entry of a book without other positions spends what it may spend: no
\* more than the cash, one trade, and the capital.
LEMMA EntryNotionalBounds ==
    ASSUME NEW cash \in Int
    PROVE  LET n == EntryNotional(cash, 0, 100)
           IN  /\ n \in Nat
               /\ n > 0 => n + NetworkFee <= cash
               /\ n <= AtMost(TradeSize, MaxCapital)
<1> DEFINE n == SizeOrder(cash - NetworkFee, 0)
<1>1. /\ n \in Nat
      /\ n > 0 => n + NetworkFee <= cash
      /\ n <= AtMost(TradeSize, MaxCapital)
  BY SizingAssumption DEF SizeOrder, AtLeast, AtMost
<1>2. EntryNotional(cash, 0, 100) = n
  BY <1>1, PercentWhole DEF EntryNotional
<1>3. QED
  BY <1>1, <1>2

\* open_position either leaves the book as it was or opens an affordable
\* position at the price and bar it was asked for.
LEMMA OpenPositionResult ==
    ASSUME NEW b \in Book, NEW ts \in Nat, NEW price \in Nat \ {0}, b.position = None
    PROVE  LET c == OpenPosition(b, ts, price, 0, 100)
           IN  \/ c = b
               \/ /\ c \in Book
                  /\ c.position \in Position
                  /\ c.position.entry_ts = ts
                  /\ c.position.entry_price = price
                  /\ c.position.cost_basis <= AtMost(TradeSize, MaxCapital) + NetworkFee
                  /\ c.cash >= 0
                  /\ c.cash = b.cash - c.position.cost_basis
                  /\ c.pending = b.pending
                  /\ c.realized = b.realized
                  /\ c.trade = b.trade
                  /\ c.last_bar_ts = b.last_bar_ts
<1> DEFINE n == EntryNotional(b.cash, 0, 100)
           size == SizeBought(n, price)
           c == OpenPosition(b, ts, price, 0, 100)
<1>1. b.cash \in Int
  BY DEF Book
<1>2. /\ n \in Nat
      /\ n > 0 => n + NetworkFee <= b.cash
      /\ n <= AtMost(TradeSize, MaxCapital)
  BY <1>1, EntryNotionalBounds
<1>3. size \in Nat
  BY <1>2, SizeBoughtType
<1>4. CASE n < MinOrder \/ size = 0
  BY <1>4 DEF OpenPosition
<1>5. CASE ~(n < MinOrder \/ size = 0)
  <2>1. n > 0 /\ size \in Nat \ {0}
    BY <1>2, <1>3, <1>5, SizingAssumption
  <2> DEFINE p == [entry_price |-> price, size |-> size,
                   cost_basis |-> CostBasis(n), entry_ts |-> ts,
                   stop |-> EntryStop(price), take_profit |-> EntryTarget(price),
                   trailing_active |-> FALSE, highest_price |-> price]
  <2>2. c = [b EXCEPT !.cash = @ - (n + NetworkFee), !.position = p]
    BY <1>5 DEF OpenPosition
  <2>3. CostBasis(n) \in Nat /\ CostBasis(n) = n + NetworkFee
    BY <1>2, SizingAssumption DEF CostBasis
  <2>4. EntryStop(price) \in Nat /\ EntryTarget(price) \in Nat
    BY EntryLevelsType
  <2>5. p \in Position
    BY <2>1, <2>3, <2>4 DEF Position
  <2>6. /\ c.position = p
        /\ c.cash = b.cash - (n + NetworkFee)
        /\ c.pending = b.pending /\ c.realized = b.realized
        /\ c.trade = b.trade /\ c.last_bar_ts = b.last_bar_ts
    BY <2>2, ZenonT(30) DEF Book
  <2>7. c.cash \in Int /\ c.cash >= 0
    BY <1>1, <1>2, <2>1, <2>6, SizingAssumption
  <2>8. c \in Book
    BY <2>2, <2>5, <2>6, <2>7, ZenonT(30) DEF Book
  <2>9. p.cost_basis <= AtMost(TradeSize, MaxCapital) + NetworkFee
    BY <1>2, <2>3, SizingAssumption DEF AtMost
  <2>10. QED
    BY <2>3, <2>5, <2>6, <2>7, <2>8, <2>9
<1>6. QED
  BY <1>4, <1>5

\* close_position at a positive price leaves a flat book with nothing queued,
\* books the trade, and moves the cash by what it adds to the realized P&L
\* plus the cost of the position.
LEMMA ClosePositionResult ==
    ASSUME NEW b \in Book, NEW ts \in Nat, NEW price \in Nat \ {0},
           NEW reason \in Reason, b.position # None
    PROVE  LET c == ClosePosition(b, ts, price, reason)
           IN  /\ c \in Book
               /\ c.position = None
               /\ c.pending = None
               /\ c.last_bar_ts = b.last_bar_ts
               /\ c.trade = [entry_ts |-> b.position.entry_ts, exit_ts |-> ts,
                             exit_price |-> price, reason |-> reason]
               /\ c.cash - b.cash = c.realized - b.realized + b.position.cost_basis
               /\ c.cash >= b.cash - NetworkFee
<1> DEFINE pr == Proceeds(Worth(b.position.size, price))
           t == [entry_ts |-> b.position.entry_ts, exit_ts |-> ts,
                 exit_price |-> price, reason |-> reason]
           c == ClosePosition(b, ts, price, reason)
<1>1. b.position \in Position
  BY DEF Book
<1>2. /\ b.position.size \in Nat
      /\ b.position.cost_basis \in Nat
      /\ b.position.entry_ts \in Nat
  BY <1>1 DEF Position
<1>3. pr \in Int /\ pr >= -NetworkFee
  BY <1>2, WorthType, ProceedsType
<1>4. c = [b EXCEPT !.position = None, !.pending = None, !.cash = @ + pr,
                    !.realized = @ + (pr - b.position.cost_basis), !.trade = t]
  BY DEF ClosePosition
<1>5. t \in Trade
  BY <1>2 DEF Trade
<1>6. /\ c.position = None /\ c.pending = None /\ c.trade = t
      /\ c.last_bar_ts = b.last_bar_ts
      /\ c.cash = b.cash + pr
      /\ c.realized = b.realized + (pr - b.position.cost_basis)
  BY <1>4 DEF Book
<1>7. b.cash \in Int /\ b.realized \in Int
  BY DEF Book
<1>8. c.cash \in Int /\ c.realized \in Int
  BY <1>2, <1>3, <1>6, <1>7
<1>9. c \in Book
  BY <1>4, <1>5, <1>6, <1>8 DEF Book
<1>10. QED
  BY <1>2, <1>3, <1>6, <1>7, <1>9, SizingAssumption

(***************************************************************************)
(* The three steps of a bar, for any size factor of the gate               *)
(***************************************************************************)

\* What the book has put in beyond what its trades explain: constant as long as
\* cash, positions and trades agree.
Cost(pos) == IF pos = None THEN 0 ELSE pos.cost_basis
Balance(b) == b.cash + Cost(b.position) - b.realized

\* A step that moves no more money than its trade books.
Settles(b, c) == c \in Book /\ c.last_bar_ts = b.last_bar_ts /\ Balance(c) = Balance(b)

LEMMA CostType ==
    ASSUME NEW b \in Book
    PROVE  Cost(b.position) \in Nat /\ b.cash \in Int /\ b.realized \in Int /\ Balance(b) \in Int
BY DEF Cost, Balance, Book, Position

\* A percentage below the whole of a positive amount leaves some of it.
LEMMA PercentLeaves ==
    ASSUME NEW x \in Nat, NEW p \in 0..99
    PROVE  /\ x - Percent(x, p) \in Nat
           /\ x > 0 => x - Percent(x, p) > 0
<1>1. x * p \in Nat /\ x * p <= x * 99
  OBVIOUS
<1>2. x > 0 => x * 99 < x * 100
  OBVIOUS
<1> DEFINE y == x * p
<1>3. y \in Nat /\ y <= x * 99
  BY <1>1
<1> HIDE DEF y
<1>4. y \div 100 <= x /\ (x > 0 => y \div 100 < x) /\ y \div 100 \in Nat
  BY <1>3
<1> QED
  BY <1>4 DEF Percent, y

LEMMA SpendBalances == \A k, l \in Int : \A n, m \in Nat : k - (n + m) + (n + m) - l = k + 0 - l
  OBVIOUS

\* open_position with any factor: nothing, or a position bought with the book's cash.
LEMMA OpenPositionBooks ==
    ASSUME NEW b \in Book, NEW ts \in Nat, NEW price \in Nat \ {0}, NEW factor \in 0..100,
           b.position = None
    PROVE  LET c == OpenPosition(b, ts, price, 0, factor)
           IN  Settles(b, c) /\ c.pending = b.pending
<1> DEFINE n == EntryNotional(b.cash, 0, factor)
           size == SizeBought(n, price)
           c == OpenPosition(b, ts, price, 0, factor)
<1>1. b.cash \in Int /\ b.realized \in Int
  BY DEF Book
<1>2. n \in Nat
  <2>1. SizeOrder(b.cash - NetworkFee, 0) \in Nat
    BY <1>1, SizingAssumption DEF SizeOrder, AtLeast, AtMost
  <2> QED
    BY <2>1, factor \in Nat, PercentType DEF EntryNotional
<1>3. size \in Nat
  BY <1>2, SizeBoughtType
<1>4. CASE n < MinOrder \/ size = 0
  BY <1>4 DEF OpenPosition, Settles
<1>5. CASE ~(n < MinOrder \/ size = 0)
  <2>1. size \in Nat \ {0}
    BY <1>3, <1>5
  <2> DEFINE p == [entry_price |-> price, size |-> size,
                   cost_basis |-> CostBasis(n), entry_ts |-> ts,
                   stop |-> EntryStop(price), take_profit |-> EntryTarget(price),
                   trailing_active |-> FALSE, highest_price |-> price]
  <2>2. c = [b EXCEPT !.cash = @ - (n + NetworkFee), !.position = p]
    BY <1>5 DEF OpenPosition
  <2>3. CostBasis(n) \in Nat /\ CostBasis(n) = n + NetworkFee
    BY <1>2, SizingAssumption DEF CostBasis
  <2>4. EntryStop(price) \in Nat /\ EntryTarget(price) \in Nat
    BY EntryLevelsType
  <2>5. p \in Position /\ p # None /\ p.cost_basis = CostBasis(n)
    <3>1. p \in Position
      BY <2>1, <2>3, <2>4 DEF Position
    <3>2. p # None
      BY <3>1, NoneAssumption
    <3> QED
      BY <3>1, <3>2
  <2> HIDE DEF p
  <2>6. /\ c.position = p
        /\ c.cash = b.cash - (n + NetworkFee)
        /\ c.pending = b.pending /\ c.realized = b.realized
        /\ c.trade = b.trade /\ c.last_bar_ts = b.last_bar_ts
    BY <2>2, ZenonT(30) DEF Book
  <2>7. c.cash \in Int
    BY <1>1, <1>2, <2>6, SizingAssumption
  <2>8. c \in Book
    BY <2>2, <2>5, <2>6, <2>7, ZenonT(30) DEF Book
  <2>9. Cost(c.position) = n + NetworkFee /\ Cost(b.position) = 0
    BY <2>3, <2>5, <2>6, Zenon DEF Cost
  <2>10. b.cash - (n + NetworkFee) + (n + NetworkFee) - b.realized = b.cash + 0 - b.realized
    BY <1>1, <1>2, SizingAssumption, SpendBalances
  <2>11. Balance(c) = Balance(b)
    BY <2>6, <2>9, <2>10, Zenon DEF Balance
  <2> QED
    BY <2>6, <2>8, <2>11, Zenon DEF Settles
<1>6. QED
  BY <1>4, <1>5

\* A sale of the whole position books exactly what it moves.
LEMMA ClosePositionBooks ==
    ASSUME NEW b \in Book, NEW ts \in Nat, NEW price \in Nat \ {0}, NEW reason \in Reason,
           b.position # None
    PROVE  LET c == ClosePosition(b, ts, price, reason)
           IN  Settles(b, c) /\ c.position = None /\ c.pending = None
<1> DEFINE c == ClosePosition(b, ts, price, reason)
<1>1. /\ c \in Book
      /\ c.position = None /\ c.pending = None
      /\ c.last_bar_ts = b.last_bar_ts
      /\ c.cash - b.cash = c.realized - b.realized + b.position.cost_basis
  BY ClosePositionResult, ZenonT(60)
<1> HIDE DEF c
<1>2. b.cash \in Int /\ b.realized \in Int /\ c.cash \in Int /\ c.realized \in Int
      /\ b.position.cost_basis \in Nat
  BY <1>1 DEF Book, Position
<1>3. Cost(c.position) = 0 /\ Cost(b.position) = b.position.cost_basis
  BY <1>1 DEF Cost
<1>4. Balance(c) = Balance(b)
  BY <1>1, <1>2, <1>3 DEF Balance
<1> QED
  BY <1>1, <1>4 DEF c, Settles

\* A partial sale leaves a position that is not empty.
LEMMA ReducePositionBooks ==
    ASSUME NEW b \in Book, NEW ts \in Nat, NEW price \in Nat \ {0}, NEW factor \in 0..99,
           b.position # None
    PROVE  LET c == ReducePosition(b, ts, price, factor)
           IN  c \in Book /\ c.pending = b.pending /\ c.last_bar_ts = b.last_bar_ts
<1> DEFINE p == b.position
           part == Percent(p.size, factor)
           rest == p.cost_basis - Percent(p.cost_basis, factor)
           gain == Proceeds(Worth(part, price))
           q == [p EXCEPT !.size = @ - part, !.cost_basis = rest]
           c == ReducePosition(b, ts, price, factor)
<1>1. p \in Position /\ p.size \in Nat /\ p.size > 0 /\ p.cost_basis \in Nat
  BY DEF Book, Position
<1>2. p.size - part \in Nat /\ p.size - part > 0 /\ rest \in Nat
  BY <1>1, PercentLeaves
<1>3. gain \in Int
  <2>1. part \in Nat
    BY <1>1, factor \in Nat, PercentType
  <2>2. Worth(part, price) \in Nat
    BY <2>1, WorthType
  <2> QED
    BY <2>2, ProceedsType
<1>4. c = [b EXCEPT !.cash = @ + gain, !.position = q]
  <2>1. c = [b EXCEPT !.cash = @ + gain, !.position.size = @ - part,
                      !.position.cost_basis = @ - Percent(@, factor)]
    BY DEF ReducePosition
  <2> QED
    BY <1>1, <2>1 DEF Book, Position
<1> HIDE DEF part, rest, gain
<1> DEFINE size == p.size - part
<1>5. q \in Position
  <2>1. size \in Nat \ {0}
    BY <1>2
  <2>2. q = [p EXCEPT !.size = size, !.cost_basis = rest]
    OBVIOUS
  <2> HIDE DEF size
  <2> QED
    BY <1>1, <1>2, <2>1, <2>2 DEF Position
<1> HIDE DEF q
<1>6. b.cash + gain \in Int
  BY <1>3 DEF Book
<1>7. c \in Book /\ c.pending = b.pending /\ c.last_bar_ts = b.last_bar_ts
  BY <1>4, <1>5, <1>6 DEF Book
<1> QED
  BY <1>7

\* What on_open, on_low and on_close make c of the book b.
Opens(b, c, factor) ==
    /\ c \in Book /\ c.pending = None /\ c.last_bar_ts = b.last_bar_ts
    /\ factor \in {0, 100} => Balance(c) = Balance(b)
    /\ b.pending = None => c = b
Lowers(b, c) ==
    /\ Settles(b, c)
    /\ c = b \/ (c.position = None /\ c.pending = None)
    /\ b.position = None => c = b
Closes(b, c, ts) == c \in Book /\ c.last_bar_ts = ts /\ Balance(c) = Balance(b)

\* on_open clears the queue, whatever the gate says, and keeps the books unless the
\* gate sells part of a position.
LEMMA OnOpenBooks ==
    ASSUME NEW b \in Book, NEW ts \in Nat, NEW open \in Nat \ {0}, NEW factor \in 0..100
    PROVE  Opens(b, OnOpen(b, ts, open, 0, factor), factor)
<1> DEFINE c == OnOpen(b, ts, open, 0, factor)
           d == TakePending(b)
<1>1. /\ d \in Book /\ d.pending = None /\ d.last_bar_ts = b.last_bar_ts
      /\ d.position = b.position /\ d.cash = b.cash /\ d.realized = b.realized
  BY DEF TakePending, Book
<1>2. Balance(d) = Balance(b)
  BY <1>1, Zenon DEF Balance
<1> HIDE DEF c, d
<1> USE DEF Opens
<1>3. ASSUME b.pending = None PROVE Opens(b, c, factor)
  BY <1>3 DEF OnOpen, c
<1>4. ASSUME b.pending # None, b.pending.side = "BUY" PROVE Opens(b, c, factor)
  <2>1. CASE b.position # None
    <3>1. c = d
      BY <1>4, <2>1 DEF OnOpen, c, d
    <3> QED
      BY <1>1, <1>2, <1>4, <3>1
  <2>2. CASE b.position = None
    <3>1. c = OpenPosition(d, ts, open, 0, factor)
      BY <1>4, <2>2 DEF OnOpen, c, d
    <3>2. d.position = None
      BY <1>1, <2>2
    <3>3. Settles(d, c) /\ c.pending = d.pending
      BY <1>1, <3>1, <3>2, OpenPositionBooks
    <3> QED
      BY <1>1, <1>2, <1>4, <3>3 DEF Settles
  <2> QED
    BY <2>1, <2>2
<1>5. ASSUME b.pending # None, b.pending.side # "BUY" PROVE Opens(b, c, factor)
  <2>1. b.pending.reason \in Reason
    BY <1>5 DEF Book, Action, Reason
  <2>2. CASE b.position = None \/ (b.pending.reason = "signal" /\ factor = 0)
    <3>1. c = d
      BY <1>5, <2>2 DEF OnOpen, c, d
    <3> QED
      BY <1>1, <1>2, <1>5, <3>1
  <2>3. CASE ~(b.position = None \/ (b.pending.reason = "signal" /\ factor = 0))
    <3>1. CASE b.pending.reason = "signal" /\ factor < 100
      <4>1. c = ReducePosition(d, ts, open, factor)
        BY <1>5, <2>3, <3>1 DEF OnOpen, c, d
      <4>2. factor \in 0..99 /\ factor \notin {0, 100}
        BY <2>3, <3>1
      <4>3. d.position # None
        BY <1>1, <2>3
      <4>4. c \in Book /\ c.pending = d.pending /\ c.last_bar_ts = d.last_bar_ts
        BY <1>1, <4>1, <4>2, <4>3, ReducePositionBooks, ZenonT(60)
      <4> QED
        BY <1>1, <1>5, <4>2, <4>4
    <3>2. CASE ~(b.pending.reason = "signal" /\ factor < 100)
      <4>1. c = ClosePosition(d, ts, open, b.pending.reason)
        BY <1>5, <2>3, <3>2 DEF OnOpen, c, d
      <4>2. d.position # None
        BY <1>1, <2>3
      <4>3. Settles(d, c) /\ c.position = None /\ c.pending = None
        BY <1>1, <2>1, <4>1, <4>2, ClosePositionBooks
      <4> QED
        BY <1>1, <1>2, <1>5, <4>3 DEF Settles
    <3> QED
      BY <3>1, <3>2
  <2> QED
    BY <2>2, <2>3
<1>6. Opens(b, c, factor)
  BY <1>3, <1>4, <1>5
<1> QED
  BY <1>6 DEF c

\* on_low leaves the book alone or sells the whole position.
LEMMA OnLowBooks ==
    ASSUME NEW b \in Book, NEW ts \in Nat, NEW open \in Nat \ {0}, NEW low \in Nat
    PROVE  Lowers(b, OnLow(b, ts, open, low))
<1> DEFINE c == OnLow(b, ts, open, low)
<1> HIDE DEF c
<1> USE DEF Lowers
<1>1. ASSUME b.position # None, StopHit(b.position, low) PROVE Lowers(b, c)
  <2> DEFINE fill == StopFill(StopLevel(b.position), open)
  <2>1. b.position \in Position
    BY <1>1 DEF Book
  <2>2. StopLevel(b.position) \in Nat /\ StopLevel(b.position) > 0
    BY <1>1, <2>1, StopLevelType DEF StopHit
  <2>3. fill \in Nat \ {0}
    BY <2>2 DEF StopFill, AtMost
  <2>4. StopReason(b.position) \in Reason
    BY DEF StopReason, Reason
  <2>5. c = ClosePosition(b, ts, fill, StopReason(b.position))
    BY <1>1 DEF OnLow, c
  <2> HIDE DEF fill
  <2>6. Settles(b, c) /\ c.position = None /\ c.pending = None
    BY <1>1, <2>3, <2>4, <2>5, ClosePositionBooks
  <2> QED
    BY <1>1, <2>6
<1>2. ASSUME ~(b.position # None /\ StopHit(b.position, low)) PROVE Lowers(b, c)
  BY <1>2 DEF OnLow, c, Settles
<1>3. Lowers(b, c)
  BY <1>1, <1>2
<1> QED
  BY <1>3 DEF c

\* A running low that is not yet the bar's either does nothing or already does
\* what the bar's low will do.
LEMMA OnLowEarly ==
    ASSUME NEW b \in Book, NEW ts, NEW open, NEW low \in Nat, NEW running \in Nat, low <= running
    PROVE  OnLow(b, ts, open, running) \in {b, OnLow(b, ts, open, low)}
<1>1. CASE b.position # None /\ StopHit(b.position, running)
  <2>1. b.position \in Position
    BY <1>1 DEF Book
  <2>2. StopLevel(b.position) \in Nat
    BY <2>1, StopLevelType
  <2>3. StopHit(b.position, low)
    BY <1>1, <2>2 DEF StopHit
  <2> QED
    BY <1>1, <2>3 DEF OnLow
<1>2. CASE ~(b.position # None /\ StopHit(b.position, running))
  BY <1>2 DEF OnLow
<1> QED
  BY <1>1, <1>2

\* on_close moves no money.
LEMMA OnCloseBooks ==
    ASSUME NEW b \in Book, NEW ts \in Nat, NEW high \in Nat, NEW close,
           NEW entry \in BOOLEAN, NEW exit \in BOOLEAN, NEW allowed \in BOOLEAN
    PROVE  Closes(b, OnClose(b, ts, high, close, entry, exit, allowed), ts)
<1> DEFINE held == IF b.position = None THEN None ELSE UpdateTrailing(b.position, high)
           decision == DecideClose(held, close, entry, exit, ts)
           next == IF decision # None /\ decision.side = "BUY" /\ ~allowed THEN None ELSE decision
           c == OnClose(b, ts, high, close, entry, exit, allowed)
<1>1. held \in Position \cup {None} /\ Cost(held) = Cost(b.position)
  <2>1. CASE b.position = None
    BY <2>1
  <2>2. CASE b.position # None
    <3>1. b.position \in Position
      BY <2>2 DEF Book
    <3>2. held \in Position /\ held.cost_basis = b.position.cost_basis
      BY <2>2, <3>1, UpdateTrailingRatchets
    <3>3. held # None
      BY <3>2, NoneAssumption
    <3> QED
      BY <2>2, <3>2, <3>3 DEF Cost
  <2> QED
    BY <2>1, <2>2
<1> HIDE DEF held
<1>2. decision \in Action \cup {None}
  BY DEF DecideClose, Queued, Action
<1>3. c = [b EXCEPT !.position = held, !.pending = next, !.last_bar_ts = ts]
  BY DEF OnClose, held
<1> HIDE DEF decision
<1>4. next \in Action \cup {None}
  BY <1>2
<1> HIDE DEF next, c
<1>5. c \in Book /\ c.last_bar_ts = ts /\ c.position = held /\ c.cash = b.cash /\ c.realized = b.realized
  BY <1>1, <1>3, <1>4 DEF Book
<1>6. Balance(c) = Balance(b)
  BY <1>1, <1>5, Zenon DEF Balance
<1> QED
  BY <1>5, <1>6 DEF c, Closes

=============================================================================
