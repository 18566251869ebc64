--------------------------- MODULE BacktestProofs ---------------------------
(***************************************************************************)
(* The safety of Backtest for every history, every capital and every risk  *)
(* setting.  IInv is the inductive invariant: what the runs check, plus    *)
(* where in a bar an action may be queued (QueueFresh, BarStarted), which  *)
(* is what makes "the bar after the signal" provable.                      *)
(***************************************************************************)
EXTENDS Backtest, EngineProofs

\* An action is queued only between two bars, and by the bar just closed.
QueueFresh ==
    book.pending # None => stage \in {"close", "ended"} /\ book.pending.signal_ts = bar

BarStarted == stage # "close" => bar # 0

IInv ==
    /\ TypeOK
    /\ PendingFitsPosition
    /\ QueueFresh
    /\ BarStarted
    /\ CashExplained
    /\ NeverOverspent
    /\ StopHonoured
    /\ ExitAtTradedPrice

\* What the history's bars satisfy, as facts about one bar.
LEMMA BarFacts ==
    ASSUME market \in [1..NumBars -> BarData], NEW i \in 1..NumBars
    PROVE  /\ i \in Nat
           /\ market[i].open \in Nat \ {0} /\ market[i].high \in Nat \ {0}
           /\ market[i].low \in Nat \ {0} /\ market[i].close \in Nat \ {0}
           /\ market[i].low <= market[i].open /\ market[i].open <= market[i].high
           /\ market[i].low <= market[i].close /\ market[i].close <= market[i].high
<1>1. market[i] \in BarData
  OBVIOUS
<1>2. market[i] \in Bar
  BY <1>1, HistoryAssumption
<1>3. QED
  BY <1>1, <1>2, HistoryAssumption DEF Bar

LEMMA InitInv == Init => IInv
<1> SUFFICES ASSUME Init PROVE IInv
  OBVIOUS
<1>1. book \in Book
  BY SizingAssumption DEF Init, FreshBook, Book
<1>2. /\ book.position = None /\ book.pending = None /\ book.trade = None
      /\ book.cash = MaxCapital /\ book.realized = 0
  BY DEF Init, FreshBook
<1>3. TypeOK
  <2>1. bar \in 0..NumBars /\ market \in [1..NumBars -> BarData] /\ stage \in Stages
    BY HistoryAssumption DEF Init, Stages
  <2> QED
    BY <1>1, <1>2, <2>1 DEF TypeOK
<1>4. PendingFitsPosition /\ QueueFresh /\ BarStarted
  BY <1>2 DEF Init, FreshBook, PendingFitsPosition, QueueFresh, BarStarted
<1>5. CashExplained /\ NeverOverspent
  BY <1>1, <1>2, SizingAssumption DEF Init, FreshBook, CashExplained, NeverOverspent
<1>6. StopHonoured /\ ExitAtTradedPrice
  BY <1>2 DEF Init, FreshBook, StopHonoured, ExitAtTradedPrice
<1>7. QED
  BY <1>3, <1>4, <1>5, <1>6 DEF IInv

\* What is queued is taken off the queue, and either nothing else happens, or
\* the entry fills, or the exit does.
LEMMA OnOpenResult ==
    ASSUME IInv, NEW i \in 1..NumBars
    PROVE  LET c == OnOpen(book, i, market[i].open, 0, 100)
               taken == TakePending(book)
           IN  /\ taken \in Book
               /\ taken.pending = None
               /\ taken.position = book.position /\ taken.cash = book.cash
               /\ taken.realized = book.realized /\ taken.trade = book.trade
               /\ \/ c = taken
                  \/ /\ book.pending # None /\ book.position = None
                     /\ c = OpenPosition(taken, i, market[i].open, 0, 100)
                  \/ /\ book.pending # None /\ book.position # None
                     /\ book.pending.reason \in {"signal", "take_profit"}
                     /\ c = ClosePosition(taken, i, market[i].open, book.pending.reason)
<1> DEFINE taken == TakePending(book)
           c == OnOpen(book, i, market[i].open, 0, 100)
<1>1. book \in Book
  BY DEF IInv, TypeOK
<1>2. /\ taken \in Book
      /\ taken.pending = None
      /\ taken.position = book.position /\ taken.cash = book.cash
      /\ taken.realized = book.realized /\ taken.trade = book.trade
  BY <1>1 DEF TakePending, Book
<1>3. CASE book.pending = None
  <2>1. c = book
    BY <1>3 DEF OnOpen
  <2>2. taken = book
    BY <1>1, <1>3 DEF TakePending, Book
  <2>3. QED
    BY <1>2, <2>1, <2>2
<1>4. CASE book.pending # None
  <2>1. book.pending \in Action
    BY <1>1, <1>4 DEF Book
  <2>2. book.pending.side \in {"BUY", "SELL"} /\ book.pending.reason \in {"signal", "take_profit"}
    BY <2>1 DEF Action
  <2>3. CASE book.pending.side = "BUY"
    <3>1. book.position = None
      BY <1>4, <2>3 DEF IInv, PendingFitsPosition
    <3>2. c = OpenPosition(taken, i, market[i].open, 0, 100)
      BY <1>4, <2>3, <3>1 DEF OnOpen
    <3>3. QED
      BY <1>2, <1>4, <3>1, <3>2
  <2>4. CASE book.pending.side = "SELL"
    <3>1. book.position # None
      BY <1>4, <2>4 DEF IInv, PendingFitsPosition
    <3>2. c = ClosePosition(taken, i, market[i].open, book.pending.reason)
      BY <1>4, <2>4, <3>1 DEF OnOpen
    <3>3. QED
      BY <1>2, <1>4, <2>2, <3>1, <3>2
  <2>5. QED
    BY <2>2, <2>3, <2>4
<1>5. QED
  BY <1>3, <1>4

LEMMA OpenBarInv ==
    ASSUME IInv, NEW i \in 1..NumBars, OpenBar(i)
    PROVE  IInv'
<1> DEFINE taken == TakePending(book)
<1>1. /\ stage = "close" /\ i \in Successors(bar)
      /\ book' = OnOpen(book, i, market[i].open, 0, 100)
      /\ bar' = i /\ stage' = "open" /\ market' = market
  BY DEF OpenBar
<1>2. /\ book \in Book /\ market \in [1..NumBars -> BarData]
      /\ bar \in 0..NumBars
  BY DEF IInv, TypeOK
<1>3. /\ i \in Nat /\ i # 0 /\ market[i].open \in Nat \ {0}
      /\ market[i].low \in Nat /\ market[i].high \in Nat
      /\ market[i].low <= market[i].open /\ market[i].open <= market[i].high
  BY <1>2, BarFacts
<1>4. /\ taken \in Book /\ taken.pending = None
      /\ taken.position = book.position /\ taken.cash = book.cash
      /\ taken.realized = book.realized /\ taken.trade = book.trade
  BY OnOpenResult
<1>5. SUFFICES /\ book' \in Book
               /\ book'.pending = None
               /\ book'.position # None => book'.position.entry_ts \in 1..NumBars
               /\ book'.trade # None => book'.trade.exit_ts \in 1..NumBars
               /\ CashExplained' /\ NeverOverspent' /\ ExitAtTradedPrice'
  BY <1>1, <1>2, <1>3 DEF IInv, TypeOK, Stages, PendingFitsPosition, QueueFresh, BarStarted, StopHonoured
<1>6. CASE book' = taken
  BY <1>4, <1>6, <1>1 DEF IInv, TypeOK, CashExplained, NeverOverspent, ExitAtTradedPrice
<1>7. CASE book.position = None /\ book' = OpenPosition(taken, i, market[i].open, 0, 100)
  <2>1. CASE book' = taken
    BY <1>6, <2>1
  <2>2. CASE book' # taken
    <3>1. /\ book' \in Book
          /\ book'.position \in Position
          /\ book'.position.entry_ts = i
          /\ book'.position.cost_basis <= AtMost(TradeSize, MaxCapital) + NetworkFee
          /\ book'.cash >= 0
          /\ book'.cash = taken.cash - book'.position.cost_basis
          /\ book'.pending = taken.pending
          /\ book'.realized = taken.realized
          /\ book'.trade = taken.trade
      BY <1>3, <1>4, <1>7, <2>2, OpenPositionResult
    <3>2. book'.position # None
      BY <3>1, NoneAssumption
    <3>3. CashExplained'
      <4>1. book.cash = MaxCapital + book.realized
        BY <1>2, <1>7, SizingAssumption DEF IInv, CashExplained, Book
      <4>2. book'.cash \in Int /\ book'.position.cost_basis \in Nat
        BY <3>1 DEF Book, Position
      <4>3. QED
        BY <1>2, <1>4, <3>1, <3>2, <4>1, <4>2 DEF CashExplained, Book
    <3>4. NeverOverspent'
      <4>1. book'.cash \in Int
        BY <3>1 DEF Book
      <4>2. book'.cash >= -NetworkFee
        BY <3>1, <4>1, SizingAssumption
      <4>3. QED
        BY <3>1, <4>2 DEF NeverOverspent
    <3>5. ExitAtTradedPrice'
      BY <1>1, <1>4, <3>1 DEF IInv, ExitAtTradedPrice
    <3>6. QED
      BY <1>4, <3>1, <3>3, <3>4, <3>5 DEF IInv, TypeOK
  <2>3. QED
    BY <2>1, <2>2
<1>8. CASE /\ book.position # None /\ book.pending.reason \in {"signal", "take_profit"}
           /\ book' = ClosePosition(taken, i, market[i].open, book.pending.reason)
  <2>1. book.pending.reason \in Reason
    BY <1>8 DEF Reason
  <2>2. /\ book' \in Book
        /\ book'.position = None
        /\ book'.pending = None
        /\ book'.trade = [entry_ts |-> taken.position.entry_ts, exit_ts |-> i,
                          exit_price |-> market[i].open, reason |-> book.pending.reason]
        /\ book'.cash - taken.cash = book'.realized - taken.realized + taken.position.cost_basis
        /\ book'.cash >= taken.cash - NetworkFee
    BY <1>3, <1>4, <1>8, <2>1, ClosePositionResult
  <2>3. CashExplained'
    <3>1. book.position.cost_basis \in Nat
      BY <1>2, <1>8 DEF Book, Position
    <3>2. book.cash + book.position.cost_basis = MaxCapital + book.realized
      BY <1>8 DEF IInv, CashExplained
    <3>3. QED
      <4> DEFINE cash == book.cash
                 cash2 == book'.cash
                 realized == book.realized
                 realized2 == book'.realized
                 cost == book.position.cost_basis
      <4>1. /\ cash \in Int /\ realized \in Int /\ cost \in Int
            /\ cash2 \in Int /\ realized2 \in Int
            /\ MaxCapital \in Int
        BY <1>2, <2>2, <3>1, SizingAssumption DEF Book
      <4>2. cash2 - cash = realized2 - realized + cost
        BY <1>4, <2>2
      <4>3. cash + cost = MaxCapital + realized
        BY <3>2
      <4>4. cash2 = MaxCapital + realized2
        <5> HIDE DEF cash, cash2, realized, realized2, cost
        <5>1. QED
          BY <4>1, <4>2, <4>3, SMTT(40)
      <4>5. QED
        BY <2>2, <4>1, <4>4 DEF CashExplained
  <2>4. NeverOverspent'
    <3>1. book.cash >= 0 /\ book.cash \in Int
      BY <1>2, <1>8 DEF IInv, NeverOverspent, Book
    <3>2. book'.cash \in Int
      BY <2>2 DEF Book
    <3>3. QED
      BY <1>4, <2>2, <3>1, <3>2, SizingAssumption DEF NeverOverspent
  <2>5. ExitAtTradedPrice'
    BY <1>1, <1>3, <1>8, <2>2 DEF ExitAtTradedPrice
  <2>6. QED
    BY <2>2, <2>3, <2>4, <2>5
<1>9. QED
  BY <1>1, <1>6, <1>7, <1>8, OnOpenResult

\* Closing the position at a price bar `bar` traded at, for a reason that fits
\* that price, keeps everything that does not depend on the step of the bar.
LEMMA SaleInv ==
    ASSUME IInv, bar # 0, book.position # None,
           NEW price \in Nat \ {0}, NEW reason \in Reason,
           market[bar].low <= price, price <= market[bar].high,
           reason \in {"stop_loss", "trailing_stop"} => price <= market[bar].open,
           market' = market,
           book' = ClosePosition(book, bar, price, reason)
    PROVE  /\ book' \in Book
           /\ book'.position = None
           /\ book'.pending = None
           /\ book'.trade.exit_ts \in 1..NumBars
           /\ CashExplained' /\ NeverOverspent' /\ ExitAtTradedPrice'
<1>1. book \in Book /\ bar \in 1..NumBars /\ bar \in Nat
  BY HistoryAssumption DEF IInv, TypeOK
<1>2. /\ book' \in Book
      /\ book'.position = None
      /\ book'.pending = None
      /\ book'.trade = [entry_ts |-> book.position.entry_ts, exit_ts |-> bar,
                        exit_price |-> price, reason |-> reason]
      /\ book'.cash - book.cash = book'.realized - book.realized + book.position.cost_basis
      /\ book'.cash >= book.cash - NetworkFee
  BY <1>1, ClosePositionResult
<1>3. CashExplained'
  <2>1. book.position.cost_basis \in Nat
    BY <1>1 DEF Book, Position
  <2>2. book.cash + book.position.cost_basis = MaxCapital + book.realized
    BY DEF IInv, CashExplained
  <2> DEFINE cash == book.cash
             cash2 == book'.cash
             realized == book.realized
             realized2 == book'.realized
             cost == book.position.cost_basis
  <2>3. /\ cash \in Int /\ realized \in Int /\ cost \in Int
        /\ cash2 \in Int /\ realized2 \in Int
        /\ MaxCapital \in Int
    BY <1>1, <1>2, <2>1, SizingAssumption DEF Book
  <2>4. cash2 - cash = realized2 - realized + cost /\ cash + cost = MaxCapital + realized
    BY <1>2, <2>2
  <2>5. cash2 = MaxCapital + realized2
    <3> HIDE DEF cash, cash2, realized, realized2, cost
    <3>1. QED
      BY <2>3, <2>4, SMTT(40)
  <2>6. QED
    BY <1>2, <2>3, <2>5 DEF CashExplained
<1>4. NeverOverspent'
  <2>1. book.cash >= 0 /\ book.cash \in Int /\ book'.cash \in Int
    BY <1>1, <1>2 DEF IInv, NeverOverspent, Book
  <2>2. QED
    BY <1>2, <2>1, SizingAssumption DEF NeverOverspent
<1>5. ExitAtTradedPrice'
  BY <1>2 DEF ExitAtTradedPrice
<1>6. QED
  BY <1>1, <1>2, <1>3, <1>4, <1>5

LEMMA LowOfBarInv ==
    ASSUME IInv, LowOfBar
    PROVE  IInv'
<1>1. /\ stage = "open" /\ stage' = "low" /\ bar' = bar /\ market' = market
      /\ book' = OnLow(book, bar, market[bar].open, market[bar].low)
  BY DEF LowOfBar
<1>2. /\ book \in Book /\ market \in [1..NumBars -> BarData]
      /\ bar \in 1..NumBars
  BY <1>1, HistoryAssumption DEF IInv, TypeOK, BarStarted
<1>3. /\ market[bar].open \in Nat \ {0} /\ market[bar].low \in Nat \ {0}
      /\ market[bar].high \in Nat
      /\ market[bar].low <= market[bar].open /\ market[bar].open <= market[bar].high
  BY <1>2, BarFacts
<1>4. bar # 0 /\ book.pending = None
  BY <1>1 DEF IInv, BarStarted, QueueFresh
<1>5. CASE book.position # None /\ StopHit(book.position, market[bar].low)
  <2> DEFINE price == StopFill(StopLevel(book.position), market[bar].open)
             reason == StopReason(book.position)
  <2>1. StopLevel(book.position) \in Nat /\ StopLevel(book.position) > 0
        /\ market[bar].low <= StopLevel(book.position)
    BY <1>2, <1>5, StopLevelType DEF StopHit, Book
  <2>2. /\ price \in Nat \ {0}
        /\ market[bar].low <= price /\ price <= market[bar].high
        /\ price <= market[bar].open
    BY <1>3, <2>1 DEF StopFill, AtMost
  <2>3. reason \in Reason
    BY DEF StopReason, Reason
  <2>4. book' = ClosePosition(book, bar, price, reason)
    BY <1>1, <1>5 DEF OnLow
  <2>5. /\ book' \in Book
        /\ book'.position = None
        /\ book'.pending = None
        /\ book'.trade.exit_ts \in 1..NumBars
        /\ CashExplained' /\ NeverOverspent' /\ ExitAtTradedPrice'
    BY <1>1, <1>4, <1>5, <2>2, <2>3, <2>4, SaleInv
  <2>6. QED
    BY <1>1, <1>2, <1>4, <2>5
    DEF IInv, TypeOK, Stages, PendingFitsPosition, QueueFresh, BarStarted, StopHonoured
<1>6. CASE ~(book.position # None /\ StopHit(book.position, market[bar].low))
  <2>1. book' = book
    BY <1>1, <1>6 DEF OnLow
  <2>2. StopHonoured'
    <3> SUFFICES ASSUME book.position # None
                 PROVE  /\ StopLoss > 0 => market[bar].low > book.position.stop
                        /\ Trailing > 0 /\ book.position.trailing_active =>
                              market[bar].low > Percent(book.position.highest_price, 100 - Trailing)
      BY <1>1, <2>1 DEF StopHonoured
    <3>1. /\ StopLevel(book.position) \in Nat
          /\ StopLevel(book.position) >= book.position.stop
          /\ TrailingLevel(book.position) \in Nat
          /\ StopLevel(book.position) >= TrailingLevel(book.position)
          /\ book.position.stop \in Nat
      BY <1>2, StopLevelType DEF Book, Position
    <3>2. market[bar].low > StopLevel(book.position)
      BY <1>3, <1>6, <3>1 DEF StopHit
    <3>3. QED
      BY <1>3, <3>1, <3>2 DEF TrailingLevel
  <2>3. QED
    BY <1>1, <2>1, <2>2, <1>2, <1>4
    DEF IInv, TypeOK, Stages, PendingFitsPosition, QueueFresh, BarStarted,
        CashExplained, NeverOverspent, ExitAtTradedPrice
<1>7. QED
  BY <1>5, <1>6

LEMMA CloseBarInv ==
    ASSUME IInv, CloseBar
    PROVE  IInv'
<1> DEFINE d == market[bar]
           held == IF book.position = None THEN None ELSE UpdateTrailing(book.position, d.high)
           decision == DecideClose(held, d.close, d.entry, d.exit, bar)
<1>1. /\ stage = "low" /\ stage' = "close" /\ bar' = bar /\ market' = market
      /\ book' = OnClose(book, bar, d.high, d.close, d.entry, d.exit, TRUE)
  BY DEF CloseBar
<1>2. /\ book \in Book /\ market \in [1..NumBars -> BarData]
      /\ bar \in 1..NumBars /\ bar \in Nat
  BY <1>1, HistoryAssumption DEF IInv, TypeOK, BarStarted
<1>3. d.high \in Nat /\ d.close \in Nat
  BY <1>2, BarFacts
<1>4. /\ held \in Position \cup {None}
      /\ held = None <=> book.position = None
      /\ held # None => /\ held.cost_basis = book.position.cost_basis
                        /\ held.entry_ts = book.position.entry_ts
  <2>1. CASE book.position = None
    BY <2>1
  <2>2. CASE book.position # None
    <3>1. book.position \in Position
      BY <1>2, <2>2 DEF Book
    <3>2. /\ held \in Position
          /\ held.cost_basis = book.position.cost_basis
          /\ held.entry_ts = book.position.entry_ts
      BY <1>3, <2>2, <3>1, UpdateTrailingRatchets
    <3>3. QED
      BY <2>2, <3>2, NoneAssumption
  <2>3. QED
    BY <2>1, <2>2
<1>5. \/ decision = None
      \/ /\ decision \in Action
         /\ decision.signal_ts = bar
         /\ decision.side = "SELL" <=> held # None
  BY <1>2 DEF DecideClose, Queued, Action
<1>6. book' = [book EXCEPT !.position = held, !.pending = decision, !.last_bar_ts = bar]
  BY <1>1 DEF OnClose
<1> HIDE DEF held, decision
<1>7. /\ book'.position = held /\ book'.pending = decision
      /\ book'.cash = book.cash /\ book'.realized = book.realized
      /\ book'.trade = book.trade
  BY <1>2, <1>6 DEF Book
<1>8. book' \in Book
  <2>1. held \in Position \cup {None} /\ decision \in Action \cup {None}
    BY <1>4, <1>5
  <2>2. QED
    BY <1>2, <1>6, <2>1 DEF Book
<1>9. TypeOK'
  BY <1>1, <1>2, <1>4, <1>5, <1>7, <1>8 DEF IInv, TypeOK, Stages
<1>10. PendingFitsPosition' /\ QueueFresh' /\ BarStarted' /\ StopHonoured'
  BY <1>1, <1>5, <1>7 DEF PendingFitsPosition, QueueFresh, BarStarted, StopHonoured
<1>11. CashExplained' /\ NeverOverspent' /\ ExitAtTradedPrice'
  BY <1>1, <1>4, <1>7 DEF IInv, CashExplained, NeverOverspent, ExitAtTradedPrice
<1>12. QED
  BY <1>9, <1>10, <1>11 DEF IInv

LEMMA FinishInv ==
    ASSUME IInv, Finish
    PROVE  IInv'
<1>1. /\ stage = "close" /\ bar # 0 /\ stage' = "ended" /\ bar' = bar /\ market' = market
      /\ book' = IF book.position = None THEN book
                 ELSE ClosePosition(book, bar, market[bar].close, "forced")
  BY DEF Finish
<1>2. /\ market \in [1..NumBars -> BarData]
      /\ bar \in 1..NumBars
  BY <1>1, HistoryAssumption DEF IInv, TypeOK
<1>3. CASE book.position = None
  BY <1>1, <1>3
  DEF IInv, TypeOK, Stages, PendingFitsPosition, QueueFresh, BarStarted, StopHonoured,
      CashExplained, NeverOverspent, ExitAtTradedPrice
<1>4. CASE book.position # None
  <2>1. /\ market[bar].close \in Nat \ {0}
        /\ market[bar].low <= market[bar].close /\ market[bar].close <= market[bar].high
    BY <1>2, BarFacts
  <2>2. /\ book' \in Book
        /\ book'.position = None
        /\ book'.pending = None
        /\ book'.trade.exit_ts \in 1..NumBars
        /\ CashExplained' /\ NeverOverspent' /\ ExitAtTradedPrice'
    BY <1>1, <1>4, <2>1, SaleInv DEF Reason
  <2>3. QED
    BY <1>1, <1>2, <2>2
    DEF IInv, TypeOK, Stages, PendingFitsPosition, QueueFresh, BarStarted, StopHonoured
<1>5. QED
  BY <1>3, <1>4

LEMMA NextInv == IInv /\ [Next]_vars => IInv'
<1> SUFFICES ASSUME IInv, [Next]_vars PROVE IInv'
  OBVIOUS
<1>1. ASSUME NEW i \in 1..NumBars, OpenBar(i) PROVE IInv'
  BY <1>1, OpenBarInv
<1>2. CASE LowOfBar
  BY <1>2, LowOfBarInv
<1>3. CASE CloseBar
  BY <1>3, CloseBarInv
<1>4. CASE Finish
  BY <1>4, FinishInv
<1>5. CASE UNCHANGED vars
  BY <1>5 DEF vars, IInv, TypeOK, PendingFitsPosition, QueueFresh, BarStarted,
              CashExplained, NeverOverspent, StopHonoured, ExitAtTradedPrice
<1>6. QED
  BY <1>1, <1>2, <1>3, <1>4, <1>5 DEF Next

LEMMA Invariance == Spec => []IInv
<1>1. QED
  BY InitInv, NextInv, PTL DEF Spec

\* The book, its position, its queue and its trades stay in range.
THEOREM TypeCorrect == Spec => []TypeOK
<1>1. IInv => TypeOK
  BY DEF IInv
<1>2. QED
  BY <1>1, Invariance, PTL

\* An exit is only ever queued for a held position, an entry for a flat one.
THEOREM QueueFitsPosition == Spec => []PendingFitsPosition
<1>1. IInv => PendingFitsPosition
  BY DEF IInv
<1>2. QED
  BY <1>1, Invariance, PTL

\* Book.equity and the governor's book_equity agree, whatever is traded.
THEOREM CashIsExplained == Spec => []CashExplained
<1>1. IInv => CashExplained
  BY DEF IInv
<1>2. QED
  BY <1>1, Invariance, PTL

\* No entry is paid with cash the book does not have, and only a fee can
\* overdraw it.
THEOREM Solvency == Spec => []NeverOverspent
<1>1. IInv => NeverOverspent
  BY DEF IInv
<1>2. QED
  BY <1>1, Invariance, PTL

\* No position outlives a bar that reached its stop.
THEOREM StopsAreHonoured == Spec => []StopHonoured
<1>1. IInv => StopHonoured
  BY DEF IInv
<1>2. QED
  BY <1>1, Invariance, PTL

\* Every exit price lies within its bar, a stop's at or below the open.
THEOREM ExitsAtTradedPrices == Spec => []ExitAtTradedPrice
<1>1. IInv => ExitAtTradedPrice
  BY DEF IInv
<1>2. QED
  BY <1>1, Invariance, PTL

\* An entry fills at the open of the bar after its signal, never earlier.
THEOREM EntriesDoNotLookAhead == Spec => NoLookAhead
<1> DEFINE P == book.position = None /\ book'.position # None =>
                  /\ book'.position.entry_ts = book.pending.signal_ts + 1
                  /\ book'.position.entry_price = market[book.pending.signal_ts + 1].open
<1>1. ASSUME IInv, [Next]_vars PROVE [P]_vars
  <2> SUFFICES ASSUME book.position = None, book'.position # None, Next
               PROVE  P
    BY <1>1 DEF vars
  <2>1. ASSUME NEW i \in 1..NumBars, OpenBar(i) PROVE P
    <3>1. /\ stage = "close" /\ i \in Successors(bar) /\ market' = market
          /\ book' = OnOpen(book, i, market[i].open, 0, 100)
      BY <2>1 DEF OpenBar
    <3>2. /\ TakePending(book) \in Book /\ TakePending(book).position = None
          /\ book.pending # None
          /\ book' = OpenPosition(TakePending(book), i, market[i].open, 0, 100)
      BY <1>1, <3>1, OnOpenResult
    <3>3. market[i].open \in Nat \ {0} /\ i \in Nat
      BY <1>1, BarFacts DEF IInv, TypeOK
    <3>4. book'.position.entry_ts = i /\ book'.position.entry_price = market[i].open
      BY <3>2, <3>3, OpenPositionResult
    <3>5. book.pending.signal_ts = bar /\ bar \in 1..NumBars
      BY <1>1, <3>2 DEF IInv, QueueFresh, TypeOK
    <3>6. i = bar + 1
      BY <3>1, <3>5, HistoryAssumption DEF Successors
    <3>7. QED
      BY <3>4, <3>5, <3>6
  <2>2. CASE LowOfBar
    BY <2>2 DEF LowOfBar, OnLow
  <2>3. CASE CloseBar
    <3>1. book'.position = None
      BY <1>1, <2>3 DEF CloseBar, OnClose, IInv, TypeOK, Book
    <3>2. QED
      BY <3>1
  <2>4. CASE Finish
    BY <2>4 DEF Finish
  <2>5. QED
    BY <2>1, <2>2, <2>3, <2>4 DEF Next
<1>2. QED
  BY <1>1, Invariance, PTL DEF Spec, NoLookAhead

\* While a position stays open its protective level never moves down.
THEOREM StopsRatchet == Spec => StopNeverLoosens
<1> DEFINE P == book.position # None /\ book'.position # None =>
                  StopLevel(book'.position) >= StopLevel(book.position)
<1>1. ASSUME IInv, [Next]_vars PROVE [P]_vars
  <2> SUFFICES ASSUME book.position # None, book'.position # None, Next
               PROVE  P
    BY <1>1 DEF vars
  <2>1. book \in Book /\ book.position \in Position
    BY <1>1 DEF IInv, TypeOK, Book
  <2>2. book'.position = book.position => P
    BY <2>1, StopLevelType
  <2>3. ASSUME NEW i \in 1..NumBars, OpenBar(i) PROVE P
    <3>1. book' = OnOpen(book, i, market[i].open, 0, 100)
      BY <2>3 DEF OpenBar
    <3>2. /\ market[i].open \in Nat \ {0} /\ i \in Nat
          /\ TakePending(book) \in Book
          /\ TakePending(book).position = book.position
      BY <1>1, BarFacts, OnOpenResult DEF IInv, TypeOK
    <3>3. ASSUME NEW reason \in Reason
          PROVE  ClosePosition(TakePending(book), i, market[i].open, reason).position = None
      BY <3>2, ClosePositionResult
    <3>4. book.pending.reason \in {"signal", "take_profit"} => book.pending.reason \in Reason
      BY DEF Reason
    <3>5. book' = TakePending(book)
      BY <1>1, <3>1, <3>3, <3>4, OnOpenResult
    <3>6. QED
      BY <2>2, <3>2, <3>5
  <2>4. CASE LowOfBar
    <3>1. /\ stage = "open"
          /\ book' = OnLow(book, bar, market[bar].open, market[bar].low)
      BY <2>4 DEF LowOfBar
    <3>2. bar \in 1..NumBars /\ market \in [1..NumBars -> BarData]
      BY <1>1, <3>1, HistoryAssumption DEF IInv, BarStarted, TypeOK
    <3>3. CASE StopHit(book.position, market[bar].low)
      <4> DEFINE price == StopFill(StopLevel(book.position), market[bar].open)
      <4>1. book' = ClosePosition(book, bar, price, StopReason(book.position))
        BY <3>1, <3>3 DEF OnLow
      <4>2. StopLevel(book.position) \in Nat \ {0}
        BY <2>1, <3>3, StopLevelType DEF StopHit
      <4>3. price \in Nat \ {0} /\ bar \in Nat
        BY <3>2, <4>2, BarFacts DEF StopFill, AtMost
      <4>4. StopReason(book.position) \in Reason
        BY DEF StopReason, Reason
      <4>5. book'.position = None
        BY <2>1, <4>1, <4>3, <4>4, ClosePositionResult
      <4>6. QED
        BY <4>5
    <3>4. CASE ~StopHit(book.position, market[bar].low)
      BY <2>2, <3>1, <3>4 DEF OnLow
    <3>5. QED
      BY <3>3, <3>4
  <2>5. CASE CloseBar
    <3>1. bar \in 1..NumBars /\ market \in [1..NumBars -> BarData]
      BY <1>1, <2>5, HistoryAssumption DEF CloseBar, IInv, BarStarted, TypeOK
    <3>2. book'.position = UpdateTrailing(book.position, market[bar].high)
      BY <2>1, <2>5 DEF CloseBar, OnClose, Book
    <3>3. market[bar].high \in Nat
      BY <3>1, BarFacts
    <3>4. QED
      BY <2>1, <3>2, <3>3, UpdateTrailingRatchets
  <2>6. CASE Finish
    <3>1. /\ bar \in 1..NumBars /\ bar \in Nat /\ market \in [1..NumBars -> BarData]
          /\ book' = ClosePosition(book, bar, market[bar].close, "forced")
      BY <1>1, <2>6, HistoryAssumption DEF Finish, IInv, TypeOK
    <3>2. market[bar].close \in Nat \ {0} /\ "forced" \in Reason
      BY <3>1, BarFacts DEF Reason
    <3>3. book'.position = None
      BY <2>1, <3>1, <3>2, ClosePositionResult, ZenonT(30)
    <3>4. QED
      BY <3>3
  <2>7. QED
    BY <2>3, <2>4, <2>5, <2>6 DEF Next
<1>2. QED
  BY <1>1, Invariance, PTL DEF Spec, StopNeverLoosens

=============================================================================
