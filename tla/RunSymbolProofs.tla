-------------------------- MODULE RunSymbolProofs --------------------------
(***************************************************************************)
(* A polled book, for any history, settings, polls, outages and crashes:   *)
(* RunSymbol's type correctness; that what is stored between polls is what *)
(* the trades explain; and that polling implements the backtest, each step *)
(* a step of Backtest or a stutter, however the polls fall on the bars.    *)
(***************************************************************************)
EXTENDS RunSymbol, EngineProofs, TLAPS

Row == [position : Position \cup {None}, pending : Action \cup {None},
        last_bar_ts : Nat \cup {None}, cash : Int]

\* TypeOK, and what the steps rely on: a replay has a closed bar to work on, and a
\* running low lies between its bar's low and open.
Types ==
    /\ TypeOK
    /\ frame \in [newest : Nat, forming : Nat] /\ at \in Nat
    /\ pc \in InReplay => frame.newest \in 1..NumBars
    /\ pc = "forming low" => frame.forming # 0
    /\ closed < NumBars => low \in Nat /\ market[closed + 1].low <= low
    /\ frame.forming # 0 => /\ frame.newest < NumBars
                            /\ market[frame.newest + 1].low <= frame.forming

LEMMA BarFacts ==
    ASSUME TypeOK, NEW i \in 1..NumBars
    PROVE  /\ market[i].open \in Nat \ {0} /\ market[i].high \in Nat /\ market[i].low \in Nat
           /\ market[i].entry \in BOOLEAN /\ market[i].exit \in BOOLEAN
           /\ market[i].low <= market[i].open
<1>1. market[i] \in BarData
  BY DEF TypeOK
<1>2. market[i] \in Bar /\ market[i].low <= market[i].open
  BY <1>1, HistoryAssumption
<1> QED
  BY <1>2 DEF Bar

LEMMA LoadedFacts ==
    ASSUME TypeOK
    PROVE  /\ Loaded \in Book
           /\ Loaded.position = db.position /\ Loaded.pending = db.pending
           /\ Loaded.last_bar_ts = db.last_bar_ts /\ Loaded.cash = db.cash
           /\ Loaded.realized = book.realized /\ Loaded.trade = book.trade
BY DEF TypeOK, Loaded, Book

LEMMA StoredType ==
    ASSUME NEW b \in Book, NEW cash \in Int
    PROVE  /\ Stored(b, cash) \in Row
           /\ Stored(b, cash).cash = cash
BY DEF Stored, Book, Row

LEMMA InRange == \A n \in Nat : \A x \in 0..n : x \in Nat /\ x <= n
  OBVIOUS
LEMMA InRangeOne == \A n \in Nat : \A x \in 1..n : x \in Nat /\ 1 <= x /\ x <= n
  OBVIOUS
LEMMA IsInRange == \A n, x \in Nat : x <= n => x \in 0..n /\ (1 <= x => x \in 1..n)
  OBVIOUS
LEMMA NextInRange == \A n, x \in Nat : x < n => x + 1 \in Nat /\ x + 1 \in 1..n /\ x + 1 \in 0..n
  OBVIOUS
LEMMA InInterval == \A m, n \in Nat : \A x \in m..n : m <= x /\ x <= n
  OBVIOUS
LEMMA NextOrSame == \A x, n \in Nat : x <= n => x + 1 <= n \/ x = n
  OBVIOUS
LEMMA LessOrSame == \A x, n \in Nat : x <= n => x < n \/ x = n
  OBVIOUS
LEMMA LessOrEqual == \A x, y, z \in Nat : x <= y /\ y <= z => x <= z
  OBVIOUS

\* The ranges as inequalities, which the solvers need.
LEMMA Numbers ==
    ASSUME Types
    PROVE  /\ NumBars \in Nat /\ closed \in Nat /\ stored \in Nat /\ frame.newest \in Nat /\ at \in Nat
           /\ closed <= NumBars /\ stored <= closed /\ frame.newest <= stored
           /\ frame.newest <= closed /\ frame.newest <= NumBars
           /\ pc \in {"open", "low", "close"} => 1 <= at /\ at <= frame.newest
<1>1. NumBars \in Nat /\ closed \in 0..NumBars /\ stored \in 0..closed /\ frame.newest \in 0..stored
      /\ at \in Nat /\ (pc \in {"open", "low", "close"} => at \in 1..frame.newest)
  BY HistoryAssumption, Zenon DEF Types, TypeOK
<1>2. closed \in Nat /\ closed <= NumBars
  BY <1>1, InRange, Zenon
<1>3. stored \in Nat /\ stored <= closed
  BY <1>1, <1>2, InRange, Zenon
<1>4. frame.newest \in Nat /\ frame.newest <= stored
  BY <1>1, <1>3, InRange, Zenon
<1>5. frame.newest <= closed /\ frame.newest <= NumBars
  BY <1>1, <1>2, <1>3, <1>4, LessOrEqual, Zenon
<1>6. pc \in {"open", "low", "close"} => 1 <= at /\ at <= frame.newest
  BY <1>1, <1>4, InRangeOne, Zenon
<1> QED
  BY <1>1, <1>2, <1>3, <1>4, <1>5, <1>6, Zenon

\* The bar a replay works on, and the forming bar a poll may work on.
LEMMA ReplayedBar ==
    ASSUME Types, pc \in {"open", "low", "close"}
    PROVE  at \in 1..NumBars /\ at \in Nat /\ book \in Book
<1>1. at <= NumBars
  BY Numbers, LessOrEqual, Zenon
<1> QED
  BY <1>1, Numbers, IsInRange, Zenon DEF Types, TypeOK

LEMMA FormingBar ==
    ASSUME Types, frame.forming # 0
    PROVE  /\ frame.newest + 1 \in 1..NumBars /\ frame.newest + 1 \in Nat
           /\ book \in Book /\ frame.forming \in Nat
<1>1. frame.newest < NumBars
  BY DEF Types
<1>2. frame.newest + 1 \in 1..NumBars /\ frame.newest + 1 \in Nat
  BY <1>1, Numbers, NextInRange, Zenon
<1> QED
  BY <1>2 DEF Types, TypeOK

\* What each engine step of a poll does to the book.
LEMMA ReplayOpenBooks ==
    ASSUME Types, NEW factor \in GateFactors, ReplayOpen(factor)
    PROVE  Opens(book, book', factor)
<1>1. at \in 1..NumBars /\ at \in Nat /\ book \in Book /\ factor \in 0..100
  BY ReplayedBar, PollAssumption DEF ReplayOpen
<1>2. market[at].open \in Nat \ {0}
  BY <1>1, BarFacts DEF Types
<1>3. book' = OnOpen(book, at, market[at].open, 0, factor)
  BY DEF ReplayOpen
<1> QED
  BY <1>1, <1>2, <1>3, OnOpenBooks

LEMMA FormingOpenBooks ==
    ASSUME Types, NEW factor \in GateFactors, FormingOpen(factor), frame.forming # 0
    PROVE  Opens(book, book', factor)
<1> DEFINE i == frame.newest + 1
<1>1. i \in 1..NumBars /\ i \in Nat /\ book \in Book /\ factor \in 0..100
  BY FormingBar, PollAssumption
<1>2. market[i].open \in Nat \ {0}
  BY <1>1, BarFacts DEF Types
<1>3. book' = OnOpen(book, i, market[i].open, 0, factor)
  BY DEF FormingOpen
<1> HIDE DEF i
<1> QED
  BY <1>1, <1>2, <1>3, OnOpenBooks

LEMMA ReplayLowBooks ==
    ASSUME Types, ReplayLow
    PROVE  Lowers(book, book')
<1>1. at \in 1..NumBars /\ at \in Nat /\ book \in Book
  BY ReplayedBar DEF ReplayLow
<1>2. market[at].open \in Nat \ {0} /\ market[at].low \in Nat
  BY <1>1, BarFacts DEF Types
<1>3. book' = OnLow(book, at, market[at].open, market[at].low)
  BY DEF ReplayLow
<1> QED
  BY <1>1, <1>2, <1>3, OnLowBooks

LEMMA FormingLowBooks ==
    ASSUME Types, FormingLow
    PROVE  Lowers(book, book')
<1> DEFINE i == frame.newest + 1
<1>1. i \in 1..NumBars /\ i \in Nat /\ book \in Book /\ frame.forming \in Nat
  BY FormingBar DEF FormingLow, Types
<1>2. market[i].open \in Nat \ {0}
  BY <1>1, BarFacts DEF Types
<1>3. book' = OnLow(book, i, market[i].open, frame.forming)
  BY DEF FormingLow
<1> HIDE DEF i
<1> QED
  BY <1>1, <1>2, <1>3, OnLowBooks

LEMMA ReplayCloseBooks ==
    ASSUME Types, ReplayClose
    PROVE  Closes(book, book', at)
<1>1. at \in 1..NumBars /\ at \in Nat /\ book \in Book
  BY ReplayedBar DEF ReplayClose
<1>2. market[at].high \in Nat /\ market[at].entry \in BOOLEAN /\ market[at].exit \in BOOLEAN
  BY <1>1, BarFacts DEF Types
<1>3. book' = OnClose(book, at, market[at].high, market[at].close,
                      market[at].entry, market[at].exit, TRUE)
  BY DEF ReplayClose
<1> QED
  BY <1>1, <1>2, <1>3, OnCloseBooks

-----------------------------------------------------------------------------
(***************************************************************************)
(* Types                                                                   *)
(***************************************************************************)

LEMMA MoreFailures == \A f \in 0..MaxFailures : f < MaxFailures => f + 1 \in 0..MaxFailures
BY PollAssumption

\* Types of what a step of a poll leaves alone carry over.
LEMMA WorldKept ==
    ASSUME Types, UNCHANGED world, UNCHANGED frame, UNCHANGED failures,
           book' \in Book, db' \in Row, pc' \in Steps, at' \in Nat,
           pc' \in InReplay => pc \in InReplay,
           pc' = "forming low" => frame.forming # 0,
           pc' \in {"open", "low", "close"} => at' \in 1..frame.newest
    PROVE  Types'
BY DEF Types, TypeOK, world, Row

LEMMA InitTypes == Init => Types
<1> SUFFICES ASSUME Init PROVE Types
  OBVIOUS
<1>1. market \in [1..NumBars -> BarData] /\ closed = 0 /\ stored = 0 /\ pc = "idle" /\ at = 0
      /\ failures = 0 /\ frame = [newest |-> 0, forming |-> 0]
  BY DEF Init
<1>2. book \in Book /\ db \in Row
  <2>1. MaxCapital \in Int
    BY SizingAssumption
  <2>2. book \in Book
    BY <2>1 DEF Init, FreshBook, Book
  <2> QED
    BY <2>1, <2>2, StoredType DEF Init
<1>3. TypeOK
  BY <1>1, <1>2, HistoryAssumption, PollAssumption DEF TypeOK, Row, Steps
<1>4. closed < NumBars => low \in Nat /\ market[closed + 1].low <= low
  <2> SUFFICES ASSUME 0 < NumBars PROVE low \in Nat /\ market[1].low <= low
    BY <1>1
  <2>1. 1 \in 1..NumBars
    BY HistoryAssumption
  <2> QED
    BY <1>3, <2>1, BarFacts DEF Init
<1> QED
  BY <1>1, <1>3, <1>4 DEF Types, InReplay

LEMMA TypesKept == Types /\ [Next]_vars => Types'
<1> SUFFICES ASSUME Types, [Next]_vars PROVE Types'
  OBVIOUS
<1>0. /\ book \in Book /\ db \in Row /\ db.cash \in Int /\ book.cash \in Int /\ at \in Nat
      /\ failures \in 0..MaxFailures
      /\ pc \in {"open", "low", "close"} => at \in 1..frame.newest
      /\ frame.newest \in Nat
  BY DEF Types, TypeOK, Book, Row
<1>1. CASE LowFalls
  <2>1. closed + 1 \in 1..NumBars
    BY <1>1, Numbers, NextInRange, Zenon DEF LowFalls
  <2>2. low' \in Nat /\ market'[closed' + 1].low <= low'
    <3>1. closed' = closed /\ market' = market /\ low' = market[closed + 1].low
      BY <1>1 DEF LowFalls
    <3>2. market[closed + 1].low \in Nat
      BY <2>1, BarFacts DEF Types
    <3> QED
      BY <3>1, <3>2
  <2> QED
    BY <1>1, <2>2 DEF LowFalls, Types, TypeOK
<1>2. CASE BarCloses
  <2>1. /\ closed' = closed + 1 /\ closed' \in 0..NumBars /\ market' = market
        /\ stored' = stored /\ closed \in Nat /\ stored \in 0..closed'
    <3>1. closed < NumBars /\ closed' = closed + 1 /\ market' = market /\ stored' = stored
      BY <1>2 DEF BarCloses
    <3>2. closed + 1 \in 0..NumBars /\ closed + 1 \in Nat
      BY <3>1, Numbers, NextInRange, Zenon
    <3>3. stored <= closed + 1
      BY Numbers
    <3> QED
      BY <3>1, <3>2, <3>3, Numbers, IsInRange, Zenon
  <2>2. closed' < NumBars => low' \in Nat /\ market'[closed' + 1].low <= low'
    <3> SUFFICES ASSUME closed' < NumBars
                 PROVE  low' \in Nat /\ market[closed + 2].low <= low'
      BY <2>1
    <3>1. closed + 2 \in 1..NumBars /\ closed + 2 <= NumBars
      BY <2>1, HistoryAssumption
    <3>2. low' = market[closed + 2].open
      BY <1>2, <3>1 DEF BarCloses
    <3> QED
      BY <3>1, <3>2, BarFacts DEF Types
  <2>3. UNCHANGED <<market, stored, pc, frame, at, book, db, failures>>
    BY <1>2 DEF BarCloses
  <2> QED
    BY <2>1, <2>2, <2>3 DEF Types, TypeOK
<1>3. ASSUME NEW newest \in 1..NumBars, NEW seen \in BOOLEAN, Poll(newest, seen) PROVE Types'
  <2>1. /\ newest \in stored..closed /\ newest \in Nat /\ newest \in 0..closed
        /\ stored' = newest /\ book' = Loaded
        /\ UNCHANGED <<market, closed, low, db, failures>>
    <3>1. newest \in stored..closed /\ stored' = newest /\ book' = Loaded
          /\ UNCHANGED <<market, closed, low, db, failures>>
      BY <1>3 DEF Poll
    <3>2. newest \in Nat /\ newest <= closed
      BY <3>1, Numbers
    <3> QED
      BY <3>1, <3>2, Numbers, IsInRange, Zenon
  <2>2. /\ frame'.newest = newest
        /\ frame'.forming = IF FormingUsable(newest, closed, seen) THEN low ELSE 0
        /\ frame' = [newest |-> frame'.newest, forming |-> frame'.forming]
    BY <1>3 DEF Poll
  <2>3. frame'.forming # 0 => closed < NumBars /\ newest = closed /\ frame'.forming = low
    <3> SUFFICES ASSUME frame'.forming # 0
                 PROVE  closed < NumBars /\ newest = closed /\ frame'.forming = low
      OBVIOUS
    <3>1. FormingUsable(newest, closed, seen) /\ frame'.forming = low
      BY <2>2
    <3>2. closed < NumBars \/ ~seen
      BY <1>3 DEF Poll
    <3> QED
      BY <3>1, <3>2 DEF FormingUsable
  <2>4. /\ frame'.forming \in Nat
        /\ frame'.forming # 0 => /\ frame'.newest < NumBars
                                 /\ market[frame'.newest + 1].low <= frame'.forming
    <3>1. CASE frame'.forming = 0
      BY <3>1
    <3>2. CASE frame'.forming # 0
      <4>1. closed < NumBars /\ newest = closed /\ frame'.forming = low /\ frame'.newest = closed
        BY <2>2, <2>3, <3>2
      <4>2. low \in Nat /\ market[closed + 1].low <= low
        BY <4>1 DEF Types
      <4> QED
        BY <4>1, <4>2
    <3> QED
      BY <3>1, <3>2
  <2>5. frame' \in [newest : Nat, forming : Nat]
    BY <2>1, <2>2, <2>4
  <2>6. Loaded \in Book /\ Loaded.last_bar_ts \in Nat \cup {None}
    BY LoadedFacts DEF Types, Book
  <2>7. at' \in Nat /\ at' >= 1 /\ pc' = IF at' <= newest THEN "open" ELSE "forming open"
    <3>1. at' = FirstNew(Loaded, newest) /\ pc' = IF at' <= newest THEN "open" ELSE "forming open"
      BY <1>3 DEF Poll
    <3>2. FirstNew(Loaded, newest) \in Nat /\ FirstNew(Loaded, newest) >= 1
      <4>1. CASE Loaded.last_bar_ts = None
        BY <4>1 DEF FirstNew
      <4>2. CASE Loaded.last_bar_ts # None
        BY <2>6, <4>2 DEF FirstNew
      <4> QED
        BY <4>1, <4>2
    <3> QED
      BY <3>1, <3>2
  <2>8. pc' \in Steps /\ pc' # "forming low" /\ (pc' \in {"open", "low", "close"} => at' \in 1..newest)
    <3>1. pc' = "open" \/ pc' = "forming open"
      BY <2>7, Zenon
    <3>2. pc' = "open" => at' <= newest
      BY <2>7
    <3>3. at' <= newest => at' \in 1..newest
      BY <2>1, <2>7, IsInRange, Zenon
    <3> QED
      BY <3>1, <3>2, <3>3 DEF Steps
  <2>9. TypeOK'
    <3>1. newest \in 0..newest
      BY <2>1, IsInRange
    <3>2. /\ market \in [1..NumBars -> BarData] /\ closed \in 0..NumBars /\ db \in Row
          /\ failures \in 0..MaxFailures
      BY DEF Types, TypeOK, Row
    <3> QED
      BY <2>1, <2>2, <2>6, <2>8, <3>1, <3>2, Zenon DEF TypeOK, Row
  <2>10. pc' \in InReplay => frame'.newest \in 1..NumBars
    BY <2>2
  <2>11. closed' < NumBars => low' \in Nat /\ market'[closed' + 1].low <= low'
    BY <2>1 DEF Types
  <2>12. frame'.forming # 0 => market'[frame'.newest + 1].low <= frame'.forming
    BY <2>1, <2>4
  <2> QED
    BY <2>4, <2>5, <2>7, <2>8, <2>9, <2>10, <2>11, <2>12, Zenon DEF Types
<1>4. ASSUME NEW factor \in GateFactors, ReplayOpen(factor) PROVE Types'
  <2>1. book' \in Book
    BY <1>4, ReplayOpenBooks DEF Opens
  <2> QED
    BY <1>0, <1>4, <2>1, WorldKept DEF ReplayOpen, Steps, InReplay
<1>5. CASE ReplayLow
  <2>1. book' \in Book
    BY <1>5, ReplayLowBooks DEF Lowers, Settles
  <2> QED
    BY <1>0, <1>5, <2>1, WorldKept DEF ReplayLow, Steps, InReplay
<1>6. CASE ReplayClose
  <2>1. book' \in Book
    BY <1>6, ReplayCloseBooks DEF Closes
  <2>2. /\ pc = "close" /\ at' = at + 1 /\ pc' = IF at < frame.newest THEN "open" ELSE "forming open"
        /\ UNCHANGED world /\ UNCHANGED frame /\ UNCHANGED failures /\ db' = db
    BY <1>6 DEF ReplayClose
  <2>3. pc' \in {"open", "low", "close"} => at' \in 1..frame.newest
    <3>1. pc' # "open" => pc' \notin {"open", "low", "close"}
      BY <2>2, Zenon
    <3>2. at < frame.newest => at + 1 \in 1..frame.newest
      BY Numbers, NextInRange, Zenon
    <3>3. pc' = "open" => at < frame.newest
      BY <2>2
    <3> QED
      BY <2>2, <3>1, <3>2, <3>3
  <2>4. pc' \in {"open", "forming open"} /\ at' \in Nat
    <3>1. at + 1 \in Nat
      BY <1>0
    <3> QED
      BY <2>2, <3>1
  <2>5. pc' \in Steps /\ pc \in InReplay /\ pc' # "forming low" /\ db' \in Row
    BY <1>0, <2>2, <2>4 DEF Steps, InReplay
  <2> QED
    BY <2>1, <2>2, <2>3, <2>4, <2>5, WorldKept, Zenon
<1>7. ASSUME NEW factor \in GateFactors, FormingOpen(factor) PROVE Types'
  <2>1. book' \in Book
    <3>1. CASE frame.forming = 0
      BY <1>0, <1>7, <3>1 DEF FormingOpen
    <3>2. CASE frame.forming # 0
      BY <1>7, <3>2, FormingOpenBooks DEF Opens
    <3> QED
      BY <3>1, <3>2
  <2>2. /\ pc = "forming open" /\ pc' = IF frame.forming = 0 THEN "save" ELSE "forming low"
        /\ UNCHANGED world /\ UNCHANGED frame /\ UNCHANGED failures /\ db' = db /\ at' = at
    BY <1>7 DEF FormingOpen
  <2> QED
    BY <1>0, <2>1, <2>2, WorldKept DEF Steps, InReplay
<1>8. CASE FormingLow
  <2>1. book' \in Book
    BY <1>8, FormingLowBooks DEF Lowers, Settles
  <2> QED
    BY <1>0, <1>8, <2>1, WorldKept DEF FormingLow, Steps, InReplay
<1>9. CASE SaveState
  <2>1. db' \in Row
    BY <1>0, <1>9, StoredType DEF SaveState
  <2> QED
    BY <1>0, <1>9, <2>1, WorldKept DEF SaveState, Steps, InReplay
<1>10. CASE SaveCash
  <2>1. db' \in Row
    BY <1>0, <1>10 DEF SaveCash, Row
  <2> QED
    BY <1>0, <1>10, <2>1, WorldKept DEF SaveCash, Steps, InReplay
<1>11. CASE Abort
  <2>1. failures' \in 0..MaxFailures /\ pc' = "save aborted"
    BY <1>0, <1>11, MoreFailures DEF Abort
  <2> QED
    BY <1>11, <2>1 DEF Abort, Types, TypeOK, Steps, InReplay, world
<1>12. CASE Crash
  <2>1. failures' \in 0..MaxFailures /\ pc' = "idle" /\ book' \in Book
    BY <1>0, <1>12, MoreFailures, LoadedFacts DEF Crash, Types
  <2> QED
    BY <1>12, <2>1 DEF Crash, Types, TypeOK, Steps, InReplay, world
<1>13. CASE UNCHANGED vars
  BY <1>13 DEF vars, history, Types, TypeOK
<1> QED
  BY <1>1, <1>2, <1>3, <1>4, <1>5, <1>6, <1>7, <1>8, <1>9, <1>10, <1>11, <1>12, <1>13 DEF Next

\* Types, running lows and replayed bars are what the code expects, whatever the
\* gate says and wherever polls die (RunSymbol.TypeOK).
THEOREM PolledTyped == Spec => []TypeOK
<1>1. Types => TypeOK
  BY DEF Types
<1> QED
  BY <1>1, InitTypes, TypesKept, PTL DEF Spec

-----------------------------------------------------------------------------
(***************************************************************************)
(* The stored book                                                         *)
(***************************************************************************)

\* Until a poll dies, the stored book is the one in memory between polls, and all of
\* it but the cash once the state is saved.
Saved ==
    failures = 0 =>
        /\ pc # "save aborted"
        /\ pc = "idle" => db = Stored(book, book.cash)
        /\ pc = "cash" => db = Stored(book, db.cash)

\* A load between polls brings back the book as it was.
LEMMA LoadedIsBook ==
    ASSUME Types, Saved, failures = 0, pc = "idle"
    PROVE  Loaded = book
<1>1. db = Stored(book, book.cash) /\ book \in Book
  BY DEF Saved, Types, TypeOK
<1>2. /\ db.position = book.position /\ db.pending = book.pending
      /\ db.last_bar_ts = book.last_bar_ts /\ db.cash = book.cash
  BY <1>1 DEF Stored
<1> QED
  BY <1>1, <1>2 DEF Loaded, Book

LEMMA FailuresCount == Types => failures \in Nat
BY PollAssumption, InRange, Zenon DEF Types, TypeOK

LEMMA FailuresOnlyGrow == Types /\ [Next]_vars /\ failures' = 0 => failures = 0
<1> SUFFICES ASSUME Types, [Next]_vars, failures' = 0 PROVE failures = 0
  OBVIOUS
<1>1. failures \in Nat
  BY FailuresCount
<1>2. failures' = failures \/ failures' = failures + 1
  BY DEF Next, LowFalls, BarCloses, Poll, ReplayOpen, ReplayLow, ReplayClose, FormingOpen, FormingLow,
         SaveState, SaveCash, Abort, Crash, vars
<1> QED
  BY <1>1, <1>2

\* Without a failure a step neither aborts a poll nor dies.
LEMMA NoFailure ==
    ASSUME Types, failures' = 0
    PROVE  ~Abort /\ ~Crash
<1>1. failures \in Nat
  BY FailuresCount
<1>2. failures + 1 # 0
  BY <1>1
<1> QED
  BY <1>2 DEF Abort, Crash

LEMMA InitSaved == Init => Saved
BY DEF Init, Saved, FreshBook, Stored

LEMMA SavedKept == Types /\ Saved /\ [Next]_vars => Saved'
<1> SUFFICES ASSUME Types, Saved, [Next]_vars, failures' = 0 PROVE Saved'
  BY DEF Saved
<1>0. failures = 0 /\ ~Abort /\ ~Crash
  BY FailuresOnlyGrow, NoFailure
<1>1. ASSUME UNCHANGED <<pc, book, db>> PROVE Saved'
  BY <1>0, <1>1 DEF Saved, Stored
<1>2. ASSUME pc' \notin {"idle", "cash", "save aborted"} PROVE Saved'
  BY <1>2 DEF Saved
<1>3. CASE LowFalls \/ BarCloses \/ UNCHANGED vars
  BY <1>1, <1>3 DEF LowFalls, BarCloses, vars
<1>4. ASSUME NEW newest \in 1..NumBars, NEW seen \in BOOLEAN, Poll(newest, seen) PROVE Saved'
  <2>1. pc' = "open" \/ pc' = "forming open"
    BY <1>4 DEF Poll
  <2> QED
    BY <1>2, <2>1
<1>5. ASSUME NEW factor \in GateFactors, ReplayOpen(factor) \/ FormingOpen(factor) PROVE Saved'
  BY <1>2, <1>5 DEF ReplayOpen, FormingOpen
<1>6. CASE ReplayLow \/ ReplayClose \/ FormingLow
  BY <1>2, <1>6 DEF ReplayLow, ReplayClose, FormingLow
<1>7. CASE SaveState
  <2>1. db' = Stored(book, db.cash) /\ pc' = "cash" /\ UNCHANGED book
    BY <1>0, <1>7 DEF SaveState, Saved
  <2>2. db'.cash = db.cash /\ db' = Stored(book', db'.cash)
    BY <2>1 DEF Stored
  <2> QED
    BY <2>1, <2>2 DEF Saved
<1>8. CASE SaveCash
  <2>1. db = Stored(book, db.cash) /\ db' = [db EXCEPT !.cash = book.cash] /\ pc' = "idle" /\ UNCHANGED book
    BY <1>0, <1>8 DEF SaveCash, Saved
  <2>2. db' = Stored(book', book'.cash)
    BY <2>1 DEF Stored
  <2> QED
    BY <2>1, <2>2 DEF Saved
<1> QED
  BY <1>0, <1>3, <1>4, <1>5, <1>6, <1>7, <1>8 DEF Next

\* The book in memory accounts for all of the capital.
Accounted == failures = 0 => Balance(book) = MaxCapital

LEMMA AccountedKept ==
    ASSUME GateFactors \subseteq {0, 100}
    PROVE  Types /\ Saved /\ Accounted /\ [Next]_vars => Accounted'
<1> SUFFICES ASSUME Types, Saved, Accounted, [Next]_vars, failures' = 0
             PROVE  Balance(book') = Balance(book)
  BY FailuresOnlyGrow DEF Accounted, Balance, Cost
<1>0. failures = 0 /\ ~Abort /\ ~Crash
  BY FailuresOnlyGrow, NoFailure
<1>1. CASE book' = book
  BY <1>1
<1>2. CASE LowFalls \/ BarCloses \/ SaveState \/ SaveCash \/ UNCHANGED vars
  BY <1>1, <1>2 DEF LowFalls, BarCloses, SaveState, SaveCash, vars
<1>3. ASSUME NEW newest \in 1..NumBars, NEW seen \in BOOLEAN, Poll(newest, seen)
      PROVE  Balance(book') = Balance(book)
  BY <1>0, <1>1, <1>3, LoadedIsBook DEF Poll
<1>4. ASSUME NEW factor \in GateFactors, ReplayOpen(factor) PROVE Balance(book') = Balance(book)
  BY <1>4, ReplayOpenBooks DEF Opens
<1>5. ASSUME NEW factor \in GateFactors, FormingOpen(factor) PROVE Balance(book') = Balance(book)
  <2>1. CASE frame.forming = 0
    BY <1>1, <1>5, <2>1 DEF FormingOpen
  <2>2. CASE frame.forming # 0
    BY <1>5, <2>2, FormingOpenBooks DEF Opens
  <2> QED
    BY <2>1, <2>2
<1>6. CASE ReplayLow
  BY <1>6, ReplayLowBooks DEF Lowers, Settles
<1>7. CASE ReplayClose
  BY <1>7, ReplayCloseBooks DEF Closes
<1>8. CASE FormingLow
  BY <1>8, FormingLowBooks DEF Lowers, Settles
<1> QED
  BY <1>0, <1>2, <1>3, <1>4, <1>5, <1>6, <1>7, <1>8 DEF Next

\* As long as the gate refuses an order or lets all of it through, and no poll has
\* died, the stored cash and position are the capital plus what the trades realized
\* (run_symbol, ledger.save_state, record_paper_cycle).
THEOREM StoredBookIsExplained ==
    ASSUME GateFactors \subseteq {0, 100}
    PROVE  Spec => []StoredBookExplained
<1>1. Init => Accounted
  <2> SUFFICES ASSUME Init PROVE Balance(book) = MaxCapital
    BY DEF Accounted
  <2>1. book.cash = MaxCapital /\ book.position = None /\ book.realized = 0
    BY DEF Init, FreshBook
  <2> QED
    BY <2>1, SizingAssumption DEF Balance, Cost
<1>2. Types /\ Saved /\ Accounted => StoredBookExplained
  <2> SUFFICES ASSUME Types, Saved, Accounted, pc = "idle", failures = 0
               PROVE  db.cash + (IF db.position = None THEN 0 ELSE db.position.cost_basis)
                        = MaxCapital + book.realized
    BY DEF StoredBookExplained
  <2>1. db.cash = book.cash /\ db.position = book.position
    BY DEF Saved, Stored
  <2>2. /\ Cost(book.position) \in Nat /\ book.cash \in Int /\ book.realized \in Int
        /\ book.cash + Cost(book.position) - book.realized = MaxCapital /\ MaxCapital \in Int
    BY CostType, SizingAssumption DEF Types, TypeOK, Accounted, Balance
  <2>3. db.cash + Cost(db.position) = MaxCapital + book.realized
    BY <2>1, <2>2
  <2> QED
    BY <2>3 DEF Cost
<1>3. Types /\ Saved /\ Accounted /\ [Next]_vars => Accounted'
  BY AccountedKept
<1> QED
  BY <1>1, <1>2, <1>3, InitTypes, TypesKept, InitSaved, SavedKept, PTL DEF Spec

-----------------------------------------------------------------------------
(***************************************************************************)
(* Polling implements the backtest                                         *)
(***************************************************************************)

\* The backtest's engine is the polled book's, operator by operator.
LEMMA SameEngine ==
    ASSUME NEW b, NEW ts
    PROVE  /\ \A o, f : BT!OnOpen(b, ts, o, 0, f) = OnOpen(b, ts, o, 0, f)
           /\ \A o, l : BT!OnLow(b, ts, o, l) = OnLow(b, ts, o, l)
           /\ \A h, c, n, x : BT!OnClose(b, ts, h, c, n, x, TRUE) = OnClose(b, ts, h, c, n, x, TRUE)
<1>1. \A o, f : BT!OnOpen(b, ts, o, 0, f) = OnOpen(b, ts, o, 0, f)
  BY DEF BT!OnOpen, OnOpen, BT!TakePending, TakePending, BT!OpenPosition, OpenPosition,
         BT!ReducePosition, ReducePosition, BT!EntryNotional, EntryNotional, BT!SizeOrder, SizeOrder,
         BT!SizeBought, SizeBought, BT!CostBasis, CostBasis, BT!EntryStop, EntryStop,
         BT!EntryTarget, EntryTarget, BT!ClosePosition, ClosePosition, BT!Proceeds, Proceeds,
         BT!Impact, Impact, BT!Worth, Worth, BT!Percent, Percent,
         BT!AtLeast, AtLeast, BT!AtMost, AtMost
<1>2. \A o, l : BT!OnLow(b, ts, o, l) = OnLow(b, ts, o, l)
  BY DEF BT!OnLow, OnLow, BT!StopHit, StopHit, BT!StopLevel, StopLevel,
         BT!TrailingLevel, TrailingLevel, BT!StopFill, StopFill, BT!StopReason, StopReason,
         BT!ClosePosition, ClosePosition, BT!Proceeds, Proceeds, BT!Impact, Impact,
         BT!Worth, Worth, BT!Percent, Percent, BT!AtLeast, AtLeast,
         BT!AtMost, AtMost
<1>3. \A h, c, n, x : BT!OnClose(b, ts, h, c, n, x, TRUE) = OnClose(b, ts, h, c, n, x, TRUE)
  BY DEF BT!OnClose, OnClose, BT!DecideClose, DecideClose, BT!Queued, Queued,
         BT!UpdateTrailing, UpdateTrailing, BT!Arms, Arms, BT!NewPeak, NewPeak,
         BT!Percent, Percent, BT!AtLeast, AtLeast
<1> QED
  BY <1>1, <1>2, <1>3

\* The forming bar has been opened, and what could fill at its open has; once it has
\* been stopped out nothing is held.
Opened ==
    /\ stage \in {"open", "low"}
    /\ book.pending = None
    /\ stage = "low" => book.position = None

\* Between bars the backtest has either closed the newest bar the book has processed
\* or is already inside the one after it.
AtRest ==
    /\ book.last_bar_ts # None => book.last_bar_ts \in 1..frame.newest
    /\ \/ /\ stage = "close"
          /\ bar = IF book.last_bar_ts = None THEN 0 ELSE book.last_bar_ts
       \/ /\ book.last_bar_ts # None
          /\ bar = book.last_bar_ts + 1
          /\ Opened

\* Where the backtest stands at each step of a poll, until a poll dies.
InStep ==
    failures = 0 =>
        /\ pc \in {"idle", "open", "forming open", "save", "cash"} => AtRest
        /\ pc = "open" => book.last_bar_ts = None \/ at = book.last_bar_ts + 1
        /\ pc = "low" => bar = at /\ Opened
        /\ pc = "close" => bar = at /\ stage = "low"
        /\ pc = "forming open" => book.last_bar_ts = frame.newest
        /\ pc = "forming low" => /\ book.last_bar_ts = frame.newest
                                 /\ bar = frame.newest + 1 /\ Opened

\* A step of the backtest, or none.
Matches == BT!Next \/ UNCHANGED BT!vars

LEMMA InitInStep == Init => InStep /\ BT!Init
BY NoneAssumption DEF Init, InStep, AtRest, FreshBook, BT!Init, BT!FreshBook

\* A poll loads the book it left and starts at the first bar that is new to it.
LEMMA PollMatches ==
    ASSUME Types, Types', Saved, InStep, failures = 0,
           NEW newest \in 1..NumBars, NEW seen \in BOOLEAN, Poll(newest, seen)
    PROVE  InStep' /\ Matches
<1> DEFINE last == book.last_bar_ts
<1>1. /\ pc = "idle" /\ Loaded = book /\ UNCHANGED <<market, failures, bar, stage>>
      /\ newest \in stored..closed /\ frame'.newest = newest
      /\ at' = FirstNew(Loaded, newest) /\ book' = Loaded
      /\ pc' = IF at' <= newest THEN "open" ELSE "forming open"
  BY LoadedIsBook DEF Poll, history
<1>2. book' = book /\ at' = FirstNew(book, newest) /\ AtRest
  BY <1>1 DEF InStep
<1>3. /\ newest \in Nat /\ frame.newest \in Nat /\ frame.newest <= newest /\ 1 <= newest
  <2>1. newest \in Nat /\ 1 <= newest
    BY Numbers, InRangeOne, Zenon
  <2>2. stored <= newest
    BY <1>1, Numbers, InInterval, Zenon
  <2> QED
    BY <2>1, <2>2, Numbers, LessOrEqual, Zenon
<1>4. CASE last = None
  <2>1. at' = newest /\ pc' = "open"
    BY <1>1, <1>2, <1>3, <1>4 DEF FirstNew
  <2>2. AtRest'
    BY <1>1, <1>2, <1>4, NoneAssumption DEF AtRest, Opened
  <2> QED
    BY <1>1, <1>2, <1>4, <2>1, <2>2 DEF InStep, Matches, BT!vars
<1>5. CASE last # None
  <2>1. last \in Nat /\ 1 <= last /\ last <= newest /\ last \in 1..newest
    <3>1. last \in Nat /\ 1 <= last /\ last <= frame.newest
      BY <1>2, <1>3, <1>5, InRangeOne, Zenon DEF AtRest
    <3>2. last <= newest
      BY <1>3, <3>1, LessOrEqual, Zenon
    <3> QED
      BY <1>3, <3>1, <3>2, IsInRange, Zenon
  <2>2. AtRest'
    BY <1>1, <1>2, <1>5, <2>1 DEF AtRest, Opened
  <2>3. at' = last + 1
    BY <1>2, <1>5 DEF FirstNew
  <2>4. pc' = "open" \/ (pc' = "forming open" /\ last = newest)
    <3>1. last + 1 <= newest \/ last = newest
      BY <1>3, <2>1, NextOrSame, Zenon
    <3> QED
      BY <1>1, <2>3, <3>1, Zenon
  <2> QED
    BY <1>1, <1>2, <2>2, <2>3, <2>4 DEF InStep, Matches, BT!vars
<1> QED
  BY <1>4, <1>5

\* Opening a bar is a step of the backtest, unless the bar was opened while it formed.
LEMMA OpenMatches ==
    ASSUME Types, failures = 0, AtRest, NEW i \in 1..NumBars,
           book.last_bar_ts = None \/ i = book.last_bar_ts + 1,
           Opens(book, book', 100),
           book' = OnOpen(book, i, market[i].open, 0, 100),
           bar' = i, stage' = IF bar = i THEN stage ELSE "open", UNCHANGED market
    PROVE  Matches /\ Opened'
<1> DEFINE last == book.last_bar_ts
<1>1. i \in Nat /\ 1 <= i /\ (last # None => last \in Nat)
  <2>1. i \in Nat /\ 1 <= i
    BY HistoryAssumption, InRangeOne, Zenon
  <2>2. last \in Nat \cup {None}
    BY DEF Types, TypeOK, Book
  <2> QED
    BY <2>1, <2>2
<1>2. book'.pending = None /\ (book.pending = None => book' = book)
  BY DEF Opens
<1>3. CASE bar = i
  <2>1. Opened
    <3>1. stage # "close" \/ bar # IF last = None THEN 0 ELSE last
      BY <1>1, <1>3
    <3> QED
      BY <3>1 DEF AtRest
  <2>2. UNCHANGED <<book, bar, stage>>
    BY <1>2, <1>3, <2>1 DEF Opened
  <2> QED
    BY <2>1, <2>2 DEF Matches, BT!vars, Opened
<1>4. CASE bar # i
  <2>1. stage = "close" /\ bar = IF last = None THEN 0 ELSE last
    BY <1>4 DEF AtRest
  <2>2. i \in BT!Successors(bar)
    <3>1. bar = 0 \/ i = bar + 1
      BY <2>1
    <3> QED
      BY <3>1 DEF BT!Successors
  <2>3. book' = BT!OnOpen(book, i, market[i].open, 0, 100)
    <3>1. \A o, f : BT!OnOpen(book, i, o, 0, f) = OnOpen(book, i, o, 0, f)
      BY SameEngine, Zenon
    <3> QED
      BY <3>1, Zenon
  <2>4. stage' = "open" /\ bar' = i
    BY <1>4
  <2>5. BT!OpenBar(i)
    BY <2>1, <2>2, <2>3, <2>4 DEF BT!OpenBar
  <2> QED
    BY <1>2, <2>4, <2>5 DEF Matches, BT!Next, Opened
<1> QED
  BY <1>3, <1>4

LEMMA ReplayOpenMatches ==
    ASSUME Types, InStep, failures = 0, failures' = 0, 100 \in GateFactors, ReplayOpen(100)
    PROVE  InStep' /\ Matches
<1>1. /\ pc = "open" /\ pc' = "low" /\ at' = at /\ bar' = at
      /\ book' = OnOpen(book, at, market[at].open, 0, 100)
      /\ stage' = (IF bar = at THEN stage ELSE "open") /\ UNCHANGED market
  BY DEF ReplayOpen, world
<1>2. Opens(book, book', 100) /\ at \in 1..NumBars
  BY <1>1, ReplayOpenBooks, ReplayedBar
<1>3. AtRest /\ (book.last_bar_ts = None \/ at = book.last_bar_ts + 1)
  BY <1>1 DEF InStep
<1>4. Matches /\ Opened'
  BY <1>1, <1>2, <1>3, OpenMatches, Zenon
<1> QED
  BY <1>1, <1>4 DEF InStep

LEMMA FormingOpenMatches ==
    ASSUME Types, InStep, failures = 0, failures' = 0, 100 \in GateFactors, FormingOpen(100)
    PROVE  InStep' /\ Matches
<1>1. pc = "forming open" /\ AtRest /\ book.last_bar_ts = frame.newest
      /\ UNCHANGED <<market, frame, at>>
  BY DEF FormingOpen, InStep, world
<1>2. CASE frame.forming = 0
  <2>1. pc' = "save" /\ UNCHANGED <<book, bar, stage>>
    BY <1>2 DEF FormingOpen, history
  <2> QED
    BY <1>1, <2>1 DEF InStep, AtRest, Opened, Matches, BT!vars
<1>3. CASE frame.forming # 0
  <2> DEFINE i == frame.newest + 1
  <2>1. /\ pc' = "forming low" /\ bar' = i
        /\ book' = OnOpen(book, i, market[i].open, 0, 100)
        /\ stage' = IF bar = i THEN stage ELSE "open"
    BY <1>3 DEF FormingOpen
  <2>2. Opens(book, book', 100) /\ i \in 1..NumBars
    BY <1>3, FormingOpenBooks, FormingBar
  <2>3. i = book.last_bar_ts + 1
    BY <1>1
  <2>4. Matches /\ Opened'
    <3> HIDE DEF i
    <3> QED
      BY <1>1, <2>1, <2>2, <2>3, OpenMatches, Zenon
  <2>5. book'.last_bar_ts = frame.newest
    BY <1>1, <2>2 DEF Opens
  <2> QED
    BY <1>1, <2>1, <2>4, <2>5 DEF InStep
<1> QED
  BY <1>2, <1>3

LEMMA ReplayLowMatches ==
    ASSUME Types, InStep, failures = 0, failures' = 0, ReplayLow
    PROVE  InStep' /\ Matches
<1>1. /\ pc = "low" /\ pc' = "close" /\ stage' = "low" /\ UNCHANGED <<market, at, bar>>
      /\ bar = at /\ Opened
      /\ book' = OnLow(book, bar, market[bar].open, market[bar].low)
  BY DEF ReplayLow, InStep, world
<1>2. InStep'
  BY <1>1 DEF InStep
<1>3. CASE stage = "open"
  <2>1. book' = BT!OnLow(book, bar, market[bar].open, market[bar].low)
    BY <1>1, SameEngine
  <2>2. BT!LowOfBar
    BY <1>1, <1>3, <2>1 DEF BT!LowOfBar
  <2> QED
    BY <1>2, <2>2 DEF Matches, BT!Next
<1>4. CASE stage = "low"
  <2>1. book' = book
    BY <1>1, <1>4, ReplayLowBooks DEF Lowers, Opened
  <2> QED
    BY <1>1, <1>2, <1>4, <2>1 DEF Matches, BT!vars
<1> QED
  BY <1>1, <1>3, <1>4 DEF Opened

LEMMA ReplayCloseMatches ==
    ASSUME Types, InStep, failures = 0, failures' = 0, ReplayClose
    PROVE  InStep' /\ Matches
<1>1. /\ pc = "close" /\ at' = at + 1 /\ stage' = "close" /\ UNCHANGED <<market, frame, bar>>
      /\ pc' = IF at < frame.newest THEN "open" ELSE "forming open"
      /\ bar = at /\ stage = "low"
      /\ book' = OnClose(book, bar, market[bar].high, market[bar].close,
                         market[bar].entry, market[bar].exit, TRUE)
  BY DEF ReplayClose, InStep, world
<1>2. book'.last_bar_ts = at
  BY ReplayCloseBooks DEF Closes
<1>3. at \in Nat /\ frame.newest \in Nat /\ 1 <= at /\ at <= frame.newest /\ at \in 1..frame.newest
  BY <1>1, Numbers, IsInRange
<1>4. at # None
  BY <1>3, NoneAssumption
<1>5. AtRest'
  <2>1. book'.last_bar_ts # None /\ book'.last_bar_ts \in 1..frame'.newest
    BY <1>1, <1>2, <1>3, <1>4, Zenon
  <2>2. stage' = "close" /\ bar' = book'.last_bar_ts
    BY <1>1, <1>2
  <2> QED
    BY <2>1, <2>2, Zenon DEF AtRest
<1>6. pc' = "open" \/ (pc' = "forming open" /\ at = frame.newest)
  <2>1. at < frame.newest \/ at = frame.newest
    BY <1>3, LessOrSame, Zenon
  <2> QED
    BY <1>1, <2>1
<1>7. InStep'
  BY <1>1, <1>2, <1>5, <1>6 DEF InStep
<1>8. book' = BT!OnClose(book, bar, market[bar].high, market[bar].close,
                         market[bar].entry, market[bar].exit, TRUE)
  BY <1>1, SameEngine
<1>9. BT!CloseBar
  BY <1>1, <1>8 DEF BT!CloseBar
<1> QED
  BY <1>7, <1>9 DEF Matches, BT!Next

\* The running low either does nothing yet or does what the bar's low would do.
LEMMA FormingLowMatches ==
    ASSUME Types, InStep, failures = 0, failures' = 0, FormingLow
    PROVE  InStep' /\ Matches
<1>1. /\ pc = "forming low" /\ pc' = "save" /\ UNCHANGED <<market, frame, at, bar>>
      /\ stage' = (IF book' # book THEN "low" ELSE stage)
      /\ book.last_bar_ts = frame.newest /\ bar = frame.newest + 1 /\ Opened
      /\ book' = OnLow(book, bar, market[bar].open, frame.forming)
  BY DEF FormingLow, InStep, world
<1>2. /\ Lowers(book, book') /\ frame.forming # 0 /\ bar \in 1..NumBars /\ book \in Book
      /\ frame.forming \in Nat /\ market[bar].low \in Nat /\ market[bar].low <= frame.forming
  <2>1. Lowers(book, book') /\ frame.forming # 0
    BY <1>1, FormingLowBooks DEF Types
  <2>2. bar \in 1..NumBars /\ book \in Book /\ frame.forming \in Nat
    BY <1>1, <2>1, FormingBar
  <2>3. market[bar].low \in Nat
    BY <2>2, BarFacts DEF Types
  <2>4. market[bar].low <= frame.forming
    BY <1>1, <2>1 DEF Types
  <2> QED
    BY <2>1, <2>2, <2>3, <2>4
<1>3. book'.last_bar_ts = frame.newest /\ frame.newest \in 1..frame.newest /\ frame.newest # None
  <2>1. book'.last_bar_ts = frame.newest
    BY <1>1, <1>2 DEF Lowers, Settles
  <2>2. frame.newest \in Nat /\ frame.newest # None
    BY Numbers, NoneAssumption
  <2>3. frame.newest \in 1..NumBars
    BY <1>1 DEF Types, InReplay
  <2>4. frame.newest \in 1..frame.newest
    BY <2>2, <2>3
  <2> QED
    BY <2>1, <2>2, <2>4
<1>4. CASE book' = book
  <2>1. Opened' /\ UNCHANGED <<market, book, bar, stage>>
    BY <1>1, <1>4 DEF Opened
  <2>2. AtRest'
    BY <1>1, <1>3, <2>1 DEF AtRest
  <2> QED
    BY <1>1, <2>1, <2>2 DEF InStep, Matches, BT!vars
<1>5. CASE book' # book
  <2>1. stage' = "low" /\ book'.position = None /\ book'.pending = None /\ stage = "open"
    BY <1>1, <1>2, <1>5 DEF Lowers, Opened
  <2>2. AtRest'
    BY <1>1, <1>3, <2>1 DEF AtRest, Opened
  <2>3. book' = OnLow(book, bar, market[bar].open, market[bar].low)
    BY <1>1, <1>2, <1>5, OnLowEarly
  <2>4. book' = BT!OnLow(book, bar, market[bar].open, market[bar].low)
    BY <2>3, SameEngine
  <2>5. BT!LowOfBar
    BY <1>1, <2>1, <2>4 DEF BT!LowOfBar
  <2> QED
    BY <1>1, <2>2, <2>5 DEF InStep, Matches, BT!Next
<1> QED
  BY <1>4, <1>5

\* Every step is in step with the backtest until a poll dies.
LEMMA StepMatches ==
    ASSUME GateFactors = {100}
    PROVE  Types /\ Types' /\ Saved /\ InStep /\ [Next]_vars =>
             InStep' /\ (failures' = 0 => Matches)
<1> SUFFICES ASSUME Types, Types', Saved, InStep, [Next]_vars, failures' = 0
             PROVE  InStep' /\ Matches
  BY DEF InStep
<1>0. failures = 0 /\ ~Abort /\ ~Crash
  BY FailuresOnlyGrow, NoFailure
<1>1. ASSUME UNCHANGED <<market, frame, at, book, history>>,
             pc' = pc \/ (pc \in {"save", "cash"} /\ pc' \in {"cash", "idle"})
      PROVE  InStep' /\ Matches
  <2>1. UNCHANGED <<market, book, bar, stage>>
    BY <1>1 DEF history
  <2>2. Opened' = Opened
    BY <2>1 DEF Opened
  <2>3. AtRest' = AtRest
    BY <1>1, <2>1, <2>2, Zenon DEF AtRest
  <2>4. InStep'
    <3>1. CASE pc' = pc
      BY <1>0, <1>1, <2>1, <2>2, <2>3, <3>1 DEF InStep
    <3>2. CASE pc \in {"save", "cash"} /\ pc' \in {"cash", "idle"}
      BY <1>0, <2>3, <3>2 DEF InStep
    <3> QED
      BY <1>1, <3>1, <3>2
  <2> QED
    BY <2>1, <2>4 DEF Matches, BT!vars
<1>2. CASE LowFalls \/ BarCloses \/ UNCHANGED vars
  <2>1. UNCHANGED <<market, frame, at, book, history>> /\ pc' = pc
    BY <1>2 DEF LowFalls, BarCloses, vars, history
  <2> QED
    BY <1>1, <2>1, Zenon
<1>3. ASSUME NEW newest \in 1..NumBars, NEW seen \in BOOLEAN, Poll(newest, seen)
      PROVE  InStep' /\ Matches
  BY <1>0, <1>3, PollMatches
<1>4. ASSUME NEW factor \in GateFactors, ReplayOpen(factor) PROVE InStep' /\ Matches
  BY <1>0, <1>4, ReplayOpenMatches
<1>5. ASSUME NEW factor \in GateFactors, FormingOpen(factor) PROVE InStep' /\ Matches
  BY <1>0, <1>5, FormingOpenMatches
<1>6. CASE ReplayLow
  BY <1>0, <1>6, ReplayLowMatches
<1>7. CASE ReplayClose
  BY <1>0, <1>7, ReplayCloseMatches
<1>8. CASE FormingLow
  BY <1>0, <1>8, FormingLowMatches
<1>9. CASE SaveState \/ SaveCash
  <2>1. pc \in {"save", "cash"} /\ pc' \in {"cash", "idle"}
    BY <1>0, <1>9 DEF SaveState, SaveCash, Saved
  <2> QED
    BY <1>1, <1>9, <2>1 DEF SaveState, SaveCash, world
<1> QED
  BY <1>0, <1>2, <1>3, <1>4, <1>5, <1>6, <1>7, <1>8, <1>9 DEF Next

\* Without a gate, polling a book makes exactly the trades of the backtest over the same
\* closed bars, whatever bars the polls see forming, miss or replay, until one of them
\* dies half way (run_symbol against backtest.simulate).
THEOREM PollingIsABacktest ==
    ASSUME GateFactors = {100}
    PROVE  Spec => BacktestParity
<1>1. Types /\ Types' /\ Saved /\ InStep /\ [Next]_vars => [failures' = 0 => BT!Next]_(BT!vars)
  BY StepMatches DEF Matches
<1>2. Types /\ Types' /\ Saved /\ InStep /\ [Next]_vars => InStep'
  BY StepMatches
<1> QED
  BY <1>1, <1>2, InitTypes, TypesKept, InitSaved, SavedKept, InitInStep, PTL DEF Spec, BacktestParity

=============================================================================
