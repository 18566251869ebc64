--------------------------- MODULE LiveLoopProofs ---------------------------
(***************************************************************************)
(* What the live loop keeps, for any tokens, strategies, bars, errors and  *)
(* crashes: its types, that it forgets no token it knows, that the queue   *)
(* fits the position, that a signal buys once and that a tripped kill      *)
(* switch lets at most one queued entry through.                           *)
(*                                                                         *)
(* One invariant carries them all.  Its heart is how far the book in       *)
(* memory may be from the database: not at all between two tokens, in the  *)
(* token under analysis, and in all of them from the flattening to SaveAll.*)
(***************************************************************************)
EXTENDS LiveLoop, TLAPS

Frames == [at : Nat, newest : 0..NumBars, forming : BOOLEAN, low : BOOLEAN]

\* The types that TypeOK does not need to name.
Types ==
    /\ TypeOK
    /\ frame \in Frames
    /\ written \in [Symbols -> Nat] /\ sincePause \in [Symbols -> Nat]
    /\ entries \in [Symbols -> [1..NumBars -> Nat]]

OnToken == InReplay \cup {"save"}

\* Where memory and database agree.
Synced ==
    /\ pc \in {"idle", "next", "govern", "value"} => db = book
    /\ pc \in OnToken => \A s \in Symbols \ {cur} : db[s] = book[s]

\* A queued action was asked for by a bar that has been processed ...
Asked(b) == b.pending # None => b.last_bar_ts # None /\ b.pending.signal_ts <= b.last_bar_ts
AllAsked == \A s \in Symbols : Asked(book[s]) /\ Asked(db[s])

\* ... and the bar to replay has not been.
AtNew ==
    pc \in {"open", "low", "close"} =>
        book[cur].last_bar_ts = None \/ book[cur].last_bar_ts < frame.at

\* A bar that bought was processed, and what is queued is of another one.
Bought(s, i) ==
    /\ book[s].last_bar_ts # None /\ i <= book[s].last_bar_ts
    /\ book[s].pending # None => book[s].pending.signal_ts # i
SpentSignals == crashes = 0 => \A s \in Symbols, i \in 1..NumBars : entries[s][i] > 0 => Bought(s, i)

\* What is still to be flattened is held.
ToFlatten == pc = "flatten" => \A s \in todo : Held(book[s])

\* Between the kill switch and the next cycle, nothing is analysed.
SeenInTime == paused /\ ~seen => pc \in {"save all", "value", "idle"}

\* After the switch, an entry was bought or is still queued, not both.
QueuedEntry(b) == b.pending # None /\ b.pending.side = "BUY"
LastEntry ==
    crashes = 0 /\ paused =>
        \A s \in Symbols : sincePause[s] = 0 \/ (sincePause[s] = 1 /\ ~QueuedEntry(book[s]))

\* An entry queued in a replay is the newest bar's, or was there before.
EntryOfNewest(s) ==
    QueuedEntry(book[s]) => \/ book[s].pending.signal_ts = frame.newest
                            \/ book[s].pending = db[s].pending
NewestOnly == pc \in InReplay => EntryOfNewest(cur)

\* What depends on the book and the ledger only, and what on the cycle too.
BookInv ==
    /\ QueueFitsPosition /\ AllAsked /\ NoTokenForgotten
    /\ SpentSignals /\ OneEntryPerSignal /\ LastEntry
CycleInv == Synced /\ AtNew /\ ToFlatten /\ SeenInTime /\ NewestOnly

IInv == Types /\ BookInv /\ CycleInv

-----------------------------------------------------------------------------
(***************************************************************************)
(* What an order may do to its token, and to nothing else                  *)
(***************************************************************************)

OrderTypes ==
    /\ book' \in [Symbols -> SymbolState]
    /\ wallet' \in [Symbols -> Nat] /\ cache' \in [Symbols -> Nat \cup {None}]
    /\ outages' \in 0..MaxOutages
    /\ sincePause' \in [Symbols -> Nat]
    /\ entries' \in [Symbols -> [1..NumBars -> Nat]]

Untouched(t) ==
    /\ book'[t] = book[t] /\ wallet'[t] = wallet[t]
    /\ entries'[t] = entries[t] /\ sincePause'[t] = sincePause[t]

Keeps(s) ==
    /\ book'[s].position = book[s].position /\ book'[s].last_bar_ts = book[s].last_bar_ts
    /\ book'[s].pending \in {book[s].pending, None}
    /\ wallet'[s] = wallet[s] /\ entries'[s] = entries[s] /\ sincePause'[s] = sincePause[s]

Sells(s) ==
    /\ Held(book[s]) /\ ~Held(book'[s])
    /\ book'[s].last_bar_ts = book[s].last_bar_ts /\ book'[s].pending = None
    /\ wallet[s] > 0 /\ wallet'[s] = wallet[s] - 1
    /\ entries'[s] = entries[s] /\ sincePause'[s] = sincePause[s]

Buys(s) ==
    /\ ~Held(book[s]) /\ QueuedEntry(book[s]) /\ Held(book'[s])
    /\ book'[s].last_bar_ts = book[s].last_bar_ts /\ book'[s].pending = None
    /\ wallet'[s] = wallet[s] + 1
    /\ entries'[s] = [entries[s] EXCEPT ![book[s].pending.signal_ts] = @ + 1]
    /\ sincePause'[s] = IF paused THEN sincePause[s] + 1 ELSE sincePause[s]

Ordered(s) ==
    /\ OrderTypes /\ written' = written /\ astray' = astray
    /\ \A t \in Symbols \ {s} : Untouched(t)
    /\ Keeps(s) \/ Sells(s) \/ Buys(s)

LEMMA OneMore ==
    ASSUME NEW S, NEW g \in [S -> Nat], NEW x \in S
    PROVE  [g EXCEPT ![x] = @ + 1] \in [S -> Nat]
OBVIOUS

LEMMA Ranges ==
    ASSUME NEW n \in Nat, NEW m \in 0..n
    PROVE  m \in Nat /\ m <= n /\ m + 1 \in 1..(n + 1) /\ \A k \in 1..m : k \in 1..n /\ k \in 1..(n + 1)
OBVIOUS

\* The bars a window names.
LEMMA FrameBars ==
    ASSUME Types
    PROVE  /\ frame.at \in Nat /\ frame.newest \in 0..NumBars /\ frame.newest \in Nat
           /\ frame.newest + 1 \in 1..(NumBars + 1)
           /\ pc \in {"open", "low", "close"} =>
                /\ frame.at \in 1..frame.newest /\ frame.at \in 1..NumBars /\ frame.at \in 1..(NumBars + 1)
<1>1. frame \in Frames /\ (pc \in {"open", "low", "close"} => frame.at \in 1..frame.newest)
  BY DEF Types, TypeOK
<1>2. frame.at \in Nat /\ frame.newest \in 0..NumBars
  BY <1>1 DEF Frames
<1>3. NumBars \in Nat
  BY BoundsAssumption
<1> QED
  BY <1>1, <1>2, <1>3, Ranges, Zenon

LEMMA StateFields ==
    ASSUME NEW b \in SymbolState
    PROVE  /\ Dequeued(b) \in SymbolState /\ Dequeued(b).position = b.position
           /\ Dequeued(b).pending = None /\ Dequeued(b).last_bar_ts = b.last_bar_ts
           /\ Sold(b) \in SymbolState /\ ~Held(Sold(b))
           /\ Sold(b).pending = None /\ Sold(b).last_bar_ts = b.last_bar_ts
           /\ \A bar \in 1..(NumBars + 1) :
                /\ [Dequeued(b) EXCEPT !.position = bar] \in SymbolState
                /\ [Dequeued(b) EXCEPT !.position = bar].position = bar
                /\ [Dequeued(b) EXCEPT !.position = bar].pending = None
                /\ [Dequeued(b) EXCEPT !.position = bar].last_bar_ts = b.last_bar_ts
BY DEF SymbolState, Dequeued, Sold, Held

LEMMA SellOrdered ==
    ASSUME Types, NEW s \in Symbols, Held(book[s]),
           NEW kept \in {book[s], Dequeued(book[s])}, NEW outcome, Sell(s, kept, outcome)
    PROVE  Ordered(s)
<1>1. PICK failed \in SUBSET {s} :
        /\ Outage(failed)
        /\ cache' = [cache EXCEPT ![s] = IF outcome = "none" THEN 0 ELSE None]
        /\ outcome = "filled" => wallet[s] > 0
        /\ wallet' = IF outcome = "filled" THEN [wallet EXCEPT ![s] = @ - 1] ELSE wallet
        /\ book' = [book EXCEPT ![s] = AfterSale(kept, outcome)]
        /\ UNCHANGED <<written, entries, sincePause, astray>>
  BY DEF Sell
<1>2. /\ book \in [Symbols -> SymbolState] /\ book[s] \in SymbolState
      /\ kept \in SymbolState /\ kept.position = book[s].position
      /\ kept.last_bar_ts = book[s].last_bar_ts /\ kept.pending \in {book[s].pending, None}
  BY StateFields DEF Types, TypeOK
<1>3. outages' \in 0..MaxOutages
  BY <1>1, BoundsAssumption DEF Outage, Types, TypeOK
<1>4. cache' \in [Symbols -> Nat \cup {None}]
  BY <1>1 DEF Types, TypeOK
<1>5. wallet' \in [Symbols -> Nat]
  BY <1>1 DEF Types, TypeOK
<1>6. sincePause' \in [Symbols -> Nat] /\ entries' \in [Symbols -> [1..NumBars -> Nat]]
  BY <1>1 DEF Types
<1>7. CASE outcome = "filled"
  <2>1. Sold(kept) \in SymbolState /\ ~Held(Sold(kept)) /\ Sold(kept).pending = None
        /\ Sold(kept).last_bar_ts = book[s].last_bar_ts
    BY <1>2, StateFields
  <2>2. book' = [book EXCEPT ![s] = Sold(kept)]
    BY <1>1, <1>7 DEF AfterSale
  <2>3. book' \in [Symbols -> SymbolState] /\ book'[s] = Sold(kept)
        /\ \A t \in Symbols \ {s} : book'[t] = book[t]
    BY <1>2, <2>1, <2>2
  <2>4. wallet[s] > 0 /\ wallet'[s] = wallet[s] - 1 /\ \A t \in Symbols \ {s} : wallet'[t] = wallet[t]
    BY <1>1, <1>7 DEF Types, TypeOK
  <2> QED
    BY <1>1, <1>3, <1>4, <1>5, <1>6, <2>1, <2>3, <2>4 DEF Ordered, OrderTypes, Untouched, Sells
<1>8. CASE outcome # "filled"
  <2>1. book' = [book EXCEPT ![s] = kept] /\ wallet' = wallet
    BY <1>1, <1>8 DEF AfterSale
  <2>2. book' \in [Symbols -> SymbolState] /\ book'[s] = kept
        /\ \A t \in Symbols \ {s} : book'[t] = book[t]
    BY <1>2, <2>1
  <2> QED
    BY <1>1, <1>2, <1>3, <1>4, <1>5, <1>6, <2>1, <2>2 DEF Ordered, OrderTypes, Untouched, Keeps
<1> QED
  BY <1>7, <1>8

LEMMA NoOrderOrdered ==
    ASSUME Types, NEW s \in Symbols,
           NEW kept \in {book[s], Dequeued(book[s])}, NEW outcome, NoOrder(s, kept, outcome)
    PROVE  Ordered(s)
<1>1. /\ book \in [Symbols -> SymbolState] /\ book[s] \in SymbolState
      /\ kept \in SymbolState /\ kept.position = book[s].position
      /\ kept.last_bar_ts = book[s].last_bar_ts /\ kept.pending \in {book[s].pending, None}
  BY StateFields DEF Types, TypeOK
<1>2. book' \in [Symbols -> SymbolState] /\ book'[s] = kept
      /\ \A t \in Symbols \ {s} : book'[t] = book[t]
  BY <1>1 DEF NoOrder
<1>3. OrderTypes /\ UNCHANGED ledger
  BY <1>2 DEF NoOrder, OrderTypes, Types, TypeOK, ledger, reads
<1> QED
  BY <1>1, <1>2, <1>3 DEF Ordered, Untouched, Keeps, ledger

LEMMA BuyOrdered ==
    ASSUME Types, NEW s \in Symbols, NEW bar \in 1..(NumBars + 1), NEW outcome,
           ~Held(book[s]), QueuedEntry(book[s]), Buy(s, bar, outcome)
    PROVE  Ordered(s)
<1>1. /\ book \in [Symbols -> SymbolState] /\ book[s] \in SymbolState
      /\ cache \in [Symbols -> Nat \cup {None}] /\ outages \in 0..MaxOutages
      /\ wallet \in [Symbols -> Nat] /\ sincePause \in [Symbols -> Nat]
      /\ entries \in [Symbols -> [1..NumBars -> Nat]]
  BY DEF Types, TypeOK
<1>2. CASE NoOrder(s, Dequeued(book[s]), outcome)
  BY <1>2, NoOrderOrdered
<1>3. CASE /\ outcome = "failed"
           /\ book' = [book EXCEPT ![s] = Dequeued(@)]
           /\ cache' = [cache EXCEPT ![s] = None]
           /\ UNCHANGED <<outages, ledger>>
  <2>1. book' \in [Symbols -> SymbolState] /\ book'[s] = Dequeued(book[s])
        /\ \A t \in Symbols \ {s} : book'[t] = book[t]
    BY <1>1, <1>3, StateFields
  <2>2. OrderTypes
    BY <1>1, <1>3, <2>1 DEF OrderTypes, ledger
  <2> QED
    BY <1>1, <1>3, <2>1, <2>2, StateFields DEF Ordered, Untouched, Keeps, ledger
<1>4. CASE /\ outcome = "filled"
           /\ book' = [book EXCEPT ![s] = [Dequeued(@) EXCEPT !.position = bar]]
           /\ cache' = [cache EXCEPT ![s] = None]
           /\ wallet' = [wallet EXCEPT ![s] = @ + 1]
           /\ entries' = [entries EXCEPT ![s][book[s].pending.signal_ts] = @ + 1]
           /\ sincePause' = [sincePause EXCEPT ![s] = IF paused THEN @ + 1 ELSE @]
           /\ UNCHANGED <<outages, written, astray>>
  <2> DEFINE b == [Dequeued(book[s]) EXCEPT !.position = bar]
             i == book[s].pending.signal_ts
  <2>1. b \in SymbolState /\ b.pending = None /\ b.last_bar_ts = book[s].last_bar_ts /\ b.position = bar
    BY <1>1, StateFields
  <2>2. bar # None
    BY NoneAssumption, BoundsAssumption
  <2>3. book' = [book EXCEPT ![s] = b]
    BY <1>4
  <2> HIDE DEF b
  <2>4. book' \in [Symbols -> SymbolState] /\ book'[s] = b
        /\ \A t \in Symbols \ {s} : book'[t] = book[t]
    BY <1>1, <2>1, <2>3
  <2>5. wallet' \in [Symbols -> Nat] /\ wallet'[s] = wallet[s] + 1
        /\ \A t \in Symbols \ {s} : wallet'[t] = wallet[t]
    BY <1>1, <1>4
  <2>6. i \in 1..NumBars
    BY <1>1 DEF QueuedEntry, SymbolState, Action
  <2>7. entries' \in [Symbols -> [1..NumBars -> Nat]] /\ entries'[s] = [entries[s] EXCEPT ![i] = @ + 1]
        /\ \A t \in Symbols \ {s} : entries'[t] = entries[t]
    <3> DEFINE row == [entries[s] EXCEPT ![i] = @ + 1]
    <3>1. row \in [1..NumBars -> Nat]
      BY <1>1, <2>6, OneMore
    <3>2. entries' = [entries EXCEPT ![s] = row]
      BY <1>4
    <3> HIDE DEF row
    <3>3. entries' \in [Symbols -> [1..NumBars -> Nat]] /\ entries'[s] = row
          /\ \A t \in Symbols \ {s} : entries'[t] = entries[t]
      BY <1>1, <3>1, <3>2
    <3> QED
      BY <3>3 DEF row
  <2>8. sincePause' \in [Symbols -> Nat]
        /\ sincePause'[s] = (IF paused THEN sincePause[s] + 1 ELSE sincePause[s])
        /\ \A t \in Symbols \ {s} : sincePause'[t] = sincePause[t]
    BY <1>1, <1>4
  <2>9. cache' \in [Symbols -> Nat \cup {None}]
    BY <1>1, <1>4
  <2>10. OrderTypes /\ written' = written /\ astray' = astray
    BY <1>1, <1>4, <2>4, <2>5, <2>7, <2>8, <2>9 DEF OrderTypes
  <2>11. Buys(s)
    BY <2>1, <2>2, <2>4, <2>5, <2>7, <2>8 DEF Buys, Held
  <2> QED
    BY <2>4, <2>5, <2>7, <2>8, <2>10, <2>11 DEF Ordered, Untouched
<1> QED
  BY <1>2, <1>3, <1>4 DEF Buy

LEMMA OnOpenOrdered ==
    ASSUME Types, NEW s \in Symbols, NEW bar \in 1..(NumBars + 1), NEW outcome, OnOpen(s, bar, outcome)
    PROVE  Ordered(s)
BY SellOrdered, NoOrderOrdered, BuyOrdered DEF OnOpen, QueuedEntry

LEMMA OnLowOrdered ==
    ASSUME Types, NEW s \in Symbols, NEW hit, NEW outcome, OnLow(s, hit, outcome)
    PROVE  Ordered(s)
BY SellOrdered, NoOrderOrdered DEF OnLow

LEMMA FlattenOrdered ==
    ASSUME Types, NEW s \in Symbols, Held(book[s]), NEW outcome,
           Sell(s, book[s], outcome) \/ NoOrder(s, book[s], outcome)
    PROVE  Ordered(s)
BY SellOrdered, NoOrderOrdered

\* Every order keeps what the book and the ledger promise.
LEMMA OrderKeeps ==
    ASSUME Types, BookInv, NEW s \in Symbols, Ordered(s), UNCHANGED <<db, paused, crashes>>
    PROVE  BookInv'
<1>1. \A t \in Symbols \ {s} : Untouched(t)
  BY DEF Ordered
<1>2. book'[s].last_bar_ts = book[s].last_bar_ts /\ book'[s].pending \in {book[s].pending, None}
  BY DEF Ordered, Keeps, Sells, Buys
<1>3. QueueFitsPosition'
  <2>1. ASSUME NEW t \in Symbols, NEW b \in {book'[t], db[t]}, b.pending # None
        PROVE  b.pending.side = "SELL" <=> Held(b)
    <3>1. CASE t = s /\ b = book'[s]
      BY <2>1, <3>1 DEF BookInv, QueueFitsPosition, Ordered, Keeps, Sells, Buys, Held
    <3>2. CASE b = db[t] \/ t # s
      BY <1>1, <2>1, <3>2 DEF BookInv, QueueFitsPosition, Untouched
    <3> QED
      BY <3>1, <3>2
  <2> QED
    BY <2>1 DEF QueueFitsPosition
<1>4. AllAsked'
  BY <1>1, <1>2 DEF BookInv, AllAsked, Asked, Untouched
<1>5. NoTokenForgotten'
  <2> SUFFICES ASSUME crashes = 0, NEW t \in Symbols
               PROVE  wallet'[t] = astray[t] + written[t] + (IF Held(book'[t]) THEN 1 ELSE 0)
    BY DEF NoTokenForgotten, Ordered
  <2>1. wallet[t] = astray[t] + written[t] + (IF Held(book[t]) THEN 1 ELSE 0)
    BY DEF BookInv, NoTokenForgotten
  <2>2. wallet[t] \in Nat /\ written[t] \in Nat /\ astray[t] \in Int
    BY DEF Types, TypeOK
  <2>3. CASE t = s
    BY <2>1, <2>2, <2>3 DEF Ordered, Keeps, Sells, Buys, Held
  <2>4. CASE t # s
    BY <1>1, <2>1, <2>4 DEF Untouched
  <2> QED
    BY <2>3, <2>4
<1>6. SpentSignals' /\ OneEntryPerSignal'
  <2> SUFFICES ASSUME crashes = 0, NEW t \in Symbols, NEW i \in 1..NumBars
               PROVE  (entries'[t][i] > 0 => Bought(t, i)') /\ entries'[t][i] <= 1
    BY DEF SpentSignals, OneEntryPerSignal
  <2>1. (entries[t][i] > 0 => Bought(t, i)) /\ entries[t][i] <= 1 /\ entries[t][i] \in Nat
    BY DEF BookInv, SpentSignals, OneEntryPerSignal, Types
  <2>2. CASE t # s
    BY <1>1, <2>1, <2>2 DEF Untouched, Bought
  <2>3. CASE t = s /\ (Keeps(s) \/ Sells(s))
    BY <1>2, <2>1, <2>3 DEF Keeps, Sells, Bought
  <2>4. CASE t = s /\ Buys(s)
    <3>1. entries'[s][i] = IF i = book[s].pending.signal_ts THEN entries[s][i] + 1 ELSE entries[s][i]
      BY <2>4 DEF Buys, Types
    <3>2. i = book[s].pending.signal_ts => entries[s][i] = 0
      BY <2>1, <2>4 DEF Bought, Buys, QueuedEntry
    <3>3. i = book[s].pending.signal_ts => book[s].last_bar_ts # None /\ i <= book[s].last_bar_ts
      BY <2>4 DEF BookInv, AllAsked, Asked, Buys, QueuedEntry
    <3> QED
      BY <1>2, <2>1, <2>4, <3>1, <3>2, <3>3 DEF Buys, Bought
  <2> QED
    BY <2>2, <2>3, <2>4 DEF Ordered
<1>7. LastEntry'
  <2> SUFFICES ASSUME crashes = 0, paused, NEW t \in Symbols
               PROVE  sincePause'[t] = 0 \/ (sincePause'[t] = 1 /\ ~QueuedEntry(book'[t]))
    BY DEF LastEntry
  <2>1. sincePause[t] = 0 \/ (sincePause[t] = 1 /\ ~QueuedEntry(book[t]))
    BY DEF BookInv, LastEntry
  <2>2. CASE t # s
    BY <1>1, <2>1, <2>2 DEF Untouched
  <2>3. CASE t = s
    BY <1>2, <2>1, <2>3 DEF Ordered, Keeps, Sells, Buys, QueuedEntry
  <2> QED
    BY <2>2, <2>3
<1> QED
  BY <1>3, <1>4, <1>5, <1>6, <1>7 DEF BookInv

-----------------------------------------------------------------------------
(***************************************************************************)
(* The steps around a token's analysis                                     *)
(***************************************************************************)

\* Nothing of what the parts below are about changes.
LEMMA BookInvKept ==
    ASSUME BookInv, UNCHANGED <<db, book, paused, crashes, ledger>>
    PROVE  BookInv'
BY DEF BookInv, QueueFitsPosition, AllAsked, Asked, NoTokenForgotten, SpentSignals, Bought,
   OneEntryPerSignal, LastEntry, QueuedEntry, Held, ledger

LEMMA WorldStep ==
    ASSUME IInv,
           \/ \E said \in Said : BarCloses(said)
           \/ \E s \in Symbols : LowFalls(s) \/ Expire(s)
           \/ UNCHANGED vars
    PROVE  IInv'
<1>1. UNCHANGED <<db, book, paused, seen, cycle, crashes, ledger>>
  BY DEF BarCloses, LowFalls, Expire, vars, cycle, ledger
<1>2. Types'
  <2>1. ASSUME NEW said \in Said, BarCloses(said) PROVE Types'
    <3>1. chart \in Seq(Said) /\ chart' = Append(chart, said) /\ Len(chart) < NumBars
      BY <2>1 DEF BarCloses, IInv, Types, TypeOK, closed
    <3>2. chart' \in Seq(Said) /\ Len(chart') = Len(chart) + 1 /\ Len(chart) \in Nat
      BY <3>1
    <3>3. closed' <= NumBars /\ (frame.newest <= closed)'
      BY <1>1, <3>1, <3>2, BoundsAssumption DEF closed, IInv, Types, TypeOK, Frames, cycle
    <3> QED
      BY <1>1, <2>1, <3>2, <3>3 DEF BarCloses, IInv, Types, TypeOK, cycle, ledger, reads
  <2>2. ASSUME NEW s \in Symbols, LowFalls(s) \/ Expire(s) PROVE Types'
    BY <1>1, <2>2 DEF LowFalls, Expire, IInv, Types, TypeOK, closed, cycle, ledger, reads, world
  <2>3. CASE UNCHANGED vars
    BY <2>3 DEF vars, IInv, Types, TypeOK, closed
  <2> QED
    BY <2>1, <2>2, <2>3
<1>3. BookInv'
  BY <1>1, BookInvKept DEF IInv
<1>4. CycleInv'
  BY <1>1 DEF IInv, CycleInv, Synced, AtNew, ToFlatten, SeenInTime, NewestOnly, EntryOfNewest,
     QueuedEntry, Held, cycle
<1> QED
  BY <1>2, <1>3, <1>4 DEF IInv

LEMMA ResumeStep == ASSUME IInv, Resume PROVE IInv'
<1>1. Types'
  BY DEF Resume, IInv, Types, TypeOK, closed, cycle, reads, world
<1>2. BookInv'
  BY DEF Resume, IInv, BookInv, QueueFitsPosition, AllAsked, Asked, NoTokenForgotten, SpentSignals,
     Bought, OneEntryPerSignal, LastEntry, Held
<1>3. CycleInv'
  BY DEF Resume, IInv, CycleInv, Synced, AtNew, ToFlatten, SeenInTime, NewestOnly, EntryOfNewest,
     QueuedEntry, Held, cycle
<1> QED
  BY <1>1, <1>2, <1>3 DEF IInv

LEMMA DriftStep == ASSUME IInv, NEW s \in Symbols, Drift(s) PROVE IInv'
<1>1. PICK lots \in {1, -1} :
        /\ wallet[s] + lots >= 0
        /\ wallet' = [wallet EXCEPT ![s] = @ + lots]
        /\ astray' = [astray EXCEPT ![s] = @ + lots]
  BY DEF Drift
<1>2. wallet \in [Symbols -> Nat] /\ astray \in [Symbols -> Int] /\ written \in [Symbols -> Nat]
  BY DEF IInv, Types, TypeOK
<1>3. wallet' \in [Symbols -> Nat] /\ astray' \in [Symbols -> Int]
  BY <1>1, <1>2
<1>4. outages' \in 0..MaxOutages
  BY BoundsAssumption DEF Drift, IInv, Types, TypeOK
<1>5. Types'
  BY <1>3, <1>4 DEF Drift, IInv, Types, TypeOK, closed, cycle, world
<1>6. NoTokenForgotten'
  <2> SUFFICES ASSUME crashes = 0, NEW t \in Symbols
               PROVE  wallet'[t] = astray'[t] + written[t] + (IF Held(book[t]) THEN 1 ELSE 0)
    BY DEF NoTokenForgotten, Drift, Held
  <2> DEFINE h == IF Held(book[t]) THEN 1 ELSE 0
  <2>1. wallet[t] = astray[t] + written[t] + h
    BY DEF IInv, BookInv, NoTokenForgotten
  <2>2. h \in Nat /\ wallet[t] \in Nat /\ astray[t] \in Int /\ written[t] \in Nat
    BY <1>2
  <2> HIDE DEF h
  <2>3. wallet'[t] = astray'[t] + written[t] + h
    BY <1>1, <1>2, <2>1, <2>2
  <2> QED
    BY <2>3 DEF h
<1>7. BookInv'
  BY <1>6 DEF Drift, IInv, BookInv, QueueFitsPosition, AllAsked, Asked, SpentSignals, Bought,
     OneEntryPerSignal, LastEntry, QueuedEntry, Held
<1>8. CycleInv'
  BY DEF Drift, IInv, CycleInv, Synced, AtNew, ToFlatten, SeenInTime, NewestOnly, EntryOfNewest,
     QueuedEntry, Held, cycle
<1> QED
  BY <1>5, <1>7, <1>8 DEF IInv

LEMMA OutageTyped ==
    ASSUME Types, NEW failed, Outage(failed)
    PROVE  outages' \in 0..MaxOutages
BY BoundsAssumption DEF Outage, Types, TypeOK

LEMMA BalanceTyped ==
    ASSUME Types, NEW s \in Symbols, NEW failed
    PROVE  Balance(s, failed) \in Nat
BY DEF Balance, Types, TypeOK

LEMMA CrashStep == ASSUME IInv, NEW failed \in SUBSET Symbols, Crash(failed) PROVE IInv'
<1>1. crashes' \in 0..MaxCrashes /\ crashes' # 0
  BY BoundsAssumption DEF Crash, IInv, Types, TypeOK
<1>2. cache' \in [Symbols -> Nat \cup {None}]
  BY DEF Crash, IInv, Types, TypeOK
<1>3. frame' \in Frames /\ frame'.newest = 0
  BY BoundsAssumption DEF Crash, NoFrame, Frames
<1>4. closed' \in Nat /\ 0 <= closed'
  BY DEF Crash, world, closed, IInv, Types, TypeOK
<1>5. Types'
  <2>1. outages' \in 0..MaxOutages
    BY OutageTyped DEF Crash, IInv
  <2> QED
    BY <1>1, <1>2, <1>3, <1>4, <2>1
    DEF Crash, IInv, Types, TypeOK, closed, world, ledger, Steps, InReplay
<1>6. BookInv'
  BY <1>1 DEF Crash, IInv, BookInv, QueueFitsPosition, AllAsked, Asked, NoTokenForgotten, SpentSignals,
     OneEntryPerSignal, LastEntry, Held
<1>7. CycleInv'
  BY DEF Crash, CycleInv, Synced, AtNew, ToFlatten, SeenInTime, NewestOnly, InReplay, OnToken
<1> QED
  BY <1>5, <1>6, <1>7 DEF IInv

\* A position written off as dust leaves the book, and what is written off accounts for it.
LEMMA StartStep == ASSUME IInv, NEW dust \in SUBSET Symbols, StartCycle(dust) PROVE IInv'
<1>1. db = book /\ book \in [Symbols -> SymbolState] /\ written \in [Symbols -> Nat] /\ wallet \in [Symbols -> Nat]
  BY DEF StartCycle, IInv, CycleInv, Synced, Types, TypeOK
<1>2. \A s \in Symbols : /\ book'[s] = IF s \in dust THEN Sold(book[s]) ELSE book[s]
                         /\ written'[s] = IF s \in dust THEN written[s] + 1 ELSE written[s]
  BY <1>1 DEF StartCycle
<1>3. book' \in [Symbols -> SymbolState] /\ db' = book' /\ written' \in [Symbols -> Nat]
  <2>1. \A s \in Symbols : Sold(book[s]) \in SymbolState
    BY <1>1, StateFields
  <2> QED
    BY <1>1, <2>1 DEF StartCycle
<1>4. \A s \in Symbols :
        /\ book'[s].last_bar_ts = book[s].last_bar_ts /\ book'[s].pending \in {book[s].pending, None}
        /\ s \in dust => Held(book[s]) /\ ~Held(book'[s]) /\ book'[s].pending = None
  BY <1>1, <1>2, StateFields DEF StartCycle
<1>5. Types'
  BY <1>3 DEF StartCycle, IInv, Types, TypeOK, closed, world, reads, Steps, InReplay
<1>6. BookInv'
  <2>1. QueueFitsPosition'
    BY <1>2, <1>3, <1>4 DEF IInv, BookInv, QueueFitsPosition
  <2>2. AllAsked'
    BY <1>3, <1>4 DEF IInv, BookInv, AllAsked, Asked
  <2>3. NoTokenForgotten'
    <3> SUFFICES ASSUME crashes = 0, NEW s \in Symbols
                 PROVE  wallet[s] = astray[s] + written'[s] + (IF Held(book'[s]) THEN 1 ELSE 0)
      BY DEF NoTokenForgotten, StartCycle
    <3>1. wallet[s] = astray[s] + written[s] + (IF Held(book[s]) THEN 1 ELSE 0)
          /\ written[s] \in Nat /\ astray[s] \in Int /\ wallet[s] \in Nat
      BY <1>1 DEF IInv, BookInv, NoTokenForgotten, Types, TypeOK
    <3> QED
      BY <1>2, <1>4, <3>1
  <2>4. SpentSignals' /\ OneEntryPerSignal'
    BY <1>4 DEF StartCycle, IInv, BookInv, SpentSignals, Bought, OneEntryPerSignal
  <2>5. LastEntry'
    BY <1>4 DEF StartCycle, IInv, BookInv, LastEntry, QueuedEntry
  <2> QED
    BY <2>1, <2>2, <2>3, <2>4, <2>5 DEF BookInv
<1>7. CycleInv'
  BY <1>3 DEF StartCycle, CycleInv, Synced, AtNew, ToFlatten, SeenInTime, NewestOnly, InReplay, OnToken
<1> QED
  BY <1>5, <1>6, <1>7 DEF IInv

LEMMA SkipStep == ASSUME IInv, NEW s \in Symbols, Skip(s) PROVE IInv'
<1>1. db' = db
  BY DEF Skip, IInv, CycleInv, Synced, Types, TypeOK
<1>2. Types'
  BY <1>1 DEF Skip, IInv, Types, TypeOK, closed, world, reads, ledger, InReplay
<1>3. BookInv'
  BY <1>1, BookInvKept DEF Skip, IInv
<1>4. CycleInv'
  BY <1>1 DEF Skip, IInv, CycleInv, Synced, AtNew, ToFlatten, SeenInTime, NewestOnly, InReplay, OnToken
<1> QED
  BY <1>2, <1>3, <1>4 DEF IInv

LEMMA AnalyseStep ==
    ASSUME IInv, NEW s \in Symbols, NEW newest \in 1..NumBars, NEW forming \in BOOLEAN,
           Analyse(s, newest, forming)
    PROVE  IInv'
<1> DEFINE b == book[s]
           first == FirstNew(b, newest)
           f == [at |-> first, newest |-> newest, forming |-> forming, low |-> forming /\ fallen[s]]
<1>1. /\ db = book /\ s \in todo /\ newest \in 1..closed /\ newest <= closed
      /\ UNCHANGED <<world, db, book, reads, paused, seen, todo, crashes, ledger>>
      /\ pc = "next" /\ cur' = s /\ frame' = f
      /\ pc' = IF first <= newest THEN "open" ELSE "forming open"
  <2>1. /\ s \in todo /\ newest \in 1..closed
        /\ UNCHANGED <<world, db, book, reads, paused, seen, todo, crashes, ledger>>
        /\ pc = "next" /\ cur' = s /\ frame' = f
        /\ pc' = IF frame'.at <= newest THEN "open" ELSE "forming open"
    BY DEF Analyse
  <2>2. f.at = first
    OBVIOUS
  <2>3. db = book
    BY <2>1 DEF IInv, CycleInv, Synced
  <2>4. closed \in Nat
    BY DEF IInv, Types, TypeOK, closed
  <2>5. newest <= closed
    <3>1. \A n \in Nat : \A k \in 1..n : k <= n
      OBVIOUS
    <3> QED
      BY <2>1, <2>4, <3>1, Zenon
  <2> HIDE DEF f
  <2> QED
    BY <2>1, <2>2, <2>3, <2>5
<1>2. b.last_bar_ts \in {None} \cup 1..NumBars
  BY DEF IInv, Types, TypeOK, SymbolState
<1>3. first \in Nat /\ first >= 1 /\ (b.last_bar_ts = None \/ b.last_bar_ts < first)
  BY <1>2, BoundsAssumption DEF FirstNew
<1>4. f \in Frames /\ f.newest = newest /\ f.at = first
  <2>1. (forming /\ fallen[s]) \in BOOLEAN
    OBVIOUS
  <2> QED
    BY <1>3, <2>1, BoundsAssumption DEF Frames
<1> HIDE DEF f, first
<1>5. Types'
  <2>1. (pc \in {"open", "low", "close"} => frame.at \in 1..frame.newest)'
    <3>1. first <= newest => first \in 1..newest
      BY <1>3
    <3> QED
      BY <1>1, <1>4, <3>1, Zenon
  <2> QED
    BY <1>1, <1>4, <2>1 DEF IInv, Types, TypeOK, closed, world, reads, ledger, InReplay, Steps
<1>6. BookInv'
  BY <1>1, BookInvKept DEF IInv
<1>7. CycleInv'
  BY <1>1, <1>3, <1>4
  DEF IInv, CycleInv, Synced, AtNew, ToFlatten, SeenInTime, NewestOnly, EntryOfNewest, QueuedEntry, OnToken, InReplay
<1> QED
  BY <1>5, <1>6, <1>7 DEF IInv

-----------------------------------------------------------------------------
(***************************************************************************)
(* The steps of a token's analysis                                         *)
(***************************************************************************)

\* An order of the token under analysis, at any of its stages.
LEMMA AnalysisOrder ==
    ASSUME IInv, Ordered(cur), pc \in InReplay,
           UNCHANGED <<world, db, paused, seen, todo, cur, frame, crashes>>,
           pc' \in {"low", "close", "forming low", "save"},
           pc' \in {"low", "close"} => pc \in {"open", "low"}
    PROVE  IInv'
<1>1. cur \in Symbols /\ Types /\ BookInv
  BY DEF IInv, Types, TypeOK
<1>2. Types'
  BY DEF IInv, Ordered, OrderTypes, Types, TypeOK, closed, world, InReplay, Steps
<1>3. BookInv'
  BY <1>1, OrderKeeps
<1>4. /\ \A t \in Symbols \ {cur} : book'[t] = book[t]
      /\ book'[cur].last_bar_ts = book[cur].last_bar_ts /\ book'[cur].pending \in {book[cur].pending, None}
  BY DEF Ordered, Untouched, Keeps, Sells, Buys
<1>5. CycleInv'
  BY <1>1, <1>4
  DEF IInv, CycleInv, Synced, AtNew, ToFlatten, SeenInTime, NewestOnly, EntryOfNewest, QueuedEntry, OnToken, InReplay
<1> QED
  BY <1>2, <1>3, <1>5 DEF IInv

LEMMA ReplayOpenStep == ASSUME IInv, NEW outcome \in Outcome, ReplayOpen(outcome) PROVE IInv' /\ Ordered(cur)
<1>1. cur \in Symbols /\ frame.at \in 1..(NumBars + 1) /\ Types
  BY FrameBars DEF ReplayOpen, IInv, Types, TypeOK, InReplay
<1>2. Ordered(cur)
  BY <1>1, OnOpenOrdered DEF ReplayOpen
<1> QED
  BY <1>2, AnalysisOrder DEF ReplayOpen, InReplay

LEMMA ReplayLowStep ==
    ASSUME IInv, NEW hit \in BOOLEAN, NEW outcome \in Outcome, ReplayLow(hit, outcome)
    PROVE  IInv' /\ Ordered(cur)
<1>1. cur \in Symbols /\ Types
  BY DEF ReplayLow, IInv, Types, TypeOK, InReplay
<1>2. Ordered(cur)
  BY <1>1, OnLowOrdered DEF ReplayLow
<1> QED
  BY <1>2, AnalysisOrder DEF ReplayLow, InReplay

LEMMA FormingOpenStep == ASSUME IInv, NEW outcome \in Outcome, FormingOpen(outcome) PROVE IInv' /\ Ordered(cur)
<1>1. cur \in Symbols /\ frame.newest + 1 \in 1..(NumBars + 1) /\ Types
  BY FrameBars DEF FormingOpen, IInv, Types, TypeOK, InReplay
<1>2. Ordered(cur)
  BY <1>1, OnOpenOrdered, NoOrderOrdered DEF FormingOpen
<1> QED
  BY <1>2, AnalysisOrder DEF FormingOpen, InReplay

LEMMA FormingLowStep ==
    ASSUME IInv, NEW s \in Symbols, NEW outcome \in Outcome, FormingLow(s, outcome)
    PROVE  IInv' /\ Ordered(s)
<1>1. cur = s /\ Types
  BY DEF FormingLow, IInv
<1>2. Ordered(cur)
  BY <1>1, OnLowOrdered DEF FormingLow
<1> QED
  BY <1>1, <1>2, AnalysisOrder DEF FormingLow, InReplay

\* on_close: what it queues fits the position, is of this bar, and an entry only if the
\* bar is the newest and the cycle began unpaused.
LEMMA OnCloseQueues ==
    ASSUME NEW b \in SymbolState, NEW signal, NEW bar \in 1..NumBars, NEW newest
    PROVE  LET r == OnClose(b, signal, bar, newest) IN
           /\ r \in SymbolState /\ r.position = b.position /\ r.last_bar_ts = bar
           /\ r.pending # None =>
                /\ r.pending.signal_ts = bar
                /\ r.pending.side = "SELL" <=> Held(b)
                /\ QueuedEntry(r) => ~seen /\ bar = newest
<1> DEFINE d == Decision(b, signal, bar)
           q == IF d # None /\ d.side = "BUY" /\ ~MayEnter(bar, newest) THEN None ELSE d
           r == OnClose(b, signal, bar, newest)
<1>1. d = None \/ (d \in Action /\ d.signal_ts = bar /\ (d.side = "SELL" <=> Held(b)))
  BY DEF Decision, Action, Held
<1>2. q \in {None} \cup Action /\ (q # None => q = d)
  BY <1>1
<1>3. q # None /\ q.side = "BUY" => ~seen /\ bar = newest
  BY DEF MayEnter
<1>4. r = [b EXCEPT !.last_bar_ts = bar, !.pending = q]
  BY DEF OnClose
<1> HIDE DEF q, d
<1>5. r \in SymbolState /\ r.position = b.position /\ r.last_bar_ts = bar /\ r.pending = q
  BY <1>2, <1>4 DEF SymbolState
<1> HIDE DEF r
<1>6. /\ r.pending # None => r.pending.signal_ts = bar /\ (r.pending.side = "SELL" <=> Held(b))
      /\ QueuedEntry(r) => ~seen /\ bar = newest
  BY <1>1, <1>2, <1>3, <1>5 DEF QueuedEntry
<1> QED
  BY <1>5, <1>6 DEF r

LEMMA ReplayCloseStep == ASSUME IInv, ReplayClose PROVE IInv'
<1> DEFINE b == book[cur]
           r == OnClose(b, chart[frame.at][cur], frame.at, frame.newest)
<1>1. /\ cur \in Symbols /\ frame.at \in 1..NumBars /\ frame.at \in 1..frame.newest /\ frame.newest \in 0..NumBars
      /\ book \in [Symbols -> SymbolState] /\ b \in SymbolState /\ pc = "close" /\ frame \in Frames
  BY FrameBars DEF ReplayClose, IInv, Types, TypeOK, InReplay
<1>2. /\ r \in SymbolState /\ r.position = b.position /\ r.last_bar_ts = frame.at
      /\ r.pending # None =>
           /\ r.pending.signal_ts = frame.at
           /\ r.pending.side = "SELL" <=> Held(b)
           /\ QueuedEntry(r) => ~seen /\ frame.at = frame.newest
  BY <1>1, OnCloseQueues
<1>3. book' = [book EXCEPT ![cur] = r]
  BY DEF ReplayClose
<1> HIDE DEF r
<1>4. book' \in [Symbols -> SymbolState] /\ book'[cur] = r /\ \A t \in Symbols \ {cur} : book'[t] = book[t]
  BY <1>1, <1>2, <1>3
<1>5. /\ frame' \in Frames /\ frame'.at = frame.at + 1 /\ frame'.newest = frame.newest
      /\ pc' = (IF frame.at < frame.newest THEN "open" ELSE "forming open")
      /\ UNCHANGED <<world, db, reads, paused, seen, todo, cur, crashes, ledger>>
  <2>1. frame' = [frame EXCEPT !.at = @ + 1]
    BY DEF ReplayClose
  <2>2. frame' \in Frames /\ frame'.at = frame.at + 1 /\ frame'.newest = frame.newest
    BY <1>1, <2>1 DEF Frames
  <2> QED
    BY <2>2 DEF ReplayClose
<1>6. Types'
  <2>1. (pc \in {"open", "low", "close"} => frame.at \in 1..frame.newest)'
    <3>1. frame.at < frame.newest => frame.at + 1 \in 1..frame.newest
      BY <1>1
    <3> QED
      BY <1>5, <3>1, Zenon
  <2> QED
    BY <1>1, <1>4, <1>5, <2>1 DEF IInv, Types, TypeOK, closed, world, reads, ledger, InReplay, Steps
<1>7. QueueFitsPosition'
  <2>1. \A t \in Symbols : book'[t].pending # None => (book'[t].pending.side = "SELL" <=> Held(book'[t]))
    BY <1>2, <1>4 DEF IInv, BookInv, QueueFitsPosition, Held
  <2> QED
    BY <1>5, <2>1 DEF IInv, BookInv, QueueFitsPosition
<1>8. AllAsked'
  <2>1. r.last_bar_ts # None
    BY <1>1, <1>2, NoneAssumption
  <2>2. frame.at <= frame.at
    BY <1>1
  <2>3. Asked(r)
    BY <1>2, <2>1, <2>2 DEF Asked
  <2>4. \A t \in Symbols : Asked(book'[t])
    BY <1>4, <2>3 DEF IInv, BookInv, AllAsked
  <2> QED
    BY <1>5, <2>4 DEF IInv, BookInv, AllAsked, Asked
<1>9. NoTokenForgotten'
  BY <1>2, <1>4, <1>5 DEF IInv, BookInv, NoTokenForgotten, Held, ledger
<1>10. SpentSignals' /\ OneEntryPerSignal'
  <2> SUFFICES ASSUME crashes = 0, NEW t \in Symbols, NEW i \in 1..NumBars, entries[t][i] > 0
               PROVE  Bought(t, i)'
    BY <1>5 DEF IInv, BookInv, SpentSignals, OneEntryPerSignal, ledger
  <2>1. Bought(t, i)
    BY DEF IInv, BookInv, SpentSignals
  <2>2. CASE t # cur
    BY <1>4, <2>1, <2>2 DEF Bought
  <2>3. CASE t = cur
    <3>1. b.last_bar_ts \in 1..NumBars /\ i <= b.last_bar_ts /\ b.last_bar_ts < frame.at
      BY <1>1, <2>1, <2>3 DEF Bought, IInv, CycleInv, AtNew, SymbolState
    <3>2. i < frame.at /\ frame.at # None
      BY <1>1, <3>1, NoneAssumption
    <3> QED
      BY <1>1, <1>2, <1>4, <2>3, <3>2 DEF Bought
  <2> QED
    BY <2>2, <2>3
<1>11. LastEntry'
  <2>1. paused => ~QueuedEntry(r)
    BY <1>1, <1>2 DEF IInv, CycleInv, SeenInTime, QueuedEntry
  <2> QED
    BY <1>4, <1>5, <2>1 DEF IInv, BookInv, LastEntry, ledger
<1>12. BookInv'
  BY <1>7, <1>8, <1>9, <1>10, <1>11 DEF BookInv
<1>13. CycleInv'
  <2>1. Synced' /\ ToFlatten' /\ SeenInTime'
    BY <1>1, <1>4, <1>5 DEF IInv, CycleInv, Synced, ToFlatten, SeenInTime, OnToken, InReplay
  <2>2. AtNew'
    <3>1. frame.at < frame.at + 1
      BY <1>1
    <3> QED
      BY <1>1, <1>2, <1>4, <1>5, <3>1, Zenon DEF AtNew
  <2>3. NewestOnly'
    BY <1>1, <1>2, <1>4, <1>5 DEF NewestOnly, EntryOfNewest, QueuedEntry
  <2> QED
    BY <2>1, <2>2, <2>3 DEF CycleInv
<1> QED
  BY <1>6, <1>12, <1>13 DEF IInv

LEMMA AbortStep == ASSUME IInv, Abort PROVE IInv'
<1>1. Types'
  <2>1. outages' \in 0..MaxOutages
    BY BoundsAssumption DEF Abort, IInv, Types, TypeOK
  <2> QED
    BY <2>1 DEF Abort, IInv, Types, TypeOK, closed, world, ledger, InReplay, Steps
<1>2. BookInv'
  BY BookInvKept DEF Abort, IInv
<1>3. CycleInv'
  BY DEF Abort, IInv, CycleInv, Synced, AtNew, ToFlatten, SeenInTime, NewestOnly, InReplay, OnToken
<1> QED
  BY <1>1, <1>2, <1>3 DEF IInv

LEMMA SaveStep == ASSUME IInv, Save PROVE IInv'
<1>1. /\ cur \in Symbols /\ book \in [Symbols -> SymbolState] /\ db \in [Symbols -> SymbolState]
      /\ \A s \in Symbols \ {cur} : db[s] = book[s]
  BY DEF Save, IInv, Types, TypeOK, CycleInv, Synced, OnToken
<1>2. db' = book
  BY <1>1 DEF Save
<1>3. frame' \in Frames /\ frame'.newest = 0
  BY BoundsAssumption DEF Save, NoFrame, Frames
<1>4. Types'
  <2>1. closed \in Nat
    BY DEF IInv, Types, TypeOK, closed
  <2> QED
    BY <1>1, <1>2, <1>3, <2>1 DEF Save, IInv, Types, TypeOK, closed, world, reads, ledger, InReplay, Steps
<1>5. BookInv'
  BY <1>2 DEF Save, IInv, BookInv, QueueFitsPosition, AllAsked, Asked, NoTokenForgotten, SpentSignals,
     Bought, OneEntryPerSignal, LastEntry, QueuedEntry, Held, ledger
<1>6. CycleInv'
  BY <1>2 DEF Save, IInv, CycleInv, Synced, AtNew, ToFlatten, SeenInTime, NewestOnly, InReplay, OnToken
<1> QED
  BY <1>4, <1>5, <1>6 DEF IInv

-----------------------------------------------------------------------------
(***************************************************************************)
(* The end of the cycle                                                    *)
(***************************************************************************)

LEMMA AnalysedStep == ASSUME IInv, Analysed PROVE IInv'
<1>1. Types'
  BY DEF Analysed, IInv, Types, TypeOK, closed, world, reads, ledger, InReplay, Steps
<1>2. BookInv'
  BY BookInvKept DEF Analysed, IInv
<1>3. CycleInv'
  BY DEF Analysed, IInv, CycleInv, Synced, AtNew, ToFlatten, SeenInTime, NewestOnly, InReplay, OnToken
<1> QED
  BY <1>1, <1>2, <1>3 DEF IInv

LEMMA GovernStep == ASSUME IInv, NEW drawdown \in BOOLEAN, Govern(drawdown) PROVE IInv'
<1>1. Types'
  BY DEF Govern, IInv, Types, TypeOK, closed, world, reads, ledger, InReplay, Steps
<1>2. BookInv'
  BY BookInvKept DEF Govern, IInv
<1>3. CycleInv'
  BY DEF Govern, IInv, CycleInv, Synced, AtNew, ToFlatten, SeenInTime, NewestOnly, InReplay, OnToken
<1> QED
  BY <1>1, <1>2, <1>3 DEF IInv

LEMMA FlattenStep ==
    ASSUME IInv, NEW s \in Symbols, NEW outcome \in Outcome, Flatten(s, outcome)
    PROVE  IInv' /\ Ordered(s) /\ ~Buys(s)
<1>1. Held(book[s]) /\ Types /\ BookInv
  BY DEF Flatten, IInv, CycleInv, ToFlatten
<1>2. Ordered(s)
  BY <1>1, FlattenOrdered DEF Flatten
<1>3. Types'
  BY <1>2 DEF Flatten, IInv, Ordered, OrderTypes, Types, TypeOK, closed, world, InReplay, Steps
<1>4. BookInv'
  BY <1>1, <1>2, OrderKeeps DEF Flatten
<1>5. \A t \in Symbols \ {s} : book'[t] = book[t]
  BY <1>2 DEF Ordered, Untouched
<1>6. CycleInv'
  <2>1. todo \subseteq Symbols
    BY <1>1 DEF Types, TypeOK
  <2> QED
    BY <1>5, <2>1 DEF Flatten, IInv, CycleInv, Synced, AtNew, ToFlatten, SeenInTime, NewestOnly, InReplay, OnToken
<1> QED
  BY <1>1, <1>2, <1>3, <1>4, <1>6 DEF IInv, Buys

LEMMA FlattenFailsStep == ASSUME IInv, FlattenFails PROVE IInv'
<1>1. Types'
  <2>1. outages' \in 0..MaxOutages
    <3>1. outages < MaxOutages /\ outages' = outages + 1
      BY DEF FlattenFails
    <3>2. outages \in 0..MaxOutages
      BY DEF IInv, Types, TypeOK
    <3> QED
      BY <3>1, <3>2, BoundsAssumption
  <2> QED
    BY <2>1 DEF FlattenFails, IInv, Types, TypeOK, closed, world, ledger, InReplay, Steps
<1>2. BookInv'
  BY BookInvKept DEF FlattenFails, IInv
<1>3. CycleInv'
  BY DEF FlattenFails, IInv, CycleInv, Synced, AtNew, ToFlatten, SeenInTime, NewestOnly, InReplay, OnToken
<1> QED
  BY <1>1, <1>2, <1>3 DEF IInv

LEMMA PauseStep == ASSUME IInv, Pause PROVE IInv'
<1>1. Types'
  BY DEF Pause, IInv, Types, TypeOK, closed, world, reads, InReplay, Steps
<1>2. BookInv'
  BY DEF Pause, IInv, BookInv, QueueFitsPosition, AllAsked, Asked, NoTokenForgotten, SpentSignals,
     Bought, OneEntryPerSignal, LastEntry, Held
<1>3. CycleInv'
  BY DEF Pause, IInv, CycleInv, Synced, AtNew, ToFlatten, SeenInTime, NewestOnly, InReplay, OnToken
<1> QED
  BY <1>1, <1>2, <1>3 DEF IInv

LEMMA SaveAllStep == ASSUME IInv, SaveAll PROVE IInv'
<1>1. Types'
  BY DEF SaveAll, IInv, Types, TypeOK, closed, world, reads, ledger, InReplay, Steps
<1>2. BookInv'
  BY DEF SaveAll, IInv, BookInv, QueueFitsPosition, AllAsked, Asked, NoTokenForgotten, SpentSignals,
     Bought, OneEntryPerSignal, LastEntry, QueuedEntry, Held, ledger
<1>3. CycleInv'
  BY DEF SaveAll, IInv, CycleInv, Synced, AtNew, ToFlatten, SeenInTime, NewestOnly, InReplay, OnToken
<1> QED
  BY <1>1, <1>2, <1>3 DEF IInv

LEMMA ValueStep == ASSUME IInv, NEW failed \in SUBSET Symbols, ValueBook(failed) PROVE IInv'
<1>1. Types'
  <2>1. outages' \in 0..MaxOutages
    BY OutageTyped DEF ValueBook, IInv
  <2>2. cache' \in [Symbols -> Nat \cup {None}]
    <3>1. \A s \in Symbols : Balance(s, failed) \in Nat
      BY BalanceTyped DEF IInv
    <3> QED
      BY <3>1 DEF ValueBook
  <2> QED
    BY <2>1, <2>2 DEF ValueBook, IInv, Types, TypeOK, closed, world, ledger, InReplay, Steps
<1>2. BookInv'
  BY BookInvKept DEF ValueBook, IInv
<1>3. CycleInv'
  BY DEF ValueBook, IInv, CycleInv, Synced, AtNew, ToFlatten, SeenInTime, NewestOnly, InReplay, OnToken
<1> QED
  BY <1>1, <1>2, <1>3 DEF IInv

-----------------------------------------------------------------------------
(***************************************************************************)
(* The theorems                                                            *)
(***************************************************************************)

LEMMA IInvInit == Init => IInv
<1> SUFFICES ASSUME Init PROVE IInv
  OBVIOUS
<1>1. db \in [Symbols -> SymbolState] /\ \A s \in Symbols : db[s].pending = None /\ ~Held(db[s])
  BY DEF Init, SymbolState, Held
<1>2. /\ wallet \in [Symbols -> Nat] /\ \A s \in Symbols : wallet[s] = 0
      /\ entries \in [Symbols -> [1..NumBars -> Nat]]
      /\ \A s \in Symbols, i \in 1..NumBars : entries[s][i] = 0
  BY DEF Init
<1>3. Types
  <2>1. frame \in Frames /\ frame.newest = 0
    BY BoundsAssumption DEF Init, NoFrame, Frames
  <2>2. chart \in Seq(Said) /\ closed = 0
    BY DEF Init, closed
  <2>3. wallet \in [Symbols -> Nat \cup {None}] /\ wallet \in [Symbols -> Int]
    BY <1>2
  <2>4. /\ fallen \in [Symbols -> BOOLEAN] /\ db \in [Symbols -> SymbolState]
        /\ book \in [Symbols -> SymbolState] /\ wallet \in [Symbols -> Nat]
        /\ astray \in [Symbols -> Int] /\ cache \in [Symbols -> Nat \cup {None}]
    BY <1>1, <1>2, <2>3 DEF Init
  <2> QED
    <3>1. 0 <= NumBars /\ 0 <= 0 /\ 0 \in 0..MaxCrashes /\ 0 \in 0..MaxOutages
      BY BoundsAssumption
    <3>2. TypeOK
      BY <2>1, <2>2, <2>4, <3>1 DEF Init, TypeOK, Steps, InReplay
    <3> QED
      BY <1>2, <2>1, <3>2 DEF Init, Types
<1>4. BookInv
  BY <1>1, <1>2 DEF Init, BookInv, QueueFitsPosition, AllAsked, Asked, NoTokenForgotten, SpentSignals,
     OneEntryPerSignal, LastEntry
<1>5. CycleInv
  BY DEF Init, CycleInv, Synced, AtNew, ToFlatten, SeenInTime, NewestOnly, InReplay, OnToken
<1> QED
  BY <1>3, <1>4, <1>5 DEF IInv

LEMMA IInvNext == IInv /\ [Next]_vars => IInv'
<1> SUFFICES ASSUME IInv, [Next]_vars PROVE IInv'
  OBVIOUS
<1>1. CASE CycleStep
  BY <1>1, StartStep, SkipStep, AnalyseStep, ReplayOpenStep, FormingOpenStep, ReplayLowStep,
     FormingLowStep, FlattenStep, GovernStep, ValueStep, ReplayCloseStep, AbortStep, SaveStep,
     AnalysedStep, FlattenFailsStep, PauseStep, SaveAllStep
  DEF CycleStep
<1>2. CASE \E failed \in SUBSET Symbols : Crash(failed)
  BY <1>2, CrashStep
<1> QED
  BY <1>1, <1>2, WorldStep, DriftStep, ResumeStep DEF Next

\* Types of the live loop (perform_analysis, run_symbol).
THEOREM LiveTyped == Spec => []TypeOK
<1>1. IInv => TypeOK
  BY DEF IInv, Types
<1> QED
  BY <1>1, IInvInit, IInvNext, PTL DEF Spec

\* Up to the first crash every lot the bot's fills account for is in its book or was
\* written off, whatever orders and analyses fail (on_open, on_low, LiveExecutor.sell).
THEOREM TokensAreKept == Spec => []NoTokenForgotten
<1>1. IInv => NoTokenForgotten
  BY DEF IInv, BookInv
<1> QED
  BY <1>1, IInvInit, IInvNext, PTL DEF Spec

\* A queued exit belongs to a position and a queued entry to none, through crashes.
THEOREM QueueFits == Spec => []QueueFitsPosition
<1>1. IInv => QueueFitsPosition
  BY DEF IInv, BookInv
<1> QED
  BY <1>1, IInvInit, IInvNext, PTL DEF Spec

\* Up to the first crash a signal buys once, however often its bar is fetched or its
\* cycle fails (run_symbol).
THEOREM SignalsBuyOnce == Spec => []OneEntryPerSignal
<1>1. IInv => OneEntryPerSignal
  BY DEF IInv, BookInv
<1> QED
  BY <1>1, IInvInit, IInvNext, PTL DEF Spec

\* Up to the first crash a tripped kill switch lets at most the queued entry of a token
\* through (check_kill_switch, the live book's filter).
THEOREM SwitchHolds == Spec => []PauseHolds
<1>1. IInv => PauseHolds
  BY DEF IInv, BookInv, LastEntry, PauseHolds
<1> QED
  BY <1>1, IInvInit, IInvNext, PTL DEF Spec

\* Which steps buy: the opens of the token under analysis.
LEMMA BuysAtOpens ==
    ASSUME IInv, [Next]_vars, NEW s \in Symbols, entries'[s] # entries[s]
    PROVE  pc \in InReplay /\ s = cur /\ QueuedEntry(book[s])
<1>1. ASSUME Ordered(cur), pc \in InReplay PROVE s = cur /\ QueuedEntry(book[s])
  BY <1>1 DEF Ordered, Untouched, Keeps, Sells, Buys
<1>2. ASSUME NEW outcome \in Outcome,
             \/ ReplayOpen(outcome) \/ FormingOpen(outcome)
             \/ \E hit \in BOOLEAN : ReplayLow(hit, outcome)
             \/ FormingLow(cur, outcome) /\ cur \in Symbols
      PROVE  pc \in InReplay /\ s = cur /\ QueuedEntry(book[s])
  <2>1. pc \in InReplay
    BY <1>2 DEF ReplayOpen, FormingOpen, ReplayLow, FormingLow, InReplay
  <2>2. Ordered(cur)
    BY <1>2, ReplayOpenStep, FormingOpenStep, ReplayLowStep, FormingLowStep
  <2> QED
    BY <1>1, <2>1, <2>2
<1>3. ASSUME NEW t \in Symbols, NEW outcome \in Outcome, Flatten(t, outcome) PROVE entries'[s] = entries[s]
  BY <1>3, FlattenStep DEF Ordered, Untouched, Keeps, Sells
<1>4. ASSUME NEW t \in Symbols, NEW outcome \in Outcome, FormingLow(t, outcome) PROVE t = cur
  BY <1>4 DEF FormingLow
<1>5. ASSUME \/ \E dust \in SUBSET Symbols : StartCycle(dust)
             \/ \E t \in Symbols : Skip(t)
             \/ \E t \in Symbols, newest \in 1..NumBars, forming \in BOOLEAN : Analyse(t, newest, forming)
             \/ \E drawdown \in BOOLEAN : Govern(drawdown)
             \/ \E failed \in SUBSET Symbols : ValueBook(failed) \/ Crash(failed)
             \/ ReplayClose \/ Abort \/ Save \/ Analysed \/ FlattenFails \/ Pause \/ SaveAll
             \/ \E said \in Said : BarCloses(said)
             \/ \E t \in Symbols : LowFalls(t) \/ Expire(t) \/ Drift(t)
             \/ Resume \/ UNCHANGED vars
      PROVE  entries' = entries
  BY <1>5 DEF StartCycle, Skip, Analyse, Govern, ValueBook, Crash, ReplayClose, Abort, Save, Analysed,
     FlattenFails, Pause, SaveAll, BarCloses, LowFalls, Expire, Drift, Resume, vars, ledger
<1> QED
  BY <1>2, <1>3, <1>4, <1>5 DEF Next, CycleStep

\* An entry is bought for the newest bar of the window or for what the cycle began with,
\* never for a bar that is only replayed (run_symbol, may_enter).
THEOREM ReplaysDoNotEnter == Spec => ReplayNeverEnters
<1>1. IInv /\ [Next]_vars =>
        [\A s \in Symbols : entries'[s] # entries[s] =>
            \/ book[s].pending.signal_ts = frame.newest
            \/ book[s].pending = db[s].pending]_vars
  BY BuysAtOpens DEF IInv, CycleInv, NewestOnly, EntryOfNewest
<1> QED
  BY <1>1, IInvInit, IInvNext, PTL DEF Spec, ReplayNeverEnters

=============================================================================
