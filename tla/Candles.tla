------------------------------ MODULE Candles ------------------------------
(***************************************************************************)
(* One series of the candle store (history.py): the bot's window and a     *)
(* backfill from the command line fetch what is missing from the exchange, *)
(* page by page, at the same time and without a lock.                      *)
(*                                                                         *)
(* Time counts periods and a bar is its open time, so the bar at `now` is  *)
(* still forming.  What an exchange returns for a closed bar does not      *)
(* change, so the pages of one range are read in one step; another process *)
(* may write between the ranges.                                           *)
(***************************************************************************)
EXTENDS Integers, Sequences, FiniteSets
INSTANCE FiniteSetsExt

CONSTANTS
    Bot, Backfiller,   \* the two processes
    Wanted,            \* bars each of them asks for: the lookback, the days
    Histories,         \* the sets of bars the exchange may have
    Stores,            \* what may be stored at first: [bars, partial]
    PageLimit,         \* backfill.page_limit
    MaxNow,            \* bound on the clock
    None

RepairBars == 2        \* _REPAIR_BARS
StalePeriods == 3      \* window_pair

Processes == {Bot, Backfiller}

\* A store at first has no hole, and unfinished bars at its end only.  An exchange may
\* have any bars.
Settings ==
    /\ Wanted \in [Processes -> Nat \ {0}] /\ PageLimit \in Nat \ {0} /\ MaxNow \in Nat \ {0}
    /\ \A h \in Histories : h \subseteq Nat
    /\ \A s \in Stores :
          /\ s.bars \subseteq 0..(MaxNow - 1) /\ \A a, c \in s.bars : a..c \subseteq s.bars
          /\ s.partial \subseteq s.bars
          /\ \A b \in s.partial, c \in s.bars : b >= c - RepairBars

VARIABLES
    has,      \* the bars the exchange has, of all times
    now,
    stored,   \* bars in the store
    partial,  \* those stored while they were still forming (older versions did)
    op,       \* per process: [at, until, ranges]
    served,   \* the frame the bot's last window returned
    jumped    \* history: bars passed over by writes that did not meet the stored ones

candlevars == <<has, now, stored, partial, op, served, jumped>>

Idle == [at |-> "idle", until |-> 0, ranges |-> <<>>]

Init ==
    /\ has \in Histories
    /\ \E s \in Stores : stored = s.bars \cap has /\ partial = s.partial \cap has
    /\ now = Max(stored \cup partial \cup {0}) + 1
    /\ op = [p \in Processes |-> Idle]
    /\ served = None /\ jumped = {}

-----------------------------------------------------------------------------
(***************************************************************************)
(* Paging (_fetch_range, _first_page_with_data)                            *)
(***************************************************************************)

\* The exchange returns the bars of one page from `since` on.
Page(since) == {b \in has : since <= b /\ b < since + PageLimit /\ b <= now}

\* The earliest bar, by a binary search on `since` that takes emptiness to be
\* monotone in it (its `found` is always the first bar of the page at its `hi`).
NoData == -1
FirstWithData(low, high) ==
    LET last == Max({high - PageLimit, low})
        Search[w \in (low..last) \X (low..last)] ==
          LET mid == (w[1] + w[2]) \div 2 IN
          IF w[1] >= w[2] THEN Min(Page(w[2]))
          ELSE IF Page(mid) = {} THEN Search[<<mid + 1, w[2]>>] ELSE Search[<<w[1], mid>>]
    IN IF Page(last) = {} THEN NoData ELSE Search[<<low, last>>]

\* The closed bars of since..until-1; the cursor goes on after the newest bar of a
\* page (and a cursor that skips one more).
FetchSkipping(since, until) == {b \in Page(since) : b < until /\ b > since}
Fetch(since, until) ==
    LET From[c \in 0..(until + PageLimit)] ==
          IF c >= until THEN {}
          ELSE LET page == Page(c) IN
               IF page # {} THEN {b \in page : b < until} \cup From[Max(page) + 1]
               ELSE LET start == FirstWithData(c, until) IN
                    IF start = NoData THEN {} ELSE From[start]
    IN From[since]

-----------------------------------------------------------------------------
(***************************************************************************)
(* update_pair, window_pair, backfill                                      *)
(***************************************************************************)

\* The older part that is missing, then from two bars before the newest stored
\* one, but not from before the wanted start (and from after the newest one).
RangesNoRepair(start, until) ==
    IF stored = {} THEN <<<<start, until>>>>
    ELSE <<<<Max({Max(stored) + 1, start}), until>>>>
Ranges(start, until) ==
    LET newer == <<Max({Max(stored) - RepairBars, start}), until>> IN
    IF stored = {} THEN <<<<start, until>>>>
    ELSE IF start < Min(stored) THEN <<<<start, Min(stored)>>, newer>>
    ELSE <<newer>>

Begin(p) ==
    /\ op[p] = Idle /\ now > Wanted[p]
    /\ op' = [op EXCEPT ![p] = [at |-> "fetch", until |-> now, ranges |-> Ranges(now - Wanted[p], now)]]
    /\ UNCHANGED <<has, now, stored, partial, served, jumped>>

\* Bars between the stored ones and a written range that neither of them covers.
Missed(since, until) ==
    IF stored = {} THEN {}
    ELSE ((Max(stored) + 1)..(since - 1)) \cup (until..(Min(stored) - 1))

\* One range is fetched and stored, replacing what was there.
FetchRange(p) ==
    /\ op[p].at = "fetch"
    /\ LET since == Head(op[p].ranges)[1]
           until == Head(op[p].ranges)[2]
           bars == Fetch(since, until)
           rest == Tail(op[p].ranges) IN
       /\ stored' = stored \cup bars
       /\ partial' = partial \ bars
       /\ jumped' = jumped \cup Missed(since, until)
       /\ op' = [op EXCEPT ![p] = IF rest # <<>> THEN [@ EXCEPT !.ranges = rest]
                                  ELSE IF p = Bot THEN [@ EXCEPT !.at = "serve", !.ranges = <<>>]
                                  ELSE Idle]
    /\ UNCHANGED <<has, now, served>>

\* A page fails: nothing of its range is stored.  The bot falls back on the store,
\* the backfill reports the error; either process may die instead.
FetchFails(p) ==
    /\ op[p].at = "fetch"
    /\ \/ p = Bot /\ op' = [op EXCEPT ![p] = [@ EXCEPT !.at = "fallback", !.ranges = <<>>]]
       \/ op' = [op EXCEPT ![p] = Idle]
    /\ UNCHANGED <<has, now, stored, partial, served, jumped>>

\* The newest `lookback` stored bars before the forming one; none if the newest of
\* them closed more than three periods ago.
Newest(bars, n) == {b \in bars : Cardinality({c \in bars : c > b}) < n}
Serve ==
    /\ op[Bot].at \in {"serve", "fallback"}
    /\ LET frame == Newest({b \in stored : b < op[Bot].until}, Wanted[Bot]) IN
       served' = IF frame = {} \/ op[Bot].until - (Max(frame) + 1) >= StalePeriods THEN None
                 ELSE [bars |-> frame, until |-> op[Bot].until,
                       partial |-> frame \cap partial, fresh |-> op[Bot].at = "serve"]
    /\ op' = [op EXCEPT ![Bot] = Idle]
    /\ UNCHANGED <<has, now, stored, partial, jumped>>

Tick ==
    /\ now < MaxNow /\ now' = now + 1
    /\ UNCHANGED <<has, stored, partial, op, served, jumped>>

Next == Tick \/ Serve \/ \E p \in Processes : Begin(p) \/ FetchRange(p) \/ FetchFails(p)

-----------------------------------------------------------------------------
(***************************************************************************)
(* Properties                                                              *)
(***************************************************************************)

TypeOK ==
    /\ has \in Histories /\ now \in 0..MaxNow
    /\ stored \subseteq has /\ partial \subseteq stored
    /\ \A p \in Processes : op[p].at \in {"idle", "fetch", "serve", "fallback"}
    /\ \A b \in stored : b < now

Shortest == Min({Wanted[p] : p \in Processes})

\* "A page starting at since holds data when the history begins before since +
\* page_limit bars, so emptiness is monotone in since": late listings and one outage of
\* a page or more agree with the search, two such gaps do not.
OneLongGap(bars) ==
    \A x, y \in 0..MaxNow :
        /\ x <= y /\ y + PageLimit <= MaxNow
        /\ bars \cap x..(x + PageLimit - 1) = {}
        /\ bars \cap y..(y + PageLimit - 1) = {}
        => bars \cap x..y = {}

\* What the bot evaluates is the exchange's series: up to the newest bar of its
\* frame no bar of the shortest window anyone keeps up is missing (after a failed
\* update, but those a jump passed over), and after a successful update none of
\* those was stored unfinished, whatever failed, was interrupted or ran at the
\* same time before, on an exchange with one long gap (update_pair, window_pair).
ServedIsTrue ==
    OneLongGap(has) /\ served # None =>
        \A b \in has \cap (served.until - Shortest)..Max(served.bars) :
            /\ b >= Min(served.bars) =>
                  b \in served.bars \/ (~served.fresh /\ b \in jumped)
            /\ served.fresh => b \notin served.partial

\* The store has no hole inside but where the exchange has none, or where the
\* updates themselves jumped: every page is read and no two of them leave a bar
\* out, on an exchange with one long gap (_fetch_range, _first_page_with_data).
HolesAreJumps ==
    OneLongGap(has) /\ stored # {} => has \cap (Min(stored)..Max(stored)) \subseteq stored \cup jumped

=============================================================================
