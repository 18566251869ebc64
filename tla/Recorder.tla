------------------------------ MODULE Recorder ------------------------------
(***************************************************************************)
(* The sentiment recorder (sentiment.py) and the mention counts strategies *)
(* read from it: a few feeds polled one after the other, archives imported *)
(* from the command line into the same store, and the seconds both are     *)
(* taken to cover.                                                         *)
(*                                                                         *)
(* One subreddit.  Time counts the seconds of the store; a feed has at most *)
(* one item a second, so an item is its feed and its second, and every     *)
(* item mentions the symbol.                                               *)
(***************************************************************************)
EXTENDS Integers, Sequences, FiniteSets
INSTANCE FiniteSetsExt

CONSTANTS
    Feeds,        \* the feeds of the subreddit, in the order they are polled
    Postings,     \* what may be posted: seconds per feed
    PageSize,     \* items in a feed's answer
    Interval,     \* request_interval_seconds
    MaxBackoff,   \* _MAX_BACKOFF
    Resets,       \* seconds the rate limit headers may ask to wait
    Window,       \* seconds a rule counts over
    Imports,      \* archives that may be imported: [from, to, bounded]
    MaxClock,     \* bound on the clock
    MaxRestarts   \* bound on restarts of the process

FeedNames == {Feeds[i] : i \in DOMAIN Feeds}

\* Seconds count from 1, a page has an item and the feeds are some.
Settings ==
    /\ Feeds \in Seq(FeedNames) /\ Feeds # <<>>
    /\ Postings \subseteq [FeedNames -> SUBSET (Nat \ {0})]
    /\ PageSize \in Nat \ {0} /\ Interval \in Nat /\ MaxBackoff \in Nat /\ Resets \subseteq Nat
    /\ Window \in Nat /\ MaxClock \in Nat \ {0} /\ MaxRestarts \in Nat
    /\ \A a \in Imports : a.from \in Nat \ {0} /\ a.to \in Nat

VARIABLES
    posted,       \* all that is ever posted, per feed
    clock,
    stored,       \* table items, per feed
    fetches,      \* the rows of table fetches with status 200 (no other is read)
    rows,         \* table coverage: <<first, last>> second of an import
    cursor, backoff,   \* _cursor, _backoff
    wait,              \* seconds until _next_allowed
    restarts           \* restarts so far, for the bound

recordervars == <<posted, clock, stored, fetches, rows, cursor, backoff, wait, restarts>>

Init ==
    /\ posted \in Postings
    /\ clock = 1
    /\ stored = [f \in FeedNames |-> {}]
    /\ fetches = {} /\ rows = {}
    /\ cursor = 1 /\ backoff = 0 /\ wait = 0 /\ restarts = 0

-----------------------------------------------------------------------------
(***************************************************************************)
(* Actions                                                                 *)
(***************************************************************************)

Newest(items, n) == {b \in items : Cardinality({c \in items : c > b}) < n}

\* A batch none of whose items is known, after an earlier fetch: items between the
\* two may be missing.
Gap(feed, items) ==
    /\ \E r \in fetches : r.feed = feed
    /\ items # {}
    /\ items \cap stored[feed] = {}

\* _store of a status 200; an answer that is no feed stores no item.
StoreBatch(feed, items, parsed) ==
    /\ fetches' = fetches \cup
         {[feed |-> feed, at |-> clock, parsed |-> parsed, gap |-> Gap(feed, items)]}
    /\ stored' = [stored EXCEPT ![feed] = @ \cup items]

Advance == cursor' = (cursor % Len(Feeds)) + 1

\* record: the request for the feed at the cursor.
Record ==
    /\ wait = 0
    /\ LET feed == Feeds[cursor] IN
       \E reset \in Resets \cup {0} :
         \/ \* no answer
            /\ Advance /\ wait' = Interval
            /\ UNCHANGED <<backoff, fetches, stored>>
         \/ \* 403 or 429: the same feed again, later each time
            /\ backoff' = Min({Max({backoff * 2, Interval}), MaxBackoff})
            /\ wait' = Max({backoff', reset})
            /\ UNCHANGED <<cursor, fetches, stored>>
         \/ \* any other answer; with nothing remaining the reset is waited for
            /\ Advance /\ backoff' = 0
            /\ wait' = Max({Interval, IF reset = 0 THEN 0 ELSE reset + 1})
            /\ \/ UNCHANGED <<fetches, stored>>
               \/ StoreBatch(feed, {}, FALSE)
               \/ StoreBatch(feed, Newest({b \in posted[feed] : b <= clock}, PageSize), TRUE)
    /\ UNCHANGED <<posted, clock, rows, restarts>>

\* The rate limit state is the process's own.
Restart ==
    /\ restarts < MaxRestarts /\ restarts' = restarts + 1
    /\ cursor' = 1 /\ backoff' = 0 /\ wait' = 0
    /\ UNCHANGED <<posted, clock, stored, fetches, rows>>

\* import_archive: all items of the past seconds of the archive.  A subreddit with
\* items in it is covered over the bounds given, else from its first to its last.
Import(a) ==
    /\ a.to <= clock
    /\ LET kept == [f \in FeedNames |-> posted[f] \cap (a.from)..(a.to)]
           all == UNION {kept[f] : f \in FeedNames} IN
       /\ stored' = [f \in FeedNames |-> stored[f] \cup kept[f]]
       /\ rows' = IF all = {} THEN rows
                  ELSE rows \cup {IF a.bounded THEN <<a.from, a.to>> ELSE <<Min(all), Max(all)>>}
    /\ UNCHANGED <<posted, clock, fetches, cursor, backoff, wait, restarts>>

Tick ==
    /\ clock < MaxClock /\ clock' = clock + 1
    /\ wait' = Max({wait - 1, 0})
    /\ UNCHANGED <<posted, stored, fetches, rows, cursor, backoff, restarts>>

Next == Tick \/ Record \/ Restart \/ \E a \in Imports : Import(a)

-----------------------------------------------------------------------------
(***************************************************************************)
(* Coverage and features                                                   *)
(***************************************************************************)

\* From the first status 200 of either feed to now.
LiveStart == Min({r.at : r \in fetches})
LiveSpan == IF fetches = {} THEN {} ELSE {<<LiveStart, clock>>}

\* Ranges that overlap or touch join (and, wrongly, ranges a second apart).
JoinsApart(s, t) == t[1] <= s[2] + 2
Joins(s, t) == t[1] <= s[2] + 1
\* The end of the merged range that starts with `s`.
MergedEnd(spans, s) ==
    LET Reach[k \in 0..Cardinality(spans)] ==
          IF k = 0 THEN s[2]
          ELSE Max({Reach[k - 1]} \cup {t[2] : t \in {u \in spans : u[1] >= s[1] /\ Joins(<<s[1], Reach[k - 1]>>, u)}})
    IN Reach[Cardinality(spans)]
coverage == LET spans == rows \cup LiveSpan IN {<<s[1], MergedEnd(spans, s)>> : s \in spans}

\* Whether every second of (t - Window, t] is in one of the merged ranges.
Covered(t) == \E s \in coverage : s[1] <= t - Window + 1 /\ s[2] >= t

InWindow(items, t) == {b \in items : t - Window < b /\ b <= t}

\* The mentions features() gives for a bar closed at t, when it is covered.
Mentions(t) == [f \in FeedNames |-> InWindow(stored[f], t)]

-----------------------------------------------------------------------------
(***************************************************************************)
(* Properties                                                              *)
(***************************************************************************)

TypeOK ==
    /\ posted \in Postings /\ clock \in 1..MaxClock
    /\ \A f \in FeedNames : stored[f] \subseteq posted[f] \cap (1..clock)
    /\ \A r \in fetches : r.feed \in FeedNames /\ r.at \in 1..clock /\ {r.parsed, r.gap} \subseteq BOOLEAN
    /\ \A r \in rows : r[1] \in 1..clock /\ r[2] \in r[1]..clock
    /\ cursor \in 1..Len(Feeds) /\ backoff \in 0..MaxBackoff /\ wait \in Nat /\ restarts \in 0..MaxRestarts

Imported(b) == \E r \in rows : r[1] <= b /\ b <= r[2]

\* The live recorder answers for second b of a feed: it read the feed at or before
\* b and again after it, the first time without noticing a gap, and no import
\* brought later items that would hide one.
Vouched(feed, b) ==
    LET read == {r \in fetches : r.feed = feed /\ r.parsed} IN
    /\ \E r \in read : r.at <= b
    /\ LET later == {r \in read : r.at >= b} IN
       /\ later # {}
       /\ \A r \in later : r.at = Min({q.at : q \in later}) => ~r.gap
    /\ \A s \in rows : s[1] <= b

\* What the count of a covered window lacks was posted in a second that only the
\* recorder covers and does not answer for.  However requests failed, were limited or
\* repeated after a restart, and whatever was imported meanwhile, no other second
\* passes for covered, and no import loses an item (_store, _merge, coverage, features).
CoveredIsCounted ==
    \A t \in 1..clock, f \in FeedNames :
        Covered(t) => \A b \in InWindow(posted[f], t) \ Mentions(t)[f] :
            fetches # {} /\ LiveStart <= b /\ ~Imported(b) /\ ~Vouched(f, b)

=============================================================================
