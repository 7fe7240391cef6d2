------------------------------ MODULE ReadApi ------------------------------
(***************************************************************************)
(* The read API (dashboard/functions/api/handler.py) beside the table that *)
(* ingest and the aggregator keep changing.  One action is one DynamoDB    *)
(* call; a behaviour serves one client, and follows the items the client   *)
(* reads.  The client asks for                                             *)
(*   - a timeline or a breakdown: _run_parallel reads one bucket of        *)
(*     counters, or one daily summary, for every hour or day back from     *)
(*     now, and a read that fails leaves a gap;                            *)
(*   - the events of today, page by page, each page a request of its own   *)
(*     whose cursor is the next_before of the one before;                  *)
(*   - the events of a session, one request that follows its pages.        *)
(*                                                                         *)
(* No read asks for consistency (handler.py 138-298, 408): it is sure to   *)
(* find what had reached every replica when the client asked and may find  *)
(* whatever is stored, and a later read may find less than an earlier one. *)
(* What reaches the last replica afterwards only takes choices away.       *)
(*                                                                         *)
(* The pool has ten threads: the model lets all reads run at once.  Time   *)
(* is counted in hours; an event's place in its partition is its timestamp *)
(* and then its key.                                                       *)
(***************************************************************************)
EXTENDS Integers, Sequences, FiniteSets

CONSTANTS
    Event,         \* stored events, all of one session
    Ts,            \* [Event -> Nat], the timestamp
    Rank,          \* [Event -> Nat], the rest of the sort key
    HourOf,        \* [Event -> Hour]
    Fits,          \* the events whose rows StoredEvent accepts
    Value,         \* what a bucket counts, apart
    ValueOf,       \* [Event -> Value]
    Shown,         \* the values the breakdown's response has fields for
    HoursPerDay,
    MaxHour,       \* bound: the last hour of a behaviour
    Window,        \* hours, and days, a window goes back
    Limits,        \* what EventsParams.limit may be
    PageSize,      \* items in one page of a query
    MaxPuts,       \* bound: summaries written of one day
    MaxFails       \* bound: reads that fail

Hour == 0 .. MaxHour
Day  == 0 .. MaxHour \div HoursPerDay

ASSUME RowAssumption ==
    /\ Ts \in [Event -> Nat]
    /\ Rank \in [Event -> Nat]
    /\ HourOf \in [Event -> Hour]
    /\ ValueOf \in [Event -> Value]
    /\ Fits \subseteq Event /\ Shown \subseteq Value
    /\ IsFiniteSet(Event) /\ IsFiniteSet(Value) /\ Value # {}
    /\ \A e, f \in Event : Ts[e] = Ts[f] /\ Rank[e] = Rank[f] => e = f
    /\ \A e, f \in Event : HourOf[e] < HourOf[f] => Ts[e] < Ts[f]

ASSUME ApiAssumption ==
    /\ HoursPerDay \in Nat \ {0} /\ MaxHour \in Nat
    /\ Window \in Nat \ {0} /\ Limits \subseteq Nat \ {0} /\ PageSize \in Nat \ {0}
    /\ MaxPuts \in Nat /\ MaxFails \in Nat

VARIABLES
    clock,     \* the present hour
    stored,    \* the events in the table, in gsi2 and in the hourly counters
    totals,    \* [Day -> the total_events put so far]; a missing item counts 0
    pc,        \* "idle", "read", "page" or "done"
    kind,      \* what the client asks for
    base,      \* the limit asked for, the clock then, and what all replicas had:
               \* the events seen and of each day the oldest total still offered
    left,      \* [bucket -> the values of it still to be read]
    got,       \* [hour -> the events in the counters read]
    total,     \* [day -> the total read]
    failed,    \* the buckets whose read failed
    cursor,    \* where the listing goes on
    listed,    \* the events answered, in order
    pages,     \* history: the pages of the listing, as the sets of rows read
    fails      \* bound counter

tableVars == <<clock, stored, totals>>
fanVars   == <<left, got, total, failed>>
listVars  == <<cursor, listed, pages>>
vars == <<tableVars, pc, kind, base, fanVars, listVars, fails>>

Hourly   == {"timeline_1h", "breakdown"}
FanOut   == Hourly \cup {"timeline_1d"}
Listings == {"events", "session"}

DayOf(e) == HourOf[e] \div HoursPerDay

None == -1

-----------------------------------------------------------------------------
(* The table changes *)

\* Ingest stores an event and the aggregator counts it in its hour.  How far
\* it lags is the subject of its own modules and nothing to a reader.
Store(e) ==
    /\ e \notin stored
    /\ HourOf[e] <= clock
    /\ stored' = stored \cup {e}
    /\ UNCHANGED <<clock, totals>>

DaySize(table, d) == Cardinality({e \in table : DayOf(e) = d})

\* The aggregator overwrites the summary of a day that has begun.  What it has
\* counted is the subject of DailySummary; it is no more than there is.
Summarise(d, n) ==
    /\ Len(totals[d]) <= MaxPuts
    /\ d <= clock \div HoursPerDay
    /\ n <= DaySize(stored, d)
    /\ totals' = [totals EXCEPT ![d] = Append(@, n)]
    /\ UNCHANGED <<clock, stored>>

Tick ==
    /\ clock < MaxHour
    /\ clock' = clock + 1
    /\ UNCHANGED <<stored, totals>>

\* Items the client does not read are of no interest, nor is what comes after
\* the last answer.
Environment ==
    /\ pc # "done"
    /\ \/ \E e \in Event : Store(e)
       \/ /\ kind = "timeline_1d"
          /\ \E d \in Day, n \in 0 .. Cardinality(Event) : Summarise(d, n)
       \/ Tick
    /\ UNCHANGED <<pc, kind, base, fanVars, listVars, fails>>

\* What a query may find.
Views == {view \in SUBSET stored : base.seen \subseteq view}

\* What a GetItem may find of a day's summary; a day before the first has none.
Offered(d) ==
    IF d \in Day THEN {totals[d][i] : i \in base.oldest[d] .. Len(totals[d])} ELSE {0}

-----------------------------------------------------------------------------

Init ==
    /\ clock = 0 /\ stored = {} /\ totals = [d \in Day |-> <<0>>]
    /\ pc = "idle" /\ kind \in FanOut \cup Listings
    /\ base = [limit |-> 1, clock |-> 0, seen |-> {}, oldest |-> [d \in Day |-> 1]]
    /\ left = <<>> /\ got = <<>> /\ total = <<>> /\ failed = {}
    /\ cursor = None /\ listed = <<>> /\ pages = <<>>
    /\ fails = 0

\* What may have reached every replica, of the items the client reads.
SeenThen == IF kind = "timeline_1d" THEN {{}} ELSE SUBSET stored

OldestThen == {from \in [Day -> 1 .. MaxPuts + 1] : \A d \in Day : from[d] <= Len(totals[d])}

Ask(k, limit) ==
    /\ pc = "idle" /\ kind = k
    /\ \E seen \in SeenThen, oldest \in OldestThen :
          base' = [limit |-> limit, clock |-> clock, seen |-> seen, oldest |-> oldest]
    /\ UNCHANGED <<tableVars, kind, fails>>

-----------------------------------------------------------------------------
(* Timelines and the breakdown *)

Back(n) == {n - i : i \in 0 .. Window - 1}

Work(k, hour) == Back(IF k \in Hourly THEN hour ELSE hour \div HoursPerDay)

AskFanOut(k) ==
    /\ Ask(k, 1)
    /\ pc' = "read"
    /\ left' = [w \in Work(k, clock) |-> Value]
    /\ got' = [w \in Work(k, clock) |-> {}]
    /\ total' = [w \in Work(k, clock) |-> 0]
    /\ failed' = {}
    /\ UNCHANGED listVars

Pending == {w \in DOMAIN left : w \notin failed /\ left[w] # {}}

\* The events an hour's counters have counted.
Bucket(table, w) == {e \in table : HourOf[e] = w}

\* The counters of an hour are one item for each value, and a page of the
\* query may end between any two.
ReadBucket(w, view) ==
    /\ pc = "read" /\ kind \in Hourly
    /\ w \in Pending
    /\ view \in Views
    /\ \E v \in left[w] :
          /\ left' = [left EXCEPT ![w] = @ \ {v}]
          /\ got' = [got EXCEPT ![w] = @ \cup {e \in Bucket(view, w) : ValueOf[e] = v}]
    /\ UNCHANGED <<tableVars, pc, kind, base, total, failed, listVars, fails>>

\* A day's summary is one item, and its total is read as it was put.
ReadSummary(d, n) ==
    /\ pc = "read" /\ kind = "timeline_1d"
    /\ d \in Pending
    /\ n \in Offered(d)
    /\ left' = [left EXCEPT ![d] = {}]
    /\ total' = [total EXCEPT ![d] = n]
    /\ UNCHANGED <<tableVars, pc, kind, base, got, failed, listVars, fails>>

\* An exception of one query, kept by _run_parallel with its bucket.
ReadFails(w) ==
    /\ pc = "read"
    /\ w \in Pending
    /\ fails < MaxFails
    /\ fails' = fails + 1
    /\ failed' = failed \cup {w}
    /\ UNCHANGED <<tableVars, pc, kind, base, left, got, total, listVars>>

\* Mutant: a query that failed is waited for.
Awaited_All == {w \in DOMAIN left : left[w] # {}}

Awaited == Pending

\* as_completed has given every result or exception.
Answer ==
    /\ pc = "read"
    /\ Awaited = {}
    /\ pc' = "done"
    /\ UNCHANGED <<tableVars, kind, base, fanVars, listVars, fails>>

\* Mutant: what was read before the failure is shown as if it were all.
RowCount_Partial(w) == IF kind \in Hourly THEN Cardinality(got[w]) ELSE total[w]

\* "Each failure becomes an explicit gap with `count=None`."
RowCount(w) ==
    IF w \in failed THEN None
    ELSE IF kind \in Hourly THEN Cardinality(got[w]) ELSE total[w]

\* The buckets of a timeline's response.
Rows == {[ts |-> w, count |-> RowCount(w)] : w \in DOMAIN left}

\* Mutant: a failed hour is counted as far as it was read.
Successes_All == DOMAIN got

Successes == DOMAIN got \ failed

\* "Failed hours are silently skipped from the totals".
Breakdown ==
    [v \in Shown |->
        Cardinality({e \in UNION {got[w] : w \in Successes} : ValueOf[e] = v})]

-----------------------------------------------------------------------------
(* Listings *)

Newer(e, f) == Ts[e] > Ts[f] \/ (Ts[e] = Ts[f] /\ Rank[e] > Rank[f])
Older(e, f) == Newer(f, e)

AskListing(k, limit) ==
    /\ Ask(k, limit)
    /\ pc' = "page"
    /\ UNCHANGED <<fanVars, listVars>>

\* A set of rows in an order, and the first n of them.
InOrder(set, Precedes(_, _)) ==
    [i \in 1 .. Cardinality(set) |->
        CHOOSE e \in set : Cardinality({f \in set : Precedes(f, e)}) = i - 1]

FirstOf(set, n, Precedes(_, _)) ==
    {e \in set : Cardinality({f \in set : Precedes(f, e)}) < n}

\* Mutant: "at or before" in the place of "strictly older".
OlderThan_Inclusive(e, before) == before = None \/ Ts[e] <= before

\* `gsi2sk < before`: the key goes on after the timestamp, so a row of the
\* very time of the cursor is not below it.
OlderThan(e, before) == before = None \/ Ts[e] < before

Oldest(set) == CHOOSE t \in {Ts[e] : e \in set} : \A e \in set : t <= Ts[e]

\* Rows that StoredEvent refuses are skipped.
Public(rows) == rows \cap Fits

\* Mutant: the listing ends one page early.
FullPage_Strict(rows) == Cardinality(Public(rows)) > base.limit

\* next_before is set when no row of the page was skipped.
FullPage(rows) == Cardinality(Public(rows)) >= base.limit

\* One request of the listing, for the day it then is.
EventsPage(view) ==
    /\ pc = "page" /\ kind = "events"
    /\ view \in Views
    /\ LET today == {e \in view : DayOf(e) = clock \div HoursPerDay}
           rows  == FirstOf({e \in today : OlderThan(e, cursor)}, base.limit, Newer)
       IN /\ listed' = listed \o InOrder(Public(rows), Newer)
          /\ pages' = Append(pages, rows)
          /\ \/ /\ FullPage(rows)
                /\ cursor' = Oldest(Public(rows))
                /\ UNCHANGED pc
             \/ /\ ~FullPage(rows)
                /\ pc' = "done"
                /\ UNCHANGED cursor
    /\ UNCHANGED <<tableVars, kind, base, fanVars, fails>>

\* ExclusiveStartKey: the rows after the last one read.
Past(e) == pages = <<>> \/ \A f \in pages[Len(pages)] : Older(f, e)

\* Mutant: the end is told from the rows that were answered.
LastPage_Public(rows) == Cardinality(Public(rows)) < PageSize

LastPage(rows) == Cardinality(rows) < PageSize

\* One page of _query_all, oldest first; a full one may have a successor.
SessionPage(view) ==
    /\ pc = "page" /\ kind = "session"
    /\ view \in Views
    /\ LET rows == FirstOf({e \in view : Past(e)}, PageSize, Older) IN
       /\ listed' = listed \o InOrder(Public(rows), Older)
       /\ pages' = Append(pages, rows)
       /\ pc' = IF LastPage(rows) THEN "done" ELSE "page"
    /\ UNCHANGED <<tableVars, kind, base, fanVars, cursor, fails>>

Request ==
    \/ \E k \in FanOut : AskFanOut(k)
    \/ \E k \in Listings, limit \in Limits : AskListing(k, limit)

Step ==
    \/ \E w \in Pending, view \in Views : ReadBucket(w, view)
    \/ \E d \in Pending : \E n \in Offered(d) : ReadSummary(d, n)
    \/ Answer
    \/ \E view \in Views : EventsPage(view) \/ SessionPage(view)

Next == Environment \/ Request \/ Step \/ \E w \in Pending : ReadFails(w)

Spec == Init /\ [][Next]_vars

\* A read is answered or fails, and the client asks for the next page.
FairSpec == Spec /\ WF_vars(Step)

-----------------------------------------------------------------------------
(* Properties *)

TypeOK ==
    /\ clock \in Hour
    /\ stored \subseteq Event
    /\ totals \in [Day -> Seq(Nat)]
    /\ pc \in {"idle", "read", "page", "done"}
    /\ kind \in FanOut \cup Listings
    /\ DOMAIN left = DOMAIN got /\ DOMAIN left = DOMAIN total
    /\ DOMAIN left \subseteq Int
    /\ \A w \in DOMAIN left :
          left[w] \subseteq Value /\ got[w] \subseteq stored /\ total[w] \in Nat
    /\ failed \subseteq DOMAIN left
    /\ cursor \in Nat \cup {None}
    /\ listed \in Seq(Fits)
    /\ pages \in Seq(SUBSET Event)
    /\ fails \in 0 .. MaxFails

Size(table, w) == Cardinality(Bucket(table, w))

(***************************************************************************)
(* Counters grow and summaries are overwritten while they are read, reads  *)
(* lag and reads fail.  A timeline still has one row for every bucket of   *)
(* the window that ended when it was asked for, and no others, and a row   *)
(* is a gap exactly if its read failed.  What an hour shows is no less     *)
(* than had reached every replica by the time of the request and no more   *)
(* than has been counted by the answer.  What a day shows is one of the    *)
(* totals put of it, none that was overwritten everywhere before the       *)
(* request, and no more than the day has.                                  *)
(***************************************************************************)
TimelineHonest ==
    pc = "done" /\ kind \in {"timeline_1h", "timeline_1d"} =>
        LET last == IF kind \in Hourly THEN base.clock ELSE base.clock \div HoursPerDay IN
        /\ {r.ts : r \in Rows} = last - Window + 1 .. last
        /\ \A r \in Rows :
              IF r.ts \in failed THEN r.count = None
              ELSE IF kind \in Hourly
              THEN r.count \in Size(base.seen, r.ts) .. Size(stored, r.ts)
              ELSE /\ r.count \in Offered(r.ts)
                   /\ r.count \in 0 .. DaySize(stored, r.ts)

(***************************************************************************)
(* The breakdown, which cannot show a gap, may only err on the low side:   *)
(* no technique is above what the window's hours have counted, and one is  *)
(* below what had reached every replica by the time of the request only by *)
(* the hours whose read failed.                                            *)
(***************************************************************************)
BreakdownLowAtWorst ==
    pc = "done" /\ kind = "breakdown" =>
        \A v \in Shown :
            LET Sum(table, hours) == Cardinality({e \in table :
                                        ValueOf[e] = v /\ HourOf[e] \in hours})
                all == base.clock - Window + 1 .. base.clock
            IN  Breakdown[v] \in Sum(base.seen, all \ failed) .. Sum(stored, all \ failed)

\* Whatever is stored between two pages, nothing is listed twice, and the
\* events come in one order: newest first in a listing of the day, oldest
\* first in one of a session.
ListedInOrder ==
    \A i, j \in DOMAIN listed : i < j =>
        IF kind = "events" THEN Newer(listed[i], listed[j]) ELSE Older(listed[i], listed[j])

\* What the client has been given.
Answered == {listed[i] : i \in DOMAIN listed}

\* A full page ended at the very timestamp of e, before it came to e.
TiedAtPageEnd(e) ==
    \E i \in DOMAIN pages :
        /\ Cardinality(pages[i]) = base.limit
        /\ \E f \in pages[i] : Ts[f] = Ts[e] /\ Newer(f, e)

\* The last page had a row that was skipped, or time went on to another day.
EndsEarly ==
    \/ pages[Len(pages)] \ Fits # {}
    \/ clock \div HoursPerDay # base.clock \div HoursPerDay

(***************************************************************************)
(* What a listing of the day leaves out of the events that every query of  *)
(* the index could find when it began can be told, whatever each page saw  *)
(* beyond them: an event that does not fit the schema; one of the very     *)
(* timestamp at which a page ended; or one older than all that was listed, *)
(* after a page with a row that did not fit, or after midnight.            *)
(***************************************************************************)
GapsExplained ==
    pc = "done" /\ kind = "events" =>
        \A e \in base.seen :
            \/ e \in Answered
            \/ DayOf(e) # base.clock \div HoursPerDay
            \/ e \notin Fits
            \/ TiedAtPageEnd(e)
            \/ EndsEarly /\ \A i \in DOMAIN listed : Newer(listed[i], e)

\* A session's answer has every fitting event that had reached every replica
\* when it was asked for, although each of its pages may come from another.
SessionWhole ==
    pc = "done" /\ kind = "session" =>
        base.seen \cap Fits \subseteq Answered

\* Events keep arriving, but a request is answered and a listing ends.
ListingEnds == pc \in {"read", "page"} ~> pc = "done"
=============================================================================
