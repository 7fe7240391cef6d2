----------------------------- MODULE RankRebuild -----------------------------
(***************************************************************************)
(* The rank rebuild of the aggregator Lambda                               *)
(* (dashboard/functions/aggregator/handler.py, _rebuild_rank_for): once a  *)
(* minute the rows of the most frequent values of a window are deleted and *)
(* written anew from the hourly counters, which the stream side of the     *)
(* same function keeps incrementing.  A row's key starts with its count,   *)
(* so a value whose count has changed gets another row, not a new content. *)
(*                                                                         *)
(* The module follows one (window, dimension) pair; an invocation rebuilds *)
(* every pair, one after the other, in partitions of their own.  Nothing   *)
(* keeps two invocations apart: the schedule delivers at least once, a     *)
(* failed invocation is tried again, and the concurrency is not reserved.  *)
(*                                                                         *)
(* Queries are eventually consistent.  Counters only grow, so a query of a *)
(* bucket returns for each value any count up to the present one.  Of the  *)
(* rows a replica is kept, which follows the table row by row.             *)
(***************************************************************************)
EXTENDS Integers, FiniteSets

CONSTANTS
    Value,        \* the values of the dimension
    Order,        \* [Value -> Nat], their string order
    Invocation,
    WindowHours,  \* RANK_24H_HOURS or RANK_7D_HOURS
    TopN,         \* RANK_TOP_N
    MaxHour,      \* bound: the last hour of a behaviour
    MaxAdds,      \* bound: increments of the counters
    MaxFails      \* bound: invocations that fail or run out of time

Hour == 0 .. MaxHour

ASSUME RankAssumption ==
    /\ Order \in [Value -> Nat]
    /\ \A v, w \in Value : Order[v] = Order[w] => v = w
    /\ WindowHours \in Nat \ {0}
    /\ TopN \in Nat \ {0}
    /\ MaxHour \in Nat /\ MaxAdds \in Nat /\ MaxFails \in Nat

VARIABLES
    hourly,    \* [Hour -> [Value -> Nat]], the AGG#HOUR# counters
    clock,     \* the present hour
    rows,      \* the RANK# items: <<count, value>>
    replica,   \* the rows as a lagging replica has them
    pc,        \* [Invocation -> where the rebuild is]
    now,       \* [Invocation -> the hour it took for the present]
    offset,    \* [Invocation -> the loop over the hours of the window]
    totals,    \* [Invocation -> [Value -> Nat]]
    existing,  \* [Invocation -> rows found and still to delete]
    top,       \* [Invocation -> rows still to put]
    adds,      \* bound counter: increments so far
    fails,     \* bound counter: failures so far
    alone      \* history: [Invocation -> since it started no other rebuild ran
               \* and every answer it got was current]

vars == <<hourly, clock, rows, replica, pc, now, offset, totals, existing, top,
          adds, fails, alone>>

counterVars == <<hourly, clock, adds>>
tableVars   == <<rows, replica>>
localVars   == <<now, offset, totals, existing, top>>

Row   == Nat \X Value
Count == [Value -> Nat]
None  == [v \in Value |-> 0]

\* A value without increments has no item, so it is not in the totals.
Ahead(t, v) ==
    {w \in Value : t[w] > t[v] \/ (t[w] = t[v] /\ Order[w] < Order[v])}

TopRows(t) ==
    {<<t[v], v>> : v \in {w \in Value : t[w] > 0 /\ Cardinality(Ahead(t, w)) < TopN}}

\* The hour at an offset; before the first hour there are no counters.
BucketAt(n, off) == n - off

BucketCounts(h) == IF h \in Hour THEN hourly[h] ELSE None

\* What an eventually consistent query of a bucket may return.
CountViews(h) == {c \in [Value -> 0 .. MaxAdds] :
                     \A v \in Value : c[v] <= BucketCounts(h)[v]}

\* What an eventually consistent query of the rows may return: a row put or
\* deleted of late may still be missed or listed.
RowViews == {view \in SUBSET (rows \cup replica) : rows \cap replica \subseteq view}

-----------------------------------------------------------------------------

Init ==
    /\ hourly = [h \in Hour |-> None]
    /\ clock = 0
    /\ rows = {} /\ replica = {}
    /\ pc = [i \in Invocation |-> "idle"]
    /\ now = [i \in Invocation |-> 0]
    /\ offset = [i \in Invocation |-> 0]
    /\ totals = [i \in Invocation |-> None]
    /\ existing = [i \in Invocation |-> {}]
    /\ top = [i \in Invocation |-> {}]
    /\ adds = 0
    /\ fails = 0
    /\ alone = [i \in Invocation |-> FALSE]

\* The stream side counts an event of this hour, or a late one of an earlier.
Add(h, v) ==
    /\ adds < MaxAdds
    /\ h <= clock
    /\ hourly' = [hourly EXCEPT ![h][v] = @ + 1]
    /\ adds' = adds + 1
    /\ UNCHANGED <<clock, tableVars, pc, localVars, fails, alone>>

Tick ==
    /\ clock < MaxHour
    /\ clock' = clock + 1
    /\ UNCHANGED <<hourly, adds, tableVars, pc, localVars, fails, alone>>

SyncRow(r) ==
    /\ r \in (rows \ replica) \cup (replica \ rows)
    /\ replica' = IF r \in rows THEN replica \cup {r} ELSE replica \ {r}
    /\ UNCHANGED <<counterVars, rows, pc, localVars, fails, alone>>

\* The end of an invocation is the end of its local state.
Forget(i) ==
    /\ pc' = [pc EXCEPT ![i] = "idle"]
    /\ now' = [now EXCEPT ![i] = 0]
    /\ offset' = [offset EXCEPT ![i] = 0]
    /\ totals' = [totals EXCEPT ![i] = None]
    /\ existing' = [existing EXCEPT ![i] = {}]
    /\ top' = [top EXCEPT ![i] = {}]
    /\ alone' = [alone EXCEPT ![i] = FALSE]

Start(i) ==
    /\ pc[i] = "idle"
    /\ pc' = [pc EXCEPT ![i] = "sum"]
    /\ now' = [now EXCEPT ![i] = clock]
    /\ alone' = [j \in Invocation |->
                    j = i /\ \A k \in Invocation \ {i} : pc[k] = "idle"]
    /\ UNCHANGED <<counterVars, tableVars, offset, totals, existing, top, fails>>

\* Mutant: the loop takes one hour more, which has left the window.
MoreHours_OneMore(off) == off < WindowHours

\* Whether the loop goes on after the hour at an offset.
MoreHours(off) == off + 1 < WindowHours

\* One hour's bucket, with all its pages.
ReadBucket(i, view) ==
    /\ pc[i] = "sum"
    /\ view \in CountViews(BucketAt(now[i], offset[i]))
    /\ totals' = [totals EXCEPT ![i] = [v \in Value |-> @[v] + view[v]]]
    /\ offset' = [offset EXCEPT ![i] = @ + 1]
    /\ pc' = [pc EXCEPT ![i] = IF MoreHours(offset[i]) THEN "sum" ELSE "query"]
    /\ alone' = [alone EXCEPT ![i] = @ /\ view = BucketCounts(BucketAt(now[i], offset[i]))]
    /\ UNCHANGED <<counterVars, tableVars, now, existing, top, fails>>

QueryRows(i, view) ==
    /\ pc[i] = "query"
    /\ view \in RowViews
    /\ existing' = [existing EXCEPT ![i] = view]
    /\ pc' = [pc EXCEPT ![i] = "delete"]
    /\ alone' = [alone EXCEPT ![i] = @ /\ view = rows]
    /\ UNCHANGED <<counterVars, tableVars, now, offset, totals, top, fails>>

DeleteRow(i, r) ==
    /\ pc[i] = "delete"
    /\ r \in existing[i]
    /\ rows' = rows \ {r}
    /\ existing' = [existing EXCEPT ![i] = @ \ {r}]
    /\ UNCHANGED <<counterVars, replica, pc, now, offset, totals, top, fails, alone>>

\* Mutant: the puts start before the deletes are flushed.
Flushed_Early(i) == TRUE

\* The deletes are flushed before the first put.
Flushed(i) == existing[i] = {}

BeginWrite(i) ==
    /\ pc[i] = "delete"
    /\ Flushed(i)
    /\ top' = [top EXCEPT ![i] = TopRows(totals[i])]
    /\ pc' = [pc EXCEPT ![i] = "put"]
    /\ UNCHANGED <<counterVars, tableVars, now, offset, totals, existing, fails, alone>>

PutRow(i, r) ==
    /\ pc[i] = "put"
    /\ r \in top[i]
    /\ rows' = rows \cup {r}
    /\ top' = [top EXCEPT ![i] = @ \ {r}]
    /\ UNCHANGED <<counterVars, replica, pc, now, offset, totals, existing, fails, alone>>

Finish(i) ==
    /\ pc[i] = "put"
    /\ top[i] = {}
    /\ Forget(i)
    /\ UNCHANGED <<counterVars, tableVars, fails>>

\* An exception or the time limit; a retry of the event is another Start.
Fail(i) ==
    /\ pc[i] # "idle"
    /\ fails < MaxFails
    /\ Forget(i)
    /\ fails' = fails + 1
    /\ UNCHANGED <<counterVars, tableVars>>

Rebuild(i) ==
    \/ \E view \in CountViews(BucketAt(now[i], offset[i])) : ReadBucket(i, view)
    \/ \E view \in RowViews : QueryRows(i, view)
    \/ \E r \in existing[i] : DeleteRow(i, r)
    \/ BeginWrite(i)
    \/ \E r \in top[i] : PutRow(i, r)
    \/ Finish(i)

Environment ==
    \/ \E h \in Hour, v \in Value : Add(h, v)
    \/ Tick
    \/ \E r \in rows \cup replica : SyncRow(r)

Next ==
    \/ Environment
    \/ \E i \in Invocation : Start(i) \/ Rebuild(i) \/ Fail(i)

Spec == Init /\ [][Next]_vars

-----------------------------------------------------------------------------
(* Properties *)

TypeOK ==
    /\ hourly \in [Hour -> Count]
    /\ clock \in Hour
    /\ rows \subseteq Row /\ replica \subseteq Row
    /\ pc \in [Invocation -> {"idle", "sum", "query", "delete", "put"}]
    /\ now \in [Invocation -> Hour]
    /\ offset \in [Invocation -> 0 .. WindowHours]
    /\ totals \in [Invocation -> Count]
    /\ existing \in [Invocation -> SUBSET Row]
    /\ top \in [Invocation -> SUBSET Row]
    /\ adds \in 0 .. MaxAdds
    /\ fails \in 0 .. MaxFails
    /\ alone \in [Invocation -> BOOLEAN]

\* No value is listed with two counts.
OneRowPerValue == \A r, s \in rows : r[2] = s[2] => r = s

\* Whatever earlier rebuilds have left behind, duplicates or half a list, one
\* rebuild that runs alone and reads current answers leaves exactly the top
\* rows of the totals it has summed (_rebuild_rank_for, delete-then-write).
RanksExact ==
    \A i \in Invocation :
        pc[i] = "put" /\ top[i] = {} /\ alone[i] => rows = TopRows(totals[i])

\* The value's increments in the hour that is k hours before hour n.
Back(n, v) == [k \in Nat |-> BucketCounts(n - k)[v]]

\* The sums of the first k members of c, for every k up to the window's length.
RunningSums(c) ==
    LET sum[k \in 0 .. WindowHours] == IF k = 0 THEN 0 ELSE sum[k - 1] + c[k - 1]
    IN  sum

RunningTotal(n, v) == RunningSums(Back(n, v))

WindowTotal(n, v) == RunningTotal(n, v)[WindowHours]

\* A row's count is at least one and at most what the counters of some window
\* up to the present hold, however invocations overlap and queries lag.
Backed(r) == r[1] > 0 /\ \E n \in 0 .. clock : r[1] <= WindowTotal(n, r[2])

NoInventedCounts == \A r \in rows : Backed(r)

-----------------------------------------------------------------------------
(***************************************************************************)
(* The inductive invariant behind TypeOK and RanksExact.  As long as a     *)
(* rebuild is alone nobody else writes rows, so while it deletes what is   *)
(* left is what it has still to delete, and while it puts what is there    *)
(* and what is still to come make up the top rows of its totals.           *)
(***************************************************************************)
LoopBound ==
    \A i \in Invocation :
        /\ pc[i] = "idle" => offset[i] = 0
        /\ pc[i] = "sum" => offset[i] < WindowHours

AloneExact ==
    \A i \in Invocation : alone[i] =>
        /\ pc[i] # "idle"
        /\ \A j \in Invocation \ {i} : pc[j] = "idle"
        /\ pc[i] = "delete" => rows = existing[i]
        /\ pc[i] = "put" => rows \cup top[i] = TopRows(totals[i])

RebuildInv == TypeOK /\ LoopBound /\ AloneExact

(***************************************************************************)
(* And the one behind NoInventedCounts: a sum never runs ahead of the      *)
(* counters of the hours it has read, and what is to be put is backed.     *)
(***************************************************************************)
SumBacked(i) ==
    /\ now[i] <= clock
    /\ pc[i] = "idle" => totals[i] = None /\ top[i] = {}
    /\ pc[i] \in {"query", "delete", "put"} => offset[i] = WindowHours
    /\ \A v \in Value : totals[i][v] <= RunningTotal(now[i], v)[offset[i]]
    /\ \A r \in top[i] : Backed(r)

BackedInv == NoInventedCounts /\ \A i \in Invocation : SumBacked(i)

=============================================================================
