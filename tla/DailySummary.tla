---------------------------- MODULE DailySummary ----------------------------
(***************************************************************************)
(* The summaries of a day                                                  *)
(* (dashboard/functions/aggregator/handler.py, _handle_daily_summary): an  *)
(* invocation walks the day's events in the index gsi2, page by page, and  *)
(* puts one item with the totals.  Two schedules share the handler and the *)
(* key: one refreshes the present day every five minutes, the other writes *)
(* yesterday's summary once, at 00:05.  Meanwhile ingest keeps adding      *)
(* events, late ones of the day before included.                           *)
(*                                                                         *)
(* Time advances in ticks: tick 2d is the first five minutes of day d,     *)
(* tick 2d+1 the rest of it, in which the daily schedule fires for day     *)
(* d-1.  The technique totals, read from the hourly counters after the     *)
(* walk, are left out; of the others, total_events is kept as a number and *)
(* the rest as the set of events they are computed from.                   *)
(***************************************************************************)
EXTENDS Integers, FiniteSets

CONSTANTS
    Event,       \* the EVENT items
    DayOf,       \* [Event -> Day], gsi2pk
    Pos,         \* [Event -> Nat \ {0}], the place in the index, gsi2sk and key
    PageSize,    \* items in one page of the query
    Invocation,
    MaxTries,    \* deliveries of one daily event: the first and two retries
    MaxDay,      \* bound: the last day of a behaviour
    MaxFails     \* bound: invocations that fail

Day  == 0 .. MaxDay
Time == 0 .. 2 * MaxDay + 1

ASSUME SummaryAssumption ==
    /\ DayOf \in [Event -> Day]
    /\ Pos \in [Event -> Nat \ {0}]
    /\ \A e, f \in Event : DayOf[e] = DayOf[f] /\ Pos[e] = Pos[f] => e = f
    /\ PageSize \in Nat \ {0}
    /\ MaxTries \in Nat \ {0}
    /\ MaxDay \in Nat /\ MaxFails \in Nat
    /\ IsFiniteSet(Event)

VARIABLES
    clock,
    indexed,   \* the events in gsi2
    ontime,    \* history: those indexed before their day's daily run was due
    summary,   \* [Day -> Summary \cup {Absent}], SUMMARY#DAY / <day>
    final,     \* history: the days whose summary a daily run has put
    tries,     \* deliveries of the present daily event
    pc,        \* [Invocation -> where it is]
    kind,      \* [Invocation -> {"today", "yesterday"}]
    target,    \* [Invocation -> Day]
    started,   \* history: [Invocation -> the tick it started in]
    base,      \* history: [Invocation -> the events indexed when it started]
    cursor,    \* [Invocation -> place of the last item read, 0 for none]
    total,     \* [Invocation -> items counted so far]
    walked,    \* [Invocation -> the items counted]
    fails      \* bound counter

vars == <<clock, indexed, ontime, summary, final, tries, pc, kind, target,
          started, base, cursor, total, walked, fails>>

envVars  == <<clock, indexed, ontime>>
jobVars  == <<kind, target, started, base>>
walkVars == <<cursor, total, walked>>

Absent  == [total |-> -1, events |-> {}]
Summary == [total : Nat, events : SUBSET Event]

Today == clock \div 2
AfterDailyTime(t) == t % 2 = 1

Running(k) == {i \in Invocation : pc[i] # "idle" /\ kind[i] = k}

-----------------------------------------------------------------------------

Init ==
    /\ clock = 0
    /\ indexed = {}
    /\ ontime = {}
    /\ summary = [d \in Day |-> Absent]
    /\ final = {}
    /\ tries = MaxTries
    /\ pc = [i \in Invocation |-> "idle"]
    /\ kind = [i \in Invocation |-> "today"]
    /\ target = [i \in Invocation |-> 0]
    /\ started = [i \in Invocation |-> 0]
    /\ base = [i \in Invocation |-> {}]
    /\ cursor = [i \in Invocation |-> 0]
    /\ total = [i \in Invocation |-> 0]
    /\ walked = [i \in Invocation |-> {}]
    /\ fails = 0

\* Ingest stores an event, and the index shows it.  It may be of a day past.
Index(e) ==
    /\ e \notin indexed
    /\ DayOf[e] <= Today
    /\ indexed' = indexed \cup {e}
    /\ ontime' = IF clock <= 2 * DayOf[e] + 2 THEN ontime \cup {e} ELSE ontime
    /\ UNCHANGED <<clock, summary, final, tries, pc, jobVars, walkVars, fails>>

\* Mutant: the function may run for longer than five minutes.
WithinLimit_Long == TRUE

\* An invocation ends within a minute, so none is left from the tick before.
WithinLimit == \A i \in Invocation : pc[i] # "idle" => started[i] = clock

\* The day does not end before the daily event has been served or given up.
DailySettled ==
    \/ Today - 1 \in final
    \/ tries = MaxTries /\ Running("yesterday") = {}

Tick ==
    /\ clock + 1 \in Time
    /\ WithinLimit
    /\ AfterDailyTime(clock) /\ Today > 0 => DailySettled
    /\ clock' = clock + 1
    /\ tries' = IF AfterDailyTime(clock') THEN 0 ELSE MaxTries
    /\ UNCHANGED <<indexed, ontime, summary, final, pc, jobVars, walkVars, fails>>

Begin(i, k, day) ==
    /\ pc[i] = "idle"
    /\ pc' = [pc EXCEPT ![i] = "walk"]
    /\ kind' = [kind EXCEPT ![i] = k]
    /\ target' = [target EXCEPT ![i] = day]
    /\ started' = [started EXCEPT ![i] = clock]
    /\ base' = [base EXCEPT ![i] = {e \in indexed : DayOf[e] = day}]
    /\ UNCHANGED <<envVars, summary, final, walkVars, fails>>

StartToday(i) ==
    /\ Begin(i, "today", Today)
    /\ UNCHANGED tries

\* Mutant: a failed daily event is not tried again.
TriesLeft_Once == tries < 1

TriesLeft == tries < MaxTries

\* The event may be delivered again although an earlier delivery succeeded.
StartDaily(i) ==
    /\ TriesLeft
    /\ Today > 0
    /\ Begin(i, "yesterday", Today - 1)
    /\ tries' = tries + 1

\* The items of the day after the cursor, and the page of those read next.
Rest(day, after) == {e \in indexed : DayOf[e] = day /\ Pos[e] > after}

Page(day, after) ==
    {e \in Rest(day, after) :
        Cardinality({f \in Rest(day, after) : Pos[f] < Pos[e]}) < PageSize}

LastPos(page) == CHOOSE p \in {Pos[e] : e \in page} : \A e \in page : Pos[e] <= p

\* Mutant: LastEvaluatedKey is not followed.
LastPage_First(page) == TRUE

\* A full page comes with a LastEvaluatedKey, also when nothing follows it.
LastPage(page) == Cardinality(page) < PageSize

WalkPage(i) ==
    /\ pc[i] = "walk"
    /\ LET page == Page(target[i], cursor[i]) IN
       /\ total' = [total EXCEPT ![i] = @ + Cardinality(page)]
       /\ walked' = [walked EXCEPT ![i] = @ \cup page]
       /\ cursor' = [cursor EXCEPT ![i] = IF page = {} THEN @ ELSE LastPos(page)]
       /\ pc' = [pc EXCEPT ![i] = IF LastPage(page) THEN "put" ELSE "walk"]
    /\ UNCHANGED <<envVars, summary, final, tries, jobVars, fails>>

\* Mutant: the total outlives the invocation, as a module's variable would.
ResetWalk_KeepTotal(i) ==
    /\ cursor' = [cursor EXCEPT ![i] = 0]
    /\ walked' = [walked EXCEPT ![i] = {}]
    /\ UNCHANGED total

ResetWalk(i) ==
    /\ cursor' = [cursor EXCEPT ![i] = 0]
    /\ total' = [total EXCEPT ![i] = 0]
    /\ walked' = [walked EXCEPT ![i] = {}]

\* The end of an invocation is the end of its local state.
Forget(i) ==
    /\ pc' = [pc EXCEPT ![i] = "idle"]
    /\ kind' = [kind EXCEPT ![i] = "today"]
    /\ target' = [target EXCEPT ![i] = 0]
    /\ started' = [started EXCEPT ![i] = 0]
    /\ base' = [base EXCEPT ![i] = {}]
    /\ ResetWalk(i)

\* The put is unconditional.
PutSummary(i) ==
    /\ pc[i] = "put"
    /\ summary' = [summary EXCEPT ![target[i]] =
                      [total |-> total[i], events |-> walked[i]]]
    /\ final' = IF kind[i] = "yesterday" THEN final \cup {target[i]} ELSE final
    /\ Forget(i)
    /\ UNCHANGED <<envVars, tries, fails>>

Fail(i) ==
    /\ pc[i] # "idle"
    /\ fails < MaxFails
    /\ fails' = fails + 1
    /\ Forget(i)
    /\ UNCHANGED <<envVars, summary, final, tries>>

Step(i) == WalkPage(i) \/ PutSummary(i)

Next ==
    \/ \E e \in Event : Index(e)
    \/ Tick
    \/ \E i \in Invocation : StartToday(i) \/ StartDaily(i) \/ Step(i) \/ Fail(i)

Spec == Init /\ [][Next]_vars

\* Time passes, EventBridge delivers the daily event until it is served or
\* out of tries, and an invocation that has started goes on.
FairSpec ==
    /\ Spec
    /\ WF_vars(Tick)
    /\ SF_vars(\E i \in Invocation : StartDaily(i))
    /\ \A i \in Invocation : WF_vars(Step(i))

-----------------------------------------------------------------------------
(* Properties *)

TypeOK ==
    /\ clock \in Time
    /\ indexed \subseteq Event /\ ontime \subseteq indexed
    /\ summary \in [Day -> Summary \cup {Absent}]
    /\ final \subseteq Day
    /\ tries \in 0 .. MaxTries
    /\ pc \in [Invocation -> {"idle", "walk", "put"}]
    /\ kind \in [Invocation -> {"today", "yesterday"}]
    /\ target \in [Invocation -> Day]
    /\ started \in [Invocation -> Time]
    /\ base \in [Invocation -> SUBSET Event]
    /\ cursor \in [Invocation -> Nat]
    /\ total \in [Invocation -> Nat]
    /\ walked \in [Invocation -> SUBSET Event]
    /\ fails \in 0 .. MaxFails

\* Events that are indexed while a walk is under way may land before or after
\* its cursor; either way a summary counts stored events of its day, and each
\* of them once.
EventsCountedOnce ==
    \A d \in Day : summary[d] # Absent =>
        /\ summary[d].events \subseteq {e \in indexed : DayOf[e] = d}
        /\ summary[d].total = Cardinality(summary[d].events)

\* What is about to be put counts every event that was indexed when the
\* invocation started, whatever was inserted between its pages.
WalkComplete ==
    \A i \in Invocation : pc[i] = "put" => base[i] \subseteq walked[i]

\* "the 00:05 cron locks in yesterday's final value" (_handle_daily_summary):
\* once a daily run has put a day's summary, a run for the present day that
\* straddles midnight does not replace it.
FinalIsLockedIn ==
    [][\A d \in final : summary'[d] # summary[d] =>
          \E i \in Running("yesterday") : pc[i] = "put" /\ target[i] = d]_vars

\* The final summary has every event that was indexed by 00:05 of the next
\* day, through overlapping, repeated and failing runs.
FinalCoversOnTime ==
    \A d \in final : {e \in ontime : DayOf[e] = d} \subseteq summary[d].events

\* Every day that ends gets its final summary, unless all deliveries fail.
EveryDayIsFinal == \A d \in 0 .. MaxDay - 1 : <>(d \in final)

=============================================================================
