------------------------- MODULE DailySummaryProofs -------------------------
(***************************************************************************)
(* Proofs about DailySummary, for any events, page size and number of      *)
(* invocations, deliveries and failures.                                   *)
(***************************************************************************)
EXTENDS DailySummary, FiniteSetTheorems, WellFoundedInduction, TLAPS

DayEvents(d) == {e \in indexed : DayOf[e] = d}

\* How far a walk has come: everything it counted is of its day and before
\* its cursor, and what was there when it began is counted up to the cursor.
WalkGood(i) ==
    /\ base[i] \subseteq DayEvents(target[i])
    /\ walked[i] \subseteq DayEvents(target[i])
    /\ total[i] = Cardinality(walked[i])
    /\ \A e \in walked[i] : Pos[e] <= cursor[i]
    /\ \A e \in base[i] : Pos[e] <= cursor[i] \/ pc[i] = "put" => e \in walked[i]

\* When a run may be under way, and what it knew when it began.
RunTimely(i) ==
    /\ started[i] <= clock /\ clock <= started[i] + 1
    /\ kind[i] = "today" => started[i] <= 2 * target[i] + 1
    /\ kind[i] = "yesterday" =>
          /\ clock >= 2 * target[i] + 3
          /\ {e \in ontime : DayOf[e] = target[i]} \subseteq base[i]

DayInv ==
    /\ TypeOK
    /\ ~AfterDailyTime(clock) => tries = MaxTries
    /\ \A i \in Invocation :
          IF pc[i] = "idle" THEN cursor[i] = 0 /\ total[i] = 0 /\ walked[i] = {}
          ELSE WalkGood(i) /\ RunTimely(i)
    /\ \A d \in final : clock >= 2 * d + 3 /\ summary[d] # Absent
    /\ EventsCountedOnce
    /\ FinalCoversOnTime

-----------------------------------------------------------------------------
(* Pages.                                                                  *)

LEMMA LeastExists ==
    ASSUME NEW N \in SUBSET Nat, N # {}
    PROVE  \E x \in N : \A y \in N : x <= y
<1>1. PICK x \in N : \A y \in N : ~ (<<y, x>> \in OpToRel(<, Nat))
  BY NatLessThanWellFounded, WFMin
<1>2. \A y \in N : ~(y < x)
  BY <1>1 DEF OpToRel
<1> QED
  BY <1>2

(* A nonempty set of events has a first one in the index, and a last one.  *)
LEMMA FirstEvent ==
    ASSUME NEW S \in SUBSET Event, S # {}
    PROVE  \E e \in S : \A f \in S : Pos[e] <= Pos[f]
<1> DEFINE P == {Pos[e] : e \in S}
<1>1. P \in SUBSET Nat /\ P # {}
  BY SummaryAssumption
<1>2. PICK x \in P : \A y \in P : x <= y
  BY <1>1, LeastExists
<1> QED
  BY <1>2

(* The last is one that has the fewest events behind it.                   *)
LEMMA LastEvent ==
    ASSUME NEW S \in SUBSET Event, S # {}
    PROVE  \E e \in S : \A f \in S : Pos[f] <= Pos[e]
<1> DEFINE Behind(e) == {f \in S : Pos[f] > Pos[e]}
           N == {Cardinality(Behind(e)) : e \in S}
<1>1. IsFiniteSet(S)
  BY SummaryAssumption, FS_Subset
<1>2. \A e \in S : IsFiniteSet(Behind(e)) /\ Cardinality(Behind(e)) \in Nat
  BY <1>1, FS_Subset, FS_CardinalityType
<1>3. N \in SUBSET Nat /\ N # {}
  BY <1>2
<1>4. PICK x \in N : \A y \in N : x <= y
  BY <1>3, LeastExists
<1>5. PICK e \in S : x = Cardinality(Behind(e))
  OBVIOUS
<1>6. \A f \in S : Pos[f] <= Pos[e]
  <2> SUFFICES ASSUME NEW f \in S, ~(Pos[f] <= Pos[e]) PROVE FALSE
    OBVIOUS
  <2>1. Pos[e] \in Nat /\ Pos[f] \in Nat /\ \A g \in S : Pos[g] \in Nat
    BY SummaryAssumption
  <2>2. Behind(f) \subseteq Behind(e) /\ f \in Behind(e) /\ f \notin Behind(f)
    BY <2>1
  <2>3. Cardinality(Behind(f)) <= Cardinality(Behind(e))
        /\ Cardinality(Behind(e)) # Cardinality(Behind(f))
    BY <1>2, <2>2, FS_Subset
  <2> HIDE DEF Behind
  <2>4. Cardinality(Behind(e)) <= Cardinality(Behind(f))
    BY <1>4, <1>5
  <2> QED
    BY <1>2, <2>3, <2>4
<1> QED
  BY <1>6

LEMMA PageType ==
    ASSUME indexed \subseteq Event, NEW day, NEW after
    PROVE  /\ Rest(day, after) \subseteq indexed /\ IsFiniteSet(Rest(day, after))
           /\ Page(day, after) \subseteq Rest(day, after)
           /\ IsFiniteSet(Page(day, after)) /\ Cardinality(Page(day, after)) \in Nat
<1>1. Rest(day, after) \subseteq Event /\ Page(day, after) \subseteq Rest(day, after)
  BY DEF Rest, Page
<1>2. IsFiniteSet(Rest(day, after))
  BY <1>1, SummaryAssumption, FS_Subset
<1> QED
  BY <1>1, <1>2, FS_Subset, FS_CardinalityType DEF Rest

(* A page has no gaps: what is before one of its events is on it.          *)
LEMMA PageIsPrefix ==
    ASSUME indexed \subseteq Event, NEW day, NEW after,
           NEW e \in Page(day, after), NEW f \in Rest(day, after), Pos[f] <= Pos[e]
    PROVE  f \in Page(day, after)
<1> DEFINE Before(x) == {g \in Rest(day, after) : Pos[g] < Pos[x]}
<1>1. e \in Rest(day, after) /\ Rest(day, after) \subseteq Event
  BY PageType
<1>2. \A g \in Rest(day, after) : Pos[g] \in Nat
  BY <1>1, SummaryAssumption
<1>3. Before(f) \subseteq Before(e)
  BY <1>1, <1>2
<1>4. IsFiniteSet(Before(e)) /\ Cardinality(Before(e)) \in Nat /\ Cardinality(Before(f)) \in Nat
  BY <1>3, PageType, FS_Subset, FS_CardinalityType
<1>5. Cardinality(Before(f)) <= Cardinality(Before(e))
  BY <1>3, <1>4, FS_Subset
<1>6. Cardinality(Before(e)) < PageSize
  BY DEF Page
<1>7. Cardinality(Before(f)) < PageSize
  BY <1>4, <1>5, <1>6, SummaryAssumption
<1> QED
  BY <1>7 DEF Page

(* A page that is not full is the last one.                                *)
LEMMA ShortPageIsRest ==
    ASSUME indexed \subseteq Event, NEW day, NEW after, LastPage(Page(day, after))
    PROVE  Page(day, after) = Rest(day, after)
<1> SUFFICES ASSUME Rest(day, after) \ Page(day, after) # {} PROVE FALSE
  BY PageType
<1>1. Rest(day, after) \ Page(day, after) \in SUBSET Event
  BY PageType
<1>2. PICK e \in Rest(day, after) \ Page(day, after) :
         \A f \in Rest(day, after) \ Page(day, after) : Pos[e] <= Pos[f]
  BY <1>1, FirstEvent
<1> DEFINE before == {f \in Rest(day, after) : Pos[f] < Pos[e]}
<1>3. before \subseteq Page(day, after)
  <2>1. \A f \in Rest(day, after) : Pos[f] \in Nat
    BY PageType, SummaryAssumption
  <2> QED
    BY <1>2, <2>1
<1>4. Cardinality(before) <= Cardinality(Page(day, after))
  BY <1>3, PageType, FS_Subset
<1>5. Cardinality(before) \in Nat
  BY <1>3, PageType, FS_Subset, FS_CardinalityType
<1>6. ~(Cardinality(before) < PageSize)
  BY <1>2 DEF Page
<1> QED
  BY <1>4, <1>5, <1>6, PageType, SummaryAssumption DEF LastPage

(* The cursor moves to the last event of the page.                         *)
LEMMA LastPosIsLast ==
    ASSUME NEW page \in SUBSET Event, page # {}
    PROVE  /\ LastPos(page) \in Nat
           /\ \A e \in page : Pos[e] <= LastPos(page)
           /\ \E e \in page : Pos[e] = LastPos(page)
<1>1. \E p \in {Pos[e] : e \in page} : \A e \in page : Pos[e] <= p
  BY LastEvent
<1>2. LastPos(page) \in {Pos[e] : e \in page} /\ \A e \in page : Pos[e] <= LastPos(page)
  BY <1>1 DEF LastPos
<1> QED
  BY <1>2, SummaryAssumption

-----------------------------------------------------------------------------
(* Every step keeps the invariant.                                         *)

LEMMA ClockTypes ==
    ASSUME TypeOK
    PROVE  clock \in Nat /\ Today \in Day
<1> QED
  BY SummaryAssumption DEF TypeOK, Time, Today, Day

LEMMA CardinalityOfSome ==
    ASSUME NEW S \in SUBSET Event
    PROVE  IsFiniteSet(S) /\ Cardinality(S) \in Nat
BY SummaryAssumption, FS_Subset, FS_CardinalityType

LEMMA InitKeeps == Init => DayInv
<1> SUFFICES ASSUME Init PROVE DayInv
  OBVIOUS
<1>1. 0 \in Time /\ 0 \in Day /\ MaxTries \in 0 .. MaxTries /\ 0 \in 0 .. MaxFails
  BY SummaryAssumption DEF Time, Day
<1>2. TypeOK
  BY <1>1 DEF Init, TypeOK
<1>3. Absent \in Summary \cup {Absent}
  OBVIOUS
<1> QED
  BY <1>2 DEF Init, DayInv, EventsCountedOnce, FinalCoversOnTime

(* What is indexed meanwhile is neither counted nor owed: it was not there *)
(* when a run began, and is on time only while no daily run has begun.     *)
LEMMA IndexKeeps ==
    ASSUME DayInv, NEW e \in Event, Index(e)
    PROVE  DayInv'
<1>1. TypeOK
  BY DEF DayInv
<1>2. clock \in Nat /\ DayOf[e] \in Nat
  BY <1>1, ClockTypes, SummaryAssumption DEF Day
<1>3. TypeOK'
  BY <1>1 DEF Index, TypeOK, jobVars, walkVars
<1>4. UNCHANGED <<clock, summary, final, tries, pc, kind, target, started, base,
                  cursor, total, walked>>
  BY DEF Index, jobVars, walkVars
<1>5. ASSUME NEW i \in Invocation, pc[i] # "idle" PROVE WalkGood(i)' /\ RunTimely(i)'
  <2>1. WalkGood(i) /\ RunTimely(i)
    BY <1>5 DEF DayInv
  <2>2. WalkGood(i)'
    BY <1>4, <2>1 DEF WalkGood, DayEvents, Index
  <2>3. kind[i] = "yesterday" => ontime' = ontime \/ DayOf[e] # target[i]
    BY <1>1, <1>2, <1>5, <2>1 DEF RunTimely, Index, TypeOK, Day
  <2> QED
    BY <1>4, <2>1, <2>2, <2>3 DEF RunTimely, Index
<1>6. EventsCountedOnce'
  BY <1>4 DEF DayInv, EventsCountedOnce, Index
<1>7. FinalCoversOnTime'
  <2> SUFFICES ASSUME NEW d \in final
               PROVE  {f \in ontime' : DayOf[f] = d} \subseteq summary[d].events
    BY <1>4 DEF FinalCoversOnTime
  <2>1. d \in Nat /\ clock >= 2 * d + 3
    BY <1>1, SummaryAssumption DEF DayInv, TypeOK, Day
  <2>2. ontime' = ontime \/ DayOf[e] # d
    BY <1>2, <2>1 DEF Index
  <2> QED
    BY <2>2 DEF DayInv, FinalCoversOnTime, Index
<1> QED
  BY <1>3, <1>4, <1>5, <1>6, <1>7 DEF DayInv, AfterDailyTime

LEMMA TickKeeps ==
    ASSUME DayInv, Tick
    PROVE  DayInv'
<1>1. TypeOK
  BY DEF DayInv
<1>2. clock \in Nat /\ clock' = clock + 1 /\ clock' \in Time
  BY <1>1, ClockTypes DEF Tick
<1>3. tries' \in 0 .. MaxTries
  BY SummaryAssumption DEF Tick
<1>4. TypeOK'
  BY <1>1, <1>2, <1>3 DEF Tick, TypeOK, jobVars, walkVars
<1>5. UNCHANGED <<indexed, ontime, summary, final, pc, kind, target, started, base,
                  cursor, total, walked>>
  BY DEF Tick, jobVars, walkVars
<1>6. ASSUME NEW i \in Invocation, pc[i] # "idle" PROVE WalkGood(i)' /\ RunTimely(i)'
  <2>1. WalkGood(i) /\ RunTimely(i) /\ started[i] = clock
    BY <1>6 DEF DayInv, Tick, WithinLimit
  <2>2. WalkGood(i)'
    BY <1>5, <2>1 DEF WalkGood, DayEvents
  <2>3. target[i] \in Nat
    BY <1>1 DEF TypeOK, Day
  <2> QED
    BY <1>2, <1>5, <2>1, <2>2, <2>3 DEF RunTimely
<1>7. \A d \in final : clock' >= 2 * d + 3
  <2>1. \A d \in final : d \in Nat
    BY <1>1 DEF TypeOK, Day
  <2> QED
    BY <1>2, <2>1 DEF DayInv
<1>8. EventsCountedOnce' /\ FinalCoversOnTime'
  BY <1>5 DEF DayInv, EventsCountedOnce, FinalCoversOnTime
<1>9. ~AfterDailyTime(clock)' => tries' = MaxTries
  BY DEF Tick, AfterDailyTime
<1> QED
  BY <1>4, <1>5, <1>6, <1>7, <1>8, <1>9 DEF DayInv

(* A run begins its walk from the first event, with nothing counted.       *)
LEMMA BeginKeeps ==
    ASSUME DayInv, NEW i \in Invocation, NEW k \in {"today", "yesterday"}, NEW day \in Day,
           Begin(i, k, day), tries' \in 0 .. MaxTries,
           ~AfterDailyTime(clock) => tries' = MaxTries,
           k = "today" => clock <= 2 * day + 1,
           k = "yesterday" => clock >= 2 * day + 3
    PROVE  DayInv'
<1>1. TypeOK
  BY DEF DayInv
<1>2. clock \in Nat
  BY <1>1, ClockTypes
<1>3. UNCHANGED <<clock, indexed, ontime, summary, final, cursor, total, walked, fails>>
  BY DEF Begin, envVars, walkVars
<1>4. TypeOK'
  BY <1>1, <1>3 DEF Begin, TypeOK
<1>5. ASSUME NEW j \in Invocation, pc'[j] # "idle" PROVE WalkGood(j)' /\ RunTimely(j)'
  <2>1. CASE j = i
    <3>1. /\ cursor[i] = 0 /\ total[i] = 0 /\ walked[i] = {}
          /\ pc'[i] = "walk" /\ kind'[i] = k /\ target'[i] = day /\ started'[i] = clock
          /\ base'[i] = {e \in indexed : DayOf[e] = day}
      BY <1>1 DEF DayInv, Begin, TypeOK
    <3>2. \A e \in base'[i] : ~(Pos[e] <= 0)
      BY <1>1, <3>1, SummaryAssumption DEF TypeOK
    <3>3. WalkGood(i)'
      BY <1>3, <3>1, <3>2, FS_EmptySet DEF WalkGood, DayEvents
    <3>4. RunTimely(i)'
      BY <1>1, <1>2, <1>3, <3>1 DEF RunTimely, TypeOK
    <3> QED
      BY <2>1, <3>3, <3>4
  <2>2. CASE j # i
    <3>1. /\ pc'[j] = pc[j] /\ kind'[j] = kind[j] /\ target'[j] = target[j]
          /\ started'[j] = started[j] /\ base'[j] = base[j]
      BY <1>1, <2>2 DEF Begin, TypeOK
    <3>2. WalkGood(j) /\ RunTimely(j)
      BY <1>5, <3>1 DEF DayInv
    <3> QED
      BY <1>3, <3>1, <3>2 DEF WalkGood, DayEvents, RunTimely
  <2> QED
    BY <2>1, <2>2
<1>6. \A j \in Invocation : pc'[j] = "idle" => pc[j] = "idle"
  BY <1>1 DEF Begin, TypeOK
<1>7. EventsCountedOnce' /\ FinalCoversOnTime'
  BY <1>3 DEF DayInv, EventsCountedOnce, FinalCoversOnTime
<1> QED
  BY <1>3, <1>4, <1>5, <1>6, <1>7 DEF DayInv, AfterDailyTime

LEMMA StartTodayKeeps ==
    ASSUME DayInv, NEW i \in Invocation, StartToday(i)
    PROVE  DayInv'
<1>1. TypeOK /\ Today \in Day /\ clock \in Nat
  BY ClockTypes DEF DayInv
<1>2. clock <= 2 * Today + 1
  BY <1>1 DEF Today
<1>3. tries' = tries /\ tries \in 0 .. MaxTries
  BY <1>1 DEF StartToday, TypeOK
<1> QED
  BY <1>1, <1>2, <1>3, BeginKeeps DEF StartToday, DayInv

(* The daily event is only delivered after 00:05: before, tries is at its  *)
(* limit.                                                                  *)
LEMMA StartDailyKeeps ==
    ASSUME DayInv, NEW i \in Invocation, StartDaily(i)
    PROVE  DayInv'
<1>1. TypeOK /\ Today \in Day /\ clock \in Nat
  BY ClockTypes DEF DayInv
<1>2. tries \in 0 .. MaxTries /\ tries < MaxTries /\ tries' = tries + 1
  BY <1>1 DEF StartDaily, TriesLeft, TypeOK
<1>3. AfterDailyTime(clock)
  BY <1>2, SummaryAssumption DEF DayInv
<1>4. Today > 0 /\ Today - 1 \in Day
  BY <1>1, SummaryAssumption DEF StartDaily, Day
<1>5. clock >= 2 * (Today - 1) + 3
  BY <1>1, <1>3, <1>4 DEF Today, AfterDailyTime
<1>6. tries' \in 0 .. MaxTries
  BY <1>2, SummaryAssumption
<1> QED
  BY <1>3, <1>4, <1>5, <1>6, BeginKeeps DEF StartDaily

LEMMA WalkPageKeeps ==
    ASSUME DayInv, NEW i \in Invocation, WalkPage(i)
    PROVE  DayInv'
<1> DEFINE rest == Rest(target[i], cursor[i])
           page == Page(target[i], cursor[i])
<1>1. TypeOK /\ WalkGood(i) /\ RunTimely(i) /\ pc[i] = "walk"
  BY DEF DayInv, WalkPage
<1>2. UNCHANGED <<clock, indexed, ontime, summary, final, tries, kind, target, started,
                  base, fails>>
  BY DEF WalkPage, envVars, jobVars
<1>3. /\ indexed \subseteq Event
      /\ page \subseteq rest /\ rest \subseteq indexed
      /\ IsFiniteSet(page) /\ Cardinality(page) \in Nat
  BY <1>1, PageType DEF TypeOK
<1>4. /\ walked' = [walked EXCEPT ![i] = @ \cup page]
      /\ total' = [total EXCEPT ![i] = @ + Cardinality(page)]
      /\ cursor' = [cursor EXCEPT ![i] = IF page = {} THEN @ ELSE LastPos(page)]
      /\ pc' = [pc EXCEPT ![i] = IF LastPage(page) THEN "put" ELSE "walk"]
  BY DEF WalkPage
<1>5. cursor[i] \in Nat /\ total[i] \in Nat /\ walked[i] \subseteq Event
      /\ base[i] \subseteq Event
  BY <1>1 DEF TypeOK
<1>6. /\ walked'[i] = walked[i] \cup page
      /\ total'[i] = total[i] + Cardinality(page)
      /\ cursor'[i] = IF page = {} THEN cursor[i] ELSE LastPos(page)
      /\ pc'[i] = IF LastPage(page) THEN "put" ELSE "walk"
  BY <1>1, <1>4 DEF TypeOK
<1>7. \A e \in rest : Pos[e] > cursor[i] /\ DayOf[e] = target[i]
  BY DEF Rest
<1> HIDE DEF rest, page
<1>8. /\ cursor'[i] \in Nat /\ cursor[i] <= cursor'[i]
      /\ \A e \in page : Pos[e] <= cursor'[i]
      /\ \A e \in rest : Pos[e] <= cursor'[i] => e \in page
  <2>1. CASE page = {}
    <3>1. \A e \in rest : Pos[e] \in Nat
      BY <1>3, SummaryAssumption
    <3> QED
      BY <1>5, <1>6, <1>7, <2>1, <3>1
  <2>2. CASE page # {}
    <3>1. PICK last \in page : Pos[last] = LastPos(page)
      BY <1>3, <2>2, LastPosIsLast
    <3>2. LastPos(page) \in Nat /\ \A e \in page : Pos[e] <= LastPos(page)
      BY <1>3, <2>2, LastPosIsLast
    <3>3. \A e \in rest : Pos[e] <= Pos[last] => e \in page
      BY <1>3, PageIsPrefix DEF page, rest
    <3>4. Pos[last] > cursor[i]
      BY <1>3, <1>7
    <3> QED
      BY <1>5, <1>6, <2>2, <3>1, <3>2, <3>3, <3>4
  <2> QED
    BY <2>1, <2>2
<1>9. TypeOK'
  <2>1. walked' \in [Invocation -> SUBSET Event]
    BY <1>1, <1>3, <1>4 DEF TypeOK
  <2>2. total' \in [Invocation -> Nat]
    BY <1>1, <1>3, <1>4 DEF TypeOK
  <2>3. cursor' \in [Invocation -> Nat]
    BY <1>1, <1>4, <1>6, <1>8 DEF TypeOK
  <2>4. pc' \in [Invocation -> {"idle", "walk", "put"}]
    BY <1>1, <1>4 DEF TypeOK
  <2> QED
    BY <1>1, <1>2, <2>1, <2>2, <2>3, <2>4 DEF TypeOK
<1>10. WalkGood(i)'
  <2>1. total'[i] = Cardinality(walked'[i])
    <3>1. walked[i] \cap page = {}
      <4>1. \A e \in walked[i] : Pos[e] \in Nat /\ Pos[e] <= cursor[i]
        BY <1>1, <1>5, SummaryAssumption DEF WalkGood
      <4> QED
        BY <1>3, <1>5, <1>7, <4>1
    <3>2. IsFiniteSet(walked[i])
      BY <1>5, CardinalityOfSome
    <3>3. Cardinality(walked[i] \cup page) =
            Cardinality(walked[i]) + Cardinality(page) - Cardinality(walked[i] \cap page)
      BY <1>3, <3>2, FS_Union
    <3>4. Cardinality(walked[i] \cap page) = 0
      BY <3>1, FS_EmptySet
    <3> QED
      BY <1>1, <1>3, <1>5, <1>6, <3>3, <3>4 DEF WalkGood
  <2>2. \A e \in walked'[i] : Pos[e] <= cursor'[i]
    <3>1. \A e \in walked[i] : Pos[e] \in Nat /\ Pos[e] <= cursor[i]
      BY <1>1, <1>5, SummaryAssumption DEF WalkGood
    <3> QED
      BY <1>5, <1>6, <1>8, <3>1
  <2>3. walked'[i] \subseteq {e \in indexed : DayOf[e] = target[i]}
    BY <1>1, <1>3, <1>6, <1>7 DEF WalkGood, DayEvents
  <2>4. ASSUME NEW e \in base[i], Pos[e] <= cursor'[i] \/ pc'[i] = "put"
        PROVE  e \in walked'[i]
    <3>1. e \in indexed /\ DayOf[e] = target[i] /\ Pos[e] \in Nat
      BY <1>1, <1>5, SummaryAssumption DEF WalkGood, DayEvents
    <3>2. CASE Pos[e] <= cursor[i]
      BY <1>1, <1>6, <3>2 DEF WalkGood
    <3>3. CASE ~(Pos[e] <= cursor[i])
      <4>1. e \in rest
        BY <1>5, <3>1, <3>3 DEF rest, Rest
      <4>2. pc'[i] = "put" => page = rest
        BY <1>3, <1>6, ShortPageIsRest DEF page, rest
      <4> QED
        BY <1>6, <1>8, <2>4, <4>1, <4>2
    <3> QED
      BY <3>2, <3>3
  <2> QED
    BY <1>1, <1>2, <2>1, <2>2, <2>3, <2>4 DEF WalkGood, DayEvents
<1>11. RunTimely(i)'
  BY <1>1, <1>2 DEF RunTimely
<1>12. ASSUME NEW j \in Invocation, j # i
       PROVE  /\ pc'[j] = pc[j] /\ walked'[j] = walked[j]
              /\ total'[j] = total[j] /\ cursor'[j] = cursor[j]
  BY <1>1, <1>4, <1>12 DEF TypeOK
<1>13. ASSUME NEW j \in Invocation, j # i, pc'[j] # "idle"
       PROVE  WalkGood(j)' /\ RunTimely(j)'
  <2>1. WalkGood(j) /\ RunTimely(j)
    BY <1>12, <1>13 DEF DayInv
  <2> QED
    BY <1>2, <1>12, <1>13, <2>1 DEF WalkGood, DayEvents, RunTimely
<1>14. ASSUME NEW j \in Invocation, pc'[j] = "idle"
       PROVE  cursor'[j] = 0 /\ total'[j] = 0 /\ walked'[j] = {}
  <2>1. j # i
    BY <1>6, <1>14
  <2> QED
    BY <1>12, <1>14, <2>1 DEF DayInv
<1>15. EventsCountedOnce' /\ FinalCoversOnTime'
  BY <1>2 DEF DayInv, EventsCountedOnce, FinalCoversOnTime
<1> QED
  BY <1>2, <1>9, <1>10, <1>11, <1>13, <1>14, <1>15 DEF DayInv, AfterDailyTime

(* The end of an invocation, whatever became of it.                        *)
LEMMA ForgetKeeps ==
    ASSUME DayInv, NEW i \in Invocation, Forget(i),
           UNCHANGED <<clock, indexed, ontime>>
    PROVE  /\ pc' \in [Invocation -> {"idle", "walk", "put"}]
           /\ kind' \in [Invocation -> {"today", "yesterday"}]
           /\ target' \in [Invocation -> Day]
           /\ started' \in [Invocation -> Time]
           /\ base' \in [Invocation -> SUBSET Event]
           /\ cursor' \in [Invocation -> Nat]
           /\ total' \in [Invocation -> Nat]
           /\ walked' \in [Invocation -> SUBSET Event]
           /\ \A j \in Invocation :
                 IF pc'[j] = "idle"
                 THEN cursor'[j] = 0 /\ total'[j] = 0 /\ walked'[j] = {}
                 ELSE WalkGood(j)' /\ RunTimely(j)'
<1>1. TypeOK
  BY DEF DayInv
<1>2. 0 \in Day /\ 0 \in Time
  BY SummaryAssumption DEF Day, Time
<1>3. /\ pc' \in [Invocation -> {"idle", "walk", "put"}]
      /\ kind' \in [Invocation -> {"today", "yesterday"}]
      /\ target' \in [Invocation -> Day]
      /\ started' \in [Invocation -> Time]
      /\ base' \in [Invocation -> SUBSET Event]
      /\ cursor' \in [Invocation -> Nat]
      /\ total' \in [Invocation -> Nat]
      /\ walked' \in [Invocation -> SUBSET Event]
  BY <1>1, <1>2 DEF Forget, ResetWalk, TypeOK
<1>4. ASSUME NEW j \in Invocation
      PROVE  IF pc'[j] = "idle"
             THEN cursor'[j] = 0 /\ total'[j] = 0 /\ walked'[j] = {}
             ELSE WalkGood(j)' /\ RunTimely(j)'
  <2>1. CASE j = i
    BY <1>1, <2>1 DEF Forget, ResetWalk, TypeOK
  <2>2. CASE j # i
    <3>1. /\ pc'[j] = pc[j] /\ kind'[j] = kind[j] /\ target'[j] = target[j]
          /\ started'[j] = started[j] /\ base'[j] = base[j]
          /\ cursor'[j] = cursor[j] /\ total'[j] = total[j] /\ walked'[j] = walked[j]
      BY <1>1, <2>2 DEF Forget, ResetWalk, TypeOK
    <3>2. IF pc[j] = "idle" THEN cursor[j] = 0 /\ total[j] = 0 /\ walked[j] = {}
          ELSE WalkGood(j) /\ RunTimely(j)
      BY DEF DayInv
    <3> QED
      BY <3>1, <3>2 DEF WalkGood, DayEvents, RunTimely
  <2> QED
    BY <2>1, <2>2
<1> QED
  BY <1>3, <1>4

LEMMA FailKeeps ==
    ASSUME DayInv, NEW i \in Invocation, Fail(i)
    PROVE  DayInv'
<1>1. TypeOK
  BY DEF DayInv
<1>2. UNCHANGED <<clock, indexed, ontime, summary, final, tries>> /\ Forget(i)
  BY DEF Fail, envVars
<1>3. fails' \in 0 .. MaxFails
  BY <1>1, SummaryAssumption DEF Fail, TypeOK
<1>4. TypeOK'
  BY <1>1, <1>2, <1>3, ForgetKeeps DEF TypeOK
<1>5. EventsCountedOnce' /\ FinalCoversOnTime'
  BY <1>2 DEF DayInv, EventsCountedOnce, FinalCoversOnTime
<1>6. \A j \in Invocation :
         IF pc'[j] = "idle" THEN cursor'[j] = 0 /\ total'[j] = 0 /\ walked'[j] = {}
         ELSE WalkGood(j)' /\ RunTimely(j)'
  BY <1>2, ForgetKeeps
<1> QED
  BY <1>2, <1>4, <1>5, <1>6 DEF DayInv, AfterDailyTime

(* A run for the present day of its start has ended before a daily run of  *)
(* that day begins, so none puts under the key of a final summary.         *)
LEMMA LateRunIsDaily ==
    ASSUME DayInv, NEW i \in Invocation, pc[i] # "idle", target[i] \in final
    PROVE  kind[i] = "yesterday"
<1>1. TypeOK /\ RunTimely(i)
  BY DEF DayInv
<1>2. clock \in Nat /\ started[i] \in Nat /\ target[i] \in Nat
  BY <1>1, ClockTypes, SummaryAssumption DEF TypeOK, Time, Day
<1>3. clock >= 2 * target[i] + 3
  BY DEF DayInv
<1>4. kind[i] # "today"
  BY <1>1, <1>2, <1>3 DEF RunTimely
<1> QED
  BY <1>1, <1>4 DEF TypeOK

LEMMA PutSummaryKeeps ==
    ASSUME DayInv, NEW i \in Invocation, PutSummary(i)
    PROVE  DayInv'
<1> DEFINE day == target[i]
           put == [total |-> total[i], events |-> walked[i]]
<1>1. TypeOK /\ WalkGood(i) /\ RunTimely(i) /\ pc[i] = "put"
  BY DEF DayInv, PutSummary
<1>2. UNCHANGED <<clock, indexed, ontime, tries, fails>> /\ Forget(i)
  BY DEF PutSummary, envVars
<1>3. day \in Day /\ put \in Summary /\ total[i] \in Nat
  BY <1>1 DEF TypeOK, Summary
<1>4. summary' = [summary EXCEPT ![day] = put]
  BY DEF PutSummary
<1>5. /\ summary'[day] = put
      /\ \A d \in Day : d # day => summary'[d] = summary[d]
  BY <1>1, <1>3, <1>4 DEF TypeOK
<1>6. put # Absent
  BY <1>3 DEF Absent
<1>7. final' = IF kind[i] = "yesterday" THEN final \cup {day} ELSE final
  BY DEF PutSummary
<1>8. TypeOK'
  <2>1. summary' \in [Day -> Summary \cup {Absent}]
    BY <1>1, <1>3, <1>4 DEF TypeOK
  <2>2. final' \subseteq Day
    BY <1>1, <1>3, <1>7 DEF TypeOK
  <2> QED
    BY <1>1, <1>2, <2>1, <2>2, ForgetKeeps DEF TypeOK
<1>9. \A d \in final' : clock >= 2 * d + 3 /\ summary'[d] # Absent
  <2>1. final \subseteq Day
    BY <1>1 DEF TypeOK
  <2>2. kind[i] = "yesterday" => clock >= 2 * day + 3
    BY <1>1 DEF RunTimely
  <2> QED
    BY <1>5, <1>6, <1>7, <2>1, <2>2 DEF DayInv
<1>10. EventsCountedOnce'
  <2> SUFFICES ASSUME NEW d \in Day, summary'[d] # Absent
               PROVE  /\ summary'[d].events \subseteq {e \in indexed : DayOf[e] = d}
                      /\ summary'[d].total = Cardinality(summary'[d].events)
    BY <1>2 DEF EventsCountedOnce
  <2>1. CASE d = day
    BY <1>1, <1>5, <2>1 DEF WalkGood, DayEvents
  <2>2. CASE d # day
    BY <1>5, <2>2 DEF DayInv, EventsCountedOnce
  <2> QED
    BY <2>1, <2>2
<1>11. FinalCoversOnTime'
  <2> SUFFICES ASSUME NEW d \in final'
               PROVE  {e \in ontime : DayOf[e] = d} \subseteq summary'[d].events
    BY <1>2 DEF FinalCoversOnTime
  <2>1. d \in Day
    BY <1>8 DEF TypeOK
  <2>2. CASE d = day
    <3>1. kind[i] = "yesterday"
      BY <1>1, <1>7, <2>2, LateRunIsDaily
    <3>2. {e \in ontime : DayOf[e] = day} \subseteq base[i] /\ base[i] \subseteq walked[i]
      BY <1>1, <3>1 DEF RunTimely, WalkGood
    <3> QED
      BY <1>5, <2>2, <3>2
  <2>3. CASE d # day
    BY <1>5, <1>7, <2>1, <2>3 DEF DayInv, FinalCoversOnTime
  <2> QED
    BY <2>2, <2>3
<1>12. \A j \in Invocation :
          IF pc'[j] = "idle" THEN cursor'[j] = 0 /\ total'[j] = 0 /\ walked'[j] = {}
          ELSE WalkGood(j)' /\ RunTimely(j)'
  BY <1>2, ForgetKeeps
<1> QED
  BY <1>2, <1>8, <1>9, <1>10, <1>11, <1>12 DEF DayInv, AfterDailyTime

LEMMA StepKeeps == DayInv /\ [Next]_vars => DayInv'
<1> SUFFICES ASSUME DayInv, [Next]_vars PROVE DayInv'
  OBVIOUS
<1>1. CASE UNCHANGED vars
  <2>1. UNCHANGED <<clock, indexed, ontime, summary, final, tries, pc, kind, target,
                    started, base, cursor, total, walked, fails>>
    BY <1>1 DEF vars
  <2> QED
    BY <2>1 DEF DayInv, TypeOK, AfterDailyTime, WalkGood, DayEvents, RunTimely,
                EventsCountedOnce, FinalCoversOnTime
<1> QED
  BY <1>1, IndexKeeps, TickKeeps, StartTodayKeeps, StartDailyKeeps, WalkPageKeeps,
     PutSummaryKeeps, FailKeeps DEF Next, Step

-----------------------------------------------------------------------------
(* Theorems                                                                *)

(* The places of walks and the times of runs fit together in every state.  *)
THEOREM DayInvariant == Spec => []DayInv
BY InitKeeps, StepKeeps, PTL DEF Spec

(* Types, for any number of runs and days.                                 *)
THEOREM DayTypeCorrect == Spec => []TypeOK
<1>1. DayInv => TypeOK
  BY DEF DayInv
<1> QED
  BY <1>1, DayInvariant, PTL

(* A summary counts stored events of its day, each once, for any pages and *)
(* any insertions between them (_handle_daily_summary).                    *)
THEOREM CountedOnce == Spec => []EventsCountedOnce
<1>1. DayInv => EventsCountedOnce
  BY DEF DayInv
<1> QED
  BY <1>1, DayInvariant, PTL

(* A walk misses none of the events that were there when it began.         *)
THEOREM WalksAreComplete == Spec => []WalkComplete
<1>1. DayInv => WalkComplete
  <2> SUFFICES ASSUME DayInv, NEW i \in Invocation, pc[i] = "put"
               PROVE  base[i] \subseteq walked[i]
    BY DEF WalkComplete
  <2>1. WalkGood(i)
    BY DEF DayInv
  <2> QED
    BY <2>1 DEF WalkGood
<1> QED
  BY <1>1, DayInvariant, PTL

(* A final summary has every event that was indexed by 00:05.              *)
THEOREM FinalIsWhole == Spec => []FinalCoversOnTime
<1>1. DayInv => FinalCoversOnTime
  BY DEF DayInv
<1> QED
  BY <1>1, DayInvariant, PTL

(* Only another daily run ever replaces a final summary: a run for the     *)
(* present day that straddles midnight is over before 00:05.               *)
THEOREM FinalStays == Spec => FinalIsLockedIn
<1> DEFINE Locked == \A d \in final : summary'[d] # summary[d] =>
                        \E i \in Running("yesterday") : pc[i] = "put" /\ target[i] = d
<1>1. DayInv /\ [Next]_vars => [Locked]_vars
  <2> SUFFICES ASSUME DayInv, Next, NEW d \in final, summary'[d] # summary[d]
               PROVE  \E i \in Running("yesterday") : pc[i] = "put" /\ target[i] = d
    OBVIOUS
  <2>1. PICK i \in Invocation : PutSummary(i)
    BY DEF Next, Step, Index, Tick, StartToday, StartDaily, Begin, WalkPage, Fail
  <2>2. TypeOK
    BY DEF DayInv
  <2>3. target[i] = d
    BY <2>1, <2>2 DEF PutSummary, TypeOK
  <2>4. pc[i] = "put" /\ kind[i] = "yesterday"
    BY <2>1, <2>3, LateRunIsDaily DEF PutSummary
  <2> QED
    BY <2>3, <2>4 DEF Running
<1> QED
  BY <1>1, DayInvariant, PTL DEF Spec, FinalIsLockedIn
=============================================================================
