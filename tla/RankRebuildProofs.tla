-------------------------- MODULE RankRebuildProofs --------------------------
(***************************************************************************)
(* A rebuild that runs alone is exact, and no rebuild invents counts, for  *)
(* every set of values, window, list length and number of invocations.     *)
(***************************************************************************)
EXTENDS RankRebuild, WellFoundedInduction, TLAPS

\* A value has one row among the top rows of any counts.
LEMMA TopRowsUnique ==
    ASSUME NEW t \in Count
    PROVE  /\ TopRows(t) \subseteq Row
           /\ \A r, s \in TopRows(t) : r[2] = s[2] => r = s
BY DEF TopRows, Count, Row

\* What a query of a bucket returns counts every value.
LEMMA ViewIsCount ==
    ASSUME NEW h \in Int, NEW view \in CountViews(h)
    PROVE  view \in Count
BY RankAssumption DEF CountViews, Count

LEMMA NoneIsCount == None \in Count
BY DEF None, Count

\* A new table and idle invocations satisfy RebuildInv.
THEOREM InitInv == Init => RebuildInv
BY RankAssumption, NoneIsCount
   DEF Init, RebuildInv, TypeOK, LoopBound, AloneExact, Hour

\* Steps that leave the rebuilds and the rows alone: only the types change.
LEMMA EnvironmentKeeps ==
    ASSUME RebuildInv, Environment
    PROVE  RebuildInv'
<1> USE RankAssumption DEF RebuildInv
<1>1. CASE \E h \in Hour, v \in Value : Add(h, v)
  <2>1. PICK h \in Hour, v \in Value : Add(h, v)
    BY <1>1
  <2>2. /\ hourly[h][v] + 1 \in Nat
        /\ hourly[h] \in Count
    BY DEF TypeOK, Count
  <2>3. [hourly[h] EXCEPT ![v] = @ + 1] \in Count
    BY <2>2 DEF Count
  <2>4. hourly' \in [Hour -> Count]
    BY <2>1, <2>3 DEF Add, TypeOK
  <2>5. TypeOK'
    BY <2>1, <2>4 DEF Add, TypeOK, tableVars, localVars
  <2>6. LoopBound' /\ AloneExact'
    BY <2>1 DEF Add, LoopBound, AloneExact, tableVars, localVars
  <2> QED
    BY <2>5, <2>6
<1>2. CASE Tick
  <2>1. TypeOK'
    BY <1>2 DEF Tick, TypeOK, Hour, tableVars, localVars
  <2>2. LoopBound' /\ AloneExact'
    BY <1>2 DEF Tick, LoopBound, AloneExact, tableVars, localVars
  <2> QED
    BY <2>1, <2>2
<1>3. CASE \E r \in rows \cup replica : SyncRow(r)
  <2>1. TypeOK'
    BY <1>3 DEF SyncRow, TypeOK, counterVars, localVars
  <2>2. LoopBound' /\ AloneExact'
    BY <1>3 DEF SyncRow, LoopBound, AloneExact, counterVars, localVars
  <2> QED
    BY <2>1, <2>2
<1> QED
  BY <1>1, <1>2, <1>3 DEF Environment

\* An invocation that ends is not alone any more, and nobody else was.
LEMMA ForgetKeeps ==
    ASSUME RebuildInv, NEW i \in Invocation, Forget(i),
           UNCHANGED <<counterVars, tableVars>>, fails' \in 0 .. MaxFails
    PROVE  RebuildInv'
<1> USE RankAssumption DEF RebuildInv
<1>1. TypeOK'
  BY NoneIsCount DEF Forget, TypeOK, counterVars, tableVars, Hour
<1>2. LoopBound'
  BY DEF Forget, LoopBound, TypeOK
<1>3. AloneExact'
  BY DEF Forget, AloneExact, TypeOK, tableVars
<1> QED
  BY <1>1, <1>2, <1>3

LEMMA StartKeeps ==
    ASSUME RebuildInv, NEW i \in Invocation, Start(i)
    PROVE  RebuildInv'
<1> USE RankAssumption DEF RebuildInv
<1>1. TypeOK'
  BY DEF Start, TypeOK, counterVars, tableVars
<1>2. LoopBound'
  BY DEF Start, LoopBound, TypeOK
<1>3. AloneExact'
  BY DEF Start, AloneExact, TypeOK, tableVars
<1> QED
  BY <1>1, <1>2, <1>3

LEMMA ReadBucketKeeps ==
    ASSUME RebuildInv, NEW i \in Invocation,
           NEW view \in CountViews(BucketAt(now[i], offset[i])), ReadBucket(i, view)
    PROVE  RebuildInv'
<1> USE RankAssumption DEF RebuildInv
<1>1. view \in Count
  BY ViewIsCount DEF TypeOK, BucketAt, Hour
<1>2. [v \in Value |-> totals[i][v] + view[v]] \in Count
  BY <1>1 DEF TypeOK, Count
<1>3. offset[i] + 1 \in 0 .. WindowHours
  BY DEF ReadBucket, LoopBound, TypeOK
<1>4. TypeOK'
  BY <1>2, <1>3 DEF ReadBucket, TypeOK, counterVars, tableVars
<1>5. LoopBound'
  BY <1>3 DEF ReadBucket, MoreHours, LoopBound, TypeOK
<1>6. AloneExact'
  BY DEF ReadBucket, AloneExact, TypeOK, tableVars
<1> QED
  BY <1>4, <1>5, <1>6

LEMMA QueryRowsKeeps ==
    ASSUME RebuildInv, NEW i \in Invocation, NEW view \in RowViews, QueryRows(i, view)
    PROVE  RebuildInv'
<1> USE RankAssumption DEF RebuildInv
<1>1. view \subseteq Row
  BY DEF RowViews, TypeOK
<1>2. TypeOK'
  BY <1>1 DEF QueryRows, TypeOK, counterVars, tableVars
<1>3. LoopBound'
  BY DEF QueryRows, LoopBound, TypeOK
<1>4. AloneExact'
  BY DEF QueryRows, AloneExact, TypeOK, tableVars
<1> QED
  BY <1>2, <1>3, <1>4

\* Only the rebuild that deletes or puts can be alone, since it is not idle.
LEMMA OthersNotAlone ==
    ASSUME AloneExact, NEW i \in Invocation, pc[i] # "idle",
           NEW j \in Invocation, j # i
    PROVE  ~alone[j]
BY DEF AloneExact

LEMMA DeleteRowKeeps ==
    ASSUME RebuildInv, NEW i \in Invocation, NEW r \in existing[i], DeleteRow(i, r)
    PROVE  RebuildInv'
<1> USE RankAssumption DEF RebuildInv
<1>1. TypeOK'
  BY DEF DeleteRow, TypeOK, counterVars
<1>2. LoopBound'
  BY DEF DeleteRow, LoopBound
<1>3. \A j \in Invocation : alone[j] => j = i
  BY OthersNotAlone DEF DeleteRow
<1>4. alone[i] => rows' = existing'[i]
  BY DEF DeleteRow, AloneExact, TypeOK
<1>5. AloneExact'
  BY <1>3, <1>4 DEF DeleteRow, AloneExact
<1> QED
  BY <1>1, <1>2, <1>5

LEMMA BeginWriteKeeps ==
    ASSUME RebuildInv, NEW i \in Invocation, BeginWrite(i)
    PROVE  RebuildInv'
<1> USE RankAssumption DEF RebuildInv
<1>1. TopRows(totals[i]) \subseteq Row
  BY TopRowsUnique DEF TypeOK
<1>2. TypeOK'
  BY <1>1 DEF BeginWrite, TypeOK, counterVars, tableVars
<1>3. LoopBound'
  BY DEF BeginWrite, LoopBound, TypeOK
<1>4. \A j \in Invocation : alone[j] => j = i
  BY OthersNotAlone DEF BeginWrite
<1>5. alone[i] => rows' \cup top'[i] = TopRows(totals'[i])
  BY DEF BeginWrite, Flushed, AloneExact, TypeOK, tableVars
<1>6. AloneExact'
  BY <1>4, <1>5 DEF BeginWrite, AloneExact, TypeOK
<1> QED
  BY <1>2, <1>3, <1>6

LEMMA PutRowKeeps ==
    ASSUME RebuildInv, NEW i \in Invocation, NEW r \in top[i], PutRow(i, r)
    PROVE  RebuildInv'
<1> USE RankAssumption DEF RebuildInv
<1>1. r \in Row
  BY DEF TypeOK
<1>2. TypeOK'
  BY <1>1 DEF PutRow, TypeOK, counterVars
<1>3. LoopBound'
  BY DEF PutRow, LoopBound
<1>4. \A j \in Invocation : alone[j] => j = i
  BY OthersNotAlone DEF PutRow
<1>5. alone[i] => rows' \cup top'[i] = TopRows(totals'[i])
  BY DEF PutRow, AloneExact, TypeOK
<1>6. AloneExact'
  BY <1>4, <1>5 DEF PutRow, AloneExact
<1> QED
  BY <1>2, <1>3, <1>6

\* Every step of the stream side, the clock or an invocation keeps RebuildInv.
THEOREM StepKeepsInv == RebuildInv /\ [Next]_vars => RebuildInv'
<1> SUFFICES ASSUME RebuildInv, [Next]_vars PROVE RebuildInv'
  OBVIOUS
<1>1. CASE Environment
  BY <1>1, EnvironmentKeeps
<1>2. ASSUME NEW i \in Invocation, Start(i) PROVE RebuildInv'
  BY <1>2, StartKeeps
<1>3. ASSUME NEW i \in Invocation, Rebuild(i) PROVE RebuildInv'
  <2>1. CASE \E view \in CountViews(BucketAt(now[i], offset[i])) : ReadBucket(i, view)
    BY <2>1, ReadBucketKeeps
  <2>2. CASE \E view \in RowViews : QueryRows(i, view)
    BY <2>2, QueryRowsKeeps
  <2>3. CASE \E r \in existing[i] : DeleteRow(i, r)
    BY <2>3, DeleteRowKeeps
  <2>4. CASE BeginWrite(i)
    BY <2>4, BeginWriteKeeps
  <2>5. CASE \E r \in top[i] : PutRow(i, r)
    BY <2>5, PutRowKeeps
  <2>6. CASE Finish(i)
    BY <2>6, ForgetKeeps DEF Finish, RebuildInv, TypeOK
  <2> QED
    BY <1>3, <2>1, <2>2, <2>3, <2>4, <2>5, <2>6 DEF Rebuild
<1>4. ASSUME NEW i \in Invocation, Fail(i) PROVE RebuildInv'
  <2>1. fails' \in 0 .. MaxFails
    BY <1>4, RankAssumption DEF Fail, RebuildInv, TypeOK
  <2> QED
    BY <1>4, <2>1, ForgetKeeps DEF Fail
<1>5. CASE UNCHANGED vars
  BY <1>5 DEF vars, RebuildInv, TypeOK, LoopBound, AloneExact
<1> QED
  BY <1>1, <1>2, <1>3, <1>4, <1>5 DEF Next

\* RebuildInv holds in every reachable state.
THEOREM RebuildInvariant == Spec => []RebuildInv
BY InitInv, StepKeepsInv, PTL DEF Spec

\* Every variable keeps its type.
THEOREM RankTypeCorrect == Spec => []TypeOK
<1>1. RebuildInv => TypeOK
  BY DEF RebuildInv
<1> QED
  BY <1>1, RebuildInvariant, PTL

\* A rebuild that has run alone on current answers ends with exactly the top
\* rows of its totals, whatever the table held before.
THEOREM RankExactness == Spec => []RanksExact
<1>1. RebuildInv => RanksExact
  BY DEF RebuildInv, AloneExact, RanksExact
<1> QED
  BY <1>1, RebuildInvariant, PTL

\* So the duplicates that overlapping rebuilds leave do not outlive the first
\* rebuild that runs alone.
THEOREM DuplicatesHeal ==
    Spec => [](\A i \in Invocation :
                  pc[i] = "put" /\ top[i] = {} /\ alone[i] => OneRowPerValue)
<1>1. ASSUME RebuildInv, NEW i \in Invocation, pc[i] = "put", top[i] = {}, alone[i]
      PROVE  OneRowPerValue
  <2>1. rows = TopRows(totals[i])
    BY <1>1 DEF RebuildInv, AloneExact
  <2>2. totals[i] \in Count
    BY <1>1 DEF RebuildInv, TypeOK
  <2> QED
    BY <2>1, <2>2, TopRowsUnique DEF OneRowPerValue
<1>2. RebuildInv => \A i \in Invocation :
                       pc[i] = "put" /\ top[i] = {} /\ alone[i] => OneRowPerValue
  BY <1>1
<1> QED
  BY <1>2, RebuildInvariant, PTL

-----------------------------------------------------------------------------
(* Running totals.                                                         *)

\* Induction, on the set of the numbers that have the property.
LEMMA SetInduction ==
    ASSUME NEW S, 0 \in S, \A k \in Nat : k \in S => k + 1 \in S
    PROVE  Nat \subseteq S
<1> SUFFICES ASSUME Nat \ S # {} PROVE FALSE
  OBVIOUS
<1>1. PICK x \in Nat \ S : \A y \in Nat \ S : ~ (<<y, x>> \in OpToRel(<, Nat))
  BY NatLessThanWellFounded, WFMin
<1>2. x # 0 /\ x - 1 \in Nat /\ x - 1 < x
  OBVIOUS
<1>3. x - 1 \in S
  <2>1. \A y \in Nat \ S : ~(y < x)
    BY <1>1 DEF OpToRel
  <2> QED
    BY <1>2, <2>1
<1>4. (x - 1) + 1 \in S
  BY <1>2, <1>3
<1> QED
  BY <1>4

\* s[k] is the sum of the first k members of c.
Sums(s, K, c) ==
    s = [k \in 0 .. K |-> IF k = 0 THEN 0 ELSE s[k - 1] + c[k - 1]]

\* There are such sums, for any members.
LEMMA SumsExist ==
    ASSUME NEW c \in [Nat -> Nat], NEW K \in Nat
    PROVE  \E s \in [0 .. K -> Nat] : Sums(s, K, c)
<1> DEFINE S == {k \in Nat : \E s \in [0 .. k -> Nat] : Sums(s, k, c)}
<1>1. 0 \in S
  <2> DEFINE s == [k \in 0 .. 0 |-> 0]
  <2>1. s \in [0 .. 0 -> Nat]
    OBVIOUS
  <2>2. Sums(s, 0, c)
    BY DEF Sums
  <2> QED
    BY <2>1, <2>2
<1>2. ASSUME NEW k \in Nat, k \in S PROVE k + 1 \in S
  <2>1. PICK s \in [0 .. k -> Nat] : Sums(s, k, c)
    BY <1>2
  <2> DEFINE t == [j \in 0 .. k + 1 |-> IF j = k + 1 THEN s[k] + c[k] ELSE s[j]]
  <2>2. t \in [0 .. k + 1 -> Nat]
    <3>1. \A j \in 0 .. k + 1 : j = k + 1 \/ j \in 0 .. k
      OBVIOUS
    <3>2. s[k] + c[k] \in Nat
      BY <2>1
    <3> QED
      BY <2>1, <3>1, <3>2
  <2>3. \A j \in 0 .. k : s[j] = IF j = 0 THEN 0 ELSE s[j - 1] + c[j - 1]
    BY <2>1 DEF Sums
  <2>4. ASSUME NEW j \in 0 .. k + 1
        PROVE  t[j] = IF j = 0 THEN 0 ELSE t[j - 1] + c[j - 1]
    <3>1. CASE j = k + 1
      <4>1. t[j] = s[k] + c[k] /\ j - 1 = k /\ j # 0 /\ t[k] = s[k]
        BY <3>1
      <4> QED
        BY <4>1
    <3>2. CASE j # k + 1
      <4>1. j \in 0 .. k /\ t[j] = s[j] /\ (j # 0 => t[j - 1] = s[j - 1])
        BY <3>2
      <4> QED
        BY <2>3, <4>1
    <3> QED
      BY <3>1, <3>2
  <2>5. Sums(t, k + 1, c)
    BY <2>2, <2>4 DEF Sums
  <2> HIDE DEF t
  <2>6. \E r \in [0 .. k + 1 -> Nat] : Sums(r, k + 1, c)
    BY <2>2, <2>5
  <2>7. k + 1 \in Nat
    OBVIOUS
  <2> QED
    BY <2>6, <2>7, Zenon
<1> HIDE DEF S
<1>3. K \in S
  BY <1>1, <1>2, SetInduction
<1> QED
  BY <1>3 DEF S

\* They begin with 0 and grow member by member.
LEMMA SumsAreNat ==
    ASSUME NEW c \in [Nat -> Nat], NEW K \in Nat, NEW s, Sums(s, K, c)
    PROVE  /\ s[0] = 0
           /\ \A k \in 0 .. K : s[k] \in Nat
           /\ \A k \in Nat : k + 1 \in 0 .. K => s[k + 1] = s[k] + c[k]
<1>1. \A k \in 0 .. K : s[k] = IF k = 0 THEN 0 ELSE s[k - 1] + c[k - 1]
  BY DEF Sums
<1>2. s[0] = 0 /\ \A k \in Nat : k + 1 \in 0 .. K => s[k + 1] = s[k] + c[k]
  BY <1>1
<1> DEFINE S == {k \in Nat : k \in 0 .. K => s[k] \in Nat}
<1>3. 0 \in S
  BY <1>2
<1>4. \A k \in Nat : k \in S => k + 1 \in S
  BY <1>2
<1> HIDE DEF S
<1>5. Nat \subseteq S
  BY <1>3, <1>4, SetInduction
<1> QED
  BY <1>2, <1>5 DEF S

\* Greater members have greater sums.
LEMMA SumsGrow ==
    ASSUME NEW c \in [Nat -> Nat], NEW d \in [Nat -> Nat], NEW K \in Nat,
           \A k \in Nat : c[k] <= d[k],
           NEW s, Sums(s, K, c), NEW t, Sums(t, K, d)
    PROVE  \A k \in 0 .. K : s[k] <= t[k]
<1>1. /\ s[0] = 0
      /\ \A k \in 0 .. K : s[k] \in Nat
      /\ \A k \in Nat : k + 1 \in 0 .. K => s[k + 1] = s[k] + c[k]
  BY SumsAreNat
<1>2. /\ t[0] = 0
      /\ \A k \in 0 .. K : t[k] \in Nat
      /\ \A k \in Nat : k + 1 \in 0 .. K => t[k + 1] = t[k] + d[k]
  BY SumsAreNat
<1> DEFINE S == {k \in Nat : k \in 0 .. K => s[k] <= t[k]}
<1>3. 0 \in S
  BY <1>1, <1>2
<1>4. ASSUME NEW k \in Nat, k \in S PROVE k + 1 \in S
  <2> SUFFICES ASSUME k + 1 \in 0 .. K PROVE s[k + 1] <= t[k + 1]
    OBVIOUS
  <2>1. k \in 0 .. K /\ s[k] <= t[k]
    BY <1>4
  <2> QED
    BY <1>1, <1>2, <2>1
<1> HIDE DEF S
<1>5. Nat \subseteq S
  BY <1>3, <1>4, SetInduction
<1> QED
  BY <1>5 DEF S

\* RunningSums are the sums of the members.
LEMMA RunningSumsAre ==
    ASSUME NEW c \in [Nat -> Nat]
    PROVE  Sums(RunningSums(c), WindowHours, c)
<1> DEFINE Body(s) == [k \in 0 .. WindowHours |-> IF k = 0 THEN 0 ELSE s[k - 1] + c[k - 1]]
<1>1. \A s : Sums(s, WindowHours, c) <=> s = Body(s)
  BY DEF Sums
<1>2. \E s : s = Body(s)
  BY <1>1, RankAssumption, SumsExist
<1>3. RunningSums(c) = CHOOSE s : s = Body(s)
  BY DEF RunningSums
<1> HIDE DEF Body
<1> QED
  BY <1>1, <1>2, <1>3

\* The counts of a value, hour by hour back, are numbers.
LEMMA BackIsNat ==
    ASSUME hourly \in [Hour -> Count], NEW n \in Int, NEW v \in Value
    PROVE  Back(n, v) \in [Nat -> Nat]
BY DEF Back, BucketCounts, Count, None

\* The running total of a value: 0 of no hours, and hour by hour more.
LEMMA TotalByHours ==
    ASSUME hourly \in [Hour -> Count], NEW n \in Int, NEW v \in Value
    PROVE  /\ RunningTotal(n, v)[0] = 0
           /\ \A k \in 0 .. WindowHours : RunningTotal(n, v)[k] \in Nat
           /\ \A k \in Nat : k + 1 \in 0 .. WindowHours =>
                 RunningTotal(n, v)[k + 1] =
                     RunningTotal(n, v)[k] + BucketCounts(n - k)[v]
<1>1. Back(n, v) \in [Nat -> Nat]
  BY BackIsNat
<1>2. Sums(RunningTotal(n, v), WindowHours, Back(n, v))
  BY <1>1, RunningSumsAre DEF RunningTotal
<1>3. \A k \in Nat : Back(n, v)[k] = BucketCounts(n - k)[v]
  BY DEF Back
<1> QED
  BY <1>1, <1>2, <1>3, RankAssumption, SumsAreNat

\* Counters only grow.
Grows == \A h \in Hour, v \in Value : hourly[h][v] <= hourly'[h][v]

\* So do the running totals.
LEMMA TotalGrows ==
    ASSUME hourly \in [Hour -> Count], hourly' \in [Hour -> Count], Grows,
           NEW n \in Int, NEW v \in Value, NEW k \in 0 .. WindowHours
    PROVE  RunningTotal(n, v)[k] <= RunningTotal(n, v)'[k]
<1>1. Back(n, v) \in [Nat -> Nat] /\ Back(n, v)' \in [Nat -> Nat]
  BY DEF Back, BucketCounts, Count, None
<1>2. \A j \in Nat : Back(n, v)[j] <= Back(n, v)'[j]
  BY DEF Back, BucketCounts, Grows, None, Count
<1>3. /\ Sums(RunningTotal(n, v), WindowHours, Back(n, v))
      /\ Sums(RunningTotal(n, v)', WindowHours, Back(n, v)')
  BY <1>1, RunningSumsAre DEF RunningTotal
<1> QED
  BY <1>1, <1>2, <1>3, RankAssumption, SumsGrow

\* Before and after a step they are numbers.
LEMMA TotalIsNat ==
    ASSUME hourly \in [Hour -> Count], hourly' \in [Hour -> Count],
           NEW n \in Int, NEW v \in Value, NEW k \in 0 .. WindowHours
    PROVE  RunningTotal(n, v)[k] \in Nat /\ RunningTotal(n, v)'[k] \in Nat
<1>1. Back(n, v) \in [Nat -> Nat] /\ Back(n, v)' \in [Nat -> Nat]
  BY DEF Back, BucketCounts, Count, None
<1>2. /\ Sums(RunningTotal(n, v), WindowHours, Back(n, v))
      /\ Sums(RunningTotal(n, v)', WindowHours, Back(n, v)')
  BY <1>1, RunningSumsAre DEF RunningTotal
<1> QED
  BY <1>1, <1>2, RankAssumption, SumsAreNat

\* Greater counters back what lesser ones did.
LEMMA StaysBacked ==
    ASSUME TypeOK, hourly' \in [Hour -> Count], Grows, clock' \in Hour, clock <= clock',
           NEW r \in Row, Backed(r)
    PROVE  Backed(r)'
<1>1. PICK n \in 0 .. clock : r[1] <= WindowTotal(n, r[2])
  BY DEF Backed
<1>2. n \in 0 .. clock' /\ n \in Int /\ hourly \in [Hour -> Count]
  BY RankAssumption DEF TypeOK, Hour
<1>3. r[1] \in Nat /\ r[2] \in Value /\ WindowHours \in 0 .. WindowHours
  BY RankAssumption DEF Row
<1>4. /\ WindowTotal(n, r[2]) <= WindowTotal(n, r[2])'
      /\ WindowTotal(n, r[2]) \in Nat
  BY <1>2, <1>3, TotalGrows, TotalByHours DEF WindowTotal
<1>5. WindowTotal(n, r[2])' \in Nat
  BY <1>2, <1>3, TotalIsNat DEF WindowTotal
<1>6. r[1] <= WindowTotal(n, r[2])'
  BY <1>1, <1>3, <1>4, <1>5
<1> QED
  BY <1>2, <1>6 DEF Backed

-----------------------------------------------------------------------------
(* Sums that are backed.                                                   *)

\* The counters and the clock never go back.
LEMMA WorldGrows ==
    ASSUME TypeOK, [Next]_vars
    PROVE  Grows /\ clock <= clock'
<1>1. \A h \in Hour, v \in Value : hourly[h][v] \in Nat
  BY DEF TypeOK, Count
<1>2. clock \in Int
  BY RankAssumption DEF TypeOK, Hour
<1>3. CASE UNCHANGED <<hourly, clock>>
  BY <1>1, <1>2, <1>3 DEF Grows
<1>4. ASSUME NEW h \in Hour, NEW v \in Value, Add(h, v) PROVE Grows /\ clock <= clock'
  <2>1. clock' = clock /\ hourly' = [hourly EXCEPT ![h][v] = @ + 1]
    BY <1>4 DEF Add
  <2>2. ASSUME NEW g \in Hour, NEW w \in Value PROVE hourly[g][w] <= hourly'[g][w]
    <3>1. hourly'[g][w] = IF g = h /\ w = v THEN hourly[g][w] + 1 ELSE hourly[g][w]
      BY <2>1 DEF TypeOK, Count
    <3> QED
      BY <1>1, <3>1
  <2> QED
    BY <1>2, <2>1, <2>2 DEF Grows
<1>5. CASE Tick
  BY <1>1, <1>2, <1>5 DEF Tick, Grows
<1>6. ASSUME NEW r, SyncRow(r) PROVE Grows /\ clock <= clock'
  BY <1>3, <1>6 DEF SyncRow, counterVars
<1>7. ASSUME NEW i \in Invocation, Start(i) \/ Rebuild(i) \/ Fail(i)
      PROVE  Grows /\ clock <= clock'
  BY <1>3, <1>7
     DEF Start, Rebuild, Fail, Finish, ReadBucket, QueryRows, DeleteRow, BeginWrite,
         PutRow, counterVars
<1>8. CASE UNCHANGED vars
  BY <1>3, <1>8 DEF vars
<1> QED
  BY <1>4, <1>5, <1>6, <1>7, <1>8 DEF Next, Environment

\* What an invocation has summed stays backed while it keeps it.
LEMMA SumStays ==
    ASSUME TypeOK, TypeOK', Grows, clock <= clock', NEW i \in Invocation, SumBacked(i),
           now'[i] = now[i], offset'[i] = offset[i], totals'[i] = totals[i],
           \A r \in top'[i] : r \in top[i] \/ Backed(r),
           pc'[i] = "idle" => totals[i] = None /\ top'[i] = {},
           pc'[i] \in {"query", "delete", "put"} => offset[i] = WindowHours
    PROVE  SumBacked(i)'
<1>1. now'[i] <= clock'
  BY RankAssumption DEF SumBacked, TypeOK, Hour
<1>2. ASSUME NEW v \in Value PROVE totals'[i][v] <= RunningTotal(now[i], v)'[offset'[i]]
  <2>1. PICK n \in Hour : n = now[i]
    BY DEF TypeOK
  <2>2. n \in Int /\ offset[i] \in 0 .. WindowHours /\ totals[i][v] \in Nat
    BY RankAssumption DEF TypeOK, Hour, Count
  <2>3. totals[i][v] <= RunningTotal(n, v)[offset[i]]
    BY <2>1 DEF SumBacked
  <2>4. RunningTotal(n, v)[offset[i]] <= RunningTotal(n, v)'[offset[i]]
    BY <2>2, TotalGrows DEF TypeOK
  <2>5. RunningTotal(n, v)[offset[i]] \in Nat /\ RunningTotal(n, v)'[offset[i]] \in Nat
    BY <2>2, TotalIsNat DEF TypeOK
  <2>6. RunningTotal(now[i], v)' = RunningTotal(n, v)'
    BY <2>1 DEF RunningTotal, Back
  <2> QED
    BY <2>2, <2>3, <2>4, <2>5, <2>6
<1>3. ASSUME NEW r \in top'[i] PROVE Backed(r)'
  <2>1. r \in Row /\ Backed(r)
    BY DEF TypeOK, SumBacked
  <2> QED
    BY <2>1, StaysBacked DEF TypeOK
<1> QED
  BY <1>1, <1>2, <1>3 DEF SumBacked

\* An invocation that has read nothing has summed nothing.
LEMMA NothingSummed ==
    ASSUME TypeOK', NEW i \in Invocation, now'[i] <= clock', offset'[i] = 0,
           totals'[i] = None, top'[i] = {}, pc'[i] \in {"idle", "sum"}
    PROVE  SumBacked(i)'
<1>1. ASSUME NEW v \in Value PROVE totals'[i][v] <= RunningTotal(now[i], v)'[0]
  <2>1. PICK n \in Hour : n = now'[i]
    BY DEF TypeOK
  <2>2. n \in Int /\ hourly' \in [Hour -> Count]
    BY RankAssumption DEF TypeOK, Hour
  <2>3. Back(n, v)' \in [Nat -> Nat]
    BY <2>2 DEF Back, BucketCounts, Count, None
  <2>4. Sums(RunningTotal(n, v)', WindowHours, Back(n, v)')
    BY <2>3, RunningSumsAre DEF RunningTotal
  <2>5. RunningTotal(n, v)'[0] = 0
    BY <2>3, <2>4, RankAssumption, SumsAreNat
  <2>6. RunningTotal(now[i], v)' = RunningTotal(n, v)'
    BY <2>1 DEF RunningTotal, Back
  <2> QED
    BY <2>5, <2>6 DEF None
<1> QED
  BY <1>1 DEF SumBacked

\* The rebuild of i is the only one to take a step.
Others(i) ==
    \A j \in Invocation \ {i} :
        /\ now'[j] = now[j] /\ offset'[j] = offset[j] /\ totals'[j] = totals[j]
        /\ top'[j] = top[j] /\ pc'[j] = pc[j]

\* Then the sums of the others, and the rows that are there, stay backed.
LEMMA OthersStay ==
    ASSUME TypeOK, TypeOK', Grows, clock <= clock', BackedInv, NEW i \in Invocation,
           Others(i), SumBacked(i)', \A r \in rows' : r \in rows \/ Backed(r)
    PROVE  BackedInv'
<1>1. ASSUME NEW j \in Invocation PROVE SumBacked(j)'
  <2>1. CASE j = i
    BY <2>1
  <2>2. CASE j # i
    <3>1. /\ SumBacked(j)
          /\ pc[j] = "idle" => totals[j] = None /\ top[j] = {}
          /\ pc[j] \in {"query", "delete", "put"} => offset[j] = WindowHours
      BY DEF BackedInv, SumBacked
    <3> QED
      BY <2>2, <3>1, SumStays DEF Others, BackedInv
  <2> QED
    BY <2>1, <2>2
<1>2. ASSUME NEW r \in rows' PROVE Backed(r)'
  <2>1. r \in Row /\ Backed(r)
    BY DEF TypeOK, BackedInv, NoInventedCounts
  <2> QED
    BY <2>1, StaysBacked DEF TypeOK
<1> QED
  BY <1>1, <1>2 DEF BackedInv, NoInventedCounts

\* An answer about one more hour is no more than that hour's counters.
LEMMA ReadStaysBacked ==
    ASSUME RebuildInv, TypeOK', BackedInv, NEW i \in Invocation,
           NEW view \in CountViews(BucketAt(now[i], offset[i])), ReadBucket(i, view)
    PROVE  SumBacked(i)'
<1>1. /\ pc[i] = "sum" /\ clock' = clock /\ hourly' = hourly
      /\ totals'[i] = [v \in Value |-> totals[i][v] + view[v]]
      /\ offset'[i] = offset[i] + 1 /\ now'[i] = now[i] /\ top'[i] = top[i]
      /\ pc'[i] = IF MoreHours(offset[i]) THEN "sum" ELSE "query"
  BY DEF ReadBucket, counterVars, RebuildInv, TypeOK
<1>2. offset[i] \in Nat /\ offset[i] < WindowHours
  BY <1>1, RankAssumption DEF RebuildInv, LoopBound, TypeOK
<1>3. ASSUME NEW v \in Value
      PROVE  totals'[i][v] <= RunningTotal(now[i], v)'[offset'[i]]
  <2>1. PICK n \in Hour : n = now[i]
    BY DEF RebuildInv, TypeOK
  <2>2. n \in Int /\ hourly \in [Hour -> Count]
    BY RankAssumption DEF RebuildInv, TypeOK, Hour
  <2>3. view[v] <= BucketCounts(n - offset[i])[v] /\ view[v] \in Nat
    BY <2>1, RankAssumption DEF CountViews, BucketAt
  <2>4. totals[i][v] <= RunningTotal(n, v)[offset[i]] /\ totals[i][v] \in Nat
    BY <2>1 DEF BackedInv, SumBacked, RebuildInv, TypeOK, Count
  <2>5. /\ offset[i] + 1 \in 0 .. WindowHours /\ offset[i] \in 0 .. WindowHours
    BY <1>2, RankAssumption
  <2>6. RunningTotal(n, v)[offset[i] + 1]
          = RunningTotal(n, v)[offset[i]] + BucketCounts(n - offset[i])[v]
    BY <1>2, <2>2, <2>5, TotalByHours
  <2>7. RunningTotal(n, v)[offset[i]] \in Nat
    BY <2>2, <2>5, TotalByHours
  <2>8. BucketCounts(n - offset[i])[v] \in Nat
    BY <2>2 DEF BucketCounts, Count, None
  <2>9. totals[i][v] + view[v] <= RunningTotal(n, v)[offset[i] + 1]
    BY <2>3, <2>4, <2>6, <2>7, <2>8
  <2>10. RunningTotal(now[i], v)' = RunningTotal(n, v)
    BY <1>1, <2>1 DEF RunningTotal, Back, BucketCounts
  <2> QED
    BY <1>1, <2>9, <2>10
<1>4. pc'[i] \in {"query", "delete", "put"} => offset'[i] = WindowHours
  BY <1>1, <1>2, RankAssumption DEF MoreHours
<1>5. ASSUME NEW r \in top'[i] PROVE Backed(r)'
  <2>1. Backed(r)
    BY <1>1 DEF BackedInv, SumBacked
  <2> QED
    BY <1>1, <2>1 DEF Backed, WindowTotal, RunningTotal, Back, BucketCounts
<1> QED
  BY <1>1, <1>3, <1>4, <1>5 DEF BackedInv, SumBacked

\* The rows to put are backed by what has been summed.
LEMMA TopIsBacked ==
    ASSUME RebuildInv, BackedInv, NEW i \in Invocation, pc[i] = "delete",
           NEW r \in TopRows(totals[i])
    PROVE  Backed(r)
<1>1. PICK v \in Value : r = <<totals[i][v], v>> /\ totals[i][v] > 0
  BY DEF TopRows
<1>2. totals[i][v] <= WindowTotal(now[i], v)
  BY DEF BackedInv, SumBacked, WindowTotal
<1>3. now[i] \in 0 .. clock
  BY RankAssumption DEF BackedInv, SumBacked, RebuildInv, TypeOK, Hour
<1> QED
  BY <1>1, <1>2, <1>3 DEF Backed

\* Every step keeps every sum, every row to put and every row put backed.
THEOREM StepKeepsBacked == RebuildInv /\ RebuildInv' /\ BackedInv /\ [Next]_vars => BackedInv'
<1> SUFFICES ASSUME RebuildInv, RebuildInv', BackedInv, [Next]_vars PROVE BackedInv'
  OBVIOUS
<1>1. TypeOK /\ TypeOK' /\ Grows /\ clock <= clock'
  BY WorldGrows DEF RebuildInv
\* Steps of nobody, or that change neither sums nor rows to put.
<1>2. ASSUME UNCHANGED <<pc, now, offset, totals, rows>>,
             \A i \in Invocation : top'[i] \subseteq top[i]
      PROVE  BackedInv'
  <2>1. ASSUME NEW i \in Invocation PROVE SumBacked(i)'
    BY <1>1, <1>2, SumStays DEF BackedInv, SumBacked
  <2>2. ASSUME NEW r \in rows' PROVE Backed(r)'
    BY <1>1, <1>2, StaysBacked DEF BackedInv, NoInventedCounts, TypeOK
  <2> QED
    BY <2>1, <2>2 DEF BackedInv, NoInventedCounts
<1>3. CASE Environment \/ UNCHANGED vars
  <2>1. UNCHANGED <<pc, now, offset, totals, rows, top>>
    BY <1>3 DEF Environment, Add, Tick, SyncRow, vars, localVars, tableVars
  <2> QED
    BY <1>2, <2>1
<1>4. ASSUME NEW i \in Invocation, Forget(i), UNCHANGED <<counterVars, tableVars>>
      PROVE  BackedInv'
  <2>1. /\ now'[i] = 0 /\ offset'[i] = 0 /\ totals'[i] = None /\ top'[i] = {}
        /\ pc'[i] = "idle" /\ Others(i) /\ rows' = rows
    BY <1>1, <1>4 DEF Forget, TypeOK, Others, tableVars
  <2>2. 0 <= clock'
    BY <1>1, RankAssumption DEF TypeOK, Hour
  <2>3. SumBacked(i)'
    BY <1>1, <2>1, <2>2, NothingSummed
  <2> QED
    BY <1>1, <2>1, <2>3, OthersStay
<1>5. ASSUME NEW i \in Invocation, Start(i) PROVE BackedInv'
  <2>1. /\ now'[i] = clock' /\ offset'[i] = offset[i] /\ totals'[i] = totals[i]
        /\ top'[i] = top[i] /\ pc'[i] = "sum" /\ pc[i] = "idle" /\ Others(i)
        /\ rows' = rows
    BY <1>1, <1>5 DEF Start, TypeOK, Others, counterVars, tableVars
  <2>2. offset[i] = 0 /\ totals[i] = None /\ top[i] = {}
    BY <2>1 DEF RebuildInv, LoopBound, BackedInv, SumBacked
  <2>3. now'[i] <= clock'
    BY <1>1, <2>1, RankAssumption DEF TypeOK, Hour
  <2>4. SumBacked(i)'
    BY <1>1, <2>1, <2>2, <2>3, NothingSummed
  <2> QED
    BY <1>1, <2>1, <2>4, OthersStay
<1>6. ASSUME NEW i \in Invocation, NEW view \in CountViews(BucketAt(now[i], offset[i])),
             ReadBucket(i, view)
      PROVE  BackedInv'
  <2>1. Others(i) /\ rows' = rows
    BY <1>1, <1>6 DEF ReadBucket, Others, TypeOK, tableVars
  <2> QED
    BY <1>1, <1>6, <2>1, ReadStaysBacked, OthersStay
<1>7. ASSUME NEW i \in Invocation, NEW view \in RowViews, QueryRows(i, view)
      PROVE  BackedInv'
  <2>1. /\ Others(i) /\ rows' = rows /\ pc[i] = "query" /\ pc'[i] = "delete"
        /\ UNCHANGED <<now, offset, totals, top>>
    BY <1>1, <1>7 DEF QueryRows, Others, TypeOK, tableVars
  <2>2. SumBacked(i) /\ offset[i] = WindowHours
    BY <2>1 DEF BackedInv, SumBacked
  <2>3. SumBacked(i)'
    BY <1>1, <2>1, <2>2, SumStays
  <2> QED
    BY <1>1, <2>1, <2>3, OthersStay
<1>8. ASSUME NEW i \in Invocation, NEW r, DeleteRow(i, r) PROVE BackedInv'
  <2>1. /\ Others(i) /\ rows' \subseteq rows /\ pc[i] = "delete"
        /\ UNCHANGED <<pc, now, offset, totals, top>>
    BY <1>8 DEF DeleteRow, Others
  <2>2. SumBacked(i) /\ offset[i] = WindowHours
    BY <2>1 DEF BackedInv, SumBacked
  <2>3. SumBacked(i)'
    BY <1>1, <2>1, <2>2, SumStays
  <2> QED
    BY <1>1, <2>1, <2>3, OthersStay
<1>9. ASSUME NEW i \in Invocation, BeginWrite(i) PROVE BackedInv'
  <2>1. /\ Others(i) /\ rows' = rows /\ pc[i] = "delete" /\ pc'[i] = "put"
        /\ UNCHANGED <<now, offset, totals>> /\ top'[i] = TopRows(totals[i])
    BY <1>1, <1>9 DEF BeginWrite, Others, TypeOK, tableVars
  <2>2. SumBacked(i) /\ offset[i] = WindowHours
    BY <2>1 DEF BackedInv, SumBacked
  <2>3. \A r \in top'[i] : Backed(r)
    BY <2>1, TopIsBacked
  <2>4. SumBacked(i)'
    BY <1>1, <2>1, <2>2, <2>3, SumStays
  <2> QED
    BY <1>1, <2>1, <2>4, OthersStay
<1>10. ASSUME NEW i \in Invocation, NEW r \in top[i], PutRow(i, r) PROVE BackedInv'
  <2>1. /\ Others(i) /\ rows' = rows \cup {r} /\ pc[i] = "put"
        /\ UNCHANGED <<pc, now, offset, totals>> /\ top'[i] \subseteq top[i]
    BY <1>1, <1>10 DEF PutRow, Others, TypeOK
  <2>2. SumBacked(i) /\ offset[i] = WindowHours /\ Backed(r)
    BY <2>1 DEF BackedInv, SumBacked
  <2>3. SumBacked(i)'
    BY <1>1, <2>1, <2>2, SumStays
  <2> QED
    BY <1>1, <2>1, <2>2, <2>3, OthersStay
<1>11. ASSUME NEW i \in Invocation, Rebuild(i) PROVE BackedInv'
  BY <1>4, <1>6, <1>7, <1>8, <1>9, <1>10, <1>11 DEF Rebuild, Finish
<1>12. ASSUME NEW i \in Invocation, Fail(i) PROVE BackedInv'
  BY <1>4, <1>12 DEF Fail
<1> QED
  BY <1>3, <1>5, <1>11, <1>12 DEF Next

\* No row ever shows more than the counters of a window held, however many
\* rebuilds overlap, fail or read stale answers.
THEOREM CountsAreBacked == Spec => []NoInventedCounts
<1>1. Init => BackedInv
  <2> SUFFICES ASSUME Init PROVE BackedInv
    OBVIOUS
  <2>1. hourly \in [Hour -> Count]
    BY NoneIsCount DEF Init
  <2>2. ASSUME NEW i \in Invocation, NEW v \in Value
        PROVE  totals[i][v] <= RunningTotal(now[i], v)[offset[i]]
    <3>1. now[i] = 0 /\ offset[i] = 0 /\ totals[i] = None
      BY DEF Init
    <3>2. RunningTotal(0, v)[0] = 0
      BY <2>1, TotalByHours
    <3> QED
      BY <3>1, <3>2 DEF None
  <2> QED
    BY <2>2 DEF Init, BackedInv, SumBacked, NoInventedCounts
<1>2. BackedInv => NoInventedCounts
  BY DEF BackedInv
<1> QED
  BY <1>1, <1>2, StepKeepsBacked, RebuildInvariant, PTL DEF Spec

=============================================================================
