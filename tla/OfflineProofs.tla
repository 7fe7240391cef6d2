--------------------------- MODULE OfflineProofs ---------------------------
(***************************************************************************)
(* Theorems about the lab: the offline join and the Lambda's query agree,  *)
(* a completed load leaves no trace of the ones before it, the replay of   *)
(* the rules ends quietly and reports its own executions, and the export   *)
(* is complete and its summary honest.                                     *)
(***************************************************************************)
EXTENDS RuleReplay, FiniteSetTheorems, WellFoundedInduction, TLAPS

-----------------------------------------------------------------------------
(* The minute buckets.                                                     *)

(* The integer of a line is its time or just below it.                     *)
LEMMA MicrosBound ==
    ASSUME NEW t \in Int, NEW c \in Int, c \in Micros(t)
    PROVE  t - 1 <= c /\ c <= t
  BY DEF Micros

(* A connection in the window of an event was filed under one of the two   *)
(* minutes the Lambda reads, even when its integer lies in the minute      *)
(* before its printed time: the floor of the window makes up for it.       *)
LEMMA BucketIsRead ==
    ASSUME NEW h \in Conn, NEW us \in Int, InWindow(us, h)
    PROVE  BucketOf(h) \in BucketsForWindow(us)
<1>1. /\ ConnTime[h] \in Int /\ ConnUs[h] \in Int
      /\ ConnTime[h] - 1 <= ConnUs[h] /\ ConnUs[h] <= ConnTime[h]
  <2>1. ConnTime[h] \in Int /\ ConnUs[h] \in Int
    BY ConnAssumption
  <2>2. ConnUs[h] \in Micros(ConnTime[h])
    BY ConnAssumption
  <2> QED
    BY <2>1, <2>2, MicrosBound
<1>2. Window \in Int /\ Window <= Minute /\ MinDelta \in Int /\ 1 <= MinDelta
  <2>1. Minute \in Int
    BY SMT DEF Minute
  <2>2. Window \in Int /\ Window <= Minute
    BY <2>1, WindowAssumption
  <2> QED
    BY <2>2, WindowAssumption
<1>3. us - Window <= ConnTime[h] /\ ConnTime[h] <= us
  BY <1>1, <1>2 DEF InWindow
<1>4. \/ ConnTime[h] \div Minute = (us - Window) \div Minute
      \/ ConnTime[h] \div Minute = us \div Minute
  BY <1>1, <1>2, <1>3, SMT DEF Minute
<1> QED
  BY <1>4 DEF BucketOf, BucketsForWindow

(* Hence the query by minutes finds what a scan of the whole log finds.    *)
LEMMA QueryIsComplete ==
    ASSUME NEW any \in SUBSET Conn, NEW us \in Int
    PROVE  QueryHAProxyWindow(any, us) = Candidates(any, us)
  BY BucketIsRead DEF QueryHAProxyWindow, Candidates

(* An event before the first connection has no candidate.                  *)
LEMMA NothingBeforeLog ==
    ASSUME NEW any \in SUBSET Conn, NEW us \in Int, BeforeLog(any, us)
    PROVE  Candidates(any, us) = {}
<1> SUFFICES ASSUME NEW h \in any, InWindow(us, h)
             PROVE  FALSE
  BY DEF Candidates
<1>1. us < ConnUs[h] /\ ConnUs[h] <= us - MinDelta /\ ConnUs[h] \in Int
  BY ConnAssumption DEF BeforeLog, InWindow
<1>2. MinDelta \in Int /\ 1 <= MinDelta
  BY WindowAssumption
<1> QED
  BY <1>1, <1>2

(* Candidates of more than one address are more than one candidate.        *)
LEMMA OneCandidateOneAddress ==
    ASSUME NEW found, IsFiniteSet(found), Cardinality(found) = 1
    PROVE  Cardinality({ConnIp[h] : h \in found}) = 1
<1>1. PICK g : found = {g}
  BY FS_Singleton
<1>2. {ConnIp[h] : h \in found} = {ConnIp[g]}
  BY <1>1
<1> QED
  BY <1>2, FS_Singleton

(* For every log and every event the lab's status and the Lambda's are the *)
(* same but for the two the lab adds.                                      *)
LEMMA LabAgrees ==
    ASSUME NEW any \in SUBSET Conn, NEW us \in Int
    PROVE  Agree(any, us)
<1> DEFINE found == Candidates(any, us)
           ips   == {ConnIp[h] : h \in found}
           lab   == Attribute(any, us).status
<1>1. IsFiniteSet(found)
  BY FS_Subset, ConnAssumption DEF Candidates
<1>2. /\ Cardinality(found) \in Nat
      /\ Cardinality(found) = 0 <=> found = {}
  BY <1>1, FS_CardinalityType, FS_EmptySet
<1>3. Correlate(any, us) = IF Cardinality(found) = 0 THEN "missed"
                           ELSE IF Cardinality(found) = 1 THEN "matched"
                           ELSE "ambiguous"
  BY QueryIsComplete DEF Correlate
<1>4. CASE BeforeLog(any, us)
  <2>1. Cardinality(found) = 0
    BY <1>2, <1>4, NothingBeforeLog
  <2>2. lab = "no_haproxy_coverage"
    BY <1>4 DEF Attribute, Refuse
  <2> QED
    BY <1>3, <2>1, <2>2 DEF Agree
<1>5. CASE ~BeforeLog(any, us) /\ found = {}
  <2>1. lab = "missed"
    BY <1>5 DEF Attribute, Refuse
  <2> QED
    BY <1>2, <1>3, <1>5, <2>1 DEF Agree
<1>6. CASE ~BeforeLog(any, us) /\ found # {} /\ Cardinality(ips) > 1
  <2>1. Cardinality(found) # 1
    BY <1>1, <1>6, OneCandidateOneAddress
  <2>2. lab = "ambiguous"
    BY <1>6 DEF Attribute, Refuse
  <2> QED
    BY <1>2, <1>3, <1>6, <2>1, <2>2 DEF Agree
<1>7. CASE ~BeforeLog(any, us) /\ found # {} /\ ~(Cardinality(ips) > 1)
  <2>1. lab = IF Cardinality(found) = 1 THEN "matched" ELSE "matched_same_ip"
    BY <1>7 DEF Attribute
  <2> QED
    BY <1>2, <1>3, <1>7, <2>1 DEF Agree
<1> QED
  BY <1>4, <1>5, <1>6, <1>7

-----------------------------------------------------------------------------
(* Loading.                                                                *)

(* A nonempty set of positions has a last one, and only one.               *)
LEMMA LastExists ==
    ASSUME NEW n \in Nat, NEW S \in SUBSET (1..n), S # {}
    PROVE  Last(S) \in S /\ \A j \in S : j <= Last(S)
<1> DEFINE T == {n - i : i \in S}
<1>0. \A i \in S : i \in Int /\ i <= n
  OBVIOUS
<1>1. T \subseteq Nat /\ T # {}
  <2>1. \A i \in S : n - i \in Nat
    BY <1>0
  <2>2. T # {}
    OBVIOUS
  <2> QED
    BY <2>1, <2>2
<1>2. PICK x \in T : \A y \in T : ~ (<<y, x>> \in OpToRel(<, Nat))
  BY <1>1, NatLessThanWellFounded, WFMin
<1>3. x \in Nat /\ \A y \in T : ~(y < x)
  BY <1>1, <1>2 DEF OpToRel
<1>4. PICK i \in S : x = n - i
  OBVIOUS
<1>5. \A j \in S : j <= i
  <2> SUFFICES ASSUME NEW j \in S PROVE j <= i
    OBVIOUS
  <2>1. n - j \in T
    OBVIOUS
  <2>2. ~(n - j < n - i)
    BY <1>3, <1>4, <2>1
  <2> QED
    BY <2>2
<1> QED
  BY <1>5 DEF Last

(* Positions added behind all others decide which one is the last.         *)
LEMMA LastOfMore ==
    ASSUME NEW n \in Nat, NEW S \in SUBSET (1..n), NEW U \in SUBSET S, U # {},
           \A i \in S \ U, j \in U : i < j
    PROVE  Last(S) = Last(U)
<1>1. U \in SUBSET (1..n) /\ S # {}
  OBVIOUS
<1>2. Last(U) \in U /\ \A j \in U : j <= Last(U)
  BY <1>1, LastExists
<1>3. Last(S) \in S /\ \A j \in S : j <= Last(S)
  BY <1>1, LastExists
<1> DEFINE s == Last(S)
           u == Last(U)
<1>4. s \in S /\ u \in U /\ u \in S /\ s \in Int /\ u \in Int
  <2>1. \A i \in S : i \in Int
    OBVIOUS
  <2> QED
    BY <1>2, <1>3, <2>1
<1>5. u <= s
  BY <1>3, <1>4
<1>6. s \in U
  BY <1>4, <1>5 DEF Last
<1>7. s <= u
  BY <1>2, <1>6
<1> HIDE DEF s, u
<1>8. s = u
  BY <1>4, <1>5, <1>7
<1> QED
  BY <1>8 DEF s, u

\* The documents of the first `upto` entries are what the archive and the log
\* say: those of the last record of each id.
UpToDate(upto) ==
    \A id \in Id : Under(id, 1..upto) # {} =>
        index[id] = ToEcs(archive[Last(Under(id, 1..upto))])

\* What every state of a load satisfies.
LoadInv ==
    /\ archive \in Seq(Line \cup {Garbage, Broken})
    /\ at \in 0..Len(archive)
    /\ log \in SUBSET Conn
    /\ \A id \in Id : Under(id, Entry) = {} => index[id] = NoDoc
    /\ load = "done" => at = Len(archive)
    /\ load \in {"sending", "done"} => UpToDate(at)

(* A document depends on the archive and the log alone.                    *)
LEMMA EcsStable ==
    ASSUME archive' = archive, log' = log
    PROVE  \A l : ToEcs(l)' = ToEcs(l)
  BY DEF ToEcs, AttributionOf, ConnectUs, ConnectsOf, Entry

(* While neither changes, nor the index, what is up to date remains so.    *)
LEMMA UpToDateStable ==
    ASSUME archive' = archive, log' = log, index' = index, NEW n, UpToDate(n)
    PROVE  UpToDate(n)'
  BY EcsStable DEF UpToDate, Under

LEMMA EntryIsRange ==
    ASSUME archive \in Seq(Line \cup {Garbage, Broken})
    PROVE  Entry = 1..Len(archive) /\ Len(archive) \in Nat
  BY DEF Entry

(* A chunk that is applied in part or in full writes only under ids of the *)
(* archive; one applied in full brings every id it holds up to date.       *)
LEMMA ChunkApplied ==
    ASSUME LoadInv, NEW to \in Entry, ChunkEnd(to),
           NEW kept \in SUBSET Records(at + 1, to)
    PROVE  \A id \in Id :
             /\ Under(id, Entry) = {} => BulkApplied(kept)[id] = NoDoc
             /\ (/\ kept = Records(at + 1, to)
                 /\ Under(id, 1..to) # {}
                 /\ Under(id, 1..at) # {} =>
                      index[id] = ToEcs(archive[Last(Under(id, 1..at))]))
                => BulkApplied(kept)[id] = ToEcs(archive[Last(Under(id, 1..to))])
<1> SUFFICES ASSUME NEW id \in Id
             PROVE  /\ Under(id, Entry) = {} => BulkApplied(kept)[id] = NoDoc
                    /\ (/\ kept = Records(at + 1, to)
                        /\ Under(id, 1..to) # {}
                        /\ Under(id, 1..at) # {} =>
                             index[id] = ToEcs(archive[Last(Under(id, 1..at))]))
                       => BulkApplied(kept)[id] = ToEcs(archive[Last(Under(id, 1..to))])
  OBVIOUS
<1>1. /\ Entry = 1..Len(archive) /\ Len(archive) \in Nat
      /\ to \in Nat /\ at \in Nat /\ at < to /\ to <= Len(archive)
  BY EntryIsRange DEF LoadInv, ChunkEnd
<1>2. Records(at + 1, to) \subseteq Entry
  BY <1>1 DEF Records
<1>3. BulkApplied(kept)[id] = IF Under(id, kept) = {} THEN index[id]
                              ELSE ToEcs(archive[Last(Under(id, kept))])
  BY DEF BulkApplied
<1>4. ASSUME Under(id, Entry) = {}
      PROVE  BulkApplied(kept)[id] = NoDoc
  <2>1. Under(id, kept) = {}
    BY <1>2, <1>4 DEF Under
  <2> QED
    BY <1>3, <1>4, <2>1 DEF LoadInv
<1>5. ASSUME kept = Records(at + 1, to), Under(id, 1..to) # {},
             Under(id, 1..at) # {} =>
                 index[id] = ToEcs(archive[Last(Under(id, 1..at))])
      PROVE  BulkApplied(kept)[id] = ToEcs(archive[Last(Under(id, 1..to))])
  <2>1. Under(id, 1..to) = Under(id, 1..at) \cup Under(id, kept)
    <3>1. 1..to = (1..at) \cup ((at + 1)..to)
      BY <1>1
    <3> QED
      BY <1>5, <3>1 DEF Under, Records
  <2>2. CASE Under(id, kept) = {}
    BY <1>3, <1>5, <2>1, <2>2
  <2>3. CASE Under(id, kept) # {}
    <3> DEFINE S == Under(id, 1..to)
               U == Under(id, kept)
    <3>1. S \in SUBSET (1..to) /\ U \in SUBSET S
      BY <2>1 DEF Under
    <3>2. \A i \in S \ U, j \in U : i < j
      <4> SUFFICES ASSUME NEW i \in S \ U, NEW j \in U PROVE i < j
        OBVIOUS
      <4>1. i \in 1..at /\ j \in (at + 1)..to
        BY <2>1, <1>5 DEF Under, Records
      <4> QED
        BY <4>1, <1>1
    <3>3. U # {}
      BY <2>3
    <3>4. Last(S) = Last(U)
      <4> HIDE DEF S, U
      <4> QED
        BY <3>1, <3>2, <3>3, <1>1, LastOfMore
    <3> QED
      BY <1>3, <2>3, <3>4
  <2> QED
    BY <2>2, <2>3
<1> QED
  BY <1>4, <1>5

LEMMA LoadInvInit == Init => LoadInv
<1> SUFFICES ASSUME LoadInit PROVE LoadInv
  BY DEF Init
<1>1. archive \in Seq(Line \cup {Garbage, Broken}) /\ Len(archive) \in Nat
  BY LineAssumption DEF LoadInit
<1> QED
  BY <1>1 DEF LoadInit, LoadInv

LEMMA LoadInvStep == LoadInv /\ [Next]_vars => LoadInv'
<1> SUFFICES ASSUME LoadInv, [Next]_vars PROVE LoadInv'
  OBVIOUS
<1>1. CASE UNCHANGED loadVars
  <2>1. load \in {"sending", "done"} => UpToDate(at)'
    BY <1>1, UpToDateStable DEF LoadInv, loadVars
  <2> QED
    BY <1>1, <2>1 DEF LoadInv, loadVars, Under, Entry
<1>2. CASE SyncLog
  BY <1>2 DEF SyncLog, LoadInv, Under, Entry
<1>3. CASE StartLoad
  <2>1. \A id \in Id : Under(id, 1..0) = {}
    BY DEF Under
  <2>2. 0 \in 0..Len(archive)
    BY EntryIsRange DEF LoadInv
  <2> QED
    BY <1>3, <2>1, <2>2 DEF StartLoad, LoadInv, UpToDate, Under, Entry
<1>4. CASE RecordRaises
  BY <1>4 DEF RecordRaises, LoadInv, Under, Entry
<1>5. CASE BulkIndex
  <2>1. PICK to \in Entry : /\ ChunkEnd(to)
                            /\ index' = BulkApplied(Records(at + 1, to))
                            /\ at' = to
    BY <1>5 DEF BulkIndex
  <2>2. archive' = archive /\ log' = log /\ load' = load /\ load = "sending"
    BY <1>5 DEF BulkIndex
  <2>3. \A id \in Id : /\ Under(id, Entry) = {} => index'[id] = NoDoc
                       /\ Under(id, 1..to) # {} =>
                            index'[id] = ToEcs(archive[Last(Under(id, 1..to))])
    BY <2>1, <2>2, ChunkApplied DEF LoadInv, UpToDate
  <2>4. to \in 0..Len(archive)
    BY <2>1, EntryIsRange DEF LoadInv
  <2>5. UpToDate(at)'
    BY <2>1, <2>2, <2>3, EcsStable DEF UpToDate, Under
  <2> QED
    BY <2>1, <2>2, <2>3, <2>4, <2>5 DEF LoadInv, Under, Entry
<1>6. CASE BulkFails
  <2>0. PICK to \in Entry :
            ChunkEnd(to) /\ \E kept \in SUBSET Records(at + 1, to) : index' = BulkApplied(kept)
    BY <1>6 DEF BulkFails
  <2>1. PICK kept \in SUBSET Records(at + 1, to) : index' = BulkApplied(kept)
    BY <2>0
  <2>2. \A id \in Id : Under(id, Entry) = {} => index'[id] = NoDoc
    BY <2>0, <2>1, ChunkApplied
  <2> QED
    BY <1>6, <2>2 DEF BulkFails, LoadInv, Under, Entry, BulkApplied
<1>7. CASE FinishLoad
  <2>1. UpToDate(at)'
    BY <1>7, UpToDateStable DEF LoadInv, FinishLoad
  <2> QED
    BY <1>7, <2>1 DEF FinishLoad, LoadInv, Under, Entry
<1> QED
  BY <1>1, <1>2, <1>3, <1>4, <1>5, <1>6, <1>7 DEF Next, LoadNext, vars

(* Whatever loads failed before, at whatever point, and however the log    *)
(* has grown since, a completed load leaves the index that the archive and *)
(* the log determine.                                                      *)
THEOREM LoadIsIdempotent == Spec => []IndexIsArchive
<1>1. LoadInv => IndexIsArchive
  <2> SUFFICES ASSUME LoadInv, load = "done", NEW id \in Id
               PROVE  index[id] = IF Under(id, Entry) = {} THEN NoDoc
                                  ELSE ToEcs(archive[Last(Under(id, Entry))])
    BY DEF IndexIsArchive
  <2>1. Entry = 1..at
    BY EntryIsRange DEF LoadInv
  <2> QED
    BY <2>1 DEF LoadInv, UpToDate
<1> QED
  BY <1>1, LoadInvInit, LoadInvStep, PTL DEF Spec

(* For every archive and every log, at every moment, the lab's status of a *)
(* connect event and the Lambda's are the same but for those the lab adds. *)
THEOREM LabMatchesLambda == Spec => []AgreesOnline
<1>1. LoadInv => AgreesOnline
  <2> SUFFICES ASSUME LoadInv, NEW l \in ConnectLine
               PROVE  Agree(log, LineUs[l])
    BY DEF AgreesOnline
  <2>1. LineUs[l] \in Int
    BY LineAssumption
  <2> QED
    BY <2>1, LabAgrees DEF LoadInv
<1> QED
  BY <1>1, LoadInvInit, LoadInvStep, PTL DEF Spec

-----------------------------------------------------------------------------
(* Replaying the rules.                                                    *)

\* The rule the script may have enabled and not yet disabled again.
InHand == IF script.at \in {"wait", "disable", "give_up"} THEN {Current} ELSE {}

Date == Nat \cup {-1}

ReplayTypes ==
    /\ script \in [at : Steps, rule : Nat, recreate : BOOLEAN, started : Nat,
                   found : SUBSET Rule]
    /\ now \in Nat
    /\ enabled \subseteq Rule
    /\ running \in [Rule -> [date : Date, by : Nat]]
    /\ last \in [Rule -> [date : Date, by : Nat, status : Finished \cup {"none"}]]

\* No execution is dated ahead.  One of an earlier replay is of an earlier
\* second, unless its rule was found enabled.
Dated(r, e) ==
    /\ e.date <= now
    /\ e.by = replays \/ r \in script.found \/ e.date < now

\* The same, seen from the second in which the rule was enabled.
Earlier(r, e) ==
    \/ e.by = replays
    \/ e.date <= script.started /\ (r \in script.found \/ e.date < script.started)

\* A rule that is enabled was so at the start, or this replay enabled it.
Whose ==
    /\ \A r \in enabled : enabler[r] = replays \/ r \in script.found
    /\ \A r \in Rule : Dated(r, running[r]) /\ Dated(r, last[r])
    /\ script.at = "wait" =>
          /\ \A r \in Rule : r = Current => enabler[r] = replays
          /\ \A r \in Rule : r = Current => Earlier(r, running[r]) /\ Earlier(r, last[r])

\* The script stays within the list of rules.
InRange == script.at # "over" => script.rule \in 1..Len(Rules)

EnablerTypes == enabler \in [Rule -> Nat] /\ replays \in Nat

ReplayInv ==
    /\ ReplayTypes
    /\ EnablerTypes
    /\ InRange
    /\ enabled \subseteq spoiled \cup InHand
    /\ Whose

LEMMA ReplayInvInit == Init => ReplayInv
  BY DEF Init, ReplayInit, ReplayInv, ReplayTypes, EnablerTypes, InRange, Whose, Dated, Earlier,
         InHand, Steps, Finished, Idle, NoExecution, Date

(* A rule at rest or deleted has no execution of anyone.                   *)
LEMMA NoneIsEarlier ==
    ASSUME ReplayTypes, NEW r \in Rule, replays \in Nat
    PROVE  /\ Dated(r, Idle) /\ Dated(r, NoExecution)
           /\ Earlier(r, Idle) /\ Earlier(r, NoExecution)
           /\ Idle \in [date : Date, by : Nat]
           /\ NoExecution \in [date : Date, by : Nat, status : Finished \cup {"none"}]
<1>1. now \in Nat /\ script.started \in Nat
  BY DEF ReplayTypes
<1>2. /\ Idle.date = -1 /\ NoExecution.date = -1
      /\ Idle \in [date : Date, by : Nat]
      /\ NoExecution \in [date : Date, by : Nat, status : Finished \cup {"none"}]
  BY DEF Idle, NoExecution, Date
<1> QED
  BY <1>1, <1>2 DEF Dated, Earlier

(* The rule the script is at.                                              *)
LEMMA CurrentIsRule ==
    ASSUME InRange, script.at # "over"
    PROVE  Current \in Rule
<1>1. script.rule \in DOMAIN Rules
  BY RuleAssumption DEF InRange
<1> QED
  BY <1>1 DEF Current, Rule

(* A step that begins no execution and enables no rule, but may stop or    *)
(* delete executions: what is known of those left was known before.        *)
LEMMA ExecutionsMove ==
    ASSUME ReplayInv, NEW q, UNCHANGED <<replays, now, enabler>>,
           enabled' \subseteq enabled,
           script' \in [at : Steps, rule : Nat, recreate : BOOLEAN, started : Nat,
                        found : SUBSET Rule],
           script'.found = script.found, script'.at = "wait" => script' = script,
           \/ running' = [running EXCEPT ![q] = Idle]
           \/ UNCHANGED running,
           \/ UNCHANGED last
           \/ last' = [last EXCEPT ![q] = NoExecution]
           \/ q \in Rule /\ \E st \in Finished :
                last' = [last EXCEPT ![q] =
                   [date |-> running[q].date, by |-> running[q].by, status |-> st]]
    PROVE  ReplayTypes' /\ EnablerTypes' /\ Whose'
<1>1. ASSUME NEW r \in Rule
      PROVE  /\ running'[r] \in [date : Date, by : Nat]
             /\ Dated(r, running'[r])
             /\ Earlier(r, running[r]) => Earlier(r, running'[r])
  <2>1. running'[r] = running[r] \/ running'[r] = Idle
    BY DEF ReplayInv, ReplayTypes
  <2>2. running[r] \in [date : Date, by : Nat] /\ Dated(r, running[r])
    BY DEF ReplayInv, ReplayTypes, Whose
  <2>3. Idle \in [date : Date, by : Nat] /\ Dated(r, Idle) /\ Earlier(r, Idle)
    BY NoneIsEarlier DEF ReplayInv, EnablerTypes
  <2>4. CASE running'[r] = running[r]
    BY <2>2, <2>4
  <2>5. CASE running'[r] = Idle
    BY <2>3, <2>5
  <2> QED
    BY <2>1, <2>4, <2>5
<1>2. ASSUME NEW r \in Rule
      PROVE  /\ last'[r] \in [date : Date, by : Nat, status : Finished \cup {"none"}]
             /\ Dated(r, last'[r])
             /\ Earlier(r, running[r]) /\ Earlier(r, last[r]) => Earlier(r, last'[r])
  <2>1. \/ last'[r] = last[r]
        \/ last'[r] = NoExecution
        \/ \E st \in Finished : last'[r] =
              [date |-> running[r].date, by |-> running[r].by, status |-> st]
    BY DEF ReplayInv, ReplayTypes
  <2>2. /\ running[r] \in [date : Date, by : Nat] /\ Dated(r, running[r])
        /\ last[r] \in [date : Date, by : Nat, status : Finished \cup {"none"}]
        /\ Dated(r, last[r])
    BY DEF ReplayInv, ReplayTypes, Whose
  <2>3. CASE last'[r] = last[r]
    BY <2>2, <2>3
  <2>4. CASE last'[r] = NoExecution
    BY <2>4, NoneIsEarlier DEF ReplayInv, EnablerTypes
  <2>5. ASSUME NEW st \in Finished,
               last'[r] = [date |-> running[r].date, by |-> running[r].by, status |-> st]
        PROVE  /\ last'[r] \in [date : Date, by : Nat, status : Finished \cup {"none"}]
               /\ Dated(r, last'[r])
               /\ Earlier(r, running[r]) => Earlier(r, last'[r])
    <3>1. last'[r].date = running[r].date /\ last'[r].by = running[r].by
      BY <2>5
    <3>2. last'[r] \in [date : Date, by : Nat, status : Finished \cup {"none"}]
      BY <2>2, <2>5
    <3> QED
      BY <2>2, <3>1, <3>2 DEF Dated, Earlier
  <2> QED
    BY <2>1, <2>3, <2>4, <2>5
<1>3. ReplayTypes'
  <2>1. /\ running' \in [Rule -> [date : Date, by : Nat]]
        /\ last' \in [Rule -> [date : Date, by : Nat, status : Finished \cup {"none"}]]
    <3>1. /\ DOMAIN running' = Rule /\ running' = [r \in Rule |-> running'[r]]
          /\ DOMAIN last' = Rule /\ last' = [r \in Rule |-> last'[r]]
      BY DEF ReplayInv, ReplayTypes
    <3> QED
      BY <1>1, <1>2, <3>1
  <2> QED
    BY <2>1 DEF ReplayInv, ReplayTypes
<1>4. EnablerTypes'
  BY DEF ReplayInv, EnablerTypes
<1>5. Whose'
  <2>1. ASSUME NEW r \in Rule PROVE (Dated(r, running[r]) /\ Dated(r, last[r]))'
    BY <1>1, <1>2 DEF Dated
  <2>2. CASE script'.at = "wait"
    <3>1. script' = script /\ Current' = Current
      BY <2>2 DEF Current
    <3>2. ASSUME NEW r \in Rule, r = Current
          PROVE  /\ enabler'[r] = replays'
                 /\ (Earlier(r, running[r]) /\ Earlier(r, last[r]))'
      <4>1. Earlier(r, running[r]) /\ Earlier(r, last[r]) /\ enabler[r] = replays
        BY <2>2, <3>1, <3>2 DEF ReplayInv, Whose
      <4> QED
        BY <1>1, <1>2, <3>1, <4>1 DEF Earlier
    <3> QED
      BY <2>1, <3>1, <3>2 DEF ReplayInv, Whose
  <2>3. CASE script'.at # "wait"
    BY <2>1, <2>3 DEF ReplayInv, Whose
  <2> QED
    BY <2>2, <2>3
<1> QED
  BY <1>3, <1>4, <1>5

(* The steps of the script, up to the wait.                                *)
LEMMA ScriptStarts ==
    ASSUME ReplayInv, StartReplay \/ DeployRule \/ DeployFails \/ EnableRule \/ EnableFails
    PROVE  ReplayInv'
<1>1. CASE StartReplay
  <2>1. /\ \E recreate \in BOOLEAN :
              script' = [at |-> "deploy", rule |-> 1, recreate |-> recreate,
                         started |-> 0, found |-> enabled]
        /\ now' = now + 1 /\ replays' = replays + 1 /\ script.at = "over"
        /\ UNCHANGED <<enabled, enabler, running, last, spoiled>>
    BY <1>1 DEF StartReplay
  <2>2. script'.found = enabled /\ script'.at = "deploy"
    BY <2>1
  <2>3. ReplayTypes' /\ EnablerTypes'
    BY <2>1 DEF ReplayInv, ReplayTypes, EnablerTypes, Steps
  <2>4. ASSUME NEW r \in Rule PROVE (Dated(r, running[r]) /\ Dated(r, last[r]))'
    <3>1. running[r].date <= now /\ last[r].date <= now
      BY DEF ReplayInv, Whose, Dated
    <3>2. now \in Int /\ running[r].date \in Int /\ last[r].date \in Int
      BY DEF ReplayInv, ReplayTypes, Date
    <3> QED
      BY <2>1, <3>1, <3>2 DEF Dated
  <2>5. Whose'
    BY <2>1, <2>2, <2>4 DEF Whose
  <2>6. (enabled \subseteq spoiled \cup InHand)'
    BY <2>1 DEF ReplayInv, InHand
  <2>7. InRange'
    <3>1. Len(Rules) \in Nat /\ Len(Rules) # 0 /\ script'.rule = 1
      BY <2>1, RuleAssumption
    <3> QED
      BY <3>1 DEF InRange
  <2> QED
    BY <2>3, <2>5, <2>6, <2>7 DEF ReplayInv
<1>2. CASE DeployRule
  <2>1. /\ script' = IF script.rule < Len(Rules)
                     THEN [script EXCEPT !.rule = script.rule + 1]
                     ELSE [script EXCEPT !.rule = 1, !.at = "enable"]
        /\ script.at = "deploy"
        /\ UNCHANGED <<replays, now, enabler>>
        /\ enabled' = enabled \ {Current} /\ spoiled' = spoiled \ {Current}
        /\ \/ UNCHANGED <<running, last>>
           \/ /\ running' = [running EXCEPT ![Current] = Idle]
              /\ last' = [last EXCEPT ![Current] = NoExecution]
    BY <1>2 DEF DeployRule, Deleted, Disabled
  <2>2. /\ script' \in [at : Steps, rule : Nat, recreate : BOOLEAN, started : Nat,
                         found : SUBSET Rule]
        /\ script'.at # "wait" /\ script'.found = script.found
        /\ InRange'
    <3>1. /\ script \in [at : Steps, rule : Nat, recreate : BOOLEAN, started : Nat,
                         found : SUBSET Rule]
          /\ script.rule + 1 \in Nat /\ 1 \in 1..Len(Rules)
          /\ script.rule < Len(Rules) => script.rule + 1 \in 1..Len(Rules)
      <4>1. Len(Rules) \in Nat /\ Len(Rules) # 0 /\ script.rule \in Nat
        BY RuleAssumption DEF ReplayInv, ReplayTypes
      <4> QED
        BY <4>1 DEF ReplayInv, ReplayTypes
    <3>2. CASE script.rule < Len(Rules) /\ script' = [script EXCEPT !.rule = script.rule + 1]
      BY <2>1, <3>1, <3>2 DEF InRange
    <3>3. CASE script' = [script EXCEPT !.rule = 1, !.at = "enable"]
      BY <3>1, <3>3 DEF Steps, InRange
    <3> QED
      BY <2>1, <3>2, <3>3
  <2>3. ReplayTypes' /\ EnablerTypes' /\ Whose'
    BY <2>1, <2>2, ExecutionsMove
  <2>4. (enabled \subseteq spoiled \cup InHand)'
    BY <2>1 DEF ReplayInv, InHand
  <2> QED
    BY <2>2, <2>3, <2>4 DEF ReplayInv
<1>3. CASE DeployFails
  <2>1. /\ script' = [script EXCEPT !.at = "over"] /\ script.at = "deploy"
        /\ UNCHANGED <<replays, now, enabler, spoiled>>
        /\ enabled' \subseteq enabled
        /\ \/ UNCHANGED <<running, last>>
           \/ /\ running' = [running EXCEPT ![Current] = Idle]
              /\ last' = [last EXCEPT ![Current] = NoExecution]
    BY <1>3 DEF DeployFails, Deleted, Disabled
  <2>2. /\ script' \in [at : Steps, rule : Nat, recreate : BOOLEAN, started : Nat,
                         found : SUBSET Rule]
        /\ script'.at # "wait" /\ script'.found = script.found
    BY <2>1 DEF ReplayInv, ReplayTypes, Steps
  <2>5. InRange'
    BY <2>1, <2>2 DEF ReplayInv, ReplayTypes, InRange
  <2>3. ReplayTypes' /\ EnablerTypes' /\ Whose'
    BY <2>1, <2>2, ExecutionsMove
  <2>4. (enabled \subseteq spoiled \cup InHand)'
    BY <2>1 DEF ReplayInv, InHand
  <2> QED
    BY <2>3, <2>4, <2>5 DEF ReplayInv
<1>4. CASE EnableRule
  <2>1. /\ script' = [script EXCEPT !.at = "wait", !.started = now]
        /\ enabled' = enabled \cup {Current} /\ script.at = "enable"
        /\ enabler' = [enabler EXCEPT ![Current] = replays]
        /\ UNCHANGED <<replays, now, spoiled, running, last>>
    BY <1>4 DEF EnableRule, Enabled
  <2>2. /\ script'.at = "wait" /\ script'.started = now /\ script'.rule = script.rule
        /\ script'.found = script.found
    BY <2>1 DEF ReplayInv, ReplayTypes
  <2>3. Current' = Current
    BY <2>2 DEF Current
  <2>4. ReplayTypes' /\ EnablerTypes'
    <3>1. Current \in Rule
      BY <1>4, CurrentIsRule DEF EnableRule, ReplayInv
    <3> QED
      BY <2>1, <3>1 DEF ReplayInv, ReplayTypes, EnablerTypes, Steps
  <2>5. Whose'
    <3>1. ASSUME NEW r \in Rule PROVE (Dated(r, running[r]) /\ Dated(r, last[r]))'
      BY <2>1, <2>2 DEF ReplayInv, Whose, Dated
    <3>2. ASSUME NEW r \in Rule PROVE (Earlier(r, running[r]) /\ Earlier(r, last[r]))'
      BY <2>1, <2>2 DEF ReplayInv, Whose, Dated, Earlier
    <3>3. \A r \in Rule : enabler'[r] = IF r = Current THEN replays ELSE enabler[r]
      BY <2>1 DEF ReplayInv, EnablerTypes
    <3>4. \A r \in enabled' : enabler'[r] = replays \/ r \in script.found
      BY <2>1, <2>4, <3>3 DEF ReplayInv, ReplayTypes, Whose
    <3> QED
      BY <2>1, <2>2, <2>3, <3>1, <3>2, <3>3, <3>4 DEF Whose
  <2>6. (enabled \subseteq spoiled \cup InHand)'
    BY <2>1, <2>2, <2>3 DEF ReplayInv, InHand
  <2>7. InRange'
    BY <2>1, <2>2 DEF ReplayInv, InRange
  <2> QED
    BY <2>4, <2>5, <2>6, <2>7 DEF ReplayInv
<1>5. CASE EnableFails
  <2>1. /\ script' = [script EXCEPT !.at = "over"] /\ script.at = "enable"
        /\ \/ /\ enabled' = enabled \cup {Current}
              /\ enabler' = [enabler EXCEPT ![Current] = replays]
           \/ UNCHANGED <<enabled, enabler>>
        /\ spoiled' = spoiled \cup {Current}
        /\ UNCHANGED <<replays, now, running, last>>
    BY <1>5 DEF EnableFails, Enabled
  <2>2. script'.at = "over" /\ script'.found = script.found
    BY <2>1 DEF ReplayInv, ReplayTypes
  <2>3. ReplayTypes' /\ EnablerTypes'
    <3>1. Current \in Rule
      BY <1>5, CurrentIsRule DEF EnableFails, ReplayInv
    <3> QED
      BY <2>1, <3>1 DEF ReplayInv, ReplayTypes, EnablerTypes, Steps
  <2>4. Whose'
    <3>1. ASSUME NEW r \in Rule PROVE (Dated(r, running[r]) /\ Dated(r, last[r]))'
      BY <2>1, <2>2 DEF ReplayInv, Whose, Dated
    <3>2. \A r \in Rule : enabler'[r] = enabler[r] \/ enabler'[r] = replays
      BY <2>1 DEF ReplayInv, EnablerTypes
    <3>3. enabler'[Current] = replays \/ enabled' = enabled
      <4>1. Current \in Rule
        BY <1>5, CurrentIsRule DEF EnableFails, ReplayInv
      <4> QED
        BY <2>1, <4>1 DEF ReplayInv, EnablerTypes
    <3>4. \A r \in enabled' : enabler'[r] = replays \/ r \in script.found
      BY <2>1, <3>2, <3>3 DEF ReplayInv, ReplayTypes, Whose
    <3> QED
      BY <2>1, <2>2, <3>1, <3>4 DEF Whose
  <2>5. (enabled \subseteq spoiled \cup InHand)'
    BY <2>1, <2>2 DEF ReplayInv, InHand
  <2> QED
    BY <2>2, <2>3, <2>4, <2>5 DEF ReplayInv, InRange
<1> QED
  BY <1>1, <1>2, <1>3, <1>4, <1>5

(* The wait and what follows it.                                           *)
LEMMA ScriptWaits ==
    ASSUME ReplayInv,
           ExecutionSeen \/ WaitTimesOut \/ PollFails \/ DisableRule \/ DisableFails
    PROVE  ReplayInv'
<1>1. CASE ExecutionSeen \/ WaitTimesOut \/ PollFails
  <2>1. /\ script.at = "wait"
        /\ \E step \in {"disable", "give_up"} : script' = [script EXCEPT !.at = step]
        /\ UNCHANGED <<replays, spoiled, now, enabled, enabler, running, last>>
    BY <1>1 DEF ExecutionSeen, WaitTimesOut, PollFails, kibana
  <2>2. /\ script' \in [at : Steps, rule : Nat, recreate : BOOLEAN, started : Nat,
                         found : SUBSET Rule]
        /\ script'.at \in {"disable", "give_up"} /\ script'.found = script.found
        /\ script'.rule = script.rule
    BY <2>1 DEF ReplayInv, ReplayTypes, Steps
  <2>3. ReplayTypes' /\ EnablerTypes' /\ Whose'
    BY <2>1, <2>2, ExecutionsMove
  <2>4. (enabled \subseteq spoiled \cup InHand)'
    <3>1. Current' = Current
      BY <2>2 DEF Current
    <3> QED
      BY <2>1, <2>2, <3>1 DEF ReplayInv, InHand
  <2>5. InRange'
    BY <2>1, <2>2 DEF ReplayInv, InRange
  <2> QED
    BY <2>3, <2>4, <2>5 DEF ReplayInv
<1>2. CASE DisableRule
  <2>1. /\ \/ /\ script.rule < Len(Rules)
              /\ script' = [script EXCEPT !.at = "enable", !.rule = script.rule + 1]
           \/ script' = [script EXCEPT !.at = "over"]
        /\ script.at \in {"disable", "give_up"}
        /\ enabled' = enabled \ {Current}
        /\ UNCHANGED <<replays, spoiled, now, enabler, running, last>>
    BY <1>2 DEF DisableRule, Disabled
  <2>2. /\ script' \in [at : Steps, rule : Nat, recreate : BOOLEAN, started : Nat,
                         found : SUBSET Rule]
        /\ script'.at # "wait" /\ script'.found = script.found
        /\ InRange'
    <3>1. /\ script \in [at : Steps, rule : Nat, recreate : BOOLEAN, started : Nat,
                         found : SUBSET Rule]
          /\ script.rule + 1 \in Nat
          /\ script.rule < Len(Rules) => script.rule + 1 \in 1..Len(Rules)
      <4>1. Len(Rules) \in Nat /\ script.rule \in Nat
        BY RuleAssumption DEF ReplayInv, ReplayTypes
      <4> QED
        BY <4>1 DEF ReplayInv, ReplayTypes
    <3>2. CASE /\ script.rule < Len(Rules)
               /\ script' = [script EXCEPT !.at = "enable", !.rule = script.rule + 1]
      BY <3>1, <3>2 DEF Steps, InRange
    <3>3. CASE script' = [script EXCEPT !.at = "over"]
      BY <3>1, <3>3 DEF Steps, InRange
    <3> QED
      BY <2>1, <3>2, <3>3
  <2>3. ReplayTypes' /\ EnablerTypes' /\ Whose'
    BY <2>1, <2>2, ExecutionsMove
  <2>4. (enabled \subseteq spoiled \cup InHand)'
    BY <2>1 DEF ReplayInv, InHand
  <2> QED
    BY <2>2, <2>3, <2>4 DEF ReplayInv
<1>3. CASE DisableFails
  <2>1. /\ script' = [script EXCEPT !.at = "over"] /\ script.at \in {"disable", "give_up"}
        /\ spoiled' = spoiled \cup {Current}
        /\ UNCHANGED <<replays, now, enabled, enabler, running, last>>
    BY <1>3 DEF DisableFails, kibana
  <2>2. /\ script' \in [at : Steps, rule : Nat, recreate : BOOLEAN, started : Nat,
                         found : SUBSET Rule]
        /\ script'.at = "over" /\ script'.found = script.found
    BY <2>1 DEF ReplayInv, ReplayTypes, Steps
  <2>3. ReplayTypes' /\ EnablerTypes' /\ Whose'
    BY <2>1, <2>2, ExecutionsMove
  <2>4. (enabled \subseteq spoiled \cup InHand)'
    BY <2>1 DEF ReplayInv, InHand
  <2> QED
    BY <2>2, <2>3, <2>4 DEF ReplayInv, InRange
<1> QED
  BY <1>1, <1>2, <1>3

(* Kibana's own steps.                                                     *)
LEMMA KibanaRuns ==
    ASSUME ReplayInv, Tick \/ \E r \in Rule : RunBegins(r) \/ RunEnds(r) \/ RunFails(r)
    PROVE  ReplayInv'
<1>1. CASE Tick
  <2>1. now' = now + 1 /\ UNCHANGED <<script, replays, spoiled, enabled, enabler, running, last>>
    BY <1>1 DEF Tick
  <2>2. Current' = Current
    BY <2>1 DEF Current
  <2>3. ReplayTypes' /\ EnablerTypes' /\ InRange' /\ (enabled \subseteq spoiled \cup InHand)'
    BY <2>1, <2>2 DEF ReplayInv, ReplayTypes, EnablerTypes, InRange, InHand
  <2>4. Whose'
    <3>1. ASSUME NEW r \in Rule PROVE (Dated(r, running[r]) /\ Dated(r, last[r]))'
      <4>1. /\ now \in Int /\ running[r].date \in Int /\ last[r].date \in Int
            /\ Dated(r, running[r]) /\ Dated(r, last[r])
        BY DEF ReplayInv, ReplayTypes, Date, Whose
      <4> QED
        BY <2>1, <4>1 DEF Dated
    <3> QED
      BY <2>1, <2>2, <3>1 DEF ReplayInv, Whose, Earlier
  <2> QED
    BY <2>3, <2>4 DEF ReplayInv
<1>2. ASSUME NEW q \in Rule, RunBegins(q) PROVE ReplayInv'
  <2>1. /\ running' = [running EXCEPT ![q] = [date |-> now, by |-> enabler[q]]]
        /\ q \in enabled
        /\ UNCHANGED <<script, replays, spoiled, now, enabled, enabler, last>>
    BY <1>2 DEF RunBegins
  <2>2. Current' = Current
    BY <2>1 DEF Current
  <2>3. /\ now \in Nat /\ enabler[q] \in Nat
        /\ enabler[q] = replays \/ q \in script.found
    BY <2>1 DEF ReplayInv, ReplayTypes, EnablerTypes, Whose
  <2>4. ASSUME NEW r \in Rule
        PROVE  /\ running'[r] \in [date : Date, by : Nat]
               /\ \/ running'[r] = running[r]
                  \/ r = q /\ running'[r] = [date |-> now, by |-> enabler[q]]
    BY <2>1, <2>3 DEF ReplayInv, ReplayTypes, Date
  <2>5. ReplayTypes' /\ EnablerTypes' /\ InRange' /\ (enabled \subseteq spoiled \cup InHand)'
    <3>1. running' \in [Rule -> [date : Date, by : Nat]]
      <4>1. running' = [r \in Rule |-> running'[r]]
        BY <2>1 DEF ReplayInv, ReplayTypes
      <4> QED
        BY <2>4, <4>1
    <3> QED
      BY <2>1, <2>2, <3>1 DEF ReplayInv, ReplayTypes, EnablerTypes, InRange, InHand
  <2>6. ASSUME NEW r \in Rule PROVE (Dated(r, running[r]) /\ Dated(r, last[r]))'
    <3>1. Dated(r, running[r]) /\ Dated(r, last[r])
      BY DEF ReplayInv, Whose
    <3>2. CASE running'[r] = running[r]
      BY <2>1, <3>1, <3>2 DEF Dated
    <3>3. CASE r = q /\ running'[r] = [date |-> now, by |-> enabler[q]]
      <4>1. running'[r].date = now /\ running'[r].by = enabler[q]
        BY <3>3
      <4> QED
        BY <2>1, <2>3, <3>1, <3>3, <4>1 DEF Dated
    <3> QED
      BY <2>4, <3>2, <3>3
  <2>7. ASSUME NEW r \in Rule, script.at = "wait", r = Current
        PROVE  (Earlier(r, running[r]) /\ Earlier(r, last[r]))'
    <3>1. Earlier(r, running[r]) /\ Earlier(r, last[r]) /\ enabler[r] = replays
      BY <2>7 DEF ReplayInv, Whose
    <3>2. running'[r] = running[r] \/ running'[r].by = replays
      BY <2>4, <3>1
    <3> QED
      BY <2>1, <3>1, <3>2 DEF Earlier
  <2>8. Whose'
    BY <2>1, <2>2, <2>6, <2>7 DEF ReplayInv, Whose
  <2> QED
    BY <2>5, <2>8 DEF ReplayInv
<1>3. ASSUME NEW q \in Rule, RunEnds(q) \/ RunFails(q) PROVE ReplayInv'
  <2>1. /\ running' = [running EXCEPT ![q] = Idle]
        /\ \E st \in Finished :
              last' = [last EXCEPT ![q] =
                 [date |-> running[q].date, by |-> running[q].by, status |-> st]]
        /\ UNCHANGED <<script, replays, spoiled, now, enabled, enabler>>
    BY <1>3 DEF RunEnds, RunFails, Finished
  <2>2. Current' = Current
    BY <2>1 DEF Current
  <2>3. ReplayTypes' /\ EnablerTypes' /\ Whose'
    <3>1. script' \in [at : Steps, rule : Nat, recreate : BOOLEAN, started : Nat,
                       found : SUBSET Rule]
      BY <2>1 DEF ReplayInv, ReplayTypes
    <3> QED
      BY <2>1, <3>1, ExecutionsMove
  <2>4. InRange' /\ (enabled \subseteq spoiled \cup InHand)'
    BY <2>1, <2>2 DEF ReplayInv, InRange, InHand
  <2> QED
    BY <2>3, <2>4 DEF ReplayInv
<1> QED
  BY <1>1, <1>2, <1>3

LEMMA ReplayInvStep == ReplayInv /\ [Next]_vars => ReplayInv'
<1> SUFFICES ASSUME ReplayInv, [Next]_vars PROVE ReplayInv'
  OBVIOUS
<1>1. CASE UNCHANGED <<script, replays, spoiled, now, enabled, enabler, running, last>>
  BY <1>1 DEF ReplayInv, ReplayTypes, EnablerTypes, InRange, Whose, Dated, Earlier,
              InHand, Current
<1>2. CASE StartExport \/ NextPage \/ Summarize
  BY <1>1, <1>2 DEF StartExport, NextPage, Summarize, kibana
<1>3. CASE UNCHANGED replayVars
  BY <1>1, <1>3 DEF replayVars, kibana
<1>4. CASE ReplayNext
  BY <1>2, <1>4, ScriptStarts, ScriptWaits, KibanaRuns DEF ReplayNext
<1> QED
  BY <1>3, <1>4 DEF Next, vars

(* For any rules and however calls and executions fail or linger, a rule   *)
(* that is enabled once the script is over had its own call fail.          *)
THEOREM ReplayEndsQuiet == Spec => []QuietAfterReplay
<1>1. ReplayInv => QuietAfterReplay
  BY DEF ReplayInv, QuietAfterReplay, InHand
<1> QED
  BY <1>1, ReplayInvInit, ReplayInvStep, PTL DEF Spec

(* The script notes one result of each rule.                               *)
ResultOfEach == results = [r \in Rule |-> results[r]]

LEMMA ResultOfEachInit == Init => ResultOfEach
  BY DEF Init, ReplayInit, ResultOfEach

LEMMA ResultOfEachStep == ResultOfEach /\ [Next]_vars => ResultOfEach'
<1> SUFFICES ASSUME ResultOfEach, [Next]_vars PROVE ResultOfEach'
  OBVIOUS
<1>1. \/ UNCHANGED results
      \/ results' = [r \in Rule |-> "none"]
      \/ \E status : results' = [results EXCEPT ![Current] = status]
  BY DEF Next, vars, replayVars, ReplayNext, StartReplay, DeployRule, DeployFails,
     EnableRule, EnableFails, ExecutionSeen, WaitTimesOut, PollFails, DisableRule,
     DisableFails, RunBegins, RunEnds, RunFails, Tick, StartExport, NextPage, Summarize
<1> QED
  BY <1>1 DEF ResultOfEach

(* A status the script notes is that of an execution this replay enabled,  *)
(* or of one that a rule found enabled began in the second in which it was *)
(* enabled again, for any interleaving of waits and executions.            *)
THEOREM ResultsAreFresh == Spec => ResultIsFresh
<1>1. ReplayInv /\ ResultOfEach /\ [Next]_vars =>
        [\A r \in Rule : results'[r] # results[r] /\ results'[r] \in Finished =>
            Fresh(r, last[r])]_vars
  <2> SUFFICES ASSUME ReplayInv, ResultOfEach, Next, NEW r \in Rule,
                      results'[r] # results[r], results'[r] \in Finished
               PROVE  Fresh(r, last[r])
    OBVIOUS
  <2>1. ExecutionSeen
    <3>1. ReplayNext
      BY DEF Next, replayVars
    <3>2. ~StartReplay /\ ~WaitTimesOut /\ ~DisableFails
      BY DEF ResultOfEach, StartReplay, WaitTimesOut, DisableFails, Finished
    <3> QED
      BY <3>1, <3>2 DEF ReplayNext, DeployRule, DeployFails, EnableRule, EnableFails,
         PollFails, DisableRule, RunBegins, RunEnds, RunFails, Tick, StartExport,
         NextPage, Summarize
  <2>2. script.at = "wait" /\ r = Current /\ last[r].date >= script.started
    BY <2>1 DEF ExecutionSeen, Answers
  <2>3. /\ last[r].date \in Int /\ script.started \in Int
        /\ Earlier(r, last[r])
    BY <2>2 DEF ReplayInv, ReplayTypes, Date, Whose
  <2> QED
    BY <2>2, <2>3 DEF Earlier, Fresh
<1> QED
  BY <1>1, ReplayInvInit, ReplayInvStep, ResultOfEachInit, ResultOfEachStep, PTL
     DEF Spec, ResultIsFresh

-----------------------------------------------------------------------------
(* Exporting the alerts.                                                   *)

\* An alert, as far as the export tells it apart.
Alert == [rule : Rule, row : Row, date : Nat]

ExportTypes ==
    /\ alerts \subseteq Alert
    /\ now \in Nat
    /\ runs \in [Rule -> Nat]
    /\ export \in [at : {"off", "paging", "counting", "done"}, before : SUBSET Alert,
                   rows : Seq(Alert), after : Int \X Int,
                   listed : [Rule -> {"absent", "matches", "differs"}]]
    /\ export.at = "off" => /\ export.rows = <<>> /\ export.before = {}
                            /\ export.after = <<-1, -1>>
    /\ replays = 0 => alerts = {} /\ export.at = "off"

\* The pages so far are alerts in order, none of them behind the cursor.
UpToCursor ==
    /\ \A i \in DOMAIN export.rows : export.rows[i] \in alerts
    /\ \A i, j \in DOMAIN export.rows : i < j =>
          Sorts(SortKey(export.rows[i]), SortKey(export.rows[j]))
    /\ \A i \in DOMAIN export.rows :
          \/ SortKey(export.rows[i]) = export.after
          \/ Sorts(SortKey(export.rows[i]), export.after)

\* An alert that was there at the start is on them, or still to come.
NoneBehind ==
    /\ export.before \subseteq alerts
    /\ \A a \in export.before :
          \/ \E i \in DOMAIN export.rows : export.rows[i] = a
          \/ export.at = "paging" /\ After(a, export.after)

\* A rule that alerted in one execution has one alert of each row it has.
OneRunOneAlert ==
    \A r \in Rule :
        /\ runs[r] = 0 => \A a \in alerts : a.rule # r
        /\ runs[r] = 1 =>
              \A a \in alerts : a.rule = r =>
                 /\ a.row \in RowsOf(r)
                 /\ \A b \in alerts : b.rule = r /\ b.row = a.row => b = a

Counted ==
    \A r \in Rule : export.listed[r] = "matches" =>
        export.at = "done" /\ Cardinality(Exported(r)) = Cardinality(RowsOf(r))

\* Before the first replay no rule is enabled or runs.
NotYet ==
    /\ replays \in Nat
    /\ replays = 0 => /\ script.at = "over" /\ enabled = {} /\ due = {}
                      /\ \A r \in Rule : running[r] = Idle

ExportInv ==
    ExportTypes /\ UpToCursor /\ NoneBehind /\ OneRunOneAlert /\ Counted

(* The order of the alerts.                                                *)
LEMMA KeysInOrder ==
    /\ \A a \in Alert : SortKey(a) \in Int \X Int
    /\ \A j, k, l \in Int \X Int : Sorts(j, k) /\ Sorts(k, l) => Sorts(j, l)
    /\ \A j \in Int \X Int : ~Sorts(j, j)
    /\ \A a \in Alert : After(a, <<-1, -1>>)
<1>1. ASSUME NEW a \in Alert PROVE SortKey(a) \in Int \X Int /\ a.date \in Nat
  <2>1. a.rule \in Rule /\ a.row \in Row /\ a.date \in Nat
    BY DEF Alert
  <2>2. Rank \in [Rule \X Row -> Int]
    BY RuleAssumption
  <2>3. Rank[<<a.rule, a.row>>] \in Int
    BY <2>1, <2>2
  <2> QED
    BY <2>1, <2>3 DEF SortKey
<1>2. ASSUME NEW a \in Alert PROVE After(a, <<-1, -1>>)
  <2>1. SortKey(a)[1] = a.date /\ a.date \in Nat
    BY <1>1 DEF SortKey
  <2> QED
    BY <2>1 DEF After, Sorts
<1> QED
  BY <1>1, <1>2 DEF Sorts

(* What a rule returns are documents or addresses.                         *)
LEMMA RowsType ==
    ASSUME NEW r \in Rule
    PROVE  RowsOf(r) \subseteq Row /\ IsFiniteSet(RowsOf(r))
<1>1. IsFiniteSet(Row)
  BY RuleAssumption, FS_Union DEF Row
<1>2. RowsOf(r) \subseteq Row
  BY DEF RowsOf, Row, Indexed
<1> QED
  BY <1>1, <1>2, FS_Subset

(* Before anything is loaded.                                              *)
LEMMA ExportInvInit == Init => ExportInv /\ NotYet
<1> SUFFICES ASSUME Init PROVE ExportInv /\ NotYet
  OBVIOUS
<1>1. /\ alerts = {} /\ now = 0 /\ runs = [r \in Rule |-> 0]
      /\ export = [at |-> "off", before |-> {}, rows |-> <<>>, after |-> <<-1, -1>>,
                   listed |-> [r \in Rule |-> "absent"]]
  BY DEF Init, ReplayInit
<1>2. NotYet
  BY DEF Init, ReplayInit, NotYet
<1> QED
  BY <1>1, <1>2 DEF ExportInv, ExportTypes, UpToCursor, NoneBehind, OneRunOneAlert, Counted

(* The archive is loaded before there are alerts.                          *)
LEMMA LoadKeepsExport ==
    ASSUME ExportInv, replays = 0, UNCHANGED replayVars
    PROVE  ExportInv'
<1>1. UNCHANGED <<alerts, now, runs, export, replays>> /\ alerts = {} /\ export.at = "off"
  BY DEF replayVars, kibana, ExportInv, ExportTypes
<1>2. ExportTypes' /\ UpToCursor' /\ NoneBehind'
  BY <1>1 DEF ExportInv, ExportTypes, UpToCursor, NoneBehind
<1>3. OneRunOneAlert'
  BY <1>1 DEF OneRunOneAlert
<1>4. Counted'
  BY <1>1 DEF ExportInv, Counted
<1> QED
  BY <1>2, <1>3, <1>4 DEF ExportInv

(* A step that touches neither alerts nor the export.                      *)
LEMMA OthersKeepExport ==
    ASSUME ExportInv, UNCHANGED <<alerts, runs, export, index, replays>>, now' \in Nat
    PROVE  ExportInv'
<1>1. \A r : RowsOf(r)' = RowsOf(r) /\ Exported(r)' = Exported(r)
  BY DEF RowsOf, Indexed, Exported
<1>2. ExportTypes' /\ UpToCursor' /\ NoneBehind'
  BY DEF ExportInv, ExportTypes, UpToCursor, NoneBehind
<1>3. OneRunOneAlert' /\ Counted'
  BY <1>1 DEF ExportInv, OneRunOneAlert, Counted
<1> QED
  BY <1>2, <1>3 DEF ExportInv

(* A replay starts before the export does, with the alerts or without.     *)
LEMMA StartReplayKeepsExport ==
    ASSUME ExportInv, NotYet, StartReplay, UNCHANGED index
    PROVE  ExportInv'
<1>1. /\ export.at = "off" /\ export' = export /\ now' = now + 1
      /\ \/ alerts' = alerts /\ runs' = runs
         \/ alerts' = {} /\ runs' = [r \in Rule |-> 0]
  BY DEF StartReplay
<1>2. replays' = replays + 1 /\ (replays' = 0 => alerts' = {})
  BY DEF StartReplay, NotYet
<1>3. /\ export.rows = <<>> /\ export.before = {}
  BY <1>1 DEF ExportInv, ExportTypes
<1>4. ExportTypes'
  BY <1>1, <1>2 DEF ExportInv, ExportTypes
<1>5. UpToCursor' /\ NoneBehind'
  BY <1>1, <1>3 DEF UpToCursor, NoneBehind
<1>6. \A r : RowsOf(r)' = RowsOf(r)
  BY DEF RowsOf, Indexed
<1>7. OneRunOneAlert'
  BY <1>1, <1>6 DEF ExportInv, OneRunOneAlert
<1>8. Counted'
  BY <1>1 DEF ExportInv, Counted
<1> QED
  BY <1>4, <1>5, <1>7, <1>8 DEF ExportInv

(* An execution adds its alerts, wherever the export has got to.           *)
LEMMA RunKeepsExport ==
    ASSUME ExportInv, NEW r \in Rule, RunEnds(r), UNCHANGED index, replays # 0
    PROVE  ExportInv'
<1> DEFINE rows == RowsOf(r) \ processed[r]
<1>1. PICK made \in SUBSET rows :
         alerts' = alerts \cup {[rule |-> r, row |-> x, date |-> now] : x \in made}
  BY DEF RunEnds
<1>2. /\ runs' = IF rows = {} THEN runs ELSE [runs EXCEPT ![r] = @ + 1]
      /\ UNCHANGED <<now, export, replays>>
  BY DEF RunEnds
<1>3. rows \subseteq RowsOf(r) /\ RowsOf(r) \subseteq Row
  BY RowsType
<1> HIDE DEF rows
<1>4. /\ alerts \subseteq alerts'
      /\ \A a \in alerts' : a \in alerts \/ (a.rule = r /\ a.date = now /\ a.row \in made
                                             /\ a = [rule |-> r, row |-> a.row, date |-> now])
  BY <1>1
<1>5. {[rule |-> r, row |-> x, date |-> now] : x \in made} \subseteq Alert
  BY <1>1, <1>3 DEF ExportInv, ExportTypes, Alert
<1>6. ExportTypes'
  BY <1>1, <1>2, <1>5 DEF ExportInv, ExportTypes
<1>7. UpToCursor' /\ NoneBehind'
  BY <1>2, <1>4 DEF ExportInv, UpToCursor, NoneBehind, After, SortKey
<1>8. \A q : RowsOf(q)' = RowsOf(q) /\ Exported(q)' = Exported(q)
  BY <1>2 DEF RowsOf, Indexed, Exported
<1>9. Counted'
  BY <1>2, <1>8 DEF ExportInv, Counted
<1>10. OneRunOneAlert'
  <2>1. CASE rows = {}
    <3>1. alerts' = alerts /\ runs' = runs
      BY <1>1, <1>2, <2>1
    <3> QED
      BY <1>8, <3>1 DEF ExportInv, OneRunOneAlert
  <2>2. CASE rows # {}
    <3>1. \A q \in Rule : runs'[q] = IF q = r THEN runs[r] + 1 ELSE runs[q]
      BY <1>2, <2>2 DEF ExportInv, ExportTypes
    <3>2. runs[r] \in Nat
      BY DEF ExportInv, ExportTypes
    <3>3. ASSUME NEW q \in Rule, runs'[q] = 0, NEW a \in alerts' PROVE a.rule # q
      BY <1>4, <3>1, <3>2, <3>3 DEF ExportInv, OneRunOneAlert
    <3>4. ASSUME NEW q \in Rule, runs'[q] = 1, NEW a \in alerts', a.rule = q
          PROVE  /\ a.row \in RowsOf(q)
                 /\ \A b \in alerts' : b.rule = q /\ b.row = a.row => b = a
      <4>1. CASE q = r
        <5>1. runs[r] = 0
          BY <3>1, <3>2, <3>4, <4>1
        <5>2. \A b \in alerts : b.rule # r
          BY <5>1 DEF ExportInv, OneRunOneAlert
        <5>3. \A b \in alerts' : b.rule = r =>
                 b.row \in made /\ b = [rule |-> r, row |-> b.row, date |-> now]
          BY <1>4, <5>2
        <5> QED
          BY <1>1, <1>3, <3>4, <4>1, <5>3
      <4>2. CASE q # r
        <5>1. runs[q] = 1
          BY <3>1, <3>4, <4>2
        <5>2. \A b \in alerts' : b.rule = q => b \in alerts
          BY <1>4, <4>2
        <5> QED
          BY <3>4, <5>1, <5>2 DEF ExportInv, OneRunOneAlert
      <4> QED
        BY <4>1, <4>2
    <3> QED
      BY <1>8, <3>3, <3>4 DEF OneRunOneAlert
  <2> QED
    BY <2>1, <2>2
<1> QED
  BY <1>6, <1>7, <1>9, <1>10 DEF ExportInv

(* The export begins with every alert still to come.                       *)
LEMMA StartExportKeeps ==
    ASSUME ExportInv, StartExport, UNCHANGED index
    PROVE  ExportInv'
<1>1. /\ export.at = "off" /\ replays > 0
      /\ export' = [export EXCEPT !.at = "paging", !.before = alerts]
      /\ UNCHANGED <<alerts, runs, now, replays>>
  BY DEF StartExport, kibana
<1>2. /\ export'.at = "paging" /\ export'.before = alerts /\ export'.rows = <<>>
      /\ export'.after = <<-1, -1>> /\ export'.listed = export.listed
  BY <1>1 DEF ExportInv, ExportTypes
<1>3. ExportTypes'
  <2>1. alerts \in SUBSET Alert
    BY DEF ExportInv, ExportTypes
  <2>2. replays # 0
    BY <1>1
  <2> QED
    BY <1>1, <1>2, <2>1, <2>2 DEF ExportInv, ExportTypes
<1>4. UpToCursor'
  BY <1>2 DEF UpToCursor
<1>5. NoneBehind'
  <2>1. \A a \in alerts : After(a, <<-1, -1>>)
    BY KeysInOrder DEF ExportInv, ExportTypes
  <2> QED
    BY <1>1, <1>2, <2>1 DEF NoneBehind, After, SortKey
<1>6. \A r : RowsOf(r)' = RowsOf(r)
  BY DEF RowsOf, Indexed
<1>7. OneRunOneAlert'
  <2>1. UNCHANGED <<alerts, runs>> /\ OneRunOneAlert
    BY <1>1 DEF ExportInv
  <2> QED
    BY <1>6, <2>1 DEF OneRunOneAlert
<1>8. Counted'
  BY <1>1, <1>2 DEF ExportInv, Counted
<1> QED
  BY <1>3, <1>4, <1>5, <1>7, <1>8 DEF ExportInv

(* A page follows the cursor, and the cursor its last alert.               *)
LEMMA NextPageKeeps ==
    ASSUME ExportInv, NextPage, UNCHANGED index
    PROVE  ExportInv'
<1> DEFINE rest == {a \in alerts : After(a, export.after)}
<1>1. export.at = "paging" /\ UNCHANGED <<alerts, runs, now, replays>>
  BY DEF NextPage, kibana
<1>2. \A r : RowsOf(r)' = RowsOf(r)
  BY DEF RowsOf, Indexed
<1>3. OneRunOneAlert'
  BY <1>1, <1>2 DEF ExportInv, OneRunOneAlert
<1>4. alerts \subseteq Alert /\ export.rows \in Seq(Alert)
      /\ DOMAIN export.rows = 1 .. Len(export.rows) /\ Len(export.rows) \in Nat
  BY DEF ExportInv, ExportTypes
<1>5. CASE rest = {}
  <2>1. export' = [export EXCEPT !.at = "counting"]
    BY <1>5 DEF NextPage
  <2>2. /\ export'.at = "counting" /\ export'.before = export.before
        /\ export'.rows = export.rows /\ export'.after = export.after
        /\ export'.listed = export.listed
    BY <2>1 DEF ExportInv, ExportTypes
  <2>3. ExportTypes'
    BY <1>1, <2>1 DEF ExportInv, ExportTypes
  <2>4. UpToCursor'
    BY <1>1, <2>2 DEF ExportInv, UpToCursor, SortKey
  <2>5. NoneBehind'
    BY <1>1, <1>5, <2>2 DEF ExportInv, NoneBehind
  <2>6. Counted'
    BY <1>1, <2>2 DEF ExportInv, Counted
  <2> QED
    BY <1>3, <2>3, <2>4, <2>5, <2>6 DEF ExportInv
<1>6. CASE rest # {}
  <2>0. PICK k \in 1..Page : \E page \in [1..k -> rest] :
           /\ \A i, j \in 1..k : i < j => Sorts(SortKey(page[i]), SortKey(page[j]))
           /\ \A a \in rest \ {page[i] : i \in 1..k} :
                  Sorts(SortKey(page[k]), SortKey(a))
           /\ export' = [export EXCEPT !.rows = @ \o page, !.after = SortKey(page[k])]
    BY <1>6 DEF NextPage
  <2>1. PICK page \in [1..k -> rest] :
           /\ \A i, j \in 1..k : i < j => Sorts(SortKey(page[i]), SortKey(page[j]))
           /\ \A a \in rest \ {page[i] : i \in 1..k} :
                  Sorts(SortKey(page[k]), SortKey(a))
           /\ export' = [export EXCEPT !.rows = @ \o page, !.after = SortKey(page[k])]
    BY <2>0
  <2> DEFINE rows == export.rows
             n == Len(rows)
             more == rows \o page
  <2>2. /\ export'.at = "paging" /\ export'.before = export.before
        /\ export'.rows = more /\ export'.after = SortKey(page[k])
        /\ export'.listed = export.listed
    BY <1>1, <2>1 DEF ExportInv, ExportTypes
  <2>3. k \in Nat /\ k \in 1..k /\ page \in Seq(Alert) /\ Len(page) = k
        /\ \A i \in 1..k : page[i] \in rest /\ page[i] \in alerts /\ page[i] \in Alert
    BY <1>4, <2>1
  <2>4. /\ more \in Seq(Alert) /\ DOMAIN more = 1 .. n + k /\ n \in Nat
        /\ \A i \in 1 .. n : more[i] = rows[i]
        /\ \A i \in 1 .. k : more[n + i] = page[i]
    BY <1>4, <2>3
  <2>5. /\ \A i \in 1 .. n : SortKey(rows[i]) \in Int \X Int /\ rows[i] \in alerts
        /\ \A i \in 1 .. k : SortKey(page[i]) \in Int \X Int
                             /\ Sorts(export.after, SortKey(page[i]))
        /\ export.after \in Int \X Int
    <3>1. \A i \in 1 .. n : rows[i] \in alerts /\ rows[i] \in Alert
      BY <1>4 DEF ExportInv, UpToCursor
    <3>2. \A i \in 1 .. k : Sorts(export.after, SortKey(page[i]))
      BY <2>3 DEF After
    <3>3. export.after \in Int \X Int
      BY DEF ExportInv, ExportTypes
    <3> QED
      BY <2>3, <3>1, <3>2, <3>3, KeysInOrder
  <2>6. ASSUME NEW i \in 1 .. n, NEW j \in 1 .. k
        PROVE  Sorts(SortKey(rows[i]), SortKey(page[j]))
    <3>1. \/ SortKey(rows[i]) = export.after
          \/ Sorts(SortKey(rows[i]), export.after)
      BY <1>4 DEF ExportInv, UpToCursor
    <3> QED
      BY <2>5, <3>1, KeysInOrder
  <2> HIDE DEF more, rows, n
  <2>7. ExportTypes'
    <3>1. export' = [export EXCEPT !.rows = more, !.after = SortKey(page[k])]
      BY <2>1 DEF more, rows
    <3> QED
      BY <1>1, <2>3, <2>4, <2>5, <3>1 DEF ExportInv, ExportTypes
  <2>8. \A i \in 1 .. n + k : \/ i \in 1 .. n /\ more[i] = rows[i]
                              \/ \E j \in 1 .. k : i = n + j /\ more[i] = page[j]
    <3> SUFFICES ASSUME NEW i \in 1 .. n + k, ~(i \in 1 .. n)
                 PROVE  \E j \in 1 .. k : i = n + j /\ more[i] = page[j]
      BY <2>4
    <3>1. i - n \in 1 .. k /\ i = n + (i - n)
      BY <2>3, <2>4
    <3> QED
      BY <2>4, <3>1
  <2>9. UpToCursor'
    <3>1. \A i \in 1 .. n + k : more[i] \in alerts
      BY <2>3, <2>5, <2>8
    <3>2. ASSUME NEW i \in 1 .. n + k, NEW j \in 1 .. n + k, i < j
          PROVE  Sorts(SortKey(more[i]), SortKey(more[j]))
      <4>1. CASE j \in 1 .. n
        <5>1. i \in 1 .. n
          BY <2>4, <3>2, <4>1
        <5>2. Sorts(SortKey(rows[i]), SortKey(rows[j]))
          BY <1>4, <3>2, <4>1, <5>1 DEF ExportInv, UpToCursor, rows, n
        <5> QED
          BY <2>4, <4>1, <5>1, <5>2
      <4>2. CASE i \in 1 .. n /\ ~(j \in 1 .. n)
        <5>1. PICK h \in 1 .. k : more[j] = page[h]
          BY <2>8, <4>2
        <5> QED
          BY <2>4, <2>6, <4>2, <5>1
      <4>3. CASE ~(i \in 1 .. n) /\ ~(j \in 1 .. n)
        <5>1. PICK g \in 1 .. k : i = n + g /\ more[i] = page[g]
          BY <2>8, <4>3
        <5>2. PICK h \in 1 .. k : j = n + h /\ more[j] = page[h]
          BY <2>8, <4>3
        <5>3. g < h
          BY <2>3, <2>4, <3>2, <5>1, <5>2
        <5> QED
          BY <2>1, <5>1, <5>2, <5>3
      <4> QED
        BY <4>1, <4>2, <4>3
    <3>3. ASSUME NEW i \in 1 .. n + k
          PROVE  \/ SortKey(more[i]) = SortKey(page[k])
                 \/ Sorts(SortKey(more[i]), SortKey(page[k]))
      <4>1. CASE i \in 1 .. n
        BY <2>3, <2>4, <2>6, <4>1
      <4>2. CASE ~(i \in 1 .. n)
        <5>1. PICK j \in 1 .. k : more[i] = page[j]
          BY <2>8, <4>2
        <5>2. j = k \/ j < k
          BY <2>3
        <5> QED
          BY <2>1, <2>3, <5>1, <5>2
      <4> QED
        BY <4>1, <4>2
    <3> QED
      BY <1>1, <2>2, <2>4, <3>1, <3>2, <3>3 DEF UpToCursor, SortKey
  <2>10. NoneBehind'
    <3>1. ASSUME NEW a \in export.before
          PROVE  \/ \E i \in 1 .. n + k : more[i] = a
                 \/ Sorts(SortKey(page[k]), SortKey(a))
      <4>1. CASE \E i \in DOMAIN rows : rows[i] = a
        <5>1. PICK i \in 1 .. n : rows[i] = a
          BY <1>4, <4>1 DEF rows, n
        <5>2. i \in 1 .. n + k /\ more[i] = a
          BY <2>3, <2>4, <5>1
        <5> QED
          BY <5>2
      <4>2. CASE After(a, export.after)
        <5>1. a \in rest
          BY <4>2 DEF ExportInv, NoneBehind
        <5>2. CASE a \in {page[i] : i \in 1..k}
          <6>1. PICK i \in 1 .. k : page[i] = a
            BY <5>2
          <6>2. n + i \in 1 .. n + k /\ more[n + i] = a
            BY <2>3, <2>4, <6>1
          <6> QED
            BY <6>2
        <5>3. CASE a \notin {page[i] : i \in 1..k}
          BY <2>1, <5>1, <5>3
        <5> QED
          BY <5>2, <5>3
      <4> QED
        BY <4>1, <4>2 DEF ExportInv, NoneBehind, rows
    <3> QED
      BY <1>1, <2>2, <2>4, <3>1 DEF ExportInv, NoneBehind, After, SortKey
  <2>11. Counted'
    BY <1>1, <2>2 DEF ExportInv, Counted
  <2> QED
    BY <1>3, <2>7, <2>9, <2>10, <2>11 DEF ExportInv
<1> QED
  BY <1>5, <1>6

(* The summary compares numbers as they are.                               *)
LEMMA SummarizeKeeps ==
    ASSUME ExportInv, Summarize, UNCHANGED index
    PROVE  ExportInv'
<1> DEFINE entry(r) == CASE Exported(r) = {} -> "absent"
                         [] Exported(r) # {} ->
                              IF MatchesExpected(Cardinality(Exported(r)),
                                                 Cardinality(RowsOf(r)))
                              THEN "matches" ELSE "differs"
<1>1. /\ export.at = "counting" /\ UNCHANGED <<alerts, runs, now, replays>>
      /\ export' = [export EXCEPT !.at = "done", !.listed = [r \in Rule |-> entry(r)]]
  BY DEF Summarize, kibana
<1>2. \A r \in Rule : /\ entry(r) \in {"absent", "matches", "differs"}
                      /\ entry(r) = "matches" =>
                            Cardinality(Exported(r)) = Cardinality(RowsOf(r))
  BY DEF MatchesExpected
<1> HIDE DEF entry
<1>3. /\ export'.at = "done" /\ export'.before = export.before
      /\ export'.rows = export.rows /\ export'.after = export.after
      /\ export'.listed = [r \in Rule |-> entry(r)]
  BY <1>1 DEF ExportInv, ExportTypes
<1>4. \A r : RowsOf(r)' = RowsOf(r) /\ Exported(r)' = Exported(r)
  BY <1>3 DEF RowsOf, Indexed, Exported
<1>5. ExportTypes'
  BY <1>1, <1>2 DEF ExportInv, ExportTypes
<1>6. UpToCursor' /\ NoneBehind'
  <2>1. UNCHANGED alerts /\ export.at # "paging" /\ UpToCursor /\ NoneBehind
    BY <1>1 DEF ExportInv
  <2>2. UpToCursor'
    BY <1>3, <2>1 DEF UpToCursor, SortKey
  <2>3. NoneBehind'
    BY <1>3, <2>1 DEF NoneBehind
  <2> QED
    BY <2>2, <2>3
<1>7. OneRunOneAlert'
  BY <1>1, <1>4 DEF ExportInv, OneRunOneAlert
<1>8. Counted'
  BY <1>2, <1>3, <1>4 DEF Counted
<1> QED
  BY <1>5, <1>6, <1>7, <1>8 DEF ExportInv

(* Rules run only once a replay has begun.                                 *)
LEMMA NotYetStep == NotYet /\ [Next]_vars => NotYet'
<1> SUFFICES ASSUME NotYet, [Next]_vars PROVE NotYet'
  OBVIOUS
<1>1. CASE UNCHANGED <<replays, script, enabled, due, running>>
  BY <1>1 DEF NotYet
<1>2. CASE UNCHANGED replayVars
  BY <1>1, <1>2 DEF replayVars, kibana
<1>3. CASE StartReplay
  BY <1>3 DEF NotYet, StartReplay
<1>4. CASE replays # 0 /\ replays' = replays
  BY <1>4 DEF NotYet
<1>5. CASE replays = 0 /\ ReplayNext /\ ~StartReplay
  <2>1. /\ script.at = "over" /\ enabled = {} /\ due = {}
        /\ \A r \in Rule : running[r] = Idle
    BY <1>5 DEF NotYet
  <2>2. \/ Tick \/ StartExport \/ NextPage \/ Summarize
    BY <1>5, <2>1 DEF ReplayNext, DeployRule, DeployFails, EnableRule, EnableFails,
       ExecutionSeen, WaitTimesOut, PollFails, DisableRule, DisableFails, RunBegins,
       RunEnds, RunFails
  <2>3. UNCHANGED <<replays, script, running, enabled>> /\ due' \subseteq due \cup enabled
    BY <2>2 DEF Tick, StartExport, NextPage, Summarize, kibana
  <2> QED
    BY <2>1, <2>3 DEF NotYet
<1>6. CASE ReplayNext /\ ~StartReplay
  <2>1. replays' = replays
    BY <1>6 DEF ReplayNext, DeployRule, DeployFails, EnableRule, EnableFails,
       ExecutionSeen, WaitTimesOut, PollFails, DisableRule, DisableFails, RunBegins,
       RunEnds, RunFails, Tick, StartExport, NextPage, Summarize
  <2> QED
    BY <1>4, <1>5, <1>6, <2>1
<1> QED
  BY <1>2, <1>3, <1>6 DEF Next, vars

(* Every step keeps the invariant of the export.                           *)
LEMMA ExportInvStep == ExportInv /\ NotYet /\ [Next]_vars => ExportInv'
<1> SUFFICES ASSUME ExportInv, NotYet, [Next]_vars PROVE ExportInv'
  OBVIOUS
<1>0. now \in Nat
  BY DEF ExportInv, ExportTypes
<1>1. CASE replays = 0 /\ UNCHANGED replayVars
  BY <1>1, LoadKeepsExport
<1>2. CASE UNCHANGED vars
  <2>1. UNCHANGED <<alerts, runs, export, index, replays, now>>
    BY <1>2 DEF vars, replayVars, kibana, loadVars
  <2> QED
    BY <1>0, <2>1, OthersKeepExport
<1>3. CASE ReplayNext /\ UNCHANGED loadVars
  <2>0. UNCHANGED index
    BY <1>3 DEF loadVars
  <2>1. CASE \/ DeployRule \/ DeployFails \/ EnableRule \/ EnableFails
             \/ ExecutionSeen \/ WaitTimesOut \/ PollFails \/ DisableRule \/ DisableFails
    <3>1. UNCHANGED <<alerts, runs, export, replays, now>>
      BY <2>1 DEF DeployRule, DeployFails, EnableRule, EnableFails, ExecutionSeen,
            WaitTimesOut, PollFails, DisableRule, DisableFails, kibana
    <3> QED
      BY <1>0, <2>0, <3>1, OthersKeepExport
  <2>2. CASE Tick \/ \E r \in Rule : RunBegins(r) \/ RunFails(r)
    <3>1. UNCHANGED <<alerts, runs, export, replays>> /\ now' \in Nat
      BY <1>0, <2>2 DEF Tick, RunBegins, RunFails
    <3> QED
      BY <2>0, <3>1, OthersKeepExport
  <2>3. ASSUME NEW r \in Rule, RunEnds(r) PROVE ExportInv'
    <3>1. replays # 0
      BY <2>3 DEF RunEnds, NotYet
    <3> QED
      BY <2>0, <2>3, <3>1, RunKeepsExport
  <2> QED
    BY <1>3, <2>0, <2>1, <2>2, <2>3, StartReplayKeepsExport, StartExportKeeps,
       NextPageKeeps, SummarizeKeeps DEF ReplayNext
<1> QED
  BY <1>1, <1>2, <1>3 DEF Next

(* The invariant holds of every behaviour.                                 *)
LEMMA ExportInvariant == Spec => []ExportInv
  BY ExportInvInit, ExportInvStep, NotYetStep, PTL DEF Spec

(* No alert is exported twice.                                             *)
LEMMA NoneTwice ==
    ASSUME ExportInv, NEW i \in DOMAIN export.rows, NEW j \in DOMAIN export.rows,
           export.rows[i] = export.rows[j]
    PROVE  i = j
<1>1. SortKey(export.rows[i]) \in Int \X Int
  BY KeysInOrder DEF ExportInv, ExportTypes
<1>2. ~(i < j) /\ ~(j < i)
  BY <1>1, KeysInOrder DEF ExportInv, UpToCursor
<1>3. i \in Nat /\ j \in Nat
  BY DEF ExportInv, ExportTypes
<1> QED
  BY <1>2, <1>3

(* For any page size and any alerts added meanwhile, the export has every  *)
(* alert that was there when it started, and none twice.                   *)
THEOREM ExportIsComplete == Spec => []ExportComplete
<1>1. ExportInv => ExportComplete
  <2> SUFFICES ASSUME ExportInv PROVE ExportComplete
    OBVIOUS
  <2>1. \A i, j \in DOMAIN export.rows : export.rows[i] = export.rows[j] => i = j
    BY NoneTwice
  <2>2. export.at \in {"counting", "done"} =>
           export.before \subseteq {export.rows[i] : i \in DOMAIN export.rows}
    BY DEF ExportInv, NoneBehind
  <2> QED
    BY <2>1, <2>2 DEF ExportComplete
<1> QED
  BY <1>1, ExportInvariant, PTL

(* For any rules, limits and executions, matches_expected of a rule that   *)
(* alerted in one execution means that each of its rows has its alert.     *)
THEOREM SummaryIsHonest == Spec => []SummaryHonest
<1>1. ExportInv => SummaryHonest
  <2> SUFFICES ASSUME ExportInv, NEW r \in Rule,
                      export.listed[r] = "matches", runs[r] = 1, NEW x \in RowsOf(r)
               PROVE  \E i \in Exported(r) : export.rows[i].row = x
    BY DEF SummaryHonest
  <2> DEFINE rowAt == [i \in Exported(r) |-> export.rows[i].row]
  <2>1. Cardinality(Exported(r)) = Cardinality(RowsOf(r))
    BY DEF ExportInv, Counted
  <2>2. Exported(r) \subseteq DOMAIN export.rows
        /\ \A i \in Exported(r) : export.rows[i] \in alerts /\ export.rows[i].rule = r
    BY DEF ExportInv, UpToCursor, Exported
  <2>3. IsFiniteSet(Exported(r))
    <3>1. DOMAIN export.rows = 1 .. Len(export.rows) /\ Len(export.rows) \in Nat
      BY DEF ExportInv, ExportTypes
    <3>2. IsFiniteSet(1 .. Len(export.rows))
      BY <3>1, FS_Interval
    <3> QED
      BY <2>2, <3>1, <3>2, FS_Subset
  <2>4. rowAt \in [Exported(r) -> RowsOf(r)]
    BY <2>2 DEF ExportInv, OneRunOneAlert
  <2>5. \A i, j \in Exported(r) : rowAt[i] = rowAt[j] => i = j
    <3> SUFFICES ASSUME NEW i \in Exported(r), NEW j \in Exported(r),
                        export.rows[i].row = export.rows[j].row
                 PROVE  i = j
      OBVIOUS
    <3>1. export.rows[i] = export.rows[j]
      BY <2>2 DEF ExportInv, OneRunOneAlert
    <3> QED
      BY <2>2, <3>1, NoneTwice
  <2>6. rowAt \in Injection(Exported(r), RowsOf(r))
    BY <2>4, <2>5 DEF Injection, IsInjective
  <2>7. IsFiniteSet(RowsOf(r))
    BY RowsType
  <2>8. rowAt \in Surjection(Exported(r), RowsOf(r))
    BY <2>1, <2>6, <2>7, FS_Injection
  <2>9. \E i \in Exported(r) : rowAt[i] = x
    BY <2>8 DEF Surjection
  <2> QED
    BY <2>9
<1> QED
  BY <1>1, ExportInvariant, PTL

=============================================================================
