----------------------- MODULE SessionTechniqueProofs -----------------------
(***************************************************************************)
(* What the items that are missing from the aggregator's view of a session *)
(* can do to its label: first for any session, then for the generated      *)
(* ones, for every run of the random number generator, from an inductive   *)
(* invariant of SyntheticSessions.                                         *)
(***************************************************************************)
EXTENDS SyntheticSessions, FiniteSetTheorems, FunctionTheorems, SequenceTheorems,
        WellFoundedInduction, TLAPS

-----------------------------------------------------------------------------
(* Any session.  Items arrive and are never taken away, so the two views   *)
(* compared below are an earlier or shorter and a later or longer one.     *)

PartOf(early, late) ==
    /\ DOMAIN early \subseteq DOMAIN late
    /\ \A i \in DOMAIN early : early[i] = late[i]

(* A larger view holds the logins and the names of a smaller one.          *)
LEMMA ViewsGrow ==
    ASSUME NEW early, NEW late, PartOf(early, late)
    PROVE  /\ Logins(early) \subseteq Logins(late)
           /\ Usernames(early) \subseteq Usernames(late)
           /\ Failures(early) \subseteq Failures(late)
  BY DEF PartOf, Logins, Usernames, Failures

(* The names of a finite view are finitely many.                           *)
LEMMA NamesFinite ==
    ASSUME NEW view, IsFiniteSet(DOMAIN view)
    PROVE  IsFiniteSet(Usernames(view)) /\ IsFiniteSet(Failures(view))
<1>1. IsFiniteSet(Logins(view)) /\ IsFiniteSet(Failures(view))
  BY FS_Subset DEF Logins, Failures
<1> DEFINE names == {view[i].name : i \in Logins(view)}
           f == [i \in Logins(view) |-> view[i].name]
<1>2. f \in Surjection(Logins(view), names)
  BY Fun_IsSurj
<1>3. IsFiniteSet(names)
  BY <1>1, <1>2, FS_Surjection
<1> QED
  BY <1>1, <1>3, FS_Subset DEF Usernames

(* Credential stuffing is final: whatever more of the session is seen, a   *)
(* session labelled so keeps the label.                                    *)
THEOREM StuffingIsFinal ==
    ASSUME NEW late, IsFiniteSet(DOMAIN late), NEW early, PartOf(early, late),
           NEW duration \in Nat,
           TechniqueLabel(early, duration) = "credential_stuffing"
    PROVE  TechniqueLabel(late, duration) = "credential_stuffing"
<1>1. /\ Cardinality(Usernames(early)) >= CredentialStuffingMinUsernames
      /\ Logins(early) # {}
  BY DEF TechniqueLabel
<1>2. Logins(late) # {}
  BY <1>1, ViewsGrow
<1>3. /\ Cardinality(Usernames(early)) <= Cardinality(Usernames(late))
      /\ Cardinality(Usernames(early)) \in Nat
      /\ Cardinality(Usernames(late)) \in Nat
  BY NamesFinite, ViewsGrow, FS_Subset, FS_CardinalityType
<1>4. Cardinality(Usernames(late)) >= CredentialStuffingMinUsernames
  BY <1>1, <1>3 DEF CredentialStuffingMinUsernames
<1> QED
  BY <1>2, <1>4 DEF TechniqueLabel

(* A session is never counted as a scanner for more than it is: if all of  *)
(* it looks like a scanner, so does every part of it, and one login seen   *)
(* is enough to keep the label away for good.                              *)
THEOREM ScannerIsFirst ==
    ASSUME NEW late, IsFiniteSet(DOMAIN late), NEW early, PartOf(early, late),
           NEW duration \in Nat,
           TechniqueLabel(late, duration) = "scanner"
    PROVE  TechniqueLabel(early, duration) = "scanner"
<1>1. Logins(late) = {} /\ duration < ScannerMaxDuration
  BY DEF TechniqueLabel
<1>2. Logins(early) = {}
  BY <1>1, ViewsGrow
<1>3. Usernames(early) = {}
  BY <1>2 DEF Usernames
<1>4. Cardinality(Usernames(early)) = 0
  BY <1>3, FS_EmptySet
<1> QED
  BY <1>1, <1>2, <1>4 DEF TechniqueLabel, CredentialStuffingMinUsernames

(* A brute-force label is lost to later items only by a second name: while *)
(* the names seen stay the same, so does the label.                        *)
THEOREM BruteForceNeedsOneName ==
    ASSUME NEW late, IsFiniteSet(DOMAIN late), NEW early, PartOf(early, late),
           NEW duration \in Nat,
           Usernames(late) = Usernames(early),
           TechniqueLabel(early, duration) = "brute_force"
    PROVE  TechniqueLabel(late, duration) = "brute_force"
<1>1. /\ Cardinality(Failures(early)) >= BruteForceMinFailures
      /\ Cardinality(Usernames(early)) = 1
  BY DEF TechniqueLabel
<1>2. IsFiniteSet(Failures(late)) /\ Failures(early) \subseteq Failures(late)
  BY NamesFinite, ViewsGrow
<1>3. /\ Cardinality(Failures(early)) <= Cardinality(Failures(late))
      /\ Cardinality(Failures(early)) \in Nat
      /\ Cardinality(Failures(late)) \in Nat
  BY <1>2, FS_Subset, FS_CardinalityType
<1>4. Cardinality(Failures(late)) >= BruteForceMinFailures
  BY <1>1, <1>3 DEF BruteForceMinFailures
<1> QED
  BY <1>1, <1>4 DEF TechniqueLabel, CredentialStuffingMinUsernames

-----------------------------------------------------------------------------
(* One generated session.                                                  *)

(* What is drawn from natural numbers.                                     *)
LEMMA DrawnNat ==
    ASSUME NEW a \in Nat, NEW b \in Nat, NEW x, Drawn(x, a, b)
    PROVE  x \in Nat /\ x >= 0 /\ x >= a /\ x <= b
  BY DEF Drawn

(* What is drawn for a session is of its type and possible.                *)
LEMMA DrawsOf ==
    ASSUME play \in Plays, NEW n \in DOMAIN play.draws
    PROVE  /\ play.draws[n] \in Draws /\ Possible(play.draws[n])
           /\ play.draws \in Seq(Draws) /\ n \in Nat \ {0}
           /\ play.target \in Nat \ {0}
<1>1. play \in [target : Nat \ {0}, draws : Seq(Draws)]
  BY PlaysAssumption
<1>2. play.draws \in Seq(Draws)
  BY <1>1
<1> QED
  BY <1>1, <1>2, PlaysAssumption

(* The steps of a session.                                                 *)
LEMMA StepsType ==
    ASSUME NEW d \in Draws
    PROVE  /\ d.steps \in Seq(Step) /\ Len(d.steps) \in Nat
           /\ DOMAIN d.steps = 1..Len(d.steps)
           /\ \A i \in 1..Len(d.steps) : d.steps[i] \in Step
<1>1. d.steps \in Seq(Step)
  BY DEF Draws
<1> QED
  BY <1>1

(* The times of a session are numbers of milliseconds.                     *)
LEMMA TimesType ==
    ASSUME NEW d \in Draws
    PROVE  /\ \A i \in 0..Len(d.steps) : StepTs(d, i) \in Nat /\ StepTs(d, i) >= d.start
           /\ LastTs(d) \in Nat /\ LastTs(d) >= d.start /\ ClosedTs(d) \in Nat
           /\ Duration(d) \in Int /\ d.start \in Nat
<1> DEFINE ready == d.start + d.version + d.kex + d.ready
<1>1. d.start \in Nat /\ d.rest \in Nat /\ ready \in Nat /\ ready >= d.start
  <2>2. /\ d.start \in Nat /\ d.rest \in Nat /\ d.version \in Nat /\ d.kex \in Nat
        /\ d.ready \in Nat
    BY DEF Draws
  <2>4. \A s, v, k, r \in Nat : s + v + k + r \in Nat /\ s + v + k + r >= s
    OBVIOUS
  <2> QED
    BY <2>2, <2>4
<1>2. ASSUME NEW i \in 0..Len(d.steps)
      PROVE  StepTs(d, i) \in Nat /\ StepTs(d, i) >= d.start
  <2>0. StepTs(d, i) = ready + (IF i = 0 THEN 0 ELSE d.steps[i].at)
    BY DEF StepTs
  <2> HIDE DEF ready
  <2>1. CASE i = 0
    BY <1>1, <2>0, <2>1
  <2>2. CASE i # 0
    <3>1. d.steps[i].at \in Nat
      BY <2>2, StepsType DEF Step
    <3> QED
      BY <1>1, <2>0, <2>2, <3>1
  <2> QED
    BY <2>1, <2>2
<1>3. LastTs(d) \in Nat /\ LastTs(d) >= d.start
  BY <1>2, StepsType DEF LastTs
<1>4. ClosedTs(d) \in Nat
  BY <1>1, <1>3 DEF ClosedTs
<1>5. Duration(d) \in Int
  BY <1>1, <1>3 DEF Duration, Tenths
<1> QED
  BY <1>1, <1>2, <1>3, <1>4, <1>5

(* What the steps of each cohort are.                                      *)
LEMMA PossibleScanner ==
    ASSUME NEW d, Possible(d), d.cohort = "scanner"
    PROVE  d.steps = <<>> /\ Drawn(d.rest, 300, 1800)
  BY DEF Possible

(* Brute force: failures with one name.                                    *)
LEMMA PossibleBruteForce ==
    ASSUME NEW d, Possible(d), d.cohort = "brute_force"
    PROVE  /\ Attempts(d, 10, 200, 150, 1200)
           /\ \A i \in DOMAIN d.steps : /\ d.steps[i].eventid = LoginFailed
                                        /\ d.steps[i].name = d.steps[1].name
  BY DEF Possible

(* Credential stuffing: attempts with several names.                       *)
LEMMA PossibleStuffing ==
    ASSUME NEW d, Possible(d), d.cohort = "credential_stuffing"
    PROVE  Attempts(d, 5, 30, 200, 2500)
  BY DEF Possible

(* A login, then commands and perhaps a download.                          *)
LEMMA PossibleInteresting ==
    ASSUME NEW d, Possible(d), d.cohort = "interesting"
    PROVE  /\ Drawn(Len(d.steps), 4, 10)
           /\ d.steps[1].eventid = LoginSuccess /\ d.steps[1].name \in Name
           /\ Drawn(Gap(d, 1), 300, 1500)
           /\ \A i \in 2..Len(d.steps) :
                 /\ Drawn(Gap(d, i), 500, 6000) \/ Drawn(Gap(d, i), 500, 3000)
                 /\ d.steps[i].name = NoName
                 /\ d.steps[i].eventid \in {Command, Download}
           /\ Drawn(d.rest, 2000, 30000)
  BY DEF Possible

(* The names tried are those of the login steps.                           *)
LEMMA StepNames ==
    ASSUME NEW d \in Draws, Possible(d), NEW i \in 1..Len(d.steps)
    PROVE  /\ d.steps[i].name # NoName <=> d.steps[i].eventid \in {LoginFailed, LoginSuccess}
           /\ d.steps[i].name \in Name \cup {NoName}
           /\ d.steps[i].eventid # Closing
           /\ Gap(d, i) >= 0
<1>1. DOMAIN d.steps = 1..Len(d.steps) /\ d.steps[i] \in Step /\ Len(d.steps) \in Nat
  BY StepsType
<1>2. NoName \notin Name
  BY PlaysAssumption
<1>3. ASSUME NEW first, NEW last, NEW low \in Nat, NEW high \in Nat,
             Attempts(d, first, last, low, high)
      PROVE  /\ d.steps[i].eventid \in {LoginFailed, LoginSuccess}
             /\ d.steps[i].name \in Name /\ Gap(d, i) >= 0
  BY <1>1, <1>3, DrawnNat DEF Attempts
<1>4. CASE d.cohort = "scanner"
  <2>1. d.steps = <<>>
    BY <1>4, PossibleScanner
  <2> QED
    BY <1>1, <2>1
<1>5. CASE d.cohort \in {"brute_force", "credential_stuffing"}
  <2>1. Attempts(d, 10, 200, 150, 1200) \/ Attempts(d, 5, 30, 200, 2500)
    BY <1>5, PossibleBruteForce, PossibleStuffing
  <2>2. /\ d.steps[i].eventid \in {LoginFailed, LoginSuccess}
        /\ d.steps[i].name \in Name /\ Gap(d, i) >= 0
    BY <1>3, <2>1
  <2> QED
    BY <1>2, <2>2 DEF LoginFailed, LoginSuccess, Closing
<1>6. CASE d.cohort = "interesting"
  <2>1. /\ d.steps[1].eventid = LoginSuccess /\ d.steps[1].name \in Name
        /\ Drawn(Gap(d, 1), 300, 1500)
    BY <1>6, PossibleInteresting
  <2>2. ASSUME NEW k \in 2..Len(d.steps)
        PROVE  /\ Drawn(Gap(d, k), 500, 6000) \/ Drawn(Gap(d, k), 500, 3000)
               /\ d.steps[k].name = NoName
               /\ d.steps[k].eventid \in {Command, Download}
    BY <1>6, PossibleInteresting
  <2>3. CASE i = 1
    <3>1. Gap(d, i) >= 0
      BY <2>1, <2>3, DrawnNat
    <3> QED
      BY <1>2, <2>1, <2>3, <3>1 DEF LoginFailed, LoginSuccess, Closing
  <2>4. CASE i # 1
    <3>1. i \in 2..Len(d.steps)
      BY <1>1, <2>4
    <3>2. /\ Drawn(Gap(d, i), 500, 6000) \/ Drawn(Gap(d, i), 500, 3000)
          /\ d.steps[i].name = NoName
          /\ d.steps[i].eventid \in {Command, Download}
      BY <2>2, <3>1
    <3>3. Gap(d, i) >= 0
      BY <3>2, DrawnNat
    <3> QED
      BY <1>2, <3>2, <3>3 DEF LoginFailed, LoginSuccess, Closing, Command, Download
  <2> QED
    BY <2>3, <2>4
<1> QED
  BY <1>4, <1>5, <1>6 DEF Draws

(* The steps follow one another.                                           *)
LEMMA StepsInOrder ==
    ASSUME NEW d \in Draws, Possible(d), NEW i \in 1..Len(d.steps)
    PROVE  StepTs(d, i) <= LastTs(d)
<1> DEFINE S == {k \in 0..Len(d.steps) : i <= k /\ ~(StepTs(d, i) <= StepTs(d, k))}
<1>1. Len(d.steps) \in Nat
  BY StepsType
<1>2. \A k \in 0..Len(d.steps) : StepTs(d, k) \in Nat
  BY TimesType
<1>3. S = {}
  <2> SUFFICES ASSUME S # {} PROVE FALSE
    OBVIOUS
  <2>1. S \subseteq Nat
    OBVIOUS
  <2>2. PICK x \in S : \A y \in S : ~ (<<y, x>> \in OpToRel(<, Nat))
    BY <2>1, NatLessThanWellFounded, WFMin
  <2>3. \A y \in S : ~(y < x)
    BY <2>1, <2>2 DEF OpToRel
  <2>4. x # i /\ x \in 1..Len(d.steps) /\ i < x
    BY <1>1, <1>2
  <2>5. x - 1 \in 0..Len(d.steps) /\ i <= x - 1 /\ x - 1 < x
    BY <1>1, <2>4
  <2>6. StepTs(d, i) <= StepTs(d, x - 1)
    BY <2>3, <2>5
  <2>7. StepTs(d, x) - StepTs(d, x - 1) >= 0
    BY <2>4, StepNames DEF Gap
  <2>8. /\ StepTs(d, x) \in Nat /\ StepTs(d, x - 1) \in Nat /\ StepTs(d, i) \in Nat
        /\ ~(StepTs(d, i) <= StepTs(d, x))
    BY <1>2, <2>5
  <2> QED
    BY <2>6, <2>7, <2>8
<1> QED
  BY <1>1, <1>3 DEF LastTs

-----------------------------------------------------------------------------
(* The events of a session.                                                *)

(* Every generated event is of the type of events.                         *)
LEMMA LogEventType ==
    ASSUME NEW n \in Nat, NEW ts \in Nat, NEW eventid \in EventId,
           NEW name \in Name \cup {NoName}
    PROVE  LogEvent(n, ts, eventid, name) \in Event
  BY DEF LogEvent, Event

(* The fields of a generated event.                                        *)
LEMMA LogEventFields ==
    ASSUME NEW n, NEW ts, NEW eventid, NEW name
    PROVE  LET e == LogEvent(n, ts, eventid, name)
           IN  e.session = n /\ e.ts = ts /\ e.eventid = eventid /\ e.name = name
  BY DEF LogEvent

(* Three sequences put together.                                           *)
Joined(S, f, g, h, all) ==
    /\ all \in Seq(S) /\ Len(all) = Len(g) + 4
    /\ \A k \in 1..3 : all[k] = f[k]
    /\ \A k \in 1..Len(g) : all[k + 3] = g[k]
    /\ all[Len(g) + 4] = h[1]

(* What three sequences are when put together.                             *)
LEMMA PartsOf ==
    ASSUME NEW S, NEW f \in Seq(S), NEW g \in Seq(S), NEW h \in Seq(S),
           Len(f) = 3, Len(h) = 1
    PROVE  Joined(S, f, g, h, f \o g \o h)
<1> DEFINE front == f \o g
<1>1. /\ front \in Seq(S) /\ Len(front) = Len(g) + 3 /\ Len(g) \in Nat
      /\ \A k \in 1..3 : front[k] = f[k]
      /\ \A k \in 1..Len(g) : front[k + 3] = g[k]
  <2>1. Len(g) \in Nat /\ Len(f) = 3
    OBVIOUS
  <2>2. front \in Seq(S) /\ Len(front) = Len(f) + Len(g)
    BY ConcatProperties
  <2>3. \A k \in 1..Len(f) + Len(g) :
            front[k] = IF k <= Len(f) THEN f[k] ELSE g[k - Len(f)]
    BY ConcatProperties
  <2>4. ASSUME NEW k \in 1..Len(g) PROVE front[k + 3] = g[k]
    <3>1. k + 3 \in 1..Len(f) + Len(g) /\ ~(k + 3 <= Len(f)) /\ (k + 3) - Len(f) = k
      BY <2>1
    <3> QED
      BY <2>3, <3>1
  <2> QED
    BY <2>1, <2>2, <2>3, <2>4
<1>2. f \o g \o h = front \o h
  OBVIOUS
<1> HIDE DEF front
<1>3. /\ front \o h \in Seq(S) /\ Len(front \o h) = Len(g) + 4
      /\ \A k \in 1..Len(g) + 3 : (front \o h)[k] = front[k]
      /\ (front \o h)[Len(g) + 4] = h[1]
  <2>1. front \o h \in Seq(S) /\ Len(front \o h) = Len(front) + Len(h)
    BY <1>1, ConcatProperties
  <2>2. \A k \in 1..Len(front) + Len(h) :
            (front \o h)[k] = IF k <= Len(front) THEN front[k] ELSE h[k - Len(front)]
    BY <1>1, ConcatProperties
  <2>3. Len(g) + 4 \in 1..Len(front) + Len(h) /\ ~(Len(g) + 4 <= Len(front))
        /\ Len(g) + 4 - Len(front) = 1
    BY <1>1
  <2> QED
    BY <1>1, <2>1, <2>2, <2>3
<1>4. \A k \in 1..Len(g) : k + 3 \in 1..Len(g) + 3
  BY <1>1
<1>5. \A k \in 1..3 : k \in 1..Len(g) + 3
  BY <1>1
<1> QED
  BY <1>1, <1>2, <1>3, <1>4, <1>5 DEF Joined

(* What _build_session returns: three events of the handshake, one of each *)
(* step, and the closing event.                                            *)
Quiet(e) ==
    e.name = NoName /\ e.eventid \notin {LoginFailed, LoginSuccess, Closing}

(* The events of a session, from the handshake to the closing event.       *)
LEMMA SessionEventsAre ==
    ASSUME NEW n \in Nat, NEW d \in Draws
    PROVE  /\ SessionEvents(n, d) \in Seq(Event)
           /\ Len(SessionEvents(n, d)) = Len(d.steps) + 4
           /\ \A k \in 1..3 : Quiet(SessionEvents(n, d)[k])
           /\ \A k \in 1..Len(d.steps) :
                 SessionEvents(n, d)[k + 3] =
                     LogEvent(n, StepTs(d, k), d.steps[k].eventid, d.steps[k].name)
           /\ SessionEvents(n, d)[Len(d.steps) + 4] = LogEvent(n, ClosedTs(d), Closing, NoName)
           /\ \A k \in 1..Len(d.steps) + 4 : SessionEvents(n, d)[k].session = n
<1> DEFINE last == <<LogEvent(n, ClosedTs(d), Closing, NoName)>>
           L == Len(d.steps)
           B == SessionEvents(n, d)
<1>1. /\ L \in Nat /\ DOMAIN d.steps = 1..L /\ \A i \in 1..L : d.steps[i] \in Step
      /\ \A i \in 1..L : StepTs(d, i) \in Nat
      /\ ClosedTs(d) \in Nat
  BY StepsType, TimesType
<1>2. /\ Handshake(n, d) \in Seq(Event) /\ Len(Handshake(n, d)) = 3
      /\ \A k \in 1..3 : Handshake(n, d)[k].session = n /\ Quiet(Handshake(n, d)[k])
  <2> DEFINE e1 == LogEvent(n, d.start, Connect, NoName)
             e2 == LogEvent(n, d.start + d.version, Version, NoName)
             e3 == LogEvent(n, d.start + d.version + d.kex, Kex, NoName)
  <2>1. d.start \in Nat /\ d.start + d.version \in Nat /\ d.start + d.version + d.kex \in Nat
    BY DEF Draws
  <2>2. e1 \in Event /\ e2 \in Event /\ e3 \in Event
    BY <2>1, LogEventType DEF EventId
  <2>3. /\ e1.session = n /\ e2.session = n /\ e3.session = n
        /\ Quiet(e1) /\ Quiet(e2) /\ Quiet(e3)
    BY LogEventFields DEF Quiet, Connect, Version, Kex, LoginFailed, LoginSuccess, Closing
  <2>4. Handshake(n, d) = <<e1, e2, e3>>
    BY DEF Handshake
  <2> HIDE DEF e1, e2, e3
  <2>5. \A k \in 1..3 : k = 1 \/ k = 2 \/ k = 3
    OBVIOUS
  <2> QED
    BY <2>2, <2>3, <2>4, <2>5
<1>3. /\ StepEvents(n, d) \in Seq(Event) /\ Len(StepEvents(n, d)) = L
      /\ \A k \in 1..L : StepEvents(n, d)[k] =
                            LogEvent(n, StepTs(d, k), d.steps[k].eventid, d.steps[k].name)
  <2>1. ASSUME NEW i \in 1..L
        PROVE  LogEvent(n, StepTs(d, i), d.steps[i].eventid, d.steps[i].name) \in Event
    <3>1. d.steps[i].eventid \in EventId /\ d.steps[i].name \in Name \cup {NoName}
      BY <1>1 DEF Step, EventId
    <3> QED
      BY <1>1, <3>1, LogEventType
  <2> QED
    BY <1>1, <2>1 DEF StepEvents
<1>4. last \in Seq(Event) /\ Len(last) = 1 /\ last[1] = LogEvent(n, ClosedTs(d), Closing, NoName)
  BY <1>1, LogEventType DEF EventId
<1>5. B = Handshake(n, d) \o StepEvents(n, d) \o last
  BY DEF SessionEvents
<1> HIDE DEF last, L, B
<1>6. /\ B \in Seq(Event) /\ Len(B) = L + 4
      /\ \A k \in 1..3 : B[k] = Handshake(n, d)[k]
      /\ \A k \in 1..L : B[k + 3] = StepEvents(n, d)[k]
      /\ B[L + 4] = last[1]
  <2> DEFINE f == Handshake(n, d)
             g == StepEvents(n, d)
  <2>1. f \in Seq(Event) /\ g \in Seq(Event) /\ Len(f) = 3 /\ Len(g) = L
    BY <1>2, <1>3
  <2> HIDE DEF f, g
  <2>2. Joined(Event, f, g, last, f \o g \o last)
    BY <1>4, <2>1, PartsOf
  <2> QED
    BY <1>5, <2>1, <2>2 DEF f, g, Joined
<1>7. \A k \in 1..3 : B[k].session = n /\ Quiet(B[k])
  BY <1>2, <1>6
<1>8. \A k \in 1..L + 4 : B[k].session = n
  <2>1. \A k \in 1..L : B[k + 3].session = n
    BY <1>3, <1>6, LogEventFields
  <2>2. B[L + 4].session = n
    BY <1>4, <1>6, LogEventFields
  <2>3. \A k \in 1..L + 4 : k \in 1..3 \/ k = L + 4 \/ (k - 3 \in 1..L /\ k = (k - 3) + 3)
    BY <1>1
  <2> QED
    BY <1>7, <2>1, <2>2, <2>3
<1> QED
  BY <1>3, <1>4, <1>6, <1>7, <1>8 DEF L, B

-----------------------------------------------------------------------------
(* What is emitted of a session.                                           *)

Draw(n) == play.draws[n]
IsLogin(e) == e.eventid \in {LoginFailed, LoginSuccess}
IsStep(e, d, k) == /\ e.ts = StepTs(d, k) /\ e.eventid = d.steps[k].eventid
                   /\ e.name = d.steps[k].name

(* What was drawn for a session that has been built.                       *)
LEMMA DrawType ==
    ASSUME TypeOK, NEW n \in 1..built
    PROVE  /\ Draw(n) \in Draws /\ Possible(Draw(n)) /\ n \in Nat /\ n \in DOMAIN play.draws
           /\ BuildSession(n) = SessionEvents(n, Draw(n))
           /\ Len(Draw(n).steps) \in Nat
<1>1. play.draws \in Seq(Draws)
  BY PlaysAssumption DEF TypeOK
<1>2. n \in DOMAIN play.draws
  BY <1>1 DEF TypeOK
<1>3. /\ play.draws[n] \in Draws /\ Possible(play.draws[n]) /\ n \in Nat
  BY <1>2, DrawsOf DEF TypeOK
<1> QED
  BY <1>2, <1>3, StepsType DEF Draw, BuildSession

(* The events of a session are where its block has them.                   *)
LEMMA LogsInBlock ==
    ASSUME TypeOK, NEW n \in 1..built, NEW b \in 0..Len(emitted), Block(n, b),
           NEW i \in Logs(n)
    PROVE  /\ i \in Nat /\ b \in Nat /\ i - b \in 1..Len(Draw(n).steps) + 4
           /\ emitted[i] = SessionEvents(n, Draw(n))[i - b]
<1>1. i \in DOMAIN emitted /\ emitted[i].session = n /\ emitted \in Seq(Event)
  BY DEF Logs, TypeOK
<1>2. i \in Nat /\ b \in Nat
  BY <1>1
<1>3. Len(BuildSession(n)) = Len(Draw(n).steps) + 4 /\ Len(Draw(n).steps) \in Nat
  BY DrawType, SessionEventsAre
<1>4. /\ b < i /\ i <= b + Len(BuildSession(n))
      /\ emitted[i] = BuildSession(n)[i - b]
  BY <1>1 DEF Block
<1> QED
  BY <1>2, <1>3, <1>4, DrawType

(* An emitted login, or an event with a name, is a step of its session.    *)
LEMMA LoginIsStep ==
    ASSUME TypeOK, NEW n \in 1..built, NEW b \in 0..Len(emitted), Block(n, b),
           NEW i \in Logs(n), IsLogin(emitted[i]) \/ emitted[i].name # NoName
    PROVE  \E k \in 1..Len(Draw(n).steps) :
               /\ i = b + 3 + k /\ IsStep(emitted[i], Draw(n), k)
               /\ IsLogin(emitted[i]) /\ emitted[i].name \in Name
<1> DEFINE d == Draw(n)
           L == Len(d.steps)
           B == SessionEvents(n, d)
           j == i - b
<1>1. /\ d \in Draws /\ Possible(d) /\ n \in Nat /\ L \in Nat
      /\ i \in Nat /\ b \in Nat /\ j \in 1..L + 4 /\ emitted[i] = B[j]
  BY DrawType, LogsInBlock
<1>2. /\ Len(B) = L + 4 /\ BuildSession(n) = B
      /\ \A k \in 1..3 : Quiet(B[k])
      /\ \A k \in 1..L :
            B[k + 3] = LogEvent(n, StepTs(d, k), d.steps[k].eventid, d.steps[k].name)
      /\ B[L + 4] = LogEvent(n, ClosedTs(d), Closing, NoName)
  <2>1. n \in Nat /\ d \in Draws /\ BuildSession(n) = B
    BY DrawType
  <2> QED
    BY <2>1, SessionEventsAre
<1> HIDE DEF d, B
<1>3. j \notin 1..3
  BY <1>1, <1>2 DEF Quiet, IsLogin
<1>4. j # L + 4
  <2>1. B[L + 4].eventid = Closing /\ B[L + 4].name = NoName
    BY <1>2, LogEventFields
  <2> QED
    BY <1>1, <2>1 DEF IsLogin, Closing, LoginFailed, LoginSuccess
<1>5. PICK k \in 1..L : j = k + 3 /\ i = b + 3 + k
  <2>1. j - 3 \in 1..L /\ j = (j - 3) + 3 /\ i = b + 3 + (j - 3)
    BY <1>1, <1>3, <1>4
  <2> QED
    BY <2>1
<1>6. IsStep(emitted[i], d, k)
  <2>1. emitted[i] = LogEvent(n, StepTs(d, k), d.steps[k].eventid, d.steps[k].name)
    BY <1>1, <1>2, <1>5
  <2> QED
    BY <2>1, LogEventFields DEF IsStep
<1>7. IsLogin(emitted[i]) /\ emitted[i].name \in Name
  BY <1>1, <1>5, <1>6, StepNames DEF IsStep, IsLogin
<1> QED
  BY <1>5, <1>6, <1>7 DEF d

(* With the closing event, the whole session has been emitted.             *)
LEMMA ClosedIsWhole ==
    ASSUME TypeOK, NEW n \in 1..built, NEW b \in 0..Len(emitted), Block(n, b),
           NEW c \in Logs(n), emitted[c].eventid = Closing
    PROVE  /\ emitted[c].ts = ClosedTs(Draw(n))
           /\ \A k \in 1..Len(Draw(n).steps) :
                 b + 3 + k \in Logs(n) /\ IsStep(emitted[b + 3 + k], Draw(n), k)
<1> DEFINE d == Draw(n)
           L == Len(d.steps)
           B == SessionEvents(n, d)
           j == c - b
<1>1. /\ d \in Draws /\ Possible(d) /\ n \in Nat /\ L \in Nat
      /\ c \in Nat /\ b \in Nat /\ j \in 1..L + 4 /\ emitted[c] = B[j]
  BY DrawType, LogsInBlock
<1>2. /\ Len(B) = L + 4 /\ BuildSession(n) = B
      /\ \A k \in 1..3 : Quiet(B[k])
      /\ \A k \in 1..L :
            B[k + 3] = LogEvent(n, StepTs(d, k), d.steps[k].eventid, d.steps[k].name)
      /\ B[L + 4] = LogEvent(n, ClosedTs(d), Closing, NoName)
  <2>1. n \in Nat /\ d \in Draws /\ BuildSession(n) = B
    BY DrawType
  <2> QED
    BY <2>1, SessionEventsAre
<1> HIDE DEF d, B
<1>3. c \in DOMAIN emitted /\ Len(emitted) \in Nat /\ DOMAIN emitted = 1..Len(emitted)
  BY DEF Logs, TypeOK
<1>4. j \notin 1..3
  BY <1>1, <1>2 DEF Quiet
<1>5. ASSUME NEW k \in 1..L PROVE B[k + 3].eventid # Closing
  <2>1. B[k + 3].eventid = d.steps[k].eventid
    BY <1>2, LogEventFields
  <2> QED
    BY <1>1, <2>1, StepNames
<1>6. j = L + 4
  <2>1. j - 3 \in 1..L => j = (j - 3) + 3
    BY <1>1
  <2>2. j - 3 \notin 1..L
    BY <1>1, <1>5, <2>1
  <2> QED
    BY <1>1, <1>4, <2>2
<1>7. emitted[c].ts = ClosedTs(d)
  BY <1>1, <1>2, <1>6, LogEventFields
<1>8. ASSUME NEW k \in 1..L
      PROVE  b + 3 + k \in Logs(n) /\ IsStep(emitted[b + 3 + k], d, k)
  <2> DEFINE i == b + 3 + k
  <2>1. /\ i \in DOMAIN emitted /\ b < i /\ i <= b + Len(B) /\ i - b = k + 3
    BY <1>1, <1>2, <1>3, <1>6
  <2>2. emitted[i].session = n /\ emitted[i] = B[i - b]
    BY <1>2, <2>1 DEF Block
  <2>3. IsStep(emitted[i], d, k)
    <3>1. emitted[i] = LogEvent(n, StepTs(d, k), d.steps[k].eventid, d.steps[k].name)
      BY <1>2, <2>1, <2>2
    <3> QED
      BY <3>1, LogEventFields DEF IsStep
  <2> QED
    BY <2>1, <2>2, <2>3 DEF Logs
<1> QED
  BY <1>7, <1>8 DEF d

-----------------------------------------------------------------------------
(* The labels of generated sessions.                                       *)

\* n is labelled from the view S, in which its closing event is.
LabelledFrom(n, b, S) ==
    /\ n \in 1..built /\ b \in 0..Len(emitted) /\ Block(n, b)
    /\ S \subseteq Logs(n)
    /\ \E c \in S : emitted[c].eventid = Closing
    /\ labels[n] = TechniqueLabel(View(S), Duration(Draw(n)))

(* What the classifier sees in a view of the emitted events.               *)
LEMMA ViewIs ==
    ASSUME NEW S
    PROVE  /\ DOMAIN View(S) = S /\ \A i \in S : View(S)[i] = emitted[i]
           /\ Logins(View(S)) = {i \in S : IsLogin(emitted[i])}
           /\ Failures(View(S)) = {i \in S : emitted[i].eventid = LoginFailed}
           /\ Usernames(View(S)) = {emitted[i].name : i \in Logins(View(S))} \ {NoName}
<1>1. DOMAIN View(S) = S /\ \A i \in S : View(S)[i] = emitted[i]
  BY DEF View
<1> QED
  BY <1>1 DEF Logins, Failures, Usernames, IsLogin

(* A view is finite.                                                       *)
LEMMA LogsFinite ==
    ASSUME TypeOK, NEW n, NEW S \in SUBSET Logs(n)
    PROVE  IsFiniteSet(S)
<1>1. IsFiniteSet(1..Len(emitted)) /\ Logs(n) \subseteq 1..Len(emitted)
  BY FS_Interval DEF Logs, TypeOK
<1> QED
  BY <1>1, FS_Subset

(* Every name of a view has been tried in a step.                          *)
LEMMA NamesOfView ==
    ASSUME TypeOK, NEW n, NEW b, NEW S, LabelledFrom(n, b, S), NEW u \in Usernames(View(S))
    PROVE  u \in NamesTried(n)
<1>1. PICK i \in S : IsLogin(emitted[i]) /\ u = emitted[i].name
  BY ViewIs
<1>2. i \in Logs(n) /\ n \in 1..built /\ b \in 0..Len(emitted) /\ Block(n, b)
  BY DEF LabelledFrom
<1>3. PICK k \in 1..Len(Draw(n).steps) : IsStep(emitted[i], Draw(n), k)
  BY <1>1, <1>2, LoginIsStep
<1>4. k \in DOMAIN Draw(n).steps
  BY <1>2, DrawType, StepsType
<1> QED
  BY <1>1, <1>3, <1>4 DEF IsStep, NamesTried, Draw

(* Scanners are labelled as such.                                          *)
LEMMA ScannerLabel ==
    ASSUME TypeOK, NEW n, NEW b, NEW S, LabelledFrom(n, b, S), Cohort(n) = "scanner"
    PROVE  labels[n] = "scanner"
<1>1. /\ n \in 1..built /\ b \in 0..Len(emitted) /\ Block(n, b)
      /\ S \subseteq Logs(n)
  BY DEF LabelledFrom
<1>2. /\ Draw(n).cohort = "scanner" /\ Draw(n).steps = <<>>
      /\ Drawn(Draw(n).rest, 300, 1800)
  BY <1>1, DrawType, PossibleScanner DEF Cohort, Draw
<1>3. Logins(View(S)) = {}
  <2> SUFFICES ASSUME NEW i \in S, IsLogin(emitted[i]) PROVE FALSE
    BY ViewIs
  <2>1. i \in Logs(n)
    BY <1>1
  <2>2. \E k \in 1..Len(Draw(n).steps) : TRUE
    BY <1>1, <2>1, LoginIsStep
  <2> QED
    BY <1>2, <2>2
<1>4. Cardinality(Usernames(View(S))) = 0
  BY <1>3, FS_EmptySet DEF Usernames
<1>5. Duration(Draw(n)) < 20
  <2>1. Draw(n).rest \in Nat /\ Draw(n).rest <= 1800
    BY <1>2, DrawnNat
  <2>2. Duration(Draw(n)) = (Draw(n).rest + 50) \div 100
    BY <1>2 DEF Duration, Tenths
  <2>3. \A r \in Nat : r <= 1800 => (r + 50) \div 100 < 20
    OBVIOUS
  <2> QED
    BY <2>1, <2>2, <2>3
<1> QED
  BY <1>3, <1>4, <1>5
     DEF LabelledFrom, TechniqueLabel, CredentialStuffingMinUsernames, ScannerMaxDuration

(* One name is not ten.                                                    *)
LEMMA OneName ==
    ASSUME NEW S, NEW u, \A w \in S : w = u
    PROVE  Cardinality(S) \in {0, 1} /\ (S # {} => Cardinality(S) = 1)
<1>1. CASE S = {}
  BY <1>1, FS_EmptySet
<1>2. CASE S # {}
  <2>1. S = {u}
    BY <1>2
  <2> QED
    BY <2>1, FS_Singleton
<1> QED
  BY <1>1, <1>2

(* Sessions with commands are labelled "other".                            *)
LEMMA InterestingLabel ==
    ASSUME TypeOK, NEW n, NEW b, NEW S, LabelledFrom(n, b, S), Cohort(n) = "interesting"
    PROVE  labels[n] = "other"
<1> DEFINE d == Draw(n)
<1>1. /\ n \in 1..built /\ b \in 0..Len(emitted) /\ Block(n, b)
      /\ S \subseteq Logs(n)
  BY DEF LabelledFrom
<1>2. /\ d.cohort = "interesting" /\ d \in Draws /\ Drawn(d.rest, 2000, 30000)
      /\ d.steps[1].eventid = LoginSuccess
      /\ \A k \in 2..Len(d.steps) : d.steps[k].eventid \in {Command, Download}
  <2>1. d.cohort = "interesting"
    BY DEF Cohort, Draw
  <2>2. d \in Draws /\ Possible(d)
    BY <1>1, DrawType
  <2> HIDE DEF d
  <2> QED
    BY <2>1, <2>2, PossibleInteresting
<1> HIDE DEF d
<1>3. ASSUME NEW i \in S, IsLogin(emitted[i])
      PROVE  emitted[i].eventid = LoginSuccess /\ emitted[i].name = d.steps[1].name
  <2>1. i \in Logs(n)
    BY <1>1
  <2>2. PICK k \in 1..Len(d.steps) : IsStep(emitted[i], d, k)
    BY <1>1, <1>3, <2>1, LoginIsStep DEF d
  <2>3. Len(d.steps) \in Nat
    BY <1>2, StepsType
  <2>4. k = 1
    <3> SUFFICES ASSUME k # 1 PROVE FALSE
      OBVIOUS
    <3>1. k \in 2..Len(d.steps)
      BY <2>3
    <3> QED
      BY <1>2, <1>3, <2>2, <3>1
         DEF IsStep, IsLogin, LoginFailed, LoginSuccess, Command, Download
  <2> QED
    BY <1>2, <2>2, <2>4 DEF IsStep
<1>4. Failures(View(S)) = {}
  BY <1>3, ViewIs DEF IsLogin, LoginFailed, LoginSuccess
<1>5. \A w \in Usernames(View(S)) : w = d.steps[1].name
  BY <1>3, ViewIs
<1>6. Cardinality(Usernames(View(S))) \in {0, 1} /\ Cardinality(Failures(View(S))) = 0
  BY <1>4, <1>5, OneName, FS_EmptySet
<1>7. Duration(d) >= 20
  <2>1. d.rest \in Nat /\ d.rest >= 2000 /\ LastTs(d) \in Nat /\ d.start \in Nat
        /\ LastTs(d) >= d.start
    BY <1>2, DrawnNat, TimesType
  <2>2. Duration(d) = (LastTs(d) - d.start + d.rest + 50) \div 100
    BY <1>2 DEF Duration, Tenths
  <2>3. LastTs(d) - d.start + d.rest \in Nat /\ LastTs(d) - d.start + d.rest >= 2000
    BY <2>1
  <2>4. \A r \in Nat : r >= 2000 => (r + 50) \div 100 >= 20
    OBVIOUS
  <2> QED
    BY <2>2, <2>3, <2>4
<1>8. ~(Duration(d) < 20)
  BY <1>2, <1>7, TimesType
<1> QED
  BY <1>6, <1>8
     DEF LabelledFrom, TechniqueLabel, CredentialStuffingMinUsernames, ScannerMaxDuration,
         BruteForceMinFailures, d

(* Brute force: whoever sees all of it sees ten failures with one name.    *)
LEMMA BruteForceNames ==
    ASSUME TypeOK, NEW n, NEW b, NEW S, LabelledFrom(n, b, S), Cohort(n) = "brute_force"
    PROVE  \A w \in Usernames(View(S)) : w = Draw(n).steps[1].name
<1> DEFINE d == Draw(n)
<1>1. /\ n \in 1..built /\ b \in 0..Len(emitted) /\ Block(n, b)
      /\ S \subseteq Logs(n)
  BY DEF LabelledFrom
<1>2. d \in Draws /\ Possible(d) /\ d.cohort = "brute_force"
  BY <1>1, DrawType DEF Cohort, Draw
<1>3. \A k \in DOMAIN d.steps : d.steps[k].name = d.steps[1].name
  BY <1>2, PossibleBruteForce
<1>4. DOMAIN d.steps = 1..Len(d.steps)
  BY <1>2, StepsType
<1>5. ASSUME NEW w \in Usernames(View(S)) PROVE w = d.steps[1].name
  <2>1. PICK i \in S : IsLogin(emitted[i]) /\ w = emitted[i].name
    BY ViewIs
  <2>2. PICK k \in 1..Len(d.steps) : IsStep(emitted[i], d, k)
    BY <1>1, <2>1, LoginIsStep
  <2> QED
    BY <1>3, <1>4, <2>1, <2>2 DEF IsStep
<1> QED
  BY <1>5

(* Brute force that is seen whole is labelled as such.                     *)
LEMMA BruteForceLabel ==
    ASSUME TypeOK, NEW n, NEW b, LabelledFrom(n, b, Logs(n)), Cohort(n) = "brute_force"
    PROVE  labels[n] = "brute_force"
<1> DEFINE d == Draw(n)
           S == Logs(n)
<1>1. /\ n \in 1..built /\ b \in 0..Len(emitted) /\ Block(n, b)
      /\ \E c \in Logs(n) : emitted[c].eventid = Closing
  BY DEF LabelledFrom
<1>2. d \in Draws /\ Possible(d) /\ d.cohort = "brute_force"
  BY <1>1, DrawType DEF Cohort, Draw
<1>3. /\ Attempts(d, 10, 200, 150, 1200) /\ DOMAIN d.steps = 1..Len(d.steps)
      /\ \A k \in DOMAIN d.steps : d.steps[k].eventid = LoginFailed
  BY <1>2, PossibleBruteForce, StepsType
<1>4. Len(d.steps) \in Nat /\ Len(d.steps) >= 10
  <2> HIDE DEF d
  <2>1. Drawn(Len(d.steps), 10, 200)
    BY <1>3 DEF Attempts
  <2>2. Len(d.steps) \in Nat /\ Len(d.steps) >= 10
    BY <2>1, DrawnNat
  <2> QED
    BY <2>2
<1>5. \A k \in 1..Len(d.steps) : /\ b + 3 + k \in S /\ IsStep(emitted[b + 3 + k], d, k)
                                 /\ emitted[b + 3 + k].eventid = LoginFailed
  <2> SUFFICES ASSUME NEW k \in 1..Len(d.steps)
               PROVE  /\ b + 3 + k \in S /\ IsStep(emitted[b + 3 + k], d, k)
                      /\ emitted[b + 3 + k].eventid = LoginFailed
    OBVIOUS
  <2>1. b + 3 + k \in S /\ IsStep(emitted[b + 3 + k], d, k)
    BY <1>1, ClosedIsWhole
  <2> HIDE DEF d, S
  <2>2. k \in DOMAIN d.steps
    BY <1>3
  <2>3. d.steps[k].eventid = LoginFailed
    BY <1>3, <2>2
  <2> QED
    BY <2>1, <2>3 DEF IsStep
<1> HIDE DEF d
<1>6. b \in Nat
  BY <1>1 DEF TypeOK
<1>7. b + 4..b + 8 \subseteq Failures(View(S))
  <2> SUFFICES ASSUME NEW i \in b + 4..b + 8 PROVE i \in Failures(View(S))
    OBVIOUS
  <2>1. i - b - 3 \in 1..Len(d.steps) /\ i = b + 3 + (i - b - 3)
    BY <1>4, <1>6
  <2>2. i \in S /\ emitted[i].eventid = LoginFailed
    BY <1>5, <2>1
  <2> QED
    BY <2>2, ViewIs
<1>8. IsFiniteSet(Failures(View(S)))
  BY LogsFinite, ViewIs, NamesFinite
<1>9. Cardinality(b + 4..b + 8) = 5
  BY <1>6, FS_Interval
<1>10. Cardinality(Failures(View(S))) >= 5 /\ Cardinality(Failures(View(S))) \in Nat
  <2>1. Cardinality(b + 4..b + 8) <= Cardinality(Failures(View(S)))
    BY <1>7, <1>8, FS_Subset
  <2>2. Cardinality(Failures(View(S))) \in Nat
    BY <1>8, FS_CardinalityType
  <2> QED
    BY <1>9, <2>1, <2>2
<1>11. Usernames(View(S)) # {}
  <2>1. b + 4 \in S /\ IsLogin(emitted[b + 4]) /\ emitted[b + 4].name # NoName
    <3>1. 1 \in 1..Len(d.steps) /\ b + 3 + 1 = b + 4
      BY <1>4, <1>6
    <3>2. b + 4 \in S /\ emitted[b + 4].eventid = LoginFailed
      BY <1>5, <3>1
    <3>3. IsLogin(emitted[b + 4])
      BY <3>2 DEF IsLogin
    <3>4. emitted[b + 4].name \in Name
      BY <1>1, <3>2, <3>3, LoginIsStep
    <3> QED
      BY <3>2, <3>3, <3>4, PlaysAssumption
  <2>2. b + 4 \in Logins(View(S))
    BY <2>1, ViewIs
  <2>3. emitted[b + 4].name \in Usernames(View(S))
    BY <2>1, <2>2, ViewIs
  <2> QED
    BY <2>3
<1>12. Cardinality(Usernames(View(S))) = 1
  BY <1>11, BruteForceNames, OneName
<1> QED
  BY <1>10, <1>12
     DEF LabelledFrom, TechniqueLabel, CredentialStuffingMinUsernames, BruteForceMinFailures

(* Credential stuffing: whoever sees all of it sees every name.            *)
LEMMA StuffingLabel ==
    ASSUME TypeOK, NEW n, NEW b, LabelledFrom(n, b, Logs(n)),
           Cohort(n) = "credential_stuffing"
    PROVE  labels[n] = "credential_stuffing" <=> Cardinality(NamesTried(n)) >= 10
<1> DEFINE d == Draw(n)
           S == Logs(n)
<1>1. /\ n \in 1..built /\ b \in 0..Len(emitted) /\ Block(n, b)
      /\ \E c \in Logs(n) : emitted[c].eventid = Closing
      /\ labels[n] = TechniqueLabel(View(S), Duration(d))
  BY DEF LabelledFrom
<1>2. d \in Draws /\ Possible(d) /\ d.cohort = "credential_stuffing"
  BY <1>1, DrawType DEF Cohort, Draw
<1>3. Attempts(d, 5, 30, 200, 2500) /\ DOMAIN d.steps = 1..Len(d.steps)
  BY <1>2, PossibleStuffing, StepsType
<1>4. Len(d.steps) \in Nat /\ Len(d.steps) >= 5
  <2> HIDE DEF d
  <2>1. Drawn(Len(d.steps), 5, 30)
    BY <1>3 DEF Attempts
  <2>2. Len(d.steps) \in Nat /\ Len(d.steps) >= 5
    BY <2>1, DrawnNat
  <2> QED
    BY <2>2
<1>5. \A k \in 1..Len(d.steps) :
          /\ b + 3 + k \in S /\ IsLogin(emitted[b + 3 + k])
          /\ emitted[b + 3 + k].name = d.steps[k].name /\ d.steps[k].name \in Name
  <2> SUFFICES ASSUME NEW k \in 1..Len(d.steps)
               PROVE  /\ b + 3 + k \in S /\ IsLogin(emitted[b + 3 + k])
                      /\ emitted[b + 3 + k].name = d.steps[k].name /\ d.steps[k].name \in Name
    OBVIOUS
  <2>1. b + 3 + k \in S /\ IsStep(emitted[b + 3 + k], d, k)
    BY <1>1, ClosedIsWhole
  <2>2. k \in DOMAIN d.steps
    BY <1>3
  <2>3. d.steps[k].eventid \in {LoginFailed, LoginSuccess} /\ d.steps[k].name \in Name
    BY <1>3, <2>2 DEF Attempts
  <2> HIDE DEF d, S
  <2> QED
    BY <2>1, <2>3 DEF IsStep, IsLogin
<1>6. Logins(View(S)) # {}
  <2>1. 1 \in 1..Len(d.steps)
    BY <1>4
  <2>2. b + 3 + 1 \in S /\ IsLogin(emitted[b + 3 + 1])
    BY <1>5, <2>1
  <2> QED
    BY <2>2, ViewIs
<1>7. Usernames(View(S)) = NamesTried(n)
  <2>1. ASSUME NEW u \in NamesTried(n) PROVE u \in Usernames(View(S))
    <3>1. PICK k \in 1..Len(d.steps) : u = d.steps[k].name
      BY <1>3 DEF NamesTried, Draw
    <3>2. b + 3 + k \in Logins(View(S)) /\ emitted[b + 3 + k].name = u /\ u \in Name
      BY <1>5, <3>1, ViewIs
    <3>3. u # NoName
      BY <3>2, PlaysAssumption
    <3> QED
      BY <3>2, <3>3, ViewIs
  <2> QED
    BY <2>1, NamesOfView
<1> QED
  BY <1>1, <1>6, <1>7 DEF TechniqueLabel, CredentialStuffingMinUsernames

(* What the invariant says of a labelled session.                          *)
LEMMA LabelHasView ==
    ASSUME SessionInv, NEW n \in Labelled
    PROVE  \E b \in 0..Len(emitted) : \E S \in SUBSET Logs(n) :
               /\ LabelledFrom(n, b, S)
               /\ \E c \in S : emitted[c].eventid = Closing /\ HourOf(c) \in uploaded
               /\ n \in whole => S = Logs(n)
<1>1. PICK S \in SUBSET Logs(n) : LabelOf(n, S)
  BY DEF SessionInv, LabelsFromViews
<1>2. PICK c \in S : emitted[c].eventid = Closing /\ HourOf(c) \in uploaded
  BY <1>1 DEF LabelOf
<1>3. c \in DOMAIN emitted /\ emitted[c].session = n
  BY <1>2 DEF Logs
<1>4. n \in 1..built
  BY <1>3 DEF SessionInv, Blocks
<1>5. PICK b \in 0..Len(emitted) : Block(n, b)
  BY <1>4 DEF SessionInv, Blocks
<1>6. LabelledFrom(n, b, S)
  BY <1>1, <1>2, <1>4, <1>5 DEF LabelledFrom, LabelOf, Draw
<1>7. n \in whole => S = Logs(n)
  BY <1>1 DEF LabelOf
<1> QED
  BY <1>2, <1>6, <1>7

(* A session is taken for a scanner only if it is shorter than two seconds. *)
LEMMA ScannerIsShort ==
    ASSUME NEW n, NEW b, NEW S, LabelledFrom(n, b, S), labels[n] = "scanner"
    PROVE  Duration(Draw(n)) < 20
  BY DEF LabelledFrom, TechniqueLabel, ScannerMaxDuration

\* The failures of the n-th session with a name.
FailedWith(n, name) ==
    {i \in Logs(n) : emitted[i].name = name /\ emitted[i].eventid = LoginFailed}

(* Brute force is five failures with one name that was tried.              *)
LEMMA BruteForceIsFive ==
    ASSUME TypeOK, NEW n, NEW b, NEW S, LabelledFrom(n, b, S), labels[n] = "brute_force"
    PROVE  \E name \in NamesTried(n) : Cardinality(FailedWith(n, name)) >= 5
<1>1. /\ n \in 1..built /\ b \in 0..Len(emitted) /\ Block(n, b)
      /\ S \in SUBSET Logs(n)
      /\ labels[n] = TechniqueLabel(View(S), Duration(Draw(n)))
  BY DEF LabelledFrom
<1>2. /\ Cardinality(Failures(View(S))) >= BruteForceMinFailures
      /\ Cardinality(Usernames(View(S))) = 1
  BY <1>1 DEF TechniqueLabel
<1>3. IsFiniteSet(Usernames(View(S))) /\ IsFiniteSet(Failures(View(S)))
  BY <1>1, LogsFinite, ViewIs, NamesFinite
<1>4. PICK u : Usernames(View(S)) = {u}
  BY <1>2, <1>3, FS_Singleton
<1>5. u \in NamesTried(n)
  <2>1. u \in Usernames(View(S))
    BY <1>4
  <2> QED
    BY <2>1, NamesOfView
<1>6. Failures(View(S)) \subseteq FailedWith(n, u)
  <2> SUFFICES ASSUME NEW i \in Failures(View(S)) PROVE i \in FailedWith(n, u)
    OBVIOUS
  <2>1. i \in S /\ i \in Logs(n) /\ emitted[i].eventid = LoginFailed
    BY <1>1, ViewIs
  <2>2. IsLogin(emitted[i])
    BY <2>1 DEF IsLogin
  <2>3. emitted[i].name \in Name
    BY <1>1, <2>1, <2>2, LoginIsStep
  <2>4. emitted[i].name # NoName
    BY <2>3, PlaysAssumption
  <2>5. i \in Logins(View(S))
    BY <2>1, <2>2, ViewIs
  <2>6. emitted[i].name \in Usernames(View(S))
    BY <2>4, <2>5, ViewIs
  <2>7. emitted[i].name = u
    BY <1>4, <2>6
  <2> QED
    BY <2>1, <2>7 DEF FailedWith
<1>7. IsFiniteSet(FailedWith(n, u))
  <2>1. FailedWith(n, u) \in SUBSET Logs(n)
    BY DEF FailedWith
  <2> QED
    BY <2>1, LogsFinite
<1>8. Cardinality(Failures(View(S))) <= Cardinality(FailedWith(n, u))
  BY <1>6, <1>7, FS_Subset
<1>9. Cardinality(Failures(View(S))) \in Nat /\ Cardinality(FailedWith(n, u)) \in Nat
  BY <1>3, <1>7, FS_CardinalityType
<1>10. Cardinality(FailedWith(n, u)) >= 5
  BY <1>2, <1>8, <1>9 DEF BruteForceMinFailures
<1> QED
  BY <1>5, <1>10

(* Nothing but credential stuffing is labelled so.                         *)
LEMMA StuffingIsStuffing ==
    ASSUME TypeOK, NEW n, NEW b, NEW S, LabelledFrom(n, b, S),
           labels[n] = "credential_stuffing"
    PROVE  Cohort(n) = "credential_stuffing"
<1>1. n \in 1..built /\ labels[n] = TechniqueLabel(View(S), Duration(Draw(n)))
  BY DEF LabelledFrom
<1>2. Cohort(n) \in {"scanner", "brute_force", "credential_stuffing", "interesting"}
  BY <1>1, DrawType DEF Cohort, Draw, Draws
<1>3. Cardinality(Usernames(View(S))) >= 10
  BY <1>1 DEF TechniqueLabel, CredentialStuffingMinUsernames
<1>4. Cohort(n) # "scanner"
  BY ScannerLabel
<1>5. Cohort(n) # "interesting"
  BY InterestingLabel
<1>6. Cohort(n) # "brute_force"
  <2> SUFFICES ASSUME Cohort(n) = "brute_force" PROVE FALSE
    OBVIOUS
  <2>1. \A w \in Usernames(View(S)) : w = Draw(n).steps[1].name
    BY BruteForceNames
  <2>2. Cardinality(Usernames(View(S))) \in {0, 1}
    BY <2>1, OneName
  <2> QED
    BY <1>3, <2>2
<1> QED
  BY <1>2, <1>4, <1>5, <1>6

(* The closing event is not before an attempt.                             *)
LEMMA AttemptsBeforeClosing ==
    ASSUME TypeOK, NEW n \in 1..built, NEW b \in 0..Len(emitted), Block(n, b),
           NEW i \in Logs(n), emitted[i].name # NoName,
           NEW c \in Logs(n), emitted[c].eventid = Closing
    PROVE  HourOf(i) \in Nat /\ HourOf(c) \in Nat /\ HourOf(i) <= HourOf(c)
<1> DEFINE d == Draw(n)
<1>1. d \in Draws /\ Possible(d) /\ Len(d.steps) \in Nat
  BY DrawType
<1>2. PICK k \in 1..Len(d.steps) : IsStep(emitted[i], d, k)
  BY LoginIsStep
<1>3. emitted[i].ts = StepTs(d, k)
  BY <1>2 DEF IsStep
<1>4. emitted[c].ts = ClosedTs(d)
  BY ClosedIsWhole
<1> HIDE DEF d
<1>5. d.cohort # "scanner"
  <2> SUFFICES ASSUME d.cohort = "scanner" PROVE FALSE
    OBVIOUS
  <2>1. d.steps = <<>>
    BY <1>1, PossibleScanner
  <2> QED
    BY <1>2, <2>1
<1>6. /\ LastTs(d) \in Nat /\ StepTs(d, k) \in Nat /\ StepTs(d, k) <= LastTs(d)
      /\ ClosedTs(d) = LastTs(d) + 500
  <2>1. LastTs(d) \in Nat /\ StepTs(d, k) \in Nat
    BY <1>1, <1>2, TimesType
  <2>2. StepTs(d, k) <= LastTs(d)
    BY <1>1, <1>2, StepsInOrder
  <2> QED
    BY <1>5, <2>1, <2>2 DEF ClosedTs
<1>7. \A x, y \in Nat : x <= y => x \div Hour \in Nat /\ y \div Hour \in Nat
                                   /\ x \div Hour <= y \div Hour
  BY DEF Hour
<1>8. emitted[i].ts \in Nat /\ emitted[c].ts \in Nat /\ emitted[i].ts <= emitted[c].ts
  BY <1>3, <1>4, <1>6
<1> QED
  BY <1>7, <1>8 DEF HourOf

-----------------------------------------------------------------------------
(* The three properties follow from the invariant.                         *)

(* Sessions stored whole are counted as what they were generated as.       *)
LEMMA Counted == SessionInv => CohortCounted
<1> SUFFICES ASSUME SessionInv, NEW n \in whole
             PROVE  CASE Cohort(n) = "interesting" -> labels[n] = "other"
                      [] Cohort(n) = "credential_stuffing" ->
                            labels[n] = "credential_stuffing" <=> Cardinality(NamesTried(n)) >= 10
                      [] OTHER -> labels[n] = Cohort(n)
  BY DEF CohortCounted
<1>1. TypeOK /\ n \in Labelled
  BY DEF SessionInv, LabelsFromViews
<1>2. PICK b \in 0..Len(emitted) : LabelledFrom(n, b, Logs(n))
  BY <1>1, LabelHasView
<1>3. Cohort(n) \in {"scanner", "brute_force", "credential_stuffing", "interesting"}
  <2>1. n \in 1..built
    BY <1>2 DEF LabelledFrom
  <2> QED
    BY <1>1, <2>1, DrawType DEF Cohort, Draw, Draws
<1>4. Cohort(n) = "scanner" => labels[n] = "scanner"
  BY <1>1, <1>2, ScannerLabel
<1>5. Cohort(n) = "interesting" => labels[n] = "other"
  BY <1>1, <1>2, InterestingLabel
<1>6. Cohort(n) = "brute_force" => labels[n] = "brute_force"
  BY <1>1, <1>2, BruteForceLabel
<1>7. Cohort(n) = "credential_stuffing" =>
          (labels[n] = "credential_stuffing" <=> Cardinality(NamesTried(n)) >= 10)
  BY <1>1, <1>2, StuffingLabel
<1> QED
  BY <1>3, <1>4, <1>5, <1>6, <1>7

(* What a session that is labelled early can be taken for.                 *)
LEMMA Explained == SessionInv => MislabelsExplained
<1> SUFFICES ASSUME SessionInv, NEW n \in Labelled
             PROVE
        /\ Cohort(n) = "scanner" => labels[n] = "scanner"
        /\ Cohort(n) = "interesting" => labels[n] = "other"
        /\ labels[n] = "credential_stuffing" => Cohort(n) = "credential_stuffing"
        /\ labels[n] = "scanner" => Duration(play.draws[n]) < 20
        /\ labels[n] = "brute_force" =>
              \E name \in NamesTried(n) :
                  Cardinality({i \in Logs(n) : emitted[i].name = name
                                               /\ emitted[i].eventid = LoginFailed}) >= 5
  BY DEF MislabelsExplained
<1>1. TypeOK
  BY DEF SessionInv
<1>2. PICK b \in 0..Len(emitted), S \in SUBSET Logs(n) : LabelledFrom(n, b, S)
  BY LabelHasView
<1>3. Cohort(n) = "scanner" => labels[n] = "scanner"
  BY <1>1, <1>2, ScannerLabel
<1>4. Cohort(n) = "interesting" => labels[n] = "other"
  BY <1>1, <1>2, InterestingLabel
<1>5. labels[n] = "credential_stuffing" => Cohort(n) = "credential_stuffing"
  BY <1>1, <1>2, StuffingIsStuffing
<1>6. labels[n] = "scanner" => Duration(play.draws[n]) < 20
  BY <1>2, ScannerIsShort DEF Draw
<1>7. labels[n] = "brute_force" =>
          \E name \in NamesTried(n) : Cardinality(FailedWith(n, name)) >= 5
  BY <1>1, <1>2, BruteForceIsFive
<1>8. labels[n] = "brute_force" =>
              \E name \in NamesTried(n) :
                  Cardinality({i \in Logs(n) : emitted[i].name = name
                                               /\ emitted[i].eventid = LoginFailed}) >= 5
  BY <1>7, Zenon DEF FailedWith
<1> QED
  BY <1>3, <1>4, <1>5, <1>6, <1>8

(* A label needs the hour of the closing event, so every earlier one.      *)
LEMMA HalfUploads == SessionInv => NoLabelFromHalfUpload
<1> SUFFICES ASSUME SessionInv, NEW n \in Labelled, NEW i \in Logs(n),
                    emitted[i].name # NoName
             PROVE  HourOf(i) \in uploaded
  BY DEF NoLabelFromHalfUpload
<1>1. TypeOK
  BY DEF SessionInv
<1>2. PICK b \in 0..Len(emitted), S \in SUBSET Logs(n) :
          /\ LabelledFrom(n, b, S)
          /\ \E c \in S : emitted[c].eventid = Closing /\ HourOf(c) \in uploaded
  BY LabelHasView
<1>3. PICK c \in Logs(n) : emitted[c].eventid = Closing /\ HourOf(c) \in uploaded
  BY <1>2
<1>4. n \in 1..built /\ Block(n, b)
  BY <1>2 DEF LabelledFrom
<1>5. HourOf(i) <= HourOf(c)
  BY <1>1, <1>2, <1>3, <1>4, AttemptsBeforeClosing
<1>6. i \in DOMAIN emitted
  BY DEF Logs
<1> QED
  BY <1>3, <1>5, <1>6 DEF SessionInv, InOrder

-----------------------------------------------------------------------------
(* The invariant holds in the beginning and every action keeps it.         *)

(* The smaller of two numbers.                                             *)
LEMMA MinOfTwo ==
    ASSUME NEW x \in Nat, NEW y \in Nat
    PROVE  /\ Min({x, y}) \in {x, y} /\ Min({x, y}) <= x /\ Min({x, y}) <= y
<1>1. \E z \in {x, y} : \A w \in {x, y} : z <= w
  BY x <= y \/ y <= x
<1> QED
  BY <1>1 DEF Min

(* The sequence f with as much of g after it as the limit has room for.    *)
Filled(S, f, g, limit, all) ==
    /\ all \in Seq(S) /\ Len(all) <= limit
    /\ Len(f) < Len(all) /\ Len(all) <= Len(f) + Len(g)
    /\ Len(all) = limit \/ Len(all) = Len(f) + Len(g)
    /\ \A i \in 1..Len(f) : all[i] = f[i]
    /\ \A i \in 1..Len(all) : ~(i <= Len(f)) => all[i] = g[i - Len(f)]

(* What generate_events keeps of a session when it may reach its target.   *)
LEMMA CutAtLimit ==
    ASSUME NEW S, NEW f \in Seq(S), NEW g \in Seq(S), NEW limit \in Nat,
           Len(f) < limit, Len(g) > 0
    PROVE  Filled(S, f, g, limit, SubSeq(f \o g, 1, Min({Len(f \o g), limit})))
<1> DEFINE all == f \o g
           m == Min({Len(all), limit})
           cut == SubSeq(all, 1, m)
<1>1. /\ all \in Seq(S) /\ Len(all) = Len(f) + Len(g) /\ Len(f) \in Nat /\ Len(g) \in Nat
      /\ \A i \in 1..Len(f) + Len(g) : all[i] = IF i <= Len(f) THEN f[i] ELSE g[i - Len(f)]
  BY ConcatProperties
<1> HIDE DEF all
<1>2. /\ m \in {Len(all), limit} /\ m <= Len(all) /\ m <= limit /\ m \in Nat
      /\ Len(f) < m
  <2>1. Len(all) \in Nat
    BY <1>1
  <2>2. m \in {Len(all), limit} /\ m <= Len(all) /\ m <= limit
    BY <2>1, MinOfTwo
  <2> QED
    BY <1>1, <2>1, <2>2
<1> HIDE DEF m
<1>3. cut \in Seq(S) /\ Len(cut) = m /\ \A i \in 1..m : cut[i] = all[i]
  BY <1>1, <1>2, SubSeqProperties
<1> HIDE DEF cut
<1>4. \A i \in 1..Len(f) : cut[i] = f[i]
  <2> SUFFICES ASSUME NEW i \in 1..Len(f) PROVE cut[i] = f[i]
    OBVIOUS
  <2>1. i \in 1..m /\ i \in 1..Len(f) + Len(g) /\ i <= Len(f)
    BY <1>1, <1>2
  <2> QED
    BY <1>1, <1>3, <2>1
<1>5. \A i \in 1..m : ~(i <= Len(f)) => cut[i] = g[i - Len(f)]
  <2> SUFFICES ASSUME NEW i \in 1..m, ~(i <= Len(f)) PROVE cut[i] = g[i - Len(f)]
    OBVIOUS
  <2>1. i \in 1..Len(f) + Len(g)
    BY <1>1, <1>2
  <2> QED
    BY <1>1, <1>3, <2>1
<1>6. cut = SubSeq(f \o g, 1, Min({Len(f \o g), limit}))
  BY DEF cut, m, all
<1>7. Filled(S, f, g, limit, cut)
  BY <1>1, <1>2, <1>3, <1>4, <1>5 DEF Filled
<1> QED
  BY <1>6, <1>7

(* Nothing is emitted, put or labelled in the beginning.                   *)
LEMMA InitInv == Init => SessionInv
<1> SUFFICES ASSUME Init PROVE SessionInv
  OBVIOUS
<1>1. play.draws \in Seq(Draws) /\ Len(play.draws) \in Nat /\ play.target \in Nat
  BY PlaysAssumption DEF Init
<1>2. TypeOK
  BY <1>1 DEF Init, TypeOK
<1>3. Labelled = {}
  BY DEF Init, Labelled
<1>4. Blocks
  BY <1>1 DEF Init, Blocks
<1>5. InOrder
  BY <1>3 DEF Init, InOrder
<1>6. LabelsFromViews
  BY <1>3 DEF Init, LabelsFromViews
<1> QED
  BY <1>2, <1>4, <1>5, <1>6 DEF SessionInv

(* What a step that leaves the events alone leaves of the invariant.       *)
LEMMA SameEvents ==
    ASSUME UNCHANGED <<play, built, emitted>>
    PROVE  /\ Blocks => Blocks'
           /\ \A i : HourOf(i)' = HourOf(i)
           /\ \A n : Logs(n)' = Logs(n) /\ Duration(play.draws[n])' = Duration(play.draws[n])
           /\ \A S : View(S)' = View(S)
<1>1. \A n : BuildSession(n)' = BuildSession(n)
  BY DEF BuildSession
<1>2. \A n, b : Block(n, b)' <=> Block(n, b)
  BY <1>1 DEF Block
<1>3. Blocks => Blocks'
  BY <1>2 DEF Blocks
<1>4. \A i : HourOf(i)' = HourOf(i)
  BY DEF HourOf
<1>5. \A n : Logs(n)' = Logs(n) /\ Duration(play.draws[n])' = Duration(play.draws[n])
  BY DEF Logs
<1>6. \A S : View(S)' = View(S)
  BY DEF View
<1> QED
  BY <1>3, <1>4, <1>5, <1>6

(* A label stands while the events and the labels do.                      *)
LEMMA LabelStands ==
    ASSUME UNCHANGED <<play, built, emitted>>, uploaded \subseteq uploaded',
           NEW n, labels'[n] = labels[n], n \in whole' => n \in whole,
           NEW S, LabelOf(n, S)
    PROVE  LabelOf(n, S)'
<1>1. \A i : HourOf(i)' = HourOf(i)
  BY SameEvents
<1>2. Logs(n)' = Logs(n) /\ View(S)' = View(S)
  BY SameEvents
<1>3. \E i \in S : emitted'[i].eventid = Closing /\ HourOf(i)' \in uploaded'
  BY <1>1 DEF LabelOf
<1>4. labels'[n] = TechniqueLabel(View(S)', Duration(play'.draws[n]))
  BY <1>2 DEF LabelOf
<1>5. n \in whole' => S = Logs(n)'
  BY <1>2 DEF LabelOf
<1> QED
  BY <1>3, <1>4, <1>5 DEF LabelOf

(* A session is emitted after the earlier ones, perhaps cut at the target. *)
LEMMA GenerateKeepsInv == SessionInv /\ GenerateSession => SessionInv'
<1> SUFFICES ASSUME SessionInv, GenerateSession PROVE SessionInv'
  OBVIOUS
<1>0. PICK n \in Nat : n = built + 1
  BY PlaysAssumption DEF SessionInv, TypeOK
<1> DEFINE B == BuildSession(n)
           e == Len(emitted)
           all == Emit(B)
<1>1. /\ play \in Plays /\ play.draws \in Seq(Draws) /\ play.target \in Nat \ {0}
      /\ Len(play.draws) \in Nat /\ built \in Nat /\ e \in Nat
      /\ emitted \in Seq(Event) /\ DOMAIN emitted = 1..e
  BY PlaysAssumption DEF SessionInv, TypeOK
<1>2. /\ built < Len(play.draws) /\ e < play.target /\ phase = "generate"
      /\ built' = n /\ emitted' = all
      /\ UNCHANGED <<play, phase, uploaded, stored, labels, whole>>
  BY <1>0 DEF GenerateSession
<1>3. uploaded = {} /\ stored = {} /\ Labelled = {} /\ whole = {}
  BY <1>2 DEF SessionInv, InOrder, LabelsFromViews
<1>4. n \in DOMAIN play.draws /\ n \in Nat /\ n \in 1..Len(play.draws)
  BY <1>0, <1>1, <1>2
<1>5. /\ B \in Seq(Event) /\ Len(B) \in Nat /\ Len(B) > 0
      /\ \A k \in 1..Len(B) : B[k].session = n
  <2>1. Draw(n) \in Draws
    BY <1>1, <1>4, DrawsOf DEF Draw
  <2>2. Len(Draw(n).steps) \in Nat
    BY <2>1, StepsType
  <2>3. B = SessionEvents(n, Draw(n))
    BY DEF BuildSession, Draw
  <2> HIDE DEF B
  <2> QED
    BY <1>4, <2>1, <2>2, <2>3, SessionEventsAre
<1> HIDE DEF B
<1>6. Filled(Event, emitted, B, play.target, all)
  BY <1>1, <1>2, <1>5, CutAtLimit DEF Emit
<1> HIDE DEF all, e
<1>7. /\ all \in Seq(Event) /\ Len(all) <= play.target
      /\ e < Len(all) /\ Len(all) <= e + Len(B) /\ Len(all) \in Nat
      /\ DOMAIN all = 1..Len(all)
      /\ Len(all) = play.target \/ Len(all) = e + Len(B)
      /\ \A i \in 1..e : all[i] = emitted[i]
      /\ \A i \in 1..Len(all) : ~(i <= e) => all[i] = B[i - e]
  BY <1>6 DEF Filled, e
<1>size. /\ e \in Nat /\ Len(all) \in Nat /\ Len(B) \in Nat /\ built \in Nat /\ n = built + 1
         /\ e < Len(all) /\ Len(all) <= e + Len(B) /\ Len(B) > 0
  BY <1>0, <1>1, <1>5, <1>7
<1>8. \A i \in 1..e : emitted[i].session \in 1..built
  BY <1>1 DEF SessionInv, Blocks
<1>9. \A i \in 1..Len(all) : ~(i <= e) => all[i].session = n
  <2> SUFFICES ASSUME NEW i \in 1..Len(all), ~(i <= e) PROVE all[i].session = n
    OBVIOUS
  <2>1. i - e \in 1..Len(B)
    BY <1>size
  <2> QED
    BY <1>5, <1>7, <2>1
<1>10. TypeOK'
  <2>1. built' \in 0..Len(play'.draws)
    BY <1>0, <1>1, <1>2
  <2>2. stored' \subseteq DOMAIN emitted'
    BY <1>2, <1>3
  <2> QED
    BY <1>2, <1>7, <2>1, <2>2 DEF SessionInv, TypeOK
<1>11. \A m : BuildSession(m)' = BuildSession(m)
  BY <1>2 DEF BuildSession
<1>12. ASSUME NEW m \in 1..built PROVE \E b \in 0..Len(all) : Block(m, b)'
  <2>1. PICK b \in 0..e : Block(m, b)
    BY <1>12 DEF SessionInv, Blocks, e
  <2>2. /\ b + Len(BuildSession(m)) <= e
        /\ \A i \in 1..e : /\ emitted[i].session = m <=> b < i /\ i <= b + Len(BuildSession(m))
                           /\ emitted[i].session = m => emitted[i] = BuildSession(m)[i - b]
    BY <1>1, <1>2, <2>1 DEF Block, e
  <2>3. Len(BuildSession(m)) \in Nat /\ m # n
    <3>1. Len(BuildSession(m)) = Len(Draw(m).steps) + 4 /\ Len(Draw(m).steps) \in Nat
      BY <1>12, DrawType, SessionEventsAre DEF SessionInv
    <3> QED
      BY <1>size, <3>1
  <2>4. ASSUME NEW i \in 1..Len(all)
        PROVE  /\ all[i].session = m <=> b < i /\ i <= b + Len(BuildSession(m))
               /\ all[i].session = m => all[i] = BuildSession(m)[i - b]
    <3>1. CASE i <= e
      <4>0. i \in 1..e
        BY <1>size, <3>1
      <4>1. i \in 1..e /\ all[i] = emitted[i]
        BY <1>7, <4>0
      <4> QED
        BY <2>2, <4>1
    <3>2. CASE ~(i <= e)
      <4>1. all[i].session = n
        BY <1>9, <3>2
      <4>2. ~(i <= b + Len(BuildSession(m)))
        BY <1>size, <2>2, <2>3, <3>2
      <4> QED
        BY <2>3, <4>1, <4>2
    <3> QED
      BY <3>1, <3>2
  <2>5. b \in 0..Len(all) /\ b + Len(BuildSession(m)) <= Len(all)
    BY <1>size, <2>2, <2>3
  <2>6. Block(m, b)'
    BY <1>2, <1>7, <1>11, <2>4, <2>5 DEF Block
  <2> QED
    BY <2>5, <2>6
<1>13. \E b \in 0..Len(all) : Block(n, b)'
  <2>1. ASSUME NEW i \in 1..Len(all)
        PROVE  /\ all[i].session = n <=> e < i /\ i <= e + Len(B)
               /\ all[i].session = n => all[i] = B[i - e]
    <3>1. CASE i <= e
      <4>0. i \in 1..e
        BY <1>size, <3>1
      <4>1. i \in 1..e /\ all[i] = emitted[i]
        BY <1>7, <4>0
      <4>2. all[i].session # n
        <5>1. emitted[i].session \in 1..built
          BY <1>8, <4>1
        <5> QED
          BY <1>size, <4>1, <5>1
      <4> QED
        BY <1>1, <3>1, <4>2
    <3>2. CASE ~(i <= e)
      <4>1. all[i].session = n /\ all[i] = B[i - e]
        BY <1>7, <1>9, <3>2
      <4>2. e < i /\ i <= e + Len(B)
        BY <1>size, <3>2
      <4> QED
        BY <4>1, <4>2
    <3> QED
      BY <3>1, <3>2
  <2>2. e \in 0..Len(all)
    BY <1>size
  <2>3. e + Len(B) <= Len(all) \/ Len(all) = play.target
    BY <1>7
  <2>4. BuildSession(n)' = B
    BY <1>11 DEF B
  <2>5. PICK b \in 0..Len(all) : b = e
    BY <2>2
  <2>6. Block(n, b)'
    BY <1>2, <1>7, <2>1, <2>3, <2>4, <2>5 DEF Block
  <2> QED
    BY <2>6
<1>14. Blocks'
  <2>1. \A i \in 1..Len(all) : all[i].session \in 1..n
    <3> SUFFICES ASSUME NEW i \in 1..Len(all) PROVE all[i].session \in 1..n
      OBVIOUS
    <3>1. CASE i <= e
      <4>0. i \in 1..e
        BY <1>size, <3>1
      <4>1. i \in 1..e /\ all[i] = emitted[i]
        BY <1>7, <4>0
      <4>2. all[i].session \in 1..built
        BY <1>8, <4>1
      <4> QED
        BY <1>size, <4>2
    <3>2. CASE ~(i <= e)
      BY <1>size, <1>9, <3>2
    <3> QED
      BY <3>1, <3>2
  <2>2. \A m \in 1..n : m \in 1..built \/ m = n
    BY <1>size
  <2>3. \A m \in 1..n : \E b \in 0..Len(all) : Block(m, b)'
    BY <1>12, <1>13, <2>2
  <2> QED
    BY <1>2, <1>7, <2>1, <2>3 DEF Blocks
<1>15. Labelled' = {}
  BY <1>2, <1>3 DEF Labelled
<1>16. InOrder'
  BY <1>2, <1>3, <1>15 DEF InOrder
<1>17. LabelsFromViews'
  BY <1>2, <1>3, <1>15 DEF LabelsFromViews
<1> QED
  BY <1>10, <1>14, <1>16, <1>17 DEF SessionInv

(* Labels made from views stay so while the events do and nothing is       *)
(* labelled.                                                               *)
LEMMA LabelsStand ==
    ASSUME LabelsFromViews, UNCHANGED <<play, built, emitted, labels, whole>>,
           uploaded \subseteq uploaded'
    PROVE  LabelsFromViews'
<1>1. Labelled' = Labelled
  BY DEF Labelled
<1>2. ASSUME NEW n \in Labelled PROVE \E S \in SUBSET Logs(n)' : LabelOf(n, S)'
  <2>1. PICK S \in SUBSET Logs(n) : LabelOf(n, S)
    BY DEF LabelsFromViews
  <2>2. LabelOf(n, S)'
    BY <2>1, LabelStands
  <2>3. Logs(n)' = Logs(n)
    BY SameEvents
  <2> QED
    BY <2>1, <2>2, <2>3
<1> QED
  BY <1>1, <1>2 DEF LabelsFromViews

(* The end of the generation and a failing upload change the phase only.   *)
LEMMA PhaseKeepsInv ==
    ASSUME SessionInv, UNCHANGED <<play, built, emitted, uploaded, stored, labels, whole>>,
           phase' \in {"upload", "failed"}
    PROVE  SessionInv'
<1>1. TypeOK'
  BY DEF SessionInv, TypeOK
<1>2. Blocks'
  BY SameEvents DEF SessionInv
<1>3. \A i : HourOf(i)' = HourOf(i)
  BY SameEvents
<1>4. InOrder'
  BY <1>3 DEF SessionInv, InOrder
<1>5. LabelsFromViews'
  BY LabelsStand DEF SessionInv
<1> QED
  BY <1>1, <1>2, <1>4, <1>5 DEF SessionInv

(* The hour that is put is the first of those not put yet.                 *)
LEMMA UploadHourKeepsInv ==
    ASSUME SessionInv, NEW h \in Waiting, UploadHour(h)
    PROVE  SessionInv'
<1>1. /\ phase = "upload" /\ phase' \in {"upload", "done"}
      /\ uploaded' = uploaded \cup {h} /\ \A g \in Waiting : h <= g
      /\ UNCHANGED <<play, built, emitted, stored, labels, whole>>
  BY DEF UploadHour, NextHour
<1>2. TypeOK'
  BY <1>1 DEF SessionInv, TypeOK
<1>3. Blocks'
  BY <1>1, SameEvents DEF SessionInv
<1>4. \A i : HourOf(i)' = HourOf(i)
  BY <1>1, SameEvents
<1>5. \A i \in DOMAIN emitted : HourOf(i) \in Int
  <2>1. \A x \in Nat : x \div Hour \in Int
    BY DEF Hour
  <2>2. \A i \in DOMAIN emitted : emitted[i].ts \in Nat
    <3>1. emitted \in Seq(Event)
      BY DEF SessionInv, TypeOK
    <3>2. \A i \in DOMAIN emitted : emitted[i] \in Event
      BY <3>1
    <3> QED
      BY <3>2 DEF Event
  <2> QED
    BY <2>1, <2>2 DEF HourOf
<1>6. InOrder'
  <2>1. uploaded' \subseteq {HourOf(i)' : i \in DOMAIN emitted'}
    BY <1>1, <1>4 DEF SessionInv, InOrder, Waiting
  <2>2. ASSUME NEW g \in uploaded', NEW i \in DOMAIN emitted, HourOf(i) <= g
        PROVE  HourOf(i) \in uploaded'
    <3>1. CASE g \in uploaded
      BY <1>1, <2>2, <3>1 DEF SessionInv, InOrder
    <3>2. CASE g = h
      <4> SUFFICES ASSUME HourOf(i) \notin uploaded PROVE HourOf(i) = h
        BY <1>1
      <4>1. HourOf(i) \in Waiting
        BY DEF Waiting
      <4>2. h <= HourOf(i)
        BY <1>1, <4>1
      <4>3. h \in Int
        BY <1>5 DEF Waiting
      <4> QED
        BY <1>5, <2>2, <3>2, <4>2, <4>3
    <3> QED
      BY <1>1, <3>1, <3>2
  <2>3. \A i \in stored' : HourOf(i)' \in uploaded'
    BY <1>1, <1>4 DEF SessionInv, InOrder
  <2>4. phase' # "generate"
    BY <1>1
  <2> QED
    BY <1>1, <1>4, <2>1, <2>2, <2>3, <2>4 DEF InOrder
<1>7. LabelsFromViews'
  BY <1>1, LabelsStand DEF SessionInv
<1> QED
  BY <1>2, <1>3, <1>6, <1>7 DEF SessionInv

(* An event is stored once its hour is in the bucket.                      *)
LEMMA StoreEventKeepsInv ==
    ASSUME SessionInv, NEW i \in DOMAIN emitted, StoreEvent(i)
    PROVE  SessionInv'
<1>1. /\ HourOf(i) \in uploaded /\ stored' = stored \cup {i}
      /\ UNCHANGED <<play, built, emitted, phase, uploaded, labels, whole>>
  BY DEF StoreEvent
<1>2. TypeOK'
  BY <1>1 DEF SessionInv, TypeOK
<1>3. Blocks'
  BY <1>1, SameEvents DEF SessionInv
<1>4. \A k : HourOf(k)' = HourOf(k)
  BY <1>1, SameEvents
<1>5. phase # "generate"
  BY <1>1 DEF SessionInv, InOrder
<1>6. InOrder'
  BY <1>1, <1>4, <1>5 DEF SessionInv, InOrder
<1>7. LabelsFromViews'
  BY <1>1, LabelsStand DEF SessionInv
<1> QED
  BY <1>2, <1>3, <1>6, <1>7 DEF SessionInv

(* A label is never "none".                                                *)
LEMMA LabelIsSome ==
    ASSUME NEW view, NEW duration
    PROVE  TechniqueLabel(view, duration) # "none"
  BY DEF TechniqueLabel

(* The label comes from what is stored, the closing event among it.        *)
LEMMA ClassifySessionKeepsInv ==
    ASSUME SessionInv, NEW n \in DOMAIN labels, ClassifySession(n)
    PROVE  SessionInv'
<1> DEFINE S == Logs(n) \cap stored
           label == TechniqueLabel(View(S), Duration(play.draws[n]))
<1>1. /\ labels[n] = "none" /\ \E i \in S : emitted[i].eventid = Closing
      /\ labels' = [labels EXCEPT ![n] = label]
      /\ whole' = IF Logs(n) \subseteq stored THEN whole \cup {n} ELSE whole
      /\ UNCHANGED <<play, built, emitted, phase, uploaded, stored>>
  BY DEF ClassifySession
<1>2. TypeOK'
  BY <1>1 DEF SessionInv, TypeOK
<1>3. Blocks'
  BY <1>1, SameEvents DEF SessionInv
<1>4. /\ \A k : HourOf(k)' = HourOf(k)
      /\ \A m : Logs(m)' = Logs(m) /\ Duration(play.draws[m])' = Duration(play.draws[m])
      /\ \A T : View(T)' = View(T)
  BY <1>1, SameEvents
<1>5. stored # {} /\ phase # "generate"
  BY <1>1 DEF SessionInv, InOrder
<1>6. InOrder'
  BY <1>1, <1>4, <1>5 DEF SessionInv, InOrder
<1>7. label # "none"
  BY LabelIsSome
<1>8. LabelOf(n, S)'
  <2>1. \E i \in S : emitted'[i].eventid = Closing /\ HourOf(i)' \in uploaded'
    BY <1>1, <1>4 DEF SessionInv, InOrder
  <2>2. labels'[n] = label
    BY <1>1
  <2>3. n \notin whole
    BY <1>1 DEF SessionInv, LabelsFromViews, Labelled
  <2>4. n \in whole' => S = Logs(n)
    BY <1>1, <2>3
  <2>5. PICK T : T = S
    OBVIOUS
  <2>6. \E i \in T : emitted'[i].eventid = Closing /\ HourOf(i)' \in uploaded'
    BY <2>1, <2>5
  <2>7. labels'[n] = TechniqueLabel(View(T), Duration(play.draws[n]))
    BY <2>2, <2>5
  <2>8. n \in whole' => T = Logs(n)
    BY <2>4, <2>5
  <2>9. labels'[n] = TechniqueLabel(View(T)', Duration(play'.draws[n]))
    BY <1>1, <1>4, <2>7
  <2>10. S' = S
    BY <1>1, <1>4
  <2>11. LabelOf(n, T)'
    BY <1>4, <2>6, <2>8, <2>9 DEF LabelOf
  <2> QED
    BY <2>5, <2>10, <2>11 DEF LabelOf
<1>9. ASSUME NEW m \in Labelled PROVE \E T \in SUBSET Logs(m) : LabelOf(m, T)'
  <2>1. m # n
    BY <1>1 DEF Labelled
  <2>2. PICK T \in SUBSET Logs(m) : LabelOf(m, T)
    BY DEF SessionInv, LabelsFromViews
  <2>3. labels'[m] = labels[m] /\ (m \in whole' => m \in whole)
    BY <1>1, <2>1 DEF Labelled
  <2>4. LabelOf(m, T)'
    BY <1>1, <2>2, <2>3, LabelStands
  <2> QED
    BY <2>2, <2>4
<1>10. Labelled' = Labelled \cup {n}
  <2>1. DOMAIN labels' = DOMAIN labels
    BY <1>1
  <2>2. labels'[n] = label /\ \A m \in DOMAIN labels \ {n} : labels'[m] = labels[m]
    BY <1>1
  <2> HIDE DEF label
  <2> QED
    BY <1>7, <2>1, <2>2 DEF Labelled
<1>11. LabelsFromViews'
  <2>1. whole' \subseteq Labelled'
    BY <1>1, <1>10 DEF SessionInv, LabelsFromViews
  <2>2. \A m \in Labelled' : \E T \in SUBSET Logs(m)' : LabelOf(m, T)'
    <3> SUFFICES ASSUME NEW m \in Labelled' PROVE \E T \in SUBSET Logs(m)' : LabelOf(m, T)'
      OBVIOUS
    <3>1. CASE m \in Labelled
      BY <1>4, <1>9, <3>1
    <3>2. CASE m = n
      <4>1. PICK T : T = S
        OBVIOUS
      <4>2. S' = S
        BY <1>1, <1>4
      <4>3. LabelOf(n, T)'
        BY <1>8, <4>1, <4>2 DEF LabelOf
      <4>4. T \in SUBSET Logs(n)
        BY <4>1
      <4> QED
        BY <1>4, <3>2, <4>3, <4>4
    <3> QED
      BY <1>10, <3>1, <3>2
  <2> QED
    BY <2>1, <2>2 DEF LabelsFromViews
<1> QED
  BY <1>2, <1>3, <1>6, <1>11 DEF SessionInv

(* Every step keeps the invariant.                                         *)
LEMMA NextKeepsInv == SessionInv /\ [Next]_vars => SessionInv'
<1> SUFFICES ASSUME SessionInv, [Next]_vars PROVE SessionInv'
  OBVIOUS
<1>1. CASE GenerateSession
  BY <1>1, GenerateKeepsInv
<1>2. CASE FinishGenerating
  BY <1>2, PhaseKeepsInv DEF FinishGenerating
<1>3. ASSUME NEW h \in Waiting, UploadHour(h) PROVE SessionInv'
  BY <1>3, UploadHourKeepsInv
<1>4. CASE UploadFails
  BY <1>4, PhaseKeepsInv DEF UploadFails
<1>5. ASSUME NEW i \in DOMAIN emitted, StoreEvent(i) PROVE SessionInv'
  BY <1>5, StoreEventKeepsInv
<1>6. ASSUME NEW n \in DOMAIN labels, ClassifySession(n) PROVE SessionInv'
  BY <1>6, ClassifySessionKeepsInv
<1>7. CASE UNCHANGED vars
  <2>1. UNCHANGED <<play, built, emitted, phase, uploaded, stored, labels, whole>>
    BY <1>7 DEF vars
  <2>2. TypeOK'
    BY <2>1 DEF SessionInv, TypeOK
  <2>3. Blocks' /\ \A i : HourOf(i)' = HourOf(i)
    BY <2>1, SameEvents DEF SessionInv
  <2>4. Labelled' = Labelled
    BY <2>1 DEF Labelled
  <2>5. InOrder'
    BY <2>1, <2>3, <2>4 DEF SessionInv, InOrder
  <2>6. LabelsFromViews'
    BY <2>1, LabelsStand DEF SessionInv
  <2> QED
    BY <2>2, <2>3, <2>5, <2>6 DEF SessionInv
<1> QED
  BY <1>1, <1>2, <1>3, <1>4, <1>5, <1>6, <1>7 DEF Next

(* The inductive invariant: the events of a session stand together, the    *)
(* hours are put in order, and every label is that of a view with the      *)
(* closing event.                                                          *)
THEOREM SessionInvariant == Spec => []SessionInv
<1>1. Init => SessionInv
  BY InitInv
<1>2. SessionInv /\ [Next]_vars => SessionInv'
  BY NextKeepsInv
<1> QED
  BY <1>1, <1>2, PTL DEF Spec

(* A session whose events were all stored when it was labelled is counted  *)
(* as what it was generated as, for every run of the random number         *)
(* generator and every order in which its events are put and stored.       *)
THEOREM CohortsAreCounted == Spec => []CohortCounted
  BY SessionInvariant, Counted, PTL

(* What the order of arrival can do to the label of a session that is      *)
(* classified before all of it is stored, for every run of the generator.  *)
THEOREM MislabelsAreExplained == Spec => []MislabelsExplained
  BY SessionInvariant, Explained, PTL

(* An upload that fails between two hours leaves no session labelled whose *)
(* attempts were not all uploaded, for every run of the generator.         *)
THEOREM HalfUploadsUnlabelled == Spec => []NoLabelFromHalfUpload
  BY SessionInvariant, HalfUploads, PTL

=============================================================================
