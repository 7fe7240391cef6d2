------------------------- MODULE SyntheticSessions -------------------------
(***************************************************************************)
(* Generated sessions on their way to a technique counter                  *)
(* (dashboard/tools/synthetic_data_generator.py with --upload-s3): the     *)
(* generator builds sessions of four cohorts until it has emitted enough   *)
(* events, puts them into S3 hour by hour, ingest stores what has been     *)
(* put, and the aggregator labels a session as soon as it gets to its      *)
(* closing event, from the items stored by then.                           *)
(*                                                                         *)
(* The random numbers of a run are its `play`: how many events to emit and *)
(* the draws of each session, of which Possible says what the generator    *)
(* can draw.  Times are in milliseconds.  Objects of one hour and objects  *)
(* of several are stored concurrently, so items appear in any order; a     *)
(* query that lags behind the table is one made earlier.                   *)
(***************************************************************************)
EXTENDS SessionTechnique, Sequences, FiniteSetsExt

CONSTANTS
    Name,      \* usernames
    Plays      \* possible runs of the random number generator

VARIABLES
    play,      \* the run's random numbers
    built,     \* sessions built
    emitted,   \* the events of generate_events, in the order of emission
    phase,     \* "generate", "upload", "done" or "failed"
    uploaded,  \* hours whose object is in the bucket
    stored,    \* indices of the emitted events that are in the table
    labels,    \* technique counted for a session, or "none"
    whole      \* sessions all of whose events were stored when labelled

vars == <<play, built, emitted, phase, uploaded, stored, labels, whole>>

Hour == 3600000

Connect  == "cowrie.session.connect"
Version  == "cowrie.client.version"
Kex      == "cowrie.client.kex"
Command  == "cowrie.command.input"
Download == "cowrie.session.file_download"
Closing  == "cowrie.session.closed"
EventId  == {Connect, Version, Kex, LoginFailed, LoginSuccess, Command, Download, Closing}

-----------------------------------------------------------------------------
(* One session *)

\* A login, a command or a download, `at` milliseconds after the handshake.
Step == [at : Nat, eventid : {LoginFailed, LoginSuccess, Command, Download},
         name : Name \cup {NoName}]

\* What is drawn for a session: its start, the gaps of its handshake, its
\* steps, and the rest of its duration after the last step.
Draws == [cohort : {"scanner", "brute_force", "credential_stuffing", "interesting"},
          start : Nat, version : Nat, kex : Nat, ready : Nat, steps : Seq(Step), rest : Nat]

\* When the i-th step happens; step 0 is the end of the handshake.
StepTs(d, i) ==
    d.start + d.version + d.kex + d.ready + (IF i = 0 THEN 0 ELSE d.steps[i].at)

LastTs(d) == StepTs(d, Len(d.steps))

\* What is drawn before the i-th step.
Gap(d, i) == StepTs(d, i) - StepTs(d, i - 1)

\* randint or uniform, of milliseconds or of a number of attempts.
Drawn(x, low, high) == x \in low..high

Attempts(d, first, last, low, high) ==
    /\ Drawn(Len(d.steps), first, last)
    /\ \A i \in DOMAIN d.steps :
          /\ Drawn(Gap(d, i), low, high)
          /\ d.steps[i].eventid \in {LoginFailed, LoginSuccess}
          /\ d.steps[i].name \in Name

\* The draws that _build_session can make.
Possible(d) ==
    /\ Drawn(d.version, 50, 250) /\ Drawn(d.kex, 20, 150) /\ Drawn(d.ready, 50, 300)
    /\ \/ d.cohort = "scanner" /\ d.steps = <<>> /\ Drawn(d.rest, 300, 1800)
       \/ /\ d.cohort = "brute_force"
          /\ Attempts(d, 10, 200, 150, 1200)
          /\ \A i \in DOMAIN d.steps : /\ d.steps[i].eventid = LoginFailed
                                       /\ d.steps[i].name = d.steps[1].name
          /\ Drawn(d.rest, 100, 1000)
       \/ /\ d.cohort = "credential_stuffing"
          /\ Attempts(d, 5, 30, 200, 2500)
          /\ Cardinality({i \in DOMAIN d.steps : d.steps[i].eventid = LoginSuccess}) <= 2
          /\ Drawn(d.rest, 500, 5000)
       \/ /\ d.cohort = "interesting"
          /\ Drawn(Len(d.steps), 4, 10)
          /\ d.steps[1].eventid = LoginSuccess /\ d.steps[1].name \in Name
          /\ Drawn(Gap(d, 1), 300, 1500)
          /\ \A i \in 2..Len(d.steps) :
                /\ d.steps[i].name = NoName
                /\ \/ d.steps[i].eventid = Command /\ Drawn(Gap(d, i), 500, 6000)
                   \/ /\ i = Len(d.steps) /\ d.steps[i].eventid = Download
                      /\ Drawn(Gap(d, i), 500, 3000)
          /\ Drawn(d.rest, 2000, 30000)

ASSUME PlaysAssumption ==
    /\ NoName \notin Name
    /\ Plays \subseteq [target : Nat \ {0}, draws : Seq(Draws)]
    /\ \A p \in Plays : \A n \in DOMAIN p.draws : Possible(p.draws[n])

Tenths(ms) == (ms + 50) \div 100

Duration_FromHandshake(d) == Tenths(LastTs(d) - d.start + d.rest)

Duration_Missing(d) == 0

\* A scanner's session lasts what was drawn, whatever its handshake took.
Duration(d) ==
    Tenths(IF d.cohort = "scanner" THEN d.rest ELSE LastTs(d) - d.start + d.rest)

ClosedTs(d) == IF d.cohort = "scanner" THEN d.start + d.rest ELSE LastTs(d) + 500

LogEvent(n, ts, eventid, name) ==
    [ts |-> ts, eventid |-> eventid, name |-> name, session |-> n]

\* The events of _build_session for the n-th session.
Handshake(n, d) ==
    <<LogEvent(n, d.start, Connect, NoName),
      LogEvent(n, d.start + d.version, Version, NoName),
      LogEvent(n, d.start + d.version + d.kex, Kex, NoName)>>

StepEvents(n, d) ==
    [i \in DOMAIN d.steps |-> LogEvent(n, StepTs(d, i), d.steps[i].eventid, d.steps[i].name)]

SessionEvents(n, d) ==
    Handshake(n, d) \o StepEvents(n, d) \o <<LogEvent(n, ClosedTs(d), Closing, NoName)>>

BuildSession(n) == SessionEvents(n, play.draws[n])

-----------------------------------------------------------------------------
(* generate_events and upload_to_s3 *)

Init ==
    /\ play \in Plays
    /\ built = 0
    /\ emitted = <<>>
    /\ phase = "generate"
    /\ uploaded = {}
    /\ stored = {}
    /\ labels = [n \in DOMAIN play.draws |-> "none"]
    /\ whole = {}

\* The target may be reached in the middle of a session.
Emit(events) ==
    LET all == emitted \o events
    IN  SubSeq(all, 1, Min({Len(all), play.target}))

GenerateSession ==
    /\ phase = "generate"
    /\ Len(emitted) < play.target
    /\ built < Len(play.draws)
    /\ built' = built + 1
    /\ emitted' = Emit(BuildSession(built + 1))
    /\ UNCHANGED <<play, phase, uploaded, stored, labels, whole>>

FinishGenerating ==
    /\ phase = "generate"
    /\ Len(emitted) = play.target
    /\ phase' = "upload"
    /\ UNCHANGED <<play, built, emitted, uploaded, stored, labels, whole>>

HourOf(i) == emitted[i].ts \div Hour

Waiting == {HourOf(i) : i \in DOMAIN emitted} \ uploaded

NextHour_Any(h) == h \in Waiting

\* The hours are put in order, each when the one before it has been put.
NextHour(h) == h \in Waiting /\ \A g \in Waiting : h <= g

UploadHour(h) ==
    /\ phase = "upload"
    /\ NextHour(h)
    /\ uploaded' = uploaded \cup {h}
    /\ phase' = IF Waiting = {h} THEN "done" ELSE "upload"
    /\ UNCHANGED <<play, built, emitted, stored, labels, whole>>

\* put_object raises, and nothing after it is put.
UploadFails ==
    /\ phase = "upload"
    /\ phase' = "failed"
    /\ UNCHANGED <<play, built, emitted, uploaded, stored, labels, whole>>

-----------------------------------------------------------------------------
(* Ingest and aggregator *)

StoreEvent(i) ==
    /\ HourOf(i) \in uploaded
    /\ i \notin stored
    /\ stored' = stored \cup {i}
    /\ UNCHANGED <<play, built, emitted, phase, uploaded, labels, whole>>

Logs(n) == {i \in DOMAIN emitted : emitted[i].session = n}

View(S) == [i \in S |-> emitted[i]]

\* The summary is made from what is stored, whether or not that is all.
ClassifySession(n) ==
    /\ labels[n] = "none"
    /\ \E i \in Logs(n) \cap stored : emitted[i].eventid = Closing
    /\ labels' = [labels EXCEPT ![n] =
          TechniqueLabel(View(Logs(n) \cap stored), Duration(play.draws[n]))]
    /\ whole' = IF Logs(n) \subseteq stored THEN whole \cup {n} ELSE whole
    /\ UNCHANGED <<play, built, emitted, phase, uploaded, stored>>

Next ==
    \/ GenerateSession
    \/ FinishGenerating
    \/ \E h \in Waiting : UploadHour(h)
    \/ UploadFails
    \/ \E i \in DOMAIN emitted : StoreEvent(i)
    \/ \E n \in DOMAIN labels : ClassifySession(n)

Spec == Init /\ [][Next]_vars

-----------------------------------------------------------------------------
(* Properties *)

Labelled == {n \in DOMAIN labels : labels[n] # "none"}

Cohort(n) == play.draws[n].cohort

NamesTried(n) == {play.draws[n].steps[i].name : i \in DOMAIN play.draws[n].steps}

\* A session that was stored whole is counted as what it was generated as:
\* the shortest brute force and the longest scanner fall on the right side
\* of the classifier's limits, and credential stuffing is recognised exactly
\* when it tried ten names.
CohortCounted ==
    \A n \in whole :
        CASE Cohort(n) = "interesting" -> labels[n] = "other"
          [] Cohort(n) = "credential_stuffing" ->
                labels[n] = "credential_stuffing" <=> Cardinality(NamesTried(n)) >= 10
          [] OTHER -> labels[n] = Cohort(n)

\* What the order of arrival can do to a session that is labelled early:
\* scanners and sessions with commands are labelled as if seen whole; nothing
\* is taken for credential stuffing that is not; only a session shorter than
\* two seconds is taken for a scanner, and only five failures with one name
\* for brute force.
MislabelsExplained ==
    \A n \in Labelled :
        /\ Cohort(n) = "scanner" => labels[n] = "scanner"
        /\ Cohort(n) = "interesting" => labels[n] = "other"
        /\ labels[n] = "credential_stuffing" => Cohort(n) = "credential_stuffing"
        /\ labels[n] = "scanner" => Duration(play.draws[n]) < 20
        /\ labels[n] = "brute_force" =>
              \E name \in NamesTried(n) :
                  Cardinality({i \in Logs(n) : emitted[i].name = name
                                               /\ emitted[i].eventid = LoginFailed}) >= 5

\* An upload that fails between two hours leaves no session labelled whose
\* attempts were not all uploaded: the closing event comes after them, and
\* the hours are put in order.
NoLabelFromHalfUpload ==
    \A n \in Labelled : \A i \in Logs(n) :
        emitted[i].name # NoName => HourOf(i) \in uploaded

-----------------------------------------------------------------------------
(***************************************************************************)
(* The inductive invariant.  The events of a session stand together, the   *)
(* last session's perhaps cut; nothing is put before all is emitted, and   *)
(* of the hours with events those put are the first ones; a label is that  *)
(* of some view with the closing event, of all the session if `whole` says *)
(* so.                                                                     *)
(***************************************************************************)
Event == [ts : Nat, eventid : EventId, name : Name \cup {NoName}, session : Nat]

TypeOK ==
    /\ play \in Plays
    /\ built \in 0..Len(play.draws)
    /\ emitted \in Seq(Event)
    /\ phase \in {"generate", "upload", "done", "failed"}
    /\ stored \subseteq DOMAIN emitted
    /\ DOMAIN labels = DOMAIN play.draws

\* The n-th session's events stand after the first b.
Block(n, b) ==
    /\ b + Len(BuildSession(n)) <= Len(emitted) \/ Len(emitted) = play.target
    /\ \A i \in DOMAIN emitted :
          /\ emitted[i].session = n <=> b < i /\ i <= b + Len(BuildSession(n))
          /\ emitted[i].session = n => emitted[i] = BuildSession(n)[i - b]

Blocks ==
    /\ Len(emitted) <= play.target
    /\ \A i \in DOMAIN emitted : emitted[i].session \in 1..built
    /\ \A n \in 1..built : \E b \in 0..Len(emitted) : Block(n, b)

InOrder ==
    /\ phase = "generate" => uploaded = {} /\ stored = {} /\ Labelled = {}
    /\ uploaded \subseteq {HourOf(i) : i \in DOMAIN emitted}
    /\ \A i \in stored : HourOf(i) \in uploaded
    /\ \A h \in uploaded : \A i \in DOMAIN emitted : HourOf(i) <= h => HourOf(i) \in uploaded

LabelOf(n, S) ==
    /\ \E i \in S : emitted[i].eventid = Closing /\ HourOf(i) \in uploaded
    /\ labels[n] = TechniqueLabel(View(S), Duration(play.draws[n]))
    /\ n \in whole => S = Logs(n)

LabelsFromViews ==
    /\ whole \subseteq Labelled
    /\ \A n \in Labelled : \E S \in SUBSET Logs(n) : LabelOf(n, S)

SessionInv == TypeOK /\ Blocks /\ InOrder /\ LabelsFromViews

=============================================================================
