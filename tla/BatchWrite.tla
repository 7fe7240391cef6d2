----------------------------- MODULE BatchWrite -----------------------------
(***************************************************************************)
(* An invocation of the ingest Lambda seen from the batch writer           *)
(* (dashboard/functions/ingest/handler.py): handler takes the records of a *)
(* notification in order, reads each object, drops the lines that fail     *)
(* validation and hands the others to _batch_write_with_retries, which     *)
(* puts them in chunks and waits, longer each time, for what the table     *)
(* leaves unprocessed.  Module Correlation has what happens to an item     *)
(* before it is written; here an item is the line it comes from.           *)
(*                                                                         *)
(* Time is counted in tenths of a second and passes in the waits: a call   *)
(* takes none, which can only let an invocation get further.               *)
(***************************************************************************)
EXTENDS Integers, Sequences, FiniteSets

CONSTANTS
    Line,            \* log lines
    NoLine,          \* "not in the table"
    Key,             \* keys of the table, pk and sk
    KeyOf,           \* [Line -> Key]
    Verdict,         \* [Line -> {"valid", "invalid", "broken"}]
    Object,          \* S3 objects
    Lines,           \* [Object -> Seq(Line)]
    Malformed,       \* a record without bucket or key
    Notification,    \* what may be delivered: Seq(Object \cup {Malformed})
    ChunkSize,       \* 25
    MaxRetries,      \* 10
    BackoffCap,      \* 30 s
    TimeLimit,       \* the function's, 60 s
    MaxDeliveries    \* invocations of one notification before the DLQ

ASSUME NotificationAssumption ==
    /\ NoLine \notin Line
    /\ KeyOf \in [Line -> Key]
    /\ Verdict \in [Line -> {"valid", "invalid", "broken"}]
    /\ Lines \in [Object -> Seq(Line)]
    /\ Malformed \notin Object
    /\ Notification \subseteq Seq(Object \cup {Malformed})

ASSUME LimitAssumption ==
    /\ ChunkSize \in Nat \ {0}
    /\ MaxRetries \in Nat
    /\ BackoffCap \in Nat /\ TimeLimit \in Nat
    /\ MaxDeliveries \in Nat \ {0}

VARIABLES
    records,     \* the notification, the same on each delivery
    table,       \* [Key -> Line \cup {NoLine}]
    pc,
    deliveries,  \* invocations begun
    acked,       \* history: an invocation has returned
    rec,         \* the record handler is at
    next,        \* the line the next chunk begins at
    request,     \* the lines of the chunk still to be accepted, by number
    attempts,    \* calls made for the chunk
    backoff,     \* the next wait
    clock,       \* time the invocation has taken
    written,     \* items of the object accepted
    totals       \* what handler returns

vars == <<records, table, pc, deliveries, acked, rec, next, request, attempts,
          backoff, clock, written, totals>>

chunkVars == <<next, request, attempts, backoff>>
localVars == <<rec, chunkVars, clock, written, totals>>

Zero == [objects |-> 0, validated |-> 0, written |-> 0, errors |-> 0]

-----------------------------------------------------------------------------
(* The lines of an object *)

LinesWith(o, v) == {i \in DOMAIN Lines[o] : Verdict[Lines[o][i]] = v}

ValidLines(o) == LinesWith(o, "valid")

KeyAt(o, i) == KeyOf[Lines[o][i]]

\* _chunked: the next ChunkSize items from line n on.
Chunk(o, n) ==
    {i \in ValidLines(o) :
        i >= n /\ Cardinality({j \in ValidLines(o) : n <= j /\ j < i}) < ChunkSize}

\* The line after the chunk's last.
PastChunk(o, n) ==
    IF Chunk(o, n) = {} THEN n
    ELSE 1 + CHOOSE i \in Chunk(o, n) : \A j \in Chunk(o, n) : j <= i

\* BatchWriteItem refuses a request with two items of one key.
KeysDiffer(o, request_) ==
    \A i, j \in request_ : KeyAt(o, i) = KeyAt(o, j) => i = j

\* The object the loop is at.
Current == records[rec]

-----------------------------------------------------------------------------

Init ==
    /\ records \in Notification
    /\ table = [k \in Key |-> NoLine]
    /\ pc = "waiting"
    /\ deliveries = 0
    /\ acked = FALSE
    /\ rec = 1 /\ next = 1 /\ request = {} /\ attempts = 0 /\ backoff = 1
    /\ clock = 0 /\ written = 0
    /\ totals = Zero

Deliver ==
    /\ pc = "waiting"
    /\ deliveries < MaxDeliveries
    /\ deliveries' = deliveries + 1
    /\ pc' = "record"
    /\ UNCHANGED <<records, table, acked, localVars>>

Forget ==
    /\ rec' = 1 /\ next' = 1 /\ request' = {} /\ attempts' = 0 /\ backoff' = 1
    /\ clock' = 0 /\ written' = 0
    /\ totals' = Zero

\* An asynchronous invocation may be delivered again after it succeeded.
DeliverAgain ==
    /\ pc = "done"
    /\ deliveries < MaxDeliveries
    /\ pc' = "waiting"
    /\ Forget
    /\ UNCHANGED <<records, table, deliveries, acked>>

\* Mutant: no dead-letter queue.
AfterFailure_Lost == "waiting"

AfterFailure == IF deliveries < MaxDeliveries THEN "waiting" ELSE "dead"

\* An exception or the time limit: the notification is retried or dead.
Raise ==
    /\ pc' = AfterFailure
    /\ Forget
    /\ UNCHANGED <<deliveries, acked>>

\* "malformed_event_record"
SkipRecord ==
    /\ pc = "record"
    /\ rec <= Len(records)
    /\ Current = Malformed
    /\ rec' = rec + 1
    /\ UNCHANGED <<records, table, pc, deliveries, acked, chunkVars, clock, written, totals>>

\* The first call of the chunk that begins at line n, or the end of the loop.
BeginChunk(o, n) ==
    /\ next' = n
    /\ request' = Chunk(o, n)
    /\ attempts' = 0
    /\ backoff' = 1
    /\ pc' = IF Chunk(o, n) = {} THEN "object" ELSE "call"

\* Mutant: a line that cannot be parsed is passed over.
Parses_Always(o) == TRUE

Parses(o) == LinesWith(o, "broken") = {}

\* json.loads raises on a line that is not JSON, before anything is written.
ReadObject ==
    /\ pc = "record"
    /\ rec <= Len(records)
    /\ Current # Malformed
    /\ \/ /\ ~Parses(Current)
          /\ Raise
       \/ /\ Parses(Current)
          /\ BeginChunk(Current, 1)
          /\ written' = 0
          /\ UNCHANGED <<deliveries, acked, rec, clock, totals>>
    /\ UNCHANGED <<records, table>>

\* What _process_object returns is added to the totals.
FinishObject ==
    /\ pc = "object"
    /\ totals' = [objects   |-> totals.objects + 1,
                  validated |-> totals.validated + Cardinality(ValidLines(Current)),
                  written   |-> totals.written + written,
                  errors    |-> totals.errors + Cardinality(LinesWith(Current, "invalid"))]
    /\ rec' = rec + 1
    /\ pc' = "record"
    /\ UNCHANGED <<records, table, deliveries, acked, chunkVars, clock, written>>

\* Mutant: the wait does not grow.
Doubled_Constant(b) == b

Doubled(b) == 2 * b

Wait == IF backoff < BackoffCap THEN backoff ELSE BackoffCap

OutOfTime == clock + Wait > TimeLimit

\* Ask again for `rest` after a wait, unless the retries or the time are up.
Retry(rest, accepted) ==
    IF attempts + 1 > MaxRetries \/ OutOfTime
    THEN Raise
    ELSE /\ request' = rest
         /\ attempts' = attempts + 1
         /\ clock' = clock + Wait
         /\ backoff' = Doubled(backoff)
         /\ written' = written + accepted
         /\ UNCHANGED <<pc, deliveries, acked, rec, next, totals>>

\* Mutant: `chunk` is not cut down to what is left.
Accepted_OfChunk(rest) == Cardinality(Chunk(Current, next)) - Cardinality(rest)

Accepted(rest) == Cardinality(request) - Cardinality(rest)

\* Mutant: UnprocessedItems is not looked at.
Unprocessed_Ignored(rest) == {}

Unprocessed(rest) == rest

\* What the table is like once it holds the lines `done` of an object.
WithLines(o, done) ==
    [k \in Key |->
        IF \E i \in done : KeyAt(o, i) = k
        THEN Lines[o][CHOOSE i \in done : KeyAt(o, i) = k]
        ELSE table[k]]

\* The table takes some of the items and gives back the others.
BatchWriteItem ==
    /\ pc = "call"
    /\ KeysDiffer(Current, request)
    /\ \E rest \in SUBSET request :
          /\ table' = WithLines(Current, request \ rest)
          /\ \/ /\ Unprocessed(rest) = {}
                /\ written' = written + Accepted(rest)
                /\ BeginChunk(Current, PastChunk(Current, next))
                /\ UNCHANGED <<deliveries, acked, rec, clock, totals>>
             \/ /\ Unprocessed(rest) # {}
                /\ Retry(rest, Accepted(rest))
    /\ UNCHANGED records

\* A throttled call has put nothing; the same request is sent again.
Throttled ==
    /\ pc = "call"
    /\ KeysDiffer(Current, request)
    /\ Retry(request, 0)
    /\ UNCHANGED <<records, table>>

\* ValidationException, on this delivery and every other.
Rejected ==
    /\ pc = "call"
    /\ ~KeysDiffer(Current, request)
    /\ Raise
    /\ UNCHANGED <<records, table>>

Return ==
    /\ pc = "record"
    /\ rec > Len(records)
    /\ pc' = "done"
    /\ acked' = TRUE
    /\ UNCHANGED <<records, table, deliveries, localVars>>

\* Any other error of a call, or the end of the process.
Crash ==
    /\ pc \in {"record", "call", "object"}
    /\ Raise
    /\ UNCHANGED <<records, table>>

Step ==
    \/ Deliver \/ SkipRecord \/ ReadObject \/ FinishObject \/ BatchWriteItem
    \/ Throttled \/ Rejected \/ Return

Next == Step \/ DeliverAgain \/ Crash

Spec == Init /\ [][Next]_vars

\* Lambda runs a delivery it has accepted, retries one that failed, and a
\* call of the table answers.
FairSpec == Spec /\ WF_vars(Step)

-----------------------------------------------------------------------------
(* Properties *)

TypeOK ==
    /\ records \in Notification
    /\ table \in [Key -> Line \cup {NoLine}]
    /\ pc \in {"waiting", "record", "call", "object", "done", "dead"}
    /\ deliveries \in 0 .. MaxDeliveries
    /\ acked \in BOOLEAN
    /\ rec \in Nat \ {0} /\ next \in Nat \ {0}
    /\ request \in SUBSET Nat
    /\ attempts \in 0 .. MaxRetries
    /\ backoff \in Nat /\ clock \in 0 .. TimeLimit
    /\ written \in Nat
    /\ totals \in [objects : Nat, validated : Nat, written : Nat, errors : Nat]

\* The places of the notification that are to be stored, in their order.
Place ==
    {p \in (DOMAIN records) \X UNION {DOMAIN Lines[o] : o \in Object} :
        records[p[1]] # Malformed /\ p[2] \in ValidLines(records[p[1]])}

PlaceKey(p) == KeyAt(records[p[1]], p[2])

PlaceLine(p) == Lines[records[p[1]]][p[2]]

Before(p, q) == p[1] < q[1] \/ (p[1] = q[1] /\ p[2] < q[2])

\* The places this invocation has put.
Landed ==
    {p \in Place :
        \/ p[1] < rec
        \/ /\ p[1] = rec
           /\ pc \in {"call", "object"}
           /\ p[2] < next \/ (pc = "call" /\ p[2] \in Chunk(Current, next) \ request)}

(***************************************************************************)
(* Whatever is left unprocessed, throttled and asked again, and whatever   *)
(* an earlier delivery left behind: of the items an invocation has put,    *)
(* the table holds the last one of each key.                               *)
(***************************************************************************)
LastLineWins ==
    pc \in {"record", "call", "object"} =>
        \A p \in Landed :
            (\A q \in Landed : PlaceKey(q) = PlaceKey(p) => ~Before(p, q))
                => table[PlaceKey(p)] = PlaceLine(p)

\* The totals that are returned account for every line of every object: what
\* is not an error is validated, and what is validated is written, once.
CountsAddUp ==
    /\ pc \in {"record", "done"} => totals.written = totals.validated
    /\ pc = "object" => written = Cardinality(ValidLines(Current))
    /\ pc = "call" =>
          written + Cardinality(request) =
              Cardinality({i \in ValidLines(Current) :
                              i < next \/ i \in Chunk(Current, next)})

(***************************************************************************)
(* The time limit of the function comes before the writer's own limit of   *)
(* ten retries: a table that stays throttled is seen as a timeout, and     *)
(* "batch_write_unprocessed_giveup" is never logged.                       *)
(***************************************************************************)
DeadlineFirst == pc = "call" => attempts < MaxRetries

\* A line that is not JSON, or two items of one key in one chunk, keeps the
\* whole notification from being acknowledged, however often it is tried.
Unwritable(o) ==
    \/ LinesWith(o, "broken") # {}
    \/ \E n \in DOMAIN Lines[o] :
          /\ Cardinality({i \in ValidLines(o) : i < n}) % ChunkSize = 0
          /\ ~KeysDiffer(o, Chunk(o, n))

AckedMeansWhole ==
    acked => \A r \in DOMAIN records : records[r] # Malformed => ~Unwritable(records[r])

\* What module Correlation takes the batch writer for.
Promise == INSTANCE PutAll WITH
    work    <- {[key |-> PlaceKey(p), item |-> PlaceLine(p), place |-> p] : p \in Place},
    shelf   <- table,
    outcome <- CASE pc = "dead" -> "dead" [] pc # "dead" /\ acked -> "acknowledged"
                 [] OTHER -> "open"

PutAllRefined == Promise!Spec

\* Every notification is acknowledged or ends in the dead-letter queue.
NotificationSettles == <>(acked \/ pc = "dead")
=============================================================================
