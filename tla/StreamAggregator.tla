-------------------------- MODULE StreamAggregator --------------------------
(***************************************************************************)
(* The stream side of the aggregator Lambda                                *)
(* (dashboard/functions/aggregator/handler.py): every change of the table  *)
(* is a record of a DynamoDB stream; for each record of an EVENT item the  *)
(* Lambda adds one to the hourly counters the item's fields name.          *)
(*                                                                         *)
(* The event source mapping reads each shard in order, in batches.  When   *)
(* an invocation fails its batch is split in two and each half delivered   *)
(* again; a single record that keeps failing, or records that have grown   *)
(* old, go to the dead-letter queue.  So a record may be delivered many    *)
(* times, and a sentinel item per record, put before its counters are      *)
(* touched, is what keeps it from being counted twice.  Sentinels and      *)
(* counters live in the same table: they are on the stream as well.        *)
(*                                                                         *)
(* One action is one DynamoDB call of the handler, or one decision of the  *)
(* event source mapping.  Ingest appears as the writer of EVENT items.  A  *)
(* counter is kept as the set of records it has counted and the number of  *)
(* repeated increments: its value is the sum of the two.                   *)
(***************************************************************************)
EXTENDS Integers, Sequences, FiniteSets

CONSTANTS
    Event,        \* keys of EVENT items
    Session,
    SessionOf,    \* [Event -> Session]
    Closed,       \* the cowrie.session.closed events
    Counter,      \* AGG#HOUR#<bucket>#<dimension> / VALUE#<value>
    Fields,       \* [Event -> [Image -> the counters its fields name]]
    Technique,    \* the counters of dimension "technique"
    TechniqueOf,  \* [SUBSET Event -> Technique], classify_session
    Sentinel,     \* the key of the DEDUP#STREAM items
    Shard,
    ShardOf,      \* [Key -> Shard], the shard that carries a key's changes
    BatchSize,    \* batch_size
    MaxRetries,   \* maximum_retry_attempts
    MaxWrites,    \* bound: EVENT item changes of a behaviour
    MaxResends    \* bound: calls the SDK repeats although they took effect

Key   == Event \cup Counter \cup {Sentinel}
Image == {"bare", "located"}    \* before and after the address is known

ASSUME KeyAssumption ==
    /\ Sentinel \notin Event \cup Counter
    /\ Event \cap Counter = {}
    /\ Closed \subseteq Event
    /\ Technique \subseteq Counter
    /\ SessionOf \in [Event -> Session]
    /\ ShardOf \in [Key -> Shard]
    /\ TechniqueOf \in [SUBSET Event -> Technique]

\* The dimensions of one item differ, and none of its fields is a technique.
ASSUME FieldsAssumption ==
    /\ Fields \in [Event -> [Image -> Seq(Counter \ Technique)]]
    /\ \A e \in Event, img \in Image :
          \A i, j \in DOMAIN Fields[e][img] :
              Fields[e][img][i] = Fields[e][img][j] => i = j

ASSUME LimitAssumption ==
    /\ BatchSize \in Nat \ {0}
    /\ MaxRetries \in Nat
    /\ MaxWrites \in Nat
    /\ MaxResends \in Nat

VARIABLES
    table,    \* [Event -> Image \cup {"absent"}], the EVENT items
    stream,   \* [Shard -> Seq(Record)]
    claims,   \* the records that have a sentinel
    by,       \* [Counter -> the records counted]
    extra,    \* [Counter -> increments that repeat a counted record]
    next,     \* [Shard -> index of the first record not yet in a batch]
    queue,    \* [Shard -> ranges of records to deliver, first one first]
    pc,       \* [Shard -> where the invocation is]
    at,       \* [Shard -> index of the record the handler's loop is at]
    todo,     \* [Shard -> counters of that record still to increment]
    dlq,      \* the records given up
    cut,      \* history: records in which an invocation failed after the claim
    resends   \* history: repeated calls so far

vars == <<table, stream, claims, by, extra, next, queue, pc, at, todo, dlq,
          cut, resends>>

countVars == <<claims, by, extra>>
esmVars   == <<next, queue, dlq>>

\* Only an EVENT item's new image matters; its other fields do not change.
EventRecord == [kind : {"INSERT", "MODIFY"}, key : Event, image : Image]
OtherRecord == [kind : {"REMOVE"}, key : Event, image : {"none"}]
               \cup [kind : {"MODIFY"}, key : Counter \cup {Sentinel}, image : {"none"}]
Record == EventRecord \cup OtherRecord

\* A change of one of the aggregator's own items.
OwnRecord(k) == [kind |-> "MODIFY", key |-> k, image |-> "none"]

Publish(k, records) ==
    stream' = [stream EXCEPT ![ShardOf[k]] = @ \o records]

\* A record is known by its place in the stream (its eventID).
Published == UNION {{<<s, i>> : i \in DOMAIN stream[s]} : s \in Shard}

Rec(r) == stream[r[1]][r[2]]

\* The type filter of _handle_stream_records.
Accepts(rec) == rec.kind \in {"INSERT", "MODIFY"} /\ rec.key \in Event

-----------------------------------------------------------------------------

Init ==
    /\ table = [e \in Event |-> "absent"]
    /\ stream = [s \in Shard |-> <<>>]
    /\ claims = {}
    /\ by = [c \in Counter |-> {}]
    /\ extra = [c \in Counter |-> 0]
    /\ next = [s \in Shard |-> 1]
    /\ queue = [s \in Shard |-> <<>>]
    /\ pc = [s \in Shard |-> "idle"]
    /\ at = [s \in Shard |-> 1]
    /\ todo = [s \in Shard |-> <<>>]
    /\ dlq = {}
    /\ cut = {}
    /\ resends = 0

-----------------------------------------------------------------------------
(* The writers of EVENT items: ingest and the TTL *)

MayWrite == Cardinality({r \in Published : Rec(r).key \in Event}) < MaxWrites

\* A put or an update that changes the item: the forward pass, the backward
\* pass, a replayed object.
WriteItem(e) ==
    /\ MayWrite
    /\ \E img \in Image \ {table[e]} :
          /\ table' = [table EXCEPT ![e] = img]
          /\ Publish(e, <<[kind |-> IF table[e] = "absent" THEN "INSERT" ELSE "MODIFY",
                           key |-> e, image |-> img]>>)
    /\ UNCHANGED <<countVars, esmVars, pc, at, todo, cut, resends>>

ExpireItem(e) ==
    /\ MayWrite
    /\ table[e] # "absent"
    /\ table' = [table EXCEPT ![e] = "absent"]
    /\ Publish(e, <<[kind |-> "REMOVE", key |-> e, image |-> "none"]>>)
    /\ UNCHANGED <<countVars, esmVars, pc, at, todo, cut, resends>>

-----------------------------------------------------------------------------
(* The event source mapping of one shard *)

Part(lo, hi) == [lo |-> lo, hi |-> hi, tries |-> 0]

Current(s) == Head(queue[s])

\* Take a batch; the batching window decides how full it is.
Poll(s) ==
    /\ queue[s] = <<>>
    /\ next[s] <= Len(stream[s])
    /\ \E hi \in next[s]..Len(stream[s]) :
          /\ hi < next[s] + BatchSize
          /\ queue' = [queue EXCEPT ![s] = <<Part(next[s], hi)>>]
          /\ next' = [next EXCEPT ![s] = hi + 1]
    /\ UNCHANGED <<table, stream, countVars, pc, at, todo, dlq, cut, resends>>

Invoke(s) ==
    /\ queue[s] # <<>>
    /\ pc[s] = "idle"
    /\ pc' = [pc EXCEPT ![s] = "record"]
    /\ at' = [at EXCEPT ![s] = Current(s).lo]
    /\ UNCHANGED <<table, stream, countVars, esmVars, todo, cut, resends>>

\* Drop what the invocation held in memory.
EndInvocation(s) ==
    /\ pc' = [pc EXCEPT ![s] = "idle"]
    /\ todo' = [todo EXCEPT ![s] = <<>>]

FinishBatch(s) ==
    /\ pc[s] = "record"
    /\ at[s] > Current(s).hi
    /\ queue' = [queue EXCEPT ![s] = Tail(@)]
    /\ EndInvocation(s)
    /\ UNCHANGED <<table, stream, countVars, next, at, dlq, cut, resends>>

\* What becomes of a range whose invocation failed.
Bisect(s) ==
    LET mid == (Current(s).lo + Current(s).hi) \div 2
    IN  /\ Current(s).lo < Current(s).hi
        /\ queue' = [queue EXCEPT ![s] = <<Part(Current(s).lo, mid),
                                           Part(mid + 1, Current(s).hi)>> \o Tail(@)]
        /\ UNCHANGED dlq

Retry_Forever(s) ==
    /\ Current(s).lo = Current(s).hi
    /\ UNCHANGED <<queue, dlq>>

Retry(s) ==
    /\ Current(s).lo = Current(s).hi
    /\ Current(s).tries < MaxRetries
    /\ queue' = [queue EXCEPT ![s][1].tries = @ + 1]
    /\ UNCHANGED dlq

\* Out of retries, or older than maximum_record_age.
GiveUp(s) ==
    /\ queue' = [queue EXCEPT ![s] = Tail(@)]
    /\ dlq' = dlq \cup {<<s, i>> : i \in Current(s).lo..Current(s).hi}

\* The handler raises, or the invocation times out, between two calls.
Fail(s) ==
    /\ pc[s] # "idle"
    /\ Bisect(s) \/ Retry(s) \/ GiveUp(s)
    /\ cut' = IF pc[s] = "record" THEN cut ELSE cut \cup {<<s, at[s]>>}
    /\ EndInvocation(s)
    /\ UNCHANGED <<table, stream, countVars, next, at, resends>>

-----------------------------------------------------------------------------
(* The handler: _handle_stream_records on the current range *)

Here(s) == <<s, at[s]>>

AtRecord(s) == pc[s] = "record" /\ at[s] <= Current(s).hi

NextRecord(s) ==
    /\ pc' = [pc EXCEPT ![s] = "record"]
    /\ at' = [at EXCEPT ![s] = @ + 1]

\* REMOVE records and the aggregator's own items: continue.
SkipRecord(s) ==
    /\ AtRecord(s)
    /\ ~Accepts(Rec(Here(s)))
    /\ NextRecord(s)
    /\ UNCHANGED <<table, stream, countVars, esmVars, todo, cut, resends>>

\* _claim_event_id: the sentinel is put on condition that there is none.
ClaimRecord_Unconditional(s) ==
    /\ AtRecord(s)
    /\ Accepts(Rec(Here(s)))
    /\ claims' = claims \cup {Here(s)}
    /\ Publish(Sentinel, <<OwnRecord(Sentinel)>>)
    /\ todo' = [todo EXCEPT ![s] = Fields[Rec(Here(s)).key][Rec(Here(s)).image]]
    /\ pc' = [pc EXCEPT ![s] = "count"]
    /\ UNCHANGED <<table, by, extra, esmVars, at, cut, resends>>

ClaimRecord(s) ==
    /\ AtRecord(s)
    /\ Accepts(Rec(Here(s)))
    /\ Here(s) \notin claims
    /\ claims' = claims \cup {Here(s)}
    /\ Publish(Sentinel, <<OwnRecord(Sentinel)>>)
    /\ todo' = [todo EXCEPT ![s] = Fields[Rec(Here(s)).key][Rec(Here(s)).image]]
    /\ pc' = [pc EXCEPT ![s] = "count"]
    /\ UNCHANGED <<table, by, extra, esmVars, at, cut, resends>>

\* The condition fails: a duplicate, continue.
SkipDuplicate(s) ==
    /\ AtRecord(s)
    /\ Accepts(Rec(Here(s)))
    /\ Here(s) \in claims
    /\ NextRecord(s)
    /\ UNCHANGED <<table, stream, countVars, esmVars, todo, cut, resends>>

\* The put takes effect but its answer is lost: the SDK repeats it, the
\* condition fails against the sentinel just put, and the record is skipped.
ClaimResent(s) ==
    /\ AtRecord(s)
    /\ Accepts(Rec(Here(s)))
    /\ Here(s) \notin claims
    /\ resends < MaxResends
    /\ resends' = resends + 1
    /\ claims' = claims \cup {Here(s)}
    /\ cut' = cut \cup {Here(s)}
    /\ Publish(Sentinel, <<OwnRecord(Sentinel)>>)
    /\ NextRecord(s)
    /\ UNCHANGED <<table, by, extra, esmVars, todo>>

\* _increment_counter: ADD, n times over if the SDK repeats it.
AddToCounter(s, c, n) ==
    /\ by' = [by EXCEPT ![c] = @ \cup {Here(s)}]
    /\ extra' = [extra EXCEPT ![c] = @ + (IF Here(s) \in by[c] THEN n ELSE n - 1)]
    /\ Publish(c, [i \in 1..n |-> OwnRecord(c)])
    /\ todo' = [todo EXCEPT ![s] = Tail(@)]

Increment(s) ==
    /\ todo[s] # <<>>
    /\ AddToCounter(s, Head(todo[s]), 1)
    /\ UNCHANGED <<table, claims, esmVars, pc, at, cut, resends>>

IncrementResent(s) ==
    /\ todo[s] # <<>>
    /\ resends < MaxResends
    /\ resends' = resends + 1
    /\ AddToCounter(s, Head(todo[s]), 2)
    /\ UNCHANGED <<table, claims, esmVars, pc, at, cut>>

\* _classify_session_for_event: an eventually consistent query of the
\* session's items, whatever has been stored of them by now.
ClassifySession(s) ==
    LET e == Rec(Here(s)).key
    IN
    /\ pc[s] = "count"
    /\ todo[s] = <<>>
    /\ e \in Closed
    /\ \E view \in SUBSET {f \in Event : SessionOf[f] = SessionOf[e]
                                         /\ table[f] # "absent"} :
          todo' = [todo EXCEPT ![s] = <<TechniqueOf[view]>>]
    /\ pc' = [pc EXCEPT ![s] = "technique"]
    /\ UNCHANGED <<table, stream, countVars, esmVars, at, cut, resends>>

FinishRecord_Unclassified(s) ==
    /\ todo[s] = <<>>
    /\ pc[s] = "count"
    /\ NextRecord(s)
    /\ UNCHANGED <<table, stream, countVars, esmVars, todo, cut, resends>>

FinishRecord(s) ==
    /\ todo[s] = <<>>
    /\ \/ pc[s] = "count" /\ Rec(Here(s)).key \notin Closed
       \/ pc[s] = "technique"
    /\ NextRecord(s)
    /\ UNCHANGED <<table, stream, countVars, esmVars, todo, cut, resends>>

-----------------------------------------------------------------------------

Progress(s) ==
    \/ Poll(s)
    \/ Invoke(s)
    \/ FinishBatch(s)
    \/ SkipRecord(s)
    \/ ClaimRecord(s)
    \/ SkipDuplicate(s)
    \/ Increment(s)
    \/ ClassifySession(s)
    \/ FinishRecord(s)

Next ==
    \/ \E e \in Event : WriteItem(e) \/ ExpireItem(e)
    \/ \E s \in Shard : Progress(s) \/ Fail(s) \/ ClaimResent(s) \/ IncrementResent(s)

Spec == Init /\ [][Next]_vars

\* The mapping keeps polling and invoking, and a running handler goes on.
FairSpec == Spec /\ \A s \in Shard : WF_vars(Progress(s))

-----------------------------------------------------------------------------
(* Properties *)

Parts(len) == {p \in [lo : 1..len, hi : 1..len, tries : 0..MaxRetries] : p.lo <= p.hi}

TypeOK ==
    /\ table \in [Event -> Image \cup {"absent"}]
    /\ stream \in [Shard -> Seq(Record)]
    /\ claims \subseteq Published
    /\ by \in [Counter -> SUBSET Published]
    /\ extra \in [Counter -> Nat]
    /\ next \in [Shard -> Nat \ {0}]
    /\ \A s \in Shard : next[s] <= Len(stream[s]) + 1
    /\ DOMAIN queue = Shard
    /\ \A s \in Shard : queue[s] \in Seq(Parts(next[s] - 1))
    /\ pc \in [Shard -> {"idle", "record", "count", "technique"}]
    /\ at \in [Shard -> Nat \ {0}]
    /\ todo \in [Shard -> Seq(Counter)]
    /\ dlq \subseteq Published
    /\ cut \subseteq Published
    /\ resends \in 0..MaxResends

\* The mapping is past a record and will not deliver it again.
Finished(r) ==
    /\ r[2] < next[r[1]]
    /\ \A k \in DOMAIN queue[r[1]] :
          ~(queue[r[1]][k].lo <= r[2] /\ r[2] <= queue[r[1]][k].hi)

Counted(r, c) == r \in by[c]

\* Every counter the record's item asks for has it.
FullyCounted(r) ==
    LET fields == Fields[Rec(r).key][Rec(r).image]
    IN  /\ \A i \in DOMAIN fields : Counted(r, fields[i])
        /\ Rec(r).key \in Closed => \E c \in Technique : Counted(r, c)

(***************************************************************************)
(* However often a batch is bisected and delivered again, a record adds at *)
(* most one to a counter ("ADD +1 twice yields +2 ... each stream record   *)
(* is deduplicated"), but for the increments the SDK itself repeats.       *)
(***************************************************************************)
CountedAtMostOnce == \A c \in Counter : extra[c] <= resends

(***************************************************************************)
(* A record the mapping is done with is in all its counters or in the      *)
(* dead-letter queue, unless an invocation failed, or the answer to its    *)
(* claim was lost, inside that very record: no failure of a neighbour in   *)
(* the batch, no bisection and no skip ever loses one.                     *)
(***************************************************************************)
LossesExplained ==
    \A r \in Published :
        Finished(r) /\ Accepts(Rec(r)) => FullyCounted(r) \/ r \in dlq \cup cut

\* The aggregator catches up with its stream, its own writes included, in
\* spite of failing batches.
CatchesUp == []<>(\A r \in Published : Finished(r))

=============================================================================
