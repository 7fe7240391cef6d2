---------------------------- MODULE OfflineLoad ----------------------------
(***************************************************************************)
(* Replaying the archived Cowrie log into Elasticsearch                    *)
(* (elastic/soc_elastic/load.py, archive.py, transform.py, clients.py).    *)
(* A load reads the Cowrie archive twice: for the connect time of every    *)
(* session, and to send each record as a document, BATCH at a time.  Any   *)
(* failure ends it, with whatever was accepted so far in the index; the    *)
(* operator runs it again, perhaps with more of the HAProxy log on disk.   *)
(*                                                                         *)
(* The archive is the sequence of what iter_records meets in its sorted    *)
(* files: records, lines that are no JSON object, and the point where an   *)
(* unreadable file breaks off.                                             *)
(***************************************************************************)
EXTENDS OfflineAttribution, Sequences

CONSTANTS
    Line,         \* JSON objects of the Cowrie archive
    ConnectLine,  \* those whose eventid is cowrie.session.connect
    Shapeless,    \* those that lack a field the transformation reads
    SessionOf,    \* [Line -> Session]
    Session,
    LineTime,     \* [Line -> Int], the time on the line
    LineUs,       \* [Line -> Int], cowrie_ts_to_us of it
    Id,           \* document ids
    IdOf,         \* [Line -> Id], doc_id: of session, timestamp and eventid
    NoDoc,        \* no document under an id
    Garbage,      \* a line that is not a JSON object
    Broken,       \* the end of a truncated file
    Archives,     \* what the archive may be: sequences of these
    Batch,        \* BATCH
    MaxLoads      \* bound: loads of a behaviour

ASSUME LineAssumption ==
    /\ ConnectLine \subseteq Line
    /\ Shapeless \subseteq Line \ ConnectLine
    /\ SessionOf \in [Line -> Session]
    /\ LineTime \in [Line -> Int]
    /\ LineUs \in [Line -> Int]
    /\ \A l \in Line : LineUs[l] \in Micros(LineTime[l])
    /\ \A l, m \in Line : LineTime[l] = LineTime[m] => LineUs[l] = LineUs[m]
    /\ IdOf \in [Line -> Id]
    /\ NoDoc \notin [line : Line, attribution : Attribution]
    /\ {Garbage, Broken} \cap Line = {}
    /\ Archives \subseteq Seq(Line \cup {Garbage, Broken})
    /\ Batch \in Nat \ {0}
    /\ MaxLoads \in Nat

VARIABLES
    archive, \* the Cowrie archive on disk
    log,     \* the HAProxy records on disk
    load,    \* where the current load is
    at,      \* entries of the archive its second pass has consumed
    loads,   \* loads begun
    index    \* the documents of cowrie-*: [Id -> Doc \cup {NoDoc}]

loadVars == <<archive, log, load, at, loads, index>>

Doc == [line : Line, attribution : Attribution]

Entry == DOMAIN archive

Records(from, to) == {i \in from..to : archive[i] \in Line}

\* connect_times: the earliest connect record of a session.
ConnectsOf(s) ==
    {l \in ConnectLine : SessionOf[l] = s /\ \E i \in Entry : archive[i] = l}

ConnectUs(s) ==
    LineUs[CHOOSE l \in ConnectsOf(s) :
             \A m \in ConnectsOf(s) : LineTime[l] <= LineTime[m]]

AttributionOf(s) ==
    IF ConnectsOf(s) = {} THEN NoConnect ELSE Attribute(log, ConnectUs(s))

\* to_ecs
ToEcs(l) == [line |-> l, attribution |-> AttributionOf(SessionOf[l])]

\* The positions of records with a given id, and the last of some positions.
Under(id, positions) == {i \in positions : archive[i] \in Line /\ IdOf[archive[i]] = id}

Last(positions) == CHOOSE i \in positions : \A j \in positions : j <= i

\* The index after the items at the positions `kept` were accepted, in order.
BulkApplied_Create(kept) ==
    [id \in Id |-> IF Under(id, kept) = {} \/ index[id] # NoDoc THEN index[id]
                   ELSE ToEcs(archive[Last(Under(id, kept))])]

BulkApplied(kept) ==
    [id \in Id |-> IF Under(id, kept) = {} THEN index[id]
                   ELSE ToEcs(archive[Last(Under(id, kept))])]

\* batched: the archive is consumed up to the BATCH-th record from here.
ChunkEnd(to) ==
    /\ to \in (at + 1)..Len(archive)
    /\ \/ Cardinality(Records(at + 1, to)) = Batch /\ archive[to] \in Line
       \/ Cardinality(Records(at + 1, to)) < Batch /\ to = Len(archive)

-----------------------------------------------------------------------------
LoadInit ==
    /\ archive \in Archives
    /\ log \in SUBSET Conn
    /\ load = "idle"
    /\ at = 0
    /\ loads = 0
    /\ index = [id \in Id |-> NoDoc]

\* The rest of the HAProxy archive is copied to the lab between two loads.
SyncLog ==
    /\ load \in {"idle", "failed", "done"}
    /\ log # Conn
    /\ log' = Conn
    /\ load' = "idle"
    /\ UNCHANGED <<archive, at, loads, index>>

StartLoad ==
    /\ load \in {"idle", "failed"}
    /\ loads < MaxLoads
    /\ load' = "sending"
    /\ at' = 0
    /\ loads' = loads + 1
    /\ UNCHANGED <<archive, log, index>>

\* A record without the fields read of it raises in the middle of a chunk,
\* which is not sent; the ones before it were.
RecordRaises ==
    /\ load = "sending"
    /\ \E to \in Entry :
          ChunkEnd(to) /\ \E i \in Records(at + 1, to) : archive[i] \in Shapeless
    /\ load' = "failed"
    /\ UNCHANGED <<archive, log, at, loads, index>>

BulkIndex ==
    /\ load = "sending"
    /\ \E to \in Entry :
          /\ ChunkEnd(to)
          /\ \A i \in Records(at + 1, to) : archive[i] \notin Shapeless
          /\ index' = BulkApplied(Records(at + 1, to))
          /\ at' = to
    /\ UNCHANGED <<archive, log, load, loads>>

\* Items are rejected one by one, or the answer is lost after some, or all,
\* of them were accepted: the call raises either way.
BulkFails ==
    /\ load = "sending"
    /\ \E to \in Entry :
          /\ ChunkEnd(to)
          /\ \A i \in Records(at + 1, to) : archive[i] \notin Shapeless
          /\ \E kept \in SUBSET Records(at + 1, to) : index' = BulkApplied(kept)
    /\ load' = "failed"
    /\ UNCHANGED <<archive, log, at, loads>>

\* The refresh of the indices, and the report.
FinishLoad ==
    /\ load = "sending"
    /\ at = Len(archive)
    /\ load' \in {"done", "failed"}
    /\ UNCHANGED <<archive, log, at, loads, index>>

LoadNext ==
    \/ SyncLog \/ StartLoad \/ RecordRaises \/ BulkIndex \/ BulkFails
    \/ FinishLoad

-----------------------------------------------------------------------------
\* Once a load has completed, the index is what the archive and the HAProxy
\* log now on disk say, whatever earlier loads left in it half done or from
\* a shorter log: nothing of them remains.
IndexIsArchive ==
    load = "done" =>
      \A id \in Id :
        index[id] = IF Under(id, Entry) = {} THEN NoDoc
                    ELSE ToEcs(archive[Last(Under(id, Entry))])

\* The lab and the Lambda judge a connect event alike but where the lab says
\* more: one address behind several connections, or no log to judge by.
AgreesOnline == \A l \in ConnectLine : Agree(log, LineUs[l])

=============================================================================
