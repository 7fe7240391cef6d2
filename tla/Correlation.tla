---------------------------- MODULE Correlation ----------------------------
(***************************************************************************)
(* Bidirectional correlation of Cowrie events with HAProxy connections, as *)
(* the ingest Lambda performs it (dashboard/functions/ingest/handler.py).  *)
(*                                                                         *)
(* Cowrie sits behind a tunnel and sees every attacker as 127.0.0.1; the   *)
(* HAProxy log knows the real address and the time of the connection.      *)
(* Both logs reach S3 as separate objects, each object invokes a Lambda,   *)
(* and the two kinds of invocation meet only in the DynamoDB table:        *)
(*   - the Cowrie side looks each loopback event up among the connections  *)
(*     already stored (forward pass), then writes all its events;          *)
(*   - the HAProxy side writes all its connections, then looks for stored  *)
(*     loopback events near each of them (backward pass).                  *)
(*                                                                         *)
(* One action is one DynamoDB call together with the code up to the next   *)
(* call.  A log line is an element of Event or Conn: its key, time and     *)
(* session are constants, everything else it carries is abstracted away.   *)
(* An object is the sequence of its lines that pass validation.            *)
(*                                                                         *)
(* An operator named Op_Variant is a plausible bug in Op, used nowhere in  *)
(* the specification: PROJECT.json pairs it with the property it breaks.   *)
(***************************************************************************)
EXTENDS Integers, Sequences, FiniteSets

CONSTANTS
    Session,          \* Cowrie session ids
    Event,            \* Cowrie log lines, by table key (session, ts, eventid)
    Conn,             \* HAProxy log lines, by table key
    Ip,               \* public addresses
    Loopback,         \* "127.0.0.1"
    Geo,              \* values of the enrichment fields
    NoGeo,            \* None
    Shipped,          \* [Event -> Enrichment], the pre-baked fields of a line
    SessionOf,        \* [Event -> Session]
    EventTs,          \* [Event -> Int], microseconds, as printed on the line
    EventUs,          \* [Event -> Int], cowrie_ts_to_us
    SortKey,          \* [Event -> Int], the order of `sk` within a session
    SrcIp,            \* [Session -> Address], the address Cowrie logged
    ConnTs,           \* [Conn -> Int], microseconds, as printed on the line
    ConnUs,           \* [Conn -> Int], HAProxyRecord.ts_us
    ConnIp,           \* [Conn -> Ip]
    GeoOf,            \* [Address -> Enrichment], the enricher, if there is one
    CowrieObject,     \* S3 keys under raw/cowrie/
    HaproxyObject,    \* S3 keys under raw/haproxy/
    Lines,            \* [Object -> sequence of events or of connections]
    Window,           \* CORRELATION_WINDOW_US
    MinDelta,         \* CORRELATION_MIN_DELTA_US
    SessionPage,      \* items in one page of a session query
    MaxAttempts       \* invocations of one notification before the DLQ

Address == Ip \cup {Loopback}
Object  == CowrieObject \cup HaproxyObject

\* session_match_cache: no entry, "" (looked up, nothing found) or an address.
Unlooked   == "unlooked"
NoMatch    == "no_match"
CacheEntry == Ip \cup {Unlooked, NoMatch}

GeoField     == {"country", "asn", "asn_org"}
Enrichment   == [GeoField -> Geo \cup {NoGeo}]
NoEnrichment == [f \in GeoField |-> NoGeo]

\* A time is made an integer by way of a float and cut, which may cost one
\* microsecond.
Micros(t) == {t - 1, t}

ASSUME AddressAssumption ==
    /\ Ip \cap {Loopback, Unlooked, NoMatch} = {}
    /\ GeoOf \in [Address -> Enrichment]
    /\ NoGeo \notin Geo
    /\ GeoOf[Loopback] = NoEnrichment

ASSUME LogAssumption ==
    /\ SessionOf \in [Event -> Session]
    /\ SortKey \in [Event -> Int]
    /\ SrcIp \in [Session -> Address]
    /\ ConnIp \in [Conn -> Ip]
    /\ Shipped \in [Event -> Enrichment]

ASSUME ClockAssumption ==
    /\ EventTs \in [Event -> Int] /\ EventUs \in [Event -> Int]
    /\ \A e \in Event : EventUs[e] \in Micros(EventTs[e])
    /\ ConnTs \in [Conn -> Int] /\ ConnUs \in [Conn -> Int]
    /\ \A h \in Conn : ConnUs[h] \in Micros(ConnTs[h])

ASSUME ObjectAssumption ==
    /\ CowrieObject \cap HaproxyObject = {}
    /\ \A o \in CowrieObject : Lines[o] \in Seq(Event)
    /\ \A o \in HaproxyObject : Lines[o] \in Seq(Conn)

ASSUME BoundAssumption ==
    /\ Window \in Int
    /\ MinDelta \in Int
    /\ MinDelta < Window
    /\ SessionPage \in Nat \ {0}
    /\ MaxAttempts \in Nat \ {0}

VARIABLES
    table,     \* SESSION# items: [Event -> Item], status "absent" when none
    seen,      \* the items as an eventually consistent read may still see them
    conns,     \* HAPROXY# items
    connsSeen, \* the part of them every read is sure to see
    pc,        \* where the invocation for an object is
    attempts,  \* invocations begun for an object
    pos,       \* the line the loop is at
    cache,     \* session_match_cache of a Cowrie invocation
    stored,    \* the `stored` list of a Cowrie invocation, by key
    left,      \* items still to be written or updated
    target     \* target_session and the connection's address

vars == <<table, seen, conns, connsSeen, pc, attempts, pos, cache, stored,
          left, target>>

-----------------------------------------------------------------------------
(* Items *)

Unresolved == {"missed", "ambiguous"}
Matched    == {"matched", "matched_inherited"}
Status     == {"absent", "none"} \cup Unresolved \cup Matched

Item == [status : Status, ip : Address, geo : Enrichment]

NoItem == [status |-> "absent", ip |-> Loopback, geo |-> NoEnrichment]

\* A line with a country of its own is not looked up ...
Ships(e) == Shipped[e]["country"] # NoGeo

\* ... any other is, under the resolved address.
StoredEvent(e, st, ip) ==
    [status |-> st, ip |-> ip, geo |-> IF Ships(e) THEN Shipped[e] ELSE GeoOf[ip]]

NoTarget == [session |-> "none", ip |-> Loopback]

LineSet(o) == {Lines[o][i] : i \in DOMAIN Lines[o]}

Present(view) == {e \in Event : view[e].status # "absent"}

Tunneled(s) == SrcIp[s] = Loopback

\* The connections the forward pass may answer with for an event ...
InWindow_NoFloor(h, e) ==
    /\ EventUs[e] - Window <= ConnUs[h]
    /\ ConnUs[h] <= EventUs[e]

InWindow(h, e) ==
    /\ EventUs[e] - Window <= ConnUs[h]
    /\ ConnUs[h] <= EventUs[e] - MinDelta

\* ... and the events the backward pass looks for around a connection: it
\* compares the time printed in gsi2sk with bounds made from ts_us.
InResponseWindow_Exclusive(e, h) ==
    /\ ConnUs[h] + MinDelta <= EventTs[e]
    /\ EventTs[e] < ConnUs[h] + Window

InResponseWindow(e, h) ==
    /\ ConnUs[h] + MinDelta <= EventTs[e]
    /\ EventTs[e] <= ConnUs[h] + Window

\* An eventually consistent read: each item is the current or an older one.
EventViews ==
    {[e \in Event |-> IF e \in fresh THEN table[e] ELSE seen[e]] :
        fresh \in SUBSET Event}

ConnViews == {connsSeen \cup fresh : fresh \in SUBSET (conns \ connsSeen)}

SessionItems(view, s) == {e \in Present(view) : SessionOf[e] = s}

\* The first n items of a session in sort-key order.
FirstItems(view, s, n) ==
    LET items == SessionItems(view, s)
    IN  {e \in items : Cardinality({f \in items : SortKey[f] < SortKey[e]}) < n}

-----------------------------------------------------------------------------

Init ==
    /\ table = [e \in Event |-> NoItem]
    /\ seen = [e \in Event |-> NoItem]
    /\ conns = {}
    /\ connsSeen = {}
    /\ pc = [o \in Object |-> "idle"]
    /\ attempts = [o \in Object |-> 0]
    /\ pos = [o \in Object |-> 1]
    /\ cache = [o \in CowrieObject |-> [s \in Session |-> Unlooked]]
    /\ stored = [o \in CowrieObject |-> [e \in Event |-> NoItem]]
    /\ left = [o \in Object |-> {}]
    /\ target = [o \in HaproxyObject |-> NoTarget]

tableVars == <<table, seen, conns, connsSeen>>
localVars == <<pos, cache, stored, left, target>>

GoTo(o, label) == pc' = [pc EXCEPT ![o] = label]

\* The invocation is over, well or badly: its memory goes with it.
Forget(o) ==
    /\ pos' = [pos EXCEPT ![o] = 1]
    /\ left' = [left EXCEPT ![o] = {}]
    /\ cache' = [c \in CowrieObject |->
                    IF c = o THEN [s \in Session |-> Unlooked] ELSE cache[c]]
    /\ stored' = [c \in CowrieObject |->
                    IF c = o THEN [e \in Event |-> NoItem] ELSE stored[c]]
    /\ target' = [h \in HaproxyObject |-> IF h = o THEN NoTarget ELSE target[h]]

\* Line o is at, and the session of that line.
Line(o) == Lines[o][pos[o]]
LineSession(o) == SessionOf[Line(o)]

-----------------------------------------------------------------------------
(* The Cowrie side: _process_cowrie_object *)

StartCowrie(o) ==
    /\ pc[o] = "idle"
    /\ attempts' = [attempts EXCEPT ![o] = @ + 1]
    /\ GoTo(o, "event")
    /\ UNCHANGED <<tableVars, localVars>>

\* The tail of the loop body: append the built event, take the next line.
StoreEvent(o, st, ip) ==
    /\ stored' = [stored EXCEPT ![o][Line(o)] = StoredEvent(Line(o), st, ip)]
    /\ pos' = [pos EXCEPT ![o] = @ + 1]
    /\ GoTo(o, "event")

\* A line whose src_ip is not loopback is stored without correlation.
DirectEvent(o) ==
    /\ pc[o] = "event"
    /\ pos[o] <= Len(Lines[o])
    /\ ~Tunneled(LineSession(o))
    /\ StoreEvent(o, "none", SrcIp[LineSession(o)])
    /\ UNCHANGED <<tableVars, attempts, cache, left, target>>

\* The batch already knows the session's address: inherit it without a read.
InheritFromCache(o) ==
    /\ pc[o] = "event"
    /\ pos[o] <= Len(Lines[o])
    /\ Tunneled(LineSession(o))
    /\ cache[o][LineSession(o)] \in Ip
    /\ StoreEvent(o, "matched_inherited", cache[o][LineSession(o)])
    /\ UNCHANGED <<tableVars, attempts, cache, left, target>>

\* The batch already looked and found nothing: go to the timestamp window.
SkipLookup(o) ==
    /\ pc[o] = "event"
    /\ pos[o] <= Len(Lines[o])
    /\ Tunneled(LineSession(o))
    /\ cache[o][LineSession(o)] = NoMatch
    /\ GoTo(o, "window")
    /\ UNCHANGED <<tableVars, attempts, localVars>>

(***************************************************************************)
(* _lookup_session_prior_match.  The query carries Limit=1 and a filter;   *)
(* the store applies the limit to the items it reads, before the filter,   *)
(* so only the first item of the session is ever examined.                 *)
(***************************************************************************)
PriorMatches(view, s) ==
    {e \in FirstItems(view, s, 1) : view[e].status \in Matched}

LookupSessionPriorMatch(o) ==
    LET s == LineSession(o)
    IN
    /\ pc[o] = "event"
    /\ pos[o] <= Len(Lines[o])
    /\ Tunneled(s)
    /\ cache[o][s] = Unlooked
    /\ \E view \in EventViews :
          \/ \E e \in PriorMatches(view, s) :
                /\ cache' = [cache EXCEPT ![o][s] = view[e].ip]
                /\ StoreEvent(o, "matched_inherited", view[e].ip)
          \/ /\ PriorMatches(view, s) = {}
             /\ cache' = [cache EXCEPT ![o][s] = NoMatch]
             /\ GoTo(o, "window")
             /\ UNCHANGED <<pos, stored>>
    /\ UNCHANGED <<tableVars, attempts, left, target>>

\* _query_haproxy_window: whole minute buckets are read, then filtered.
Candidates_WholeBucket(view, e) == view

Candidates(view, e) == {h \in view : InWindow(h, e)}

\* "Cache so siblings in the same batch inherit without a query."
CacheMatch_Forgotten(o, ip) == UNCHANGED cache

CacheMatch(o, ip) == cache' = [cache EXCEPT ![o][LineSession(o)] = ip]

\* _correlate: the connections the window query returns decide the status.
Correlate(o) ==
    /\ pc[o] = "window"
    /\ \E view \in ConnViews :
          LET candidates == Candidates(view, Line(o)) IN
          \/ /\ candidates = {}
             /\ StoreEvent(o, "missed", Loopback)
             /\ UNCHANGED cache
          \/ \E h \in candidates :
                /\ candidates = {h}
                /\ StoreEvent(o, "matched", ConnIp[h])
                /\ CacheMatch(o, ConnIp[h])
          \/ /\ \E g, h \in candidates : g # h
             /\ StoreEvent(o, "ambiguous", Loopback)
             /\ UNCHANGED cache
    /\ UNCHANGED <<tableVars, attempts, left, target>>

\* The loop is over: hand the whole list to the batch writer.
BeginWrite(o) ==
    /\ pc[o] = "event"
    /\ pos[o] > Len(Lines[o])
    /\ left' = [left EXCEPT ![o] = Present(stored[o])]
    /\ GoTo(o, "write")
    /\ UNCHANGED <<tableVars, attempts, pos, cache, stored, target>>

\* _batch_write_with_retries, seen from the table: unconditional puts, in
\* whatever order the store accepts them.
PutEvent(o) ==
    /\ pc[o] = "write"
    /\ \E e \in left[o] :
          /\ table' = [table EXCEPT ![e] = stored[o][e]]
          /\ left' = [left EXCEPT ![o] = @ \ {e}]
    /\ UNCHANGED <<seen, conns, connsSeen, pc, attempts, pos, cache, stored,
                   target>>

FinishCowrie_GiveUp(o) ==
    /\ pc[o] = "write"
    /\ GoTo(o, "done")
    /\ Forget(o)
    /\ UNCHANGED <<tableVars, attempts>>

FinishCowrie(o) ==
    /\ pc[o] = "write"
    /\ left[o] = {}
    /\ GoTo(o, "done")
    /\ Forget(o)
    /\ UNCHANGED <<tableVars, attempts>>

CowrieStep(o) ==
    \/ StartCowrie(o)
    \/ DirectEvent(o)
    \/ InheritFromCache(o)
    \/ SkipLookup(o)
    \/ LookupSessionPriorMatch(o)
    \/ Correlate(o)
    \/ BeginWrite(o)
    \/ PutEvent(o)
    \/ FinishCowrie(o)

-----------------------------------------------------------------------------
(* The HAProxy side: _process_haproxy_object and _backward_correlate *)

StartHaproxy(o) ==
    /\ pc[o] = "idle"
    /\ attempts' = [attempts EXCEPT ![o] = @ + 1]
    /\ left' = [left EXCEPT ![o] = LineSet(o)]
    /\ GoTo(o, "write")
    /\ UNCHANGED <<tableVars, pos, cache, stored, target>>

PutConn(o) ==
    /\ pc[o] = "write"
    /\ \E h \in left[o] :
          /\ conns' = conns \cup {h}
          /\ left' = [left EXCEPT ![o] = @ \ {h}]
    /\ UNCHANGED <<table, seen, connsSeen, pc, attempts, pos, cache, stored,
                   target>>

\* Every record is written: begin the backward pass over them.
BeginBackward(o) ==
    /\ pc[o] = "write"
    /\ left[o] = {}
    /\ GoTo(o, "scan")
    /\ UNCHANGED <<tableVars, attempts, localVars>>

\* The sessions with a loopback item in the connection's response window,
\* as the gsi2 query sees them.
SessionsInWindow(view, h) ==
    {SessionOf[e] : e \in {f \in Present(view) :
                              view[f].ip = Loopback /\ InResponseWindow(f, h)}}

NextRecord_Stay(o) == UNCHANGED pos

NextRecord(o) == pos' = [pos EXCEPT ![o] = @ + 1]

\* The gsi2 query of _backward_correlate.  None or several sessions: leave.
FindTargetSession(o) ==
    /\ pc[o] = "scan"
    /\ pos[o] <= Len(Lines[o])
    /\ \E view \in EventViews :
          \/ \E s \in SessionsInWindow(view, Line(o)) :
                /\ SessionsInWindow(view, Line(o)) = {s}
                /\ target' = [target EXCEPT
                                ![o] = [session |-> s, ip |-> ConnIp[Line(o)]]]
                /\ GoTo(o, "session")
                /\ UNCHANGED pos
          \/ /\ ~\E s \in Session : SessionsInWindow(view, Line(o)) = {s}
             /\ NextRecord(o)
             /\ UNCHANGED <<pc, target>>
    /\ UNCHANGED <<tableVars, attempts, cache, stored, left>>

\* "Pull all events of the matched session": one page of them.
QuerySession(o) ==
    /\ pc[o] = "session"
    /\ \E view \in EventViews :
          left' = [left EXCEPT
                     ![o] = FirstItems(view, target[o].session, SessionPage)]
    /\ GoTo(o, "update")
    /\ UNCHANGED <<tableVars, attempts, pos, cache, stored, target>>

\* UpdateItem with its condition.  A geo field is set only when the enricher
\* has a value for it, also on an event that shipped its own.
KnownGeo(old, ip) ==
    [f \in GeoField |-> IF GeoOf[ip][f] = NoGeo THEN old[f] ELSE GeoOf[ip][f]]

ConditionalUpdate_Unconditional(old, ip) ==
    [status |-> "matched", ip |-> ip, geo |-> KnownGeo(old.geo, ip)]

ConditionalUpdate_NoGeo(old, ip) ==
    IF old.status \in Matched
    THEN old
    ELSE [old EXCEPT !.status = "matched", !.ip = ip]

ConditionalUpdate(old, ip) ==
    IF old.status \in Matched
    THEN old
    ELSE [status |-> "matched", ip |-> ip, geo |-> KnownGeo(old.geo, ip)]

UpdateEvent(o) ==
    /\ pc[o] = "update"
    /\ \E e \in left[o] :
          /\ \A f \in left[o] : SortKey[e] <= SortKey[f]
          /\ table' = [table EXCEPT ![e] = ConditionalUpdate(@, target[o].ip)]
          /\ left' = [left EXCEPT ![o] = @ \ {e}]
    /\ UNCHANGED <<seen, conns, connsSeen, pc, attempts, pos, cache, stored,
                   target>>

FinishUpdate(o) ==
    /\ pc[o] = "update"
    /\ left[o] = {}
    /\ NextRecord(o)
    /\ target' = [target EXCEPT ![o] = NoTarget]
    /\ GoTo(o, "scan")
    /\ UNCHANGED <<tableVars, attempts, cache, stored, left>>

FinishHaproxy(o) ==
    /\ pc[o] = "scan"
    /\ pos[o] > Len(Lines[o])
    /\ GoTo(o, "done")
    /\ Forget(o)
    /\ UNCHANGED <<tableVars, attempts>>

HaproxyStep(o) ==
    \/ StartHaproxy(o)
    \/ PutConn(o)
    \/ BeginBackward(o)
    \/ FindTargetSession(o)
    \/ QuerySession(o)
    \/ UpdateEvent(o)
    \/ FinishUpdate(o)
    \/ FinishHaproxy(o)

-----------------------------------------------------------------------------
(* What happens to an invocation and to reads from outside *)

Settled == {"done", "dead"}

\* A timeout or an exception ends the invocation between two calls; its
\* memory is gone.  The notification is delivered again, or dead-lettered.
Fail(o) ==
    /\ pc[o] \notin Settled \cup {"idle"}
    /\ GoTo(o, IF attempts[o] < MaxAttempts THEN "idle" ELSE "dead")
    /\ Forget(o)
    /\ UNCHANGED <<tableVars, attempts>>

\* Replicas and the index catch up, item by item.
SyncEvent ==
    /\ \E e \in Event :
          /\ seen[e] # table[e]
          /\ seen' = [seen EXCEPT ![e] = table[e]]
    /\ UNCHANGED <<table, conns, connsSeen, pc, attempts, localVars>>

SyncConn ==
    /\ \E h \in conns \ connsSeen : connsSeen' = connsSeen \cup {h}
    /\ UNCHANGED <<table, seen, conns, pc, attempts, localVars>>

Step(o) ==
    \/ o \in CowrieObject /\ CowrieStep(o)
    \/ o \in HaproxyObject /\ HaproxyStep(o)

Next ==
    \/ \E o \in CowrieObject : CowrieStep(o)
    \/ \E o \in HaproxyObject : HaproxyStep(o)
    \/ \E o \in Object : Fail(o)
    \/ SyncEvent
    \/ SyncConn

Spec == Init /\ [][Next]_vars

\* A started invocation takes its next step, S3 delivers every notification,
\* and replication catches up.  Nothing makes an invocation fail.
FairSpec ==
    /\ Spec
    /\ \A o \in Object : WF_vars(Step(o))
    /\ WF_vars(SyncEvent)
    /\ WF_vars(SyncConn)

-----------------------------------------------------------------------------
(* Properties *)

TypeOK ==
    /\ table \in [Event -> Item]
    /\ seen \in [Event -> Item]
    /\ conns \subseteq Conn
    /\ connsSeen \subseteq conns
    /\ pc \in [Object -> {"idle", "event", "window", "write", "scan",
                           "session", "update", "done", "dead"}]
    /\ attempts \in [Object -> 0..MaxAttempts]
    /\ pos \in [Object -> Nat \ {0}]
    /\ cache \in [CowrieObject -> [Session -> CacheEntry]]
    /\ stored \in [CowrieObject -> [Event -> Item]]
    /\ left \in [Object -> SUBSET (Event \cup Conn)]
    /\ target \in [HaproxyObject ->
                      {NoTarget} \cup [session : Session, ip : Ip]]

Delay(h, e) == EventTs[e] - ConnTs[h]

\* Neither conversion lost anything, which is so from September 2005 to January
\* 2038: a float of that many seconds is off by less than 1/8 microsecond, and
\* its product with 1e6 is rounded to a multiple of 1/4.
Exact(h, e) == EventUs[e] = EventTs[e] /\ ConnUs[h] = ConnTs[h]

\* Event e follows connection h by a delay a pass of the correlation may
\* accept ...
Responds(h, e) ==
    Delay(h, e) \in IF Exact(h, e) THEN MinDelta..Window
                   ELSE (MinDelta - 1)..(Window + 1)

\* ... and by one that both passes do accept.
Squarely(h, e) ==
    Delay(h, e) \in IF Exact(h, e) THEN MinDelta..Window
                   ELSE (MinDelta + 1)..(Window - 1)

\* The addresses the connections in `known` allow for a session: those of the
\* connections that have one of its events in their window.
GroundedIps(known, s) ==
    {ConnIp[h] : h \in {g \in known :
                    \E e \in Event : SessionOf[e] = s /\ Responds(g, e)}}

(***************************************************************************)
(* However lookups, inheritance, backward passes and retries interleave,   *)
(* an event is only ever shown under an address that some stored           *)
(* connection justifies by the time window of an event of its session:     *)
(* every chain of inheritance ends in a timestamp match.                   *)
(***************************************************************************)
AttributionGrounded ==
    \A e \in Event :
        table[e].status \in Matched => table[e].ip \in GroundedIps(conns, SessionOf[e])

\* The enrichment of the item of event e is that of no other address.
GeoCoherent(e, item) ==
    \A f \in GeoField :
        \/ ~Ships(e) /\ item.geo[f] = GeoOf[item.ip][f]
        \/ Ships(e) /\ item.geo[f] = Shipped[e][f]
        \/ Ships(e) /\ item.status = "matched" /\ GeoOf[item.ip][f] # NoGeo
              /\ item.geo[f] = GeoOf[item.ip][f]

(***************************************************************************)
(* An event is unresolved exactly while it carries the loopback address,   *)
(* which is what the backward pass selects on, and no field of its         *)
(* enrichment is another address's: the fields are what the enricher says  *)
(* of the address shown; if the line shipped its own they are those, save  *)
(* where a backward update put a value for the address it found.           *)
(***************************************************************************)
ItemCoherent ==
    \A e \in Present(table) :
        /\ table[e].status \in Unresolved <=> table[e].ip = Loopback
        /\ GeoCoherent(e, table[e])

\* "ambiguous" is only ever reported with two stored connections to choose
\* from; forward correlation never gives up on a sole candidate.
AmbiguityIsReal ==
    \A e \in Event :
        table[e].status = "ambiguous" =>
            \E g, h \in conns : g # h /\ Responds(g, e) /\ Responds(h, e)

\* Within one batch a session has one address: once an event of the batch is
\* resolved, the events after it inherit that address.
BatchAgrees ==
    \A o \in CowrieObject : \A e, f \in Event :
        /\ SessionOf[e] = SessionOf[f]
        /\ stored[o][e].status \in Matched
        /\ stored[o][f].status \in Matched
        => stored[o][e].ip = stored[o][f].ip

\* A notification is acknowledged only when every line of its object is in
\* the table, also after retries, and no put is lost to a crash.
DoneMeansStored ==
    /\ \A o \in CowrieObject : pc[o] = "done" =>
          LineSet(o) \subseteq Present(table)
    /\ \A o \in HaproxyObject : pc[o] = "done" =>
          LineSet(o) \subseteq conns

\* The conditional update never replaces an attribution: one that changes is
\* being put again by a Cowrie batch.
MatchReplacedByPut ==
    \A e \in Event :
        /\ table[e].status \in Matched
        /\ table'[e] # table[e]
        => \E o \in CowrieObject : e \in left[o] /\ e \notin left'[o]

OnlyPutsReplaceMatches == [][MatchReplacedByPut]_vars

\* Every notification ends acknowledged or in the dead-letter queue.
EveryObjectSettles == \A o \in Object : <>(pc[o] \in Settled)

Quiescent == \A o \in Object : pc[o] = "done"

\* Neither side can take connection h and event e for another's: e answers h,
\* no other stored connection may be the one, and h may be answered by e's
\* session only.
Unambiguous(known, h, e) ==
    /\ Tunneled(SessionOf[e])
    /\ Squarely(h, e)
    /\ {g \in known : Responds(g, e)} = {h}
    /\ \A f \in Event : Tunneled(SessionOf[f]) /\ Responds(h, f)
                           => SessionOf[f] = SessionOf[e]

(***************************************************************************)
(* "Each side handles the case where the OTHER source's batch landed first *)
(* in S3" (_backward_correlate): when all batches are in, an event with    *)
(* exactly one connection in its window, whose response window holds no    *)
(* other loopback session, is attributed.                                  *)
(***************************************************************************)
EachSideCovers ==
    Quiescent =>
        \A e \in Present(table), h \in conns :
            Unambiguous(conns, h, e) => table[e].status \in Matched

\* What a reader of the table is shown of each event, and what it may be.
Shown ==
    [e \in Event |->
        IF table[e].status = "absent" THEN "unstored"
        ELSE IF table[e].status \in Unresolved THEN "unresolved"
        ELSE table[e].ip]

MayBeShown ==
    [e \in Event |->
        IF Tunneled(SessionOf[e])
        THEN GroundedIps(Conn, SessionOf[e])
        ELSE {SrcIp[SessionOf[e]]}]

\* What the table promises its readers, where every object is delivered once.
Ledger == INSTANCE AttributionLedger WITH entry <- Shown, MayBe <- MayBeShown

LedgerRefined == Ledger!Spec

=============================================================================
