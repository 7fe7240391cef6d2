--------------------------- MODULE CorrelationInv ---------------------------
(***************************************************************************)
(* The inductive invariant behind the safety properties of Correlation:    *)
(* what is true of every item wherever a copy of it may be (the table, a   *)
(* replica, the memory of an invocation), of every remembered address, and *)
(* of every invocation at each point of its code.                          *)
(***************************************************************************)
EXTENDS Correlation

\* What every copy of the item of event e satisfies, given the stored
\* connections.
GoodItem(known, e, item) ==
    /\ item.status = "absent" => item = NoItem
    /\ item.status # "absent" => GeoCoherent(e, item)
    /\ item.status = "none" =>
          item.ip = SrcIp[SessionOf[e]] /\ ~Tunneled(SessionOf[e])
    /\ item.status \in Unresolved =>
          item.ip = Loopback /\ Tunneled(SessionOf[e])
    /\ item.status \in Matched =>
          item.ip \in GroundedIps(known, SessionOf[e]) /\ Tunneled(SessionOf[e])
    /\ item.status = "ambiguous" =>
          \E g, h \in known : g # h /\ Responds(g, e) /\ Responds(h, e)

ItemsGood ==
    \A e \in Event :
        /\ GoodItem(conns, e, table[e])
        /\ GoodItem(conns, e, seen[e])
        /\ \A o \in CowrieObject : GoodItem(conns, e, stored[o][e])

\* A cached address is grounded; a matched event of the batch has it.
CacheGood ==
    \A o \in CowrieObject :
        /\ \A s \in Session :
              cache[o][s] \in Ip => cache[o][s] \in GroundedIps(conns, s)
        /\ \A e \in Event : stored[o][e].status \in Matched =>
              stored[o][e].ip = cache[o][SessionOf[e]]

\* What the backward pass is about to write is grounded, and it writes it to
\* events of the target session only.
TargetGood ==
    \A o \in HaproxyObject :
        /\ target[o] # NoTarget =>
              /\ Tunneled(target[o].session)
              /\ target[o].ip \in GroundedIps(conns, target[o].session)
        /\ pc[o] \in {"session", "update"} => target[o] # NoTarget
        /\ pc[o] = "update" => \A e \in left[o] :
              e \in Event /\ SessionOf[e] = target[o].session

\* What reads return has been stored, and items stay: a backward update is of
\* an item that is there.
ReadsStored ==
    /\ Present(seen) \subseteq Present(table)
    /\ \A o \in HaproxyObject :
          pc[o] = "update" => left[o] \subseteq Present(table)

\* Where a Cowrie invocation is, and what it has secured by then.
CowrieAt(o) ==
    /\ pc[o] \in {"idle", "event", "window", "write", "done", "dead"}
    /\ pc[o] = "idle" => pos[o] = 1 /\ attempts[o] < MaxAttempts
    /\ pc[o] = "window" =>
          /\ pos[o] <= Len(Lines[o])
          /\ Tunneled(LineSession(o))
          /\ cache[o][LineSession(o)] = NoMatch
    /\ pc[o] \in {"event", "window"} =>
          \A i \in DOMAIN Lines[o] :
              i < pos[o] => stored[o][Lines[o][i]].status # "absent"
    /\ pc[o] = "write" =>
          /\ left[o] \subseteq Present(stored[o])
          /\ LineSet(o) \subseteq left[o] \cup Present(table)
    /\ pc[o] = "done" => LineSet(o) \subseteq Present(table)

CowrieControl == \A o \in CowrieObject : CowrieAt(o)

\* Where a HAProxy invocation is, and what it has secured by then.
HaproxyAt(o) ==
    /\ pc[o] \in {"idle", "write", "scan", "session", "update", "done",
                  "dead"}
    /\ pc[o] = "idle" => attempts[o] < MaxAttempts
    /\ pc[o] = "session" => pos[o] <= Len(Lines[o])
    /\ pc[o] = "write" =>
          left[o] \subseteq Conn /\ LineSet(o) \subseteq left[o] \cup conns
    /\ pc[o] \in {"scan", "session", "update", "done"} =>
          LineSet(o) \subseteq conns

HaproxyControl == \A o \in HaproxyObject : HaproxyAt(o)

IInv ==
    /\ TypeOK
    /\ ItemsGood
    /\ CacheGood
    /\ TargetGood
    /\ ReadsStored
    /\ CowrieControl
    /\ HaproxyControl

-----------------------------------------------------------------------------
(***************************************************************************)
(* What holds besides, where a notification is delivered once and a log    *)
(* line is in one object: a Cowrie batch never meets its own lines in the  *)
(* table, so every put is the first of its item.                           *)
(***************************************************************************)
DeliveredOnce == MaxAttempts = 1

LinesApart ==
    \A o, p \in CowrieObject : o # p => LineSet(o) \cap LineSet(p) = {}

FirstPuts(o) ==
    /\ Present(stored[o]) \subseteq LineSet(o)
    /\ pc[o] \in {"idle", "event", "window"} =>
          LineSet(o) \cap Present(table) = {}
    /\ pc[o] = "write" => left[o] \cap Present(table) = {}

OnceInv ==
    /\ \A o \in Object : pc[o] # "idle" => attempts[o] = MaxAttempts
    /\ \A o \in CowrieObject : FirstPuts(o)

-----------------------------------------------------------------------------
(***************************************************************************)
(* "The OTHER source's batch landed first": invocations follow one another *)
(* and every read sees what the earlier ones wrote.                        *)
(***************************************************************************)
OneAtATime ==
    \A o \in Object : pc[o] = "idle" /\ pc'[o] # "idle" =>
        /\ \A p \in Object : pc[p] \in Settled \cup {"idle"}
        /\ seen = table
        /\ connsSeen = conns

SerialSpec == Init /\ [][Next /\ OneAtATime]_vars

\* A session query returns the whole session.
PageHolds ==
    \A s \in Session :
        LET events == {e \in Event : SessionOf[e] = s}
        IN  IsFiniteSet(events) /\ Cardinality(events) <= SessionPage

Active(o) == pc[o] \notin Settled \cup {"idle"}

\* Every event that can only be connection h's has its address.
Covered(h) ==
    \A e \in Present(table) :
        Unambiguous(conns, h, e) => table[e].status \in Matched

\* A running Cowrie batch sees all connections, and has used them.
ForwardCovers(o) ==
    /\ ~Active(o) => Present(stored[o]) = {}
    /\ Active(o) =>
          /\ connsSeen = conns
          /\ \A e \in Present(stored[o]), h \in conns :
                Unambiguous(conns, h, e) => stored[o][e].status \in Matched

\* A running HAProxy batch is alone in changing items, so what a lagging read
\* misses is resolved already; every connection it has passed is covered, and
\* the items of the one it is at are matched, found or about to be updated.
BackwardCovers(o) ==
    /\ pc[o] \in {"idle", "write"} => pos[o] = 1
    /\ pc[o] = "write" => left[o] \subseteq LineSet(o)
    /\ Active(o) =>
          /\ Present(seen) = Present(table)
          /\ \A e \in Event :
                seen[e] = table[e] \/ table[e].status \in Matched
    /\ \A i \in DOMAIN Lines[o] :
          \/ pc[o] = "done"
          \/ pc[o] \in {"scan", "session", "update"} /\ i < pos[o]
          => Covered(Lines[o][i])
    /\ pc[o] \in {"session", "update"} =>
          /\ pos[o] <= Len(Lines[o])
          /\ \A e \in Present(table) :
                Unambiguous(conns, Line(o), e) =>
                    \/ table[e].status \in Matched
                    \/ pc[o] = "session" /\ SessionOf[e] = target[o].session
                    \/ pc[o] = "update" /\ e \in left[o]
    /\ pc[o] = "update" => left[o] \subseteq Present(table)

SerialInv ==
    /\ \A o, p \in Object : Active(o) /\ Active(p) => o = p
    /\ conns \subseteq UNION {LineSet(o) : o \in HaproxyObject}
    /\ \A o \in CowrieObject : ForwardCovers(o)
    /\ \A o \in HaproxyObject : BackwardCovers(o)

=============================================================================
