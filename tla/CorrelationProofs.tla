------------------------- MODULE CorrelationProofs -------------------------
(***************************************************************************)
(* Proofs about Correlation, for any sets of sessions, events, connections *)
(* and objects, any log times and any number of retries.                   *)
(***************************************************************************)
EXTENDS CorrelationInv, FiniteSetTheorems, TLAPS

-----------------------------------------------------------------------------
(* Times *)

\* The two windows of the code accept a delay that one of them may accept, and
\* each of them accepts one that is squarely inside.
LEMMA WindowsRespond ==
    ASSUME NEW h \in Conn, NEW e \in Event
    PROVE  /\ InWindow(h, e) => Responds(h, e)
           /\ InResponseWindow(e, h) => Responds(h, e)
           /\ Squarely(h, e) => InWindow(h, e) /\ InResponseWindow(e, h)
<1>0. MinDelta \in Int /\ Window \in Int
  BY BoundAssumption
<1>1. /\ EventTs[e] \in Int /\ EventUs[e] \in Int
      /\ EventUs[e] = EventTs[e] - 1 \/ EventUs[e] = EventTs[e]
      /\ ConnTs[h] \in Int /\ ConnUs[h] \in Int
      /\ ConnUs[h] = ConnTs[h] - 1 \/ ConnUs[h] = ConnTs[h]
  BY ClockAssumption DEF Micros
<1>2. ASSUME InWindow(h, e) PROVE Responds(h, e)
  <2>1. EventUs[e] - ConnUs[h] \in MinDelta..Window
    BY <1>0, <1>1, <1>2 DEF InWindow
  <2> QED
    BY <1>0, <1>1, <2>1 DEF Delay, Exact, Responds
<1>3. ASSUME InResponseWindow(e, h) PROVE Responds(h, e)
  <2>1. EventTs[e] - ConnUs[h] \in MinDelta..Window
    BY <1>0, <1>1, <1>3 DEF InResponseWindow
  <2> QED
    BY <1>0, <1>1, <2>1 DEF Delay, Exact, Responds
<1>4. ASSUME Squarely(h, e)
      PROVE  InWindow(h, e) /\ InResponseWindow(e, h)
  <2>1. \/ Exact(h, e) /\ EventTs[e] - ConnTs[h] \in MinDelta..Window
        \/ EventTs[e] - ConnTs[h] \in (MinDelta + 1)..(Window - 1)
    BY <1>4 DEF Delay, Squarely
  <2>2. InWindow(h, e)
    BY <1>0, <1>1, <2>1 DEF Exact, InWindow
  <2>3. InResponseWindow(e, h)
    BY <1>0, <1>1, <2>1 DEF Exact, InResponseWindow
  <2> QED
    BY <2>2, <2>3
<1> QED
  BY <1>2, <1>3, <1>4

-----------------------------------------------------------------------------
USE AddressAssumption, LogAssumption, ObjectAssumption, BoundAssumption

-----------------------------------------------------------------------------
(* Items *)

LEMMA NoItemType == NoItem \in Item
BY DEF NoItem, Item, Status, Address, Enrichment, NoEnrichment

LEMMA StoredEventType ==
    ASSUME NEW e \in Event, NEW st \in Status, NEW ip \in Address
    PROVE  StoredEvent(e, st, ip) \in Item
BY DEF StoredEvent, Item

\* A read returns, for each event, the current item or an older one.
LEMMA EventViewItems ==
    ASSUME NEW view \in EventViews, NEW e \in Event
    PROVE  view[e] = table[e] \/ view[e] = seen[e]
BY DEF EventViews

LEMMA EventViewType ==
    ASSUME TypeOK, NEW view \in EventViews, NEW e \in Event
    PROVE  view[e] \in Item
BY EventViewItems DEF TypeOK

LEMMA LineType ==
    ASSUME NEW o \in Object, TypeOK, pos[o] <= Len(Lines[o])
    PROVE  /\ o \in CowrieObject => Line(o) \in Event /\ LineSession(o) \in Session
           /\ o \in HaproxyObject => Line(o) \in Conn
           /\ Line(o) \in LineSet(o)
BY DEF TypeOK, Line, LineSession, LineSet, Object

LEMMA ForgetType ==
    ASSUME TypeOK, NEW o \in Object, Forget(o)
    PROVE  /\ pos' \in [Object -> Nat \ {0}]
           /\ cache' \in [CowrieObject -> [Session -> CacheEntry]]
           /\ stored' \in [CowrieObject -> [Event -> Item]]
           /\ left' \in [Object -> SUBSET (Event \cup Conn)]
           /\ target' \in [HaproxyObject ->
                             {NoTarget} \cup [session : Session, ip : Ip]]
BY NoItemType DEF TypeOK, Forget, CacheEntry

LEMMA GroundedIsPublic ==
    ASSUME NEW known \in SUBSET Conn, NEW s
    PROVE  GroundedIps(known, s) \subseteq Ip
BY DEF GroundedIps

\* More stored connections ground more addresses, and spoil no item.
LEMMA GroundedGrows ==
    ASSUME NEW before, NEW after, before \subseteq after, NEW s
    PROVE  GroundedIps(before, s) \subseteq GroundedIps(after, s)
BY DEF GroundedIps

LEMMA GoodItemGrows ==
    ASSUME NEW before, NEW after, before \subseteq after,
           NEW e, NEW item, GoodItem(before, e, item)
    PROVE  GoodItem(after, e, item)
BY GroundedGrows DEF GoodItem

LEMMA NoItemGood ==
    ASSUME NEW known, NEW e
    PROVE  GoodItem(known, e, NoItem)
BY DEF GoodItem, NoItem, Unresolved, Matched

LEMMA EventViewGood ==
    ASSUME ItemsGood, NEW view \in EventViews, NEW e \in Event
    PROVE  GoodItem(conns, e, view[e])
BY EventViewItems DEF ItemsGood

\* What the inheritance lookup finds is an address grounded for the session.
LEMMA PriorMatchGrounded ==
    ASSUME TypeOK, ItemsGood, NEW view \in EventViews, NEW s \in Session,
           NEW e \in PriorMatches(view, s)
    PROVE  /\ view[e].ip \in GroundedIps(conns, s)
           /\ view[e].ip \in Ip
<1>1. e \in Event /\ SessionOf[e] = s /\ view[e].status \in Matched
  BY DEF PriorMatches, FirstItems, SessionItems, Present
<1>2. view[e].ip \in GroundedIps(conns, s)
  BY <1>1, EventViewGood DEF GoodItem
<1> QED
  BY <1>2, GroundedIsPublic DEF TypeOK

\* A read of the HAProxy partition returns stored connections only.
LEMMA ConnViewStored ==
    ASSUME TypeOK, NEW view \in ConnViews
    PROVE  view \subseteq conns
BY DEF ConnViews, TypeOK

LEMMA CandidatesStored ==
    ASSUME TypeOK, NEW view \in ConnViews, NEW e, NEW h \in Candidates(view, e)
    PROVE  h \in conns /\ h \in Conn /\ InWindow(h, e)
BY ConnViewStored DEF Candidates, TypeOK

-----------------------------------------------------------------------------
(* Type correctness *)

LEMMA TypeInit == Init => TypeOK
BY NoItemType DEF Init, TypeOK, CacheEntry

LEMMA TypeCowrie ==
    ASSUME TypeOK, ItemsGood, CowrieControl,
           NEW o \in CowrieObject, CowrieStep(o)
    PROVE  TypeOK'
<1> USE DEF tableVars, localVars, GoTo, Object
<1>a. o \in Object
  OBVIOUS
<1>s. ASSUME NEW st \in Status, NEW ip \in Address, StoreEvent(o, st, ip),
             pos[o] <= Len(Lines[o])
      PROVE  /\ stored' \in [CowrieObject -> [Event -> Item]]
             /\ pos' \in [Object -> Nat \ {0}]
             /\ pc' = [pc EXCEPT ![o] = "event"]
  <2>1. Line(o) \in Event
    BY <1>a, <1>s, LineType
  <2>2. StoredEvent(Line(o), st, ip) \in Item
    BY <2>1, StoredEventType
  <2> QED
    BY <1>a, <1>s, <2>1, <2>2 DEF StoreEvent, TypeOK
<1>1. CASE StartCowrie(o)
  BY <1>1 DEF StartCowrie, TypeOK, CowrieControl, CowrieAt
<1>2. CASE DirectEvent(o)
  <2>1. SrcIp[LineSession(o)] \in Address
    BY <1>a, <1>2, LineType DEF DirectEvent
  <2> QED
    BY <1>2, <1>s, <2>1 DEF DirectEvent, TypeOK, Status
<1>3. CASE InheritFromCache(o)
  BY <1>3, <1>s DEF InheritFromCache, TypeOK, Status, Matched, Address
<1>4. CASE SkipLookup(o)
  BY <1>4 DEF SkipLookup, TypeOK
<1>5. CASE LookupSessionPriorMatch(o)
  <2>1. pos[o] <= Len(Lines[o]) /\ LineSession(o) \in Session
    BY <1>5, <1>a, LineType DEF LookupSessionPriorMatch
  <2>2. PICK view \in EventViews :
          \/ \E e \in PriorMatches(view, LineSession(o)) :
                /\ cache' = [cache EXCEPT ![o][LineSession(o)] = view[e].ip]
                /\ StoreEvent(o, "matched_inherited", view[e].ip)
          \/ /\ PriorMatches(view, LineSession(o)) = {}
             /\ cache' = [cache EXCEPT ![o][LineSession(o)] = NoMatch]
             /\ GoTo(o, "window")
             /\ UNCHANGED <<pos, stored>>
    BY <1>5 DEF LookupSessionPriorMatch
  <2>3. ASSUME NEW e \in PriorMatches(view, LineSession(o)),
               cache' = [cache EXCEPT ![o][LineSession(o)] = view[e].ip],
               StoreEvent(o, "matched_inherited", view[e].ip)
        PROVE  TypeOK'
    <3>1. view[e].ip \in Ip
      BY <2>1, PriorMatchGrounded
    <3>2. cache' \in [CowrieObject -> [Session -> CacheEntry]]
      BY <3>1, <2>1, <2>3 DEF TypeOK, CacheEntry
    <3> QED
      BY <1>5, <1>s, <2>1, <2>3, <3>1, <3>2
      DEF LookupSessionPriorMatch, TypeOK, Status, Matched, Address
  <2>4. ASSUME cache' = [cache EXCEPT ![o][LineSession(o)] = NoMatch],
               GoTo(o, "window"), UNCHANGED <<pos, stored>>
        PROVE  TypeOK'
    BY <1>5, <2>1, <2>4 DEF LookupSessionPriorMatch, TypeOK, CacheEntry
  <2> QED
    BY <2>2, <2>3, <2>4
<1>6. CASE Correlate(o)
  <2>1. pos[o] <= Len(Lines[o]) /\ LineSession(o) \in Session
    BY <1>6, <1>a, LineType DEF Correlate, CowrieControl, CowrieAt
  <2>2. PICK view \in ConnViews :
          \/ StoreEvent(o, "missed", Loopback) /\ UNCHANGED cache
          \/ \E h \in Candidates(view, Line(o)) :
                StoreEvent(o, "matched", ConnIp[h]) /\ CacheMatch(o, ConnIp[h])
          \/ StoreEvent(o, "ambiguous", Loopback) /\ UNCHANGED cache
    BY <1>6 DEF Correlate
  <2>3. ASSUME NEW h \in Candidates(view, Line(o)),
               StoreEvent(o, "matched", ConnIp[h]), CacheMatch(o, ConnIp[h])
        PROVE  TypeOK'
    <3>1. ConnIp[h] \in Ip
      BY CandidatesStored
    <3>2. cache' \in [CowrieObject -> [Session -> CacheEntry]]
      BY <3>1, <2>1, <2>3 DEF TypeOK, CacheEntry, CacheMatch
    <3> QED
      BY <1>6, <1>s, <2>1, <2>3, <3>1, <3>2
      DEF Correlate, TypeOK, Status, Matched, Address
  <2>4. ASSUME \/ StoreEvent(o, "missed", Loopback)
               \/ StoreEvent(o, "ambiguous", Loopback),
               UNCHANGED cache
        PROVE  TypeOK'
    BY <1>6, <1>s, <2>1, <2>4 DEF Correlate, TypeOK, Status, Unresolved, Address
  <2> QED
    BY <2>2, <2>3, <2>4
<1>7. CASE BeginWrite(o)
  BY <1>7 DEF BeginWrite, TypeOK, Present
<1>8. CASE PutEvent(o)
  BY <1>8 DEF PutEvent, TypeOK, CowrieControl, CowrieAt, Present
<1>9. CASE FinishCowrie(o)
  BY <1>9, <1>a, ForgetType DEF FinishCowrie, TypeOK
<1> QED
  BY <1>1, <1>2, <1>3, <1>4, <1>5, <1>6, <1>7, <1>8, <1>9 DEF CowrieStep

LEMMA TypeHaproxy ==
    ASSUME TypeOK, TargetGood, HaproxyControl,
           NEW o \in HaproxyObject, HaproxyStep(o)
    PROVE  TypeOK'
<1> USE DEF tableVars, localVars, GoTo, Object
<1>a. o \in Object
  OBVIOUS
<1>1. CASE StartHaproxy(o)
  <2>1. LineSet(o) \subseteq Conn
    BY DEF LineSet
  <2> QED
    BY <1>1, <2>1 DEF StartHaproxy, TypeOK, HaproxyControl, HaproxyAt
<1>2. CASE PutConn(o)
  BY <1>2 DEF PutConn, TypeOK, HaproxyControl, HaproxyAt
<1>3. CASE BeginBackward(o)
  BY <1>3 DEF BeginBackward, TypeOK
<1>4. CASE FindTargetSession(o)
  <2>1. Line(o) \in Conn
    BY <1>4, <1>a, LineType DEF FindTargetSession
  <2>2. PICK view \in EventViews :
          \/ \E s \in SessionsInWindow(view, Line(o)) :
                /\ target' = [target EXCEPT
                                ![o] = [session |-> s, ip |-> ConnIp[Line(o)]]]
                /\ GoTo(o, "session")
                /\ UNCHANGED pos
          \/ /\ NextRecord(o)
             /\ UNCHANGED <<pc, target>>
    BY <1>4 DEF FindTargetSession
  <2>3. SessionsInWindow(view, Line(o)) \subseteq Session
    BY DEF SessionsInWindow, Present
  <2>4. ASSUME NEW s \in SessionsInWindow(view, Line(o)),
               target' = [target EXCEPT
                            ![o] = [session |-> s, ip |-> ConnIp[Line(o)]]],
               GoTo(o, "session"),
               UNCHANGED pos
        PROVE  TypeOK'
    <3>1. [session |-> s, ip |-> ConnIp[Line(o)]] \in [session : Session, ip : Ip]
      BY <2>1, <2>3, <2>4
    <3>2. target' \in [HaproxyObject ->
                         {NoTarget} \cup [session : Session, ip : Ip]]
      BY <2>4, <3>1 DEF TypeOK
    <3> QED
      BY <1>4, <2>4, <3>2 DEF FindTargetSession, TypeOK
  <2>5. ASSUME NextRecord(o), UNCHANGED <<pc, target>>
        PROVE  TypeOK'
    BY <1>4, <2>5 DEF FindTargetSession, NextRecord, TypeOK
  <2> QED
    BY <2>2, <2>4, <2>5
<1>5. CASE QuerySession(o)
  BY <1>5 DEF QuerySession, TypeOK, FirstItems, SessionItems, Present
<1>6. CASE UpdateEvent(o)
  <2>1. PICK e \in left[o] :
          /\ table' = [table EXCEPT ![e] = ConditionalUpdate(@, target[o].ip)]
          /\ left' = [left EXCEPT ![o] = @ \ {e}]
    BY <1>6 DEF UpdateEvent
  <2>2. e \in Event /\ target[o].ip \in Address
    BY <1>6 DEF UpdateEvent, TargetGood, TypeOK, Address
  <2>3. ConditionalUpdate(table[e], target[o].ip) \in Item
    <3>1. table[e] \in Item /\ GeoOf[target[o].ip] \in Enrichment
      BY <2>2 DEF TypeOK
    <3>2. KnownGeo(table[e].geo, target[o].ip) \in Enrichment
      BY <3>1 DEF KnownGeo, Item, Enrichment
    <3> QED
      BY <2>2, <3>1, <3>2 DEF ConditionalUpdate, Item, Status, Matched
  <2> QED
    BY <1>6, <2>1, <2>2, <2>3 DEF UpdateEvent, TypeOK
<1>7. CASE FinishUpdate(o)
  BY <1>7 DEF FinishUpdate, NextRecord, TypeOK
<1>8. CASE FinishHaproxy(o)
  BY <1>8, <1>a, ForgetType DEF FinishHaproxy, TypeOK
<1> QED
  BY <1>1, <1>2, <1>3, <1>4, <1>5, <1>6, <1>7, <1>8 DEF HaproxyStep

LEMMA TypeOutside ==
    ASSUME TypeOK,
           \/ \E o \in Object : Fail(o)
           \/ SyncEvent
           \/ SyncConn
    PROVE  TypeOK'
<1>1. ASSUME NEW o \in Object, Fail(o) PROVE TypeOK'
  BY <1>1, ForgetType DEF Fail, TypeOK, GoTo, tableVars, Object
<1>2. CASE SyncEvent
  BY <1>2 DEF SyncEvent, TypeOK, localVars
<1>3. CASE SyncConn
  BY <1>3 DEF SyncConn, TypeOK, localVars
<1> QED
  BY <1>1, <1>2, <1>3

-----------------------------------------------------------------------------
(* Items are good wherever they are kept *)

LEMMA WindowGrounds ==
    ASSUME NEW known, NEW h \in Conn, NEW e \in Event, h \in known,
           InWindow(h, e) \/ InResponseWindow(e, h)
    PROVE  ConnIp[h] \in GroundedIps(known, SessionOf[e])
BY WindowsRespond DEF GroundedIps

LEMMA StoredCoherent ==
    ASSUME NEW e \in Event, NEW st, NEW ip
    PROVE  GeoCoherent(e, StoredEvent(e, st, ip))
BY DEF GeoCoherent, StoredEvent

LEMMA MatchedEventGood ==
    ASSUME NEW known \in SUBSET Conn, NEW e \in Event, NEW st \in Matched,
           NEW ip \in GroundedIps(known, SessionOf[e]),
           Tunneled(SessionOf[e])
    PROVE  GoodItem(known, e, StoredEvent(e, st, ip))
BY StoredCoherent DEF GoodItem, StoredEvent, Matched, Unresolved

LEMMA ConditionalUpdateGood ==
    ASSUME NEW known \in SUBSET Conn, NEW e \in Event, NEW item \in Item,
           GoodItem(known, e, item),
           Tunneled(SessionOf[e]),
           NEW ip \in GroundedIps(known, SessionOf[e]),
           item.status # "absent"
    PROVE  GoodItem(known, e, ConditionalUpdate(item, ip))
<1>1. CASE item.status \in Matched
  BY <1>1 DEF ConditionalUpdate
<1>2. CASE item.status \notin Matched
  <2>1. item.status \in Unresolved
    BY <1>2 DEF Item, Status, GoodItem, Unresolved
  <2>2. ConditionalUpdate(item, ip) =
          [status |-> "matched", ip |-> ip, geo |-> KnownGeo(item.geo, ip)]
    BY <1>2 DEF ConditionalUpdate
  <2>3. ASSUME NEW f \in GeoField
        PROVE  item.geo[f] = IF Ships(e) THEN Shipped[e][f] ELSE NoGeo
    <3>1. GeoCoherent(e, item) /\ item.ip = Loopback /\ item.status # "matched"
      BY <2>1 DEF GoodItem, Unresolved
    <3>2. GeoOf[Loopback][f] = NoGeo
      BY DEF NoEnrichment
    <3> QED
      BY <3>1, <3>2 DEF GeoCoherent
  <2>4. GeoCoherent(e, ConditionalUpdate(item, ip))
    BY <2>2, <2>3 DEF GeoCoherent, KnownGeo
  <2> QED
    BY <2>2, <2>4 DEF GoodItem, Matched, Unresolved
<1> QED
  BY <1>1, <1>2

LEMMA ForgetGood ==
    ASSUME ItemsGood, NEW o, Forget(o), UNCHANGED <<table, seen, conns>>
    PROVE  ItemsGood'
<1>1. ASSUME NEW e \in Event, NEW c \in CowrieObject
      PROVE  GoodItem(conns, e, stored'[c][e])
  <2>1. stored'[c][e] = stored[c][e] \/ stored'[c][e] = NoItem
    BY DEF Forget
  <2> QED
    BY <2>1, NoItemGood DEF ItemsGood
<1> QED
  BY <1>1 DEF ItemsGood

LEMMA ItemsInit == Init => ItemsGood
BY NoItemGood DEF Init, ItemsGood

LEMMA ItemsCowrie ==
    ASSUME IInv, NEW o \in CowrieObject, CowrieStep(o)
    PROVE  ItemsGood'
<1> USE DEF tableVars, localVars, IInv
<1>a. o \in Object
  BY DEF Object
<1>s. ASSUME NEW st, NEW ip, StoreEvent(o, st, ip), UNCHANGED tableVars,
             pos[o] <= Len(Lines[o]),
             GoodItem(conns, Line(o), StoredEvent(Line(o), st, ip))
      PROVE  ItemsGood'
  <2>1. Line(o) \in Event
    BY <1>a, <1>s, LineType
  <2>2. \A e \in Event : \A c \in CowrieObject :
          stored'[c][e] = stored[c][e] \/
          (e = Line(o) /\ stored'[c][e] = StoredEvent(Line(o), st, ip))
    BY <1>s, <2>1 DEF StoreEvent, TypeOK
  <2> QED
    BY <1>s, <2>2 DEF ItemsGood
<1>1. CASE StartCowrie(o)
  BY <1>1 DEF StartCowrie, ItemsGood
<1>2. CASE DirectEvent(o)
  <2>1. Line(o) \in Event
    BY <1>2, <1>a, LineType DEF DirectEvent
  <2>2. GoodItem(conns, Line(o), StoredEvent(Line(o), "none", SrcIp[LineSession(o)]))
    BY <1>2, <2>1, StoredCoherent
    DEF DirectEvent, GoodItem, StoredEvent, Unresolved, Matched, LineSession
  <2> QED
    BY <1>2, <1>s, <2>2 DEF DirectEvent
<1>3. CASE InheritFromCache(o)
  <2>1. Line(o) \in Event /\ LineSession(o) \in Session
    BY <1>3, <1>a, LineType DEF InheritFromCache
  <2>2. cache[o][LineSession(o)] \in GroundedIps(conns, LineSession(o))
    BY <1>3, <2>1 DEF InheritFromCache, CacheGood
  <2>3. GoodItem(conns, Line(o),
                 StoredEvent(Line(o), "matched_inherited", cache[o][LineSession(o)]))
    BY <1>3, <2>1, <2>2, MatchedEventGood
    DEF InheritFromCache, LineSession, Matched, TypeOK
  <2> QED
    BY <1>3, <1>s, <2>3 DEF InheritFromCache
<1>4. CASE SkipLookup(o)
  BY <1>4 DEF SkipLookup, ItemsGood
<1>5. CASE LookupSessionPriorMatch(o)
  <2>1. Line(o) \in Event /\ LineSession(o) \in Session
    BY <1>5, <1>a, LineType DEF LookupSessionPriorMatch
  <2>2. PICK view \in EventViews :
          \/ \E e \in PriorMatches(view, LineSession(o)) :
                StoreEvent(o, "matched_inherited", view[e].ip)
          \/ UNCHANGED stored
    BY <1>5 DEF LookupSessionPriorMatch
  <2>3. ASSUME NEW e \in PriorMatches(view, LineSession(o)),
               StoreEvent(o, "matched_inherited", view[e].ip)
        PROVE  ItemsGood'
    <3>1. view[e].ip \in GroundedIps(conns, LineSession(o))
      BY <2>1, PriorMatchGrounded
    <3>2. GoodItem(conns, Line(o), StoredEvent(Line(o), "matched_inherited", view[e].ip))
      BY <1>5, <2>1, <3>1, MatchedEventGood
      DEF LookupSessionPriorMatch, LineSession, Matched, TypeOK
    <3> QED
      BY <1>5, <1>s, <2>3, <3>2 DEF LookupSessionPriorMatch
  <2>4. CASE UNCHANGED stored
    BY <1>5, <2>4 DEF LookupSessionPriorMatch, ItemsGood
  <2> QED
    BY <2>2, <2>3, <2>4
<1>6. CASE Correlate(o)
  <2>1. /\ Line(o) \in Event /\ LineSession(o) \in Session
        /\ pos[o] <= Len(Lines[o])
        /\ Tunneled(LineSession(o))
    BY <1>6, <1>a, LineType DEF Correlate, CowrieControl, CowrieAt
  <2>2. PICK view \in ConnViews :
          \/ StoreEvent(o, "missed", Loopback)
          \/ \E h \in Candidates(view, Line(o)) :
                StoreEvent(o, "matched", ConnIp[h])
          \/ /\ \E g, h \in Candidates(view, Line(o)) : g # h
             /\ StoreEvent(o, "ambiguous", Loopback)
    BY <1>6 DEF Correlate
  <2>3. CASE StoreEvent(o, "missed", Loopback)
    <3>1. GoodItem(conns, Line(o), StoredEvent(Line(o), "missed", Loopback))
      BY <2>1, StoredCoherent
      DEF GoodItem, StoredEvent, Unresolved, Matched, LineSession
    <3> QED
      BY <1>6, <1>s, <2>1, <2>3, <3>1 DEF Correlate
  <2>4. ASSUME NEW h \in Candidates(view, Line(o)),
               StoreEvent(o, "matched", ConnIp[h])
        PROVE  ItemsGood'
    <3>1. ConnIp[h] \in GroundedIps(conns, SessionOf[Line(o)])
      BY <2>1, CandidatesStored, WindowGrounds
    <3>2. GoodItem(conns, Line(o), StoredEvent(Line(o), "matched", ConnIp[h]))
      BY <2>1, <3>1, MatchedEventGood DEF LineSession, Matched, TypeOK
    <3> QED
      BY <1>6, <1>s, <2>1, <2>4, <3>2 DEF Correlate
  <2>5. ASSUME NEW g \in Candidates(view, Line(o)),
               NEW h \in Candidates(view, Line(o)), g # h,
               StoreEvent(o, "ambiguous", Loopback)
        PROVE  ItemsGood'
    <3>1. /\ g \in conns /\ Responds(g, Line(o))
          /\ h \in conns /\ Responds(h, Line(o))
      BY <2>1, CandidatesStored, WindowsRespond
    <3>2. GoodItem(conns, Line(o), StoredEvent(Line(o), "ambiguous", Loopback))
      BY <2>1, <2>5, <3>1, StoredCoherent
      DEF GoodItem, StoredEvent, Unresolved, Matched, LineSession
    <3> QED
      BY <1>6, <1>s, <2>1, <2>5, <3>2 DEF Correlate
  <2> QED
    BY <2>2, <2>3, <2>4, <2>5
<1>7. CASE BeginWrite(o)
  BY <1>7 DEF BeginWrite, ItemsGood
<1>8. CASE PutEvent(o)
  <2>1. PICK e \in left[o] : table' = [table EXCEPT ![e] = stored[o][e]]
    BY <1>8 DEF PutEvent
  <2>2. e \in Event
    BY <1>8, <2>1 DEF PutEvent, CowrieControl, CowrieAt, Present
  <2> QED
    BY <1>8, <2>1, <2>2 DEF PutEvent, ItemsGood, TypeOK
<1>9. CASE FinishCowrie(o)
  BY <1>9, ForgetGood DEF FinishCowrie
<1> QED
  BY <1>1, <1>2, <1>3, <1>4, <1>5, <1>6, <1>7, <1>8, <1>9 DEF CowrieStep

LEMMA ItemsHaproxy ==
    ASSUME IInv, NEW o \in HaproxyObject, HaproxyStep(o)
    PROVE  ItemsGood'
<1> USE DEF tableVars, localVars, IInv
<1>1. CASE StartHaproxy(o)
  BY <1>1 DEF StartHaproxy, ItemsGood
<1>2. CASE PutConn(o)
  <2>1. conns \subseteq conns' /\ UNCHANGED <<table, seen, stored>>
    BY <1>2 DEF PutConn
  <2> QED
    BY <2>1, GoodItemGrows DEF ItemsGood
<1>3. CASE BeginBackward(o)
  BY <1>3 DEF BeginBackward, ItemsGood
<1>4. CASE FindTargetSession(o)
  BY <1>4 DEF FindTargetSession, ItemsGood
<1>5. CASE QuerySession(o)
  BY <1>5 DEF QuerySession, ItemsGood
<1>6. CASE UpdateEvent(o)
  <2>1. PICK e \in left[o] :
          table' = [table EXCEPT ![e] = ConditionalUpdate(@, target[o].ip)]
    BY <1>6 DEF UpdateEvent
  <2>2. /\ e \in Event
        /\ target[o].ip \in GroundedIps(conns, SessionOf[e])
        /\ Tunneled(SessionOf[e])
        /\ table[e].status # "absent"
    BY <1>6 DEF UpdateEvent, TargetGood, ReadsStored, Present
  <2>3. GoodItem(conns, e, ConditionalUpdate(table[e], target[o].ip))
    BY <2>2, ConditionalUpdateGood DEF ItemsGood, TypeOK
  <2> QED
    BY <1>6, <2>1, <2>2, <2>3 DEF UpdateEvent, ItemsGood, TypeOK
<1>7. CASE FinishUpdate(o)
  BY <1>7 DEF FinishUpdate, ItemsGood
<1>8. CASE FinishHaproxy(o)
  BY <1>8, ForgetGood DEF FinishHaproxy
<1> QED
  BY <1>1, <1>2, <1>3, <1>4, <1>5, <1>6, <1>7, <1>8 DEF HaproxyStep

LEMMA ItemsOutside ==
    ASSUME IInv,
           \/ \E o \in Object : Fail(o)
           \/ SyncEvent
           \/ SyncConn
    PROVE  ItemsGood'
<1> USE DEF tableVars, localVars, IInv
<1>1. ASSUME NEW o \in Object, Fail(o) PROVE ItemsGood'
  BY <1>1, ForgetGood DEF Fail
<1>2. CASE SyncEvent
  BY <1>2 DEF SyncEvent, ItemsGood, TypeOK
<1>3. CASE SyncConn
  BY <1>3 DEF SyncConn, ItemsGood
<1> QED
  BY <1>1, <1>2, <1>3

-----------------------------------------------------------------------------
(* What invocations remember *)

LEMMA MemoryInit == Init => CacheGood /\ TargetGood
<1>1. Init => CacheGood
  <2>1. Unlooked \notin Ip
    OBVIOUS
  <2> QED
    BY <2>1 DEF Init, CacheGood, NoItem, Matched
<1>2. Init => TargetGood
  BY DEF Init, TargetGood, Object
<1> QED
  BY <1>1, <1>2

LEMMA CacheCowrie ==
    ASSUME IInv, NEW o \in CowrieObject, CowrieStep(o)
    PROVE  CacheGood'
<1> USE DEF tableVars, localVars, IInv
<1>a. o \in Object
  BY DEF Object
\* Any step that leaves the memory of the invocation alone.
<1>u. ASSUME UNCHANGED <<conns, cache, stored>> PROVE CacheGood'
  BY <1>u DEF CacheGood
\* An event stored under the address the cache holds afterwards.
<1>s. ASSUME NEW st \in Status, NEW ip, NEW entry,
             StoreEvent(o, st, ip), UNCHANGED conns,
             Line(o) \in Event, LineSession(o) \in Session,
             cache' = [cache EXCEPT ![o][LineSession(o)] = entry],
             st \in Matched => ip = entry,
             entry \in Ip => entry \in GroundedIps(conns, LineSession(o)),
             \A e \in Event : SessionOf[e] = LineSession(o)
                /\ stored[o][e].status \in Matched => stored[o][e].ip = entry
      PROVE  CacheGood'
  <2>1. ASSUME NEW c \in CowrieObject, NEW s \in Session, cache'[c][s] \in Ip
        PROVE  cache'[c][s] \in GroundedIps(conns', s)
    BY <1>s, <2>1 DEF CacheGood, TypeOK
  <2>2. ASSUME NEW c \in CowrieObject, NEW e \in Event,
               stored'[c][e].status \in Matched
        PROVE  stored'[c][e].ip = cache'[c][SessionOf[e]]
    <3>1. CASE c = o /\ e = Line(o)
      <4>1. stored'[c][e] = StoredEvent(Line(o), st, ip)
        BY <1>s, <3>1 DEF StoreEvent, TypeOK
      <4>2. st \in Matched /\ stored'[c][e].ip = ip
        BY <2>2, <4>1 DEF StoredEvent
      <4> QED
        BY <1>s, <3>1, <4>2 DEF TypeOK, LineSession
    <3>2. CASE c = o /\ e # Line(o)
      <4>1. stored'[c][e] = stored[c][e]
        BY <1>s, <3>2 DEF StoreEvent, TypeOK
      <4>2. stored[o][e].ip = cache[o][SessionOf[e]]
        BY <2>2, <3>2, <4>1 DEF CacheGood
      <4>3. CASE SessionOf[e] = LineSession(o)
        BY <1>s, <2>2, <3>2, <4>1, <4>3 DEF TypeOK
      <4>4. CASE SessionOf[e] # LineSession(o)
        BY <1>s, <3>2, <4>1, <4>2, <4>4 DEF TypeOK
      <4> QED
        BY <4>3, <4>4
    <3>3. CASE c # o
      <4>1. stored'[c] = stored[c] /\ cache'[c] = cache[c]
        BY <1>s, <3>3 DEF StoreEvent, TypeOK
      <4> QED
        BY <2>2, <4>1 DEF CacheGood
    <3> QED
      BY <3>1, <3>2, <3>3
  <2> QED
    BY <2>1, <2>2 DEF CacheGood
<1>1. CASE StartCowrie(o)
  BY <1>1, <1>u DEF StartCowrie
<1>2. CASE DirectEvent(o)
  <2>1. Line(o) \in Event /\ LineSession(o) \in Session
    BY <1>2, <1>a, LineType DEF DirectEvent
  <2>2. cache' = [cache EXCEPT ![o][LineSession(o)] = cache[o][LineSession(o)]]
    BY <1>2, <2>1 DEF DirectEvent, TypeOK
  <2>3. \A e \in Event : SessionOf[e] = LineSession(o)
            /\ stored[o][e].status \in Matched
          => stored[o][e].ip = cache[o][LineSession(o)]
    BY DEF CacheGood
  <2>4. cache[o][LineSession(o)] \in Ip =>
          cache[o][LineSession(o)] \in GroundedIps(conns, LineSession(o))
    BY <2>1 DEF CacheGood
  <2>5. StoreEvent(o, "none", SrcIp[LineSession(o)]) /\ UNCHANGED conns
    BY <1>2 DEF DirectEvent
  <2>6. "none" \in Status /\ "none" \notin Matched
    BY DEF Status, Matched
  <2> QED
    BY <1>s, <2>1, <2>2, <2>3, <2>4, <2>5, <2>6
<1>3. CASE InheritFromCache(o)
  <2>1. Line(o) \in Event /\ LineSession(o) \in Session
    BY <1>3, <1>a, LineType DEF InheritFromCache
  <2>2. cache' = [cache EXCEPT ![o][LineSession(o)] = cache[o][LineSession(o)]]
    BY <1>3, <2>1 DEF InheritFromCache, TypeOK
  <2>3. \A e \in Event : SessionOf[e] = LineSession(o)
            /\ stored[o][e].status \in Matched
          => stored[o][e].ip = cache[o][LineSession(o)]
    BY DEF CacheGood
  <2>4. cache[o][LineSession(o)] \in Ip =>
          cache[o][LineSession(o)] \in GroundedIps(conns, LineSession(o))
    BY <2>1 DEF CacheGood
  <2>5. /\ StoreEvent(o, "matched_inherited", cache[o][LineSession(o)])
        /\ UNCHANGED conns
    BY <1>3 DEF InheritFromCache
  <2>6. "matched_inherited" \in Status
    BY DEF Status, Matched
  <2> QED
    BY <1>s, <2>1, <2>2, <2>3, <2>4, <2>5, <2>6
<1>4. CASE SkipLookup(o)
  BY <1>4, <1>u DEF SkipLookup
<1>5. CASE LookupSessionPriorMatch(o)
  <2>1. Line(o) \in Event /\ LineSession(o) \in Session
    BY <1>5, <1>a, LineType DEF LookupSessionPriorMatch
  \* Nothing of the session can have matched before the lookup.
  <2>2. \A e \in Event : SessionOf[e] = LineSession(o) =>
          stored[o][e].status \notin Matched
    <3> SUFFICES ASSUME NEW e \in Event, SessionOf[e] = LineSession(o),
                        stored[o][e].status \in Matched
                 PROVE  FALSE
      OBVIOUS
    <3>1. stored[o][e].ip = Unlooked
      BY <1>5 DEF CacheGood, LookupSessionPriorMatch
    <3>2. stored[o][e].ip \in Ip
      BY GroundedIsPublic DEF ItemsGood, GoodItem, TypeOK
    <3> QED
      BY <3>1, <3>2
  <2>3. PICK view \in EventViews :
          \/ \E e \in PriorMatches(view, LineSession(o)) :
                /\ cache' = [cache EXCEPT ![o][LineSession(o)] = view[e].ip]
                /\ StoreEvent(o, "matched_inherited", view[e].ip)
          \/ /\ cache' = [cache EXCEPT ![o][LineSession(o)] = NoMatch]
             /\ UNCHANGED stored
    BY <1>5 DEF LookupSessionPriorMatch
  <2>4. ASSUME NEW e \in PriorMatches(view, LineSession(o)),
               cache' = [cache EXCEPT ![o][LineSession(o)] = view[e].ip],
               StoreEvent(o, "matched_inherited", view[e].ip)
        PROVE  CacheGood'
    <3>1. view[e].ip \in GroundedIps(conns, LineSession(o))
      BY <2>1, PriorMatchGrounded
    <3> QED
      BY <1>5, <1>s, <2>1, <2>2, <2>4, <3>1
      DEF LookupSessionPriorMatch, Matched, Status
  <2>5. ASSUME cache' = [cache EXCEPT ![o][LineSession(o)] = NoMatch],
               UNCHANGED stored
        PROVE  CacheGood'
    <3>1. UNCHANGED conns
      BY <1>5 DEF LookupSessionPriorMatch
    <3> QED
      BY <2>1, <2>2, <2>5, <3>1 DEF CacheGood, TypeOK
  <2> QED
    BY <2>3, <2>4, <2>5
<1>6. CASE Correlate(o)
  <2>1. /\ Line(o) \in Event /\ LineSession(o) \in Session
        /\ cache[o][LineSession(o)] = NoMatch
    BY <1>6, <1>a, LineType DEF Correlate, CowrieControl, CowrieAt
  <2>2. \A e \in Event : SessionOf[e] = LineSession(o) =>
          stored[o][e].status \notin Matched
    <3> SUFFICES ASSUME NEW e \in Event, SessionOf[e] = LineSession(o),
                        stored[o][e].status \in Matched
                 PROVE  FALSE
      OBVIOUS
    <3>1. stored[o][e].ip = NoMatch
      BY <2>1 DEF CacheGood
    <3>2. stored[o][e].ip \in Ip
      BY GroundedIsPublic DEF ItemsGood, GoodItem, TypeOK
    <3> QED
      BY <3>1, <3>2
  <2>3. PICK view \in ConnViews :
          \/ StoreEvent(o, "missed", Loopback) /\ UNCHANGED cache
          \/ \E h \in Candidates(view, Line(o)) :
                StoreEvent(o, "matched", ConnIp[h]) /\ CacheMatch(o, ConnIp[h])
          \/ StoreEvent(o, "ambiguous", Loopback) /\ UNCHANGED cache
    BY <1>6 DEF Correlate
  <2>4. ASSUME NEW st \in Unresolved, StoreEvent(o, st, Loopback),
               UNCHANGED cache
        PROVE  CacheGood'
    <3>1. cache' = [cache EXCEPT ![o][LineSession(o)] = cache[o][LineSession(o)]]
      BY <2>1, <2>4 DEF TypeOK
    <3> QED
      BY <1>6, <1>s, <2>1, <2>2, <2>4, <3>1
      DEF Correlate, CacheGood, Matched, Unresolved, Status
  <2>5. ASSUME NEW h \in Candidates(view, Line(o)),
               StoreEvent(o, "matched", ConnIp[h]), CacheMatch(o, ConnIp[h])
        PROVE  CacheGood'
    <3>1. ConnIp[h] \in GroundedIps(conns, LineSession(o))
      BY <2>1, CandidatesStored, WindowGrounds DEF LineSession
    <3> QED
      BY <1>6, <1>s, <2>1, <2>2, <2>5, <3>1
      DEF Correlate, CacheMatch, Matched, Status
  <2> QED
    BY <2>3, <2>4, <2>5 DEF Unresolved
<1>7. CASE BeginWrite(o)
  BY <1>7, <1>u DEF BeginWrite
<1>8. CASE PutEvent(o)
  BY <1>8, <1>u DEF PutEvent
<1>9. CASE FinishCowrie(o)
  <2>1. Forget(o) /\ UNCHANGED conns
    BY <1>9 DEF FinishCowrie
  <2> QED
    BY <2>1 DEF Forget, CacheGood, NoItem, Matched, TypeOK
<1> QED
  BY <1>1, <1>2, <1>3, <1>4, <1>5, <1>6, <1>7, <1>8, <1>9 DEF CowrieStep

LEMMA CacheHaproxy ==
    ASSUME IInv, NEW o \in HaproxyObject, HaproxyStep(o)
    PROVE  CacheGood'
<1> USE DEF tableVars, localVars, IInv
<1>u. ASSUME conns \subseteq conns', UNCHANGED <<cache, stored>>
      PROVE  CacheGood'
  BY <1>u, GroundedGrows DEF CacheGood
<1>1. CASE PutConn(o)
  <2>1. conns \subseteq conns' /\ UNCHANGED <<cache, stored>>
    BY <1>1 DEF PutConn
  <2> QED
    BY <1>u, <2>1
<1>2. CASE FinishHaproxy(o)
  <2>1. Forget(o) /\ UNCHANGED conns
    BY <1>2 DEF FinishHaproxy
  <2>2. UNCHANGED <<cache, stored>>
    BY <2>1 DEF Forget, TypeOK
  <2> QED
    BY <1>u, <2>1, <2>2
<1>3. CASE \/ StartHaproxy(o) \/ BeginBackward(o) \/ FindTargetSession(o)
           \/ QuerySession(o) \/ UpdateEvent(o) \/ FinishUpdate(o)
  <2>1. UNCHANGED <<conns, cache, stored>>
    BY <1>3 DEF StartHaproxy, BeginBackward, FindTargetSession, QuerySession,
                UpdateEvent, FinishUpdate
  <2> QED
    BY <1>u, <2>1
<1> QED
  BY <1>1, <1>2, <1>3 DEF HaproxyStep

LEMMA CacheOutside ==
    ASSUME IInv,
           \/ \E o \in Object : Fail(o)
           \/ SyncEvent
           \/ SyncConn
    PROVE  CacheGood'
<1> USE DEF tableVars, localVars, IInv
<1>1. ASSUME NEW o \in Object, Fail(o) PROVE CacheGood'
  <2>1. Forget(o) /\ UNCHANGED conns
    BY <1>1 DEF Fail
  <2> QED
    BY <2>1 DEF Forget, CacheGood, NoItem, Matched, TypeOK
<1>2. CASE SyncEvent
  BY <1>2 DEF SyncEvent, CacheGood
<1>3. CASE SyncConn
  BY <1>3 DEF SyncConn, CacheGood
<1> QED
  BY <1>1, <1>2, <1>3

\* A step of an invocation for a Cowrie object touches no target.
LEMMA TargetCowrie ==
    ASSUME IInv, NEW o \in CowrieObject, CowrieStep(o)
    PROVE  TargetGood'
<1> USE DEF tableVars, localVars, IInv
<1>1. ASSUME NEW h \in HaproxyObject
      PROVE  /\ target'[h] = target[h]
             /\ pc'[h] = pc[h]
             /\ left'[h] = left[h]
  <2>1. h # o /\ h \in Object /\ o \in Object
    BY DEF Object
  <2>2. CASE FinishCowrie(o)
    BY <2>1, <2>2 DEF FinishCowrie, Forget, GoTo, TypeOK
  <2>3. CASE ~FinishCowrie(o)
    BY <2>1, <2>3
    DEF CowrieStep, StartCowrie, DirectEvent, InheritFromCache, SkipLookup,
        LookupSessionPriorMatch, Correlate, BeginWrite, PutEvent, StoreEvent,
        GoTo, TypeOK
  <2> QED
    BY <2>2, <2>3
<1>2. UNCHANGED conns
  BY DEF CowrieStep, StartCowrie, DirectEvent, InheritFromCache, SkipLookup,
         LookupSessionPriorMatch, Correlate, BeginWrite, PutEvent, FinishCowrie
<1> QED
  BY <1>1, <1>2 DEF TargetGood

LEMMA TargetHaproxy ==
    ASSUME IInv, NEW o \in HaproxyObject, HaproxyStep(o)
    PROVE  TargetGood'
<1> USE DEF tableVars, localVars, IInv
<1>a. o \in Object
  BY DEF Object
<1>1. CASE StartHaproxy(o)
  BY <1>1, <1>a DEF StartHaproxy, TargetGood, TypeOK, GoTo
<1>2. CASE PutConn(o)
  <2>1. conns \subseteq conns'
    BY <1>2 DEF PutConn
  <2>2. \A h \in HaproxyObject : pc[h] = "update" => left'[h] = left[h]
    BY <1>2, <1>a DEF PutConn, TypeOK, Object
  <2>3. UNCHANGED <<pc, target>>
    BY <1>2 DEF PutConn
  <2> QED
    BY <2>1, <2>2, <2>3, GroundedGrows DEF TargetGood
<1>3. CASE BeginBackward(o)
  BY <1>3, <1>a DEF BeginBackward, TargetGood, TypeOK, GoTo
<1>4. CASE FindTargetSession(o)
  <2>1. Line(o) \in Conn /\ Line(o) \in conns
    BY <1>4, <1>a, LineType DEF FindTargetSession, HaproxyControl, HaproxyAt
  <2>2. PICK view \in EventViews :
          \/ \E s \in SessionsInWindow(view, Line(o)) :
                /\ target' = [target EXCEPT
                                ![o] = [session |-> s, ip |-> ConnIp[Line(o)]]]
                /\ pc' = [pc EXCEPT ![o] = "session"]
          \/ UNCHANGED <<pc, target>>
    BY <1>4 DEF FindTargetSession, GoTo
  <2>3. UNCHANGED <<conns, left>>
    BY <1>4 DEF FindTargetSession
  <2>4. ASSUME NEW s \in SessionsInWindow(view, Line(o)),
               target' = [target EXCEPT
                            ![o] = [session |-> s, ip |-> ConnIp[Line(o)]]],
               pc' = [pc EXCEPT ![o] = "session"]
        PROVE  TargetGood'
    <3>1. PICK e \in Event : /\ s = SessionOf[e]
                             /\ view[e].status # "absent"
                             /\ view[e].ip = Loopback
                             /\ InResponseWindow(e, Line(o))
      BY DEF SessionsInWindow, Present
    <3>2. Tunneled(s)
      <4>1. view[e].status \in {"none"} \cup Unresolved \cup Matched
        BY <3>1, EventViewType DEF Item, Status
      <4> QED
        BY <3>1, <4>1, EventViewGood DEF GoodItem, Tunneled
    <3>3. ConnIp[Line(o)] \in GroundedIps(conns, s)
      BY <2>1, <3>1, WindowGrounds
    <3>4. ConnIp[Line(o)] # Loopback
      BY <2>1
    <3>5. /\ target'[o].session = s /\ target'[o].ip = ConnIp[Line(o)]
          /\ target'[o] # NoTarget
          /\ pc'[o] = "session"
      BY <1>a, <2>4, <3>4 DEF TypeOK, NoTarget
    <3>6. \A h \in HaproxyObject \ {o} :
            target'[h] = target[h] /\ pc'[h] = pc[h]
      BY <2>4 DEF TypeOK
    <3>7. ASSUME NEW h \in HaproxyObject
          PROVE  /\ target'[h] # NoTarget =>
                       /\ Tunneled(target'[h].session)
                       /\ target'[h].ip \in GroundedIps(conns, target'[h].session)
                 /\ pc'[h] \in {"session", "update"} => target'[h] # NoTarget
                 /\ pc'[h] = "update" => \A f \in left[h] :
                       f \in Event /\ SessionOf[f] = target'[h].session
      <4>1. CASE h = o
        BY <4>1, <3>2, <3>3, <3>5
      <4>2. CASE h # o
        BY <4>2, <3>6 DEF TargetGood
      <4> QED
        BY <4>1, <4>2
    <3> QED
      BY <2>3, <3>7 DEF TargetGood, Tunneled
  <2>5. CASE UNCHANGED <<pc, target>>
    BY <2>3, <2>5 DEF TargetGood
  <2> QED
    BY <2>2, <2>4, <2>5
<1>5. CASE QuerySession(o)
  <2>1. PICK view \in EventViews :
          left' = [left EXCEPT
                     ![o] = FirstItems(view, target[o].session, SessionPage)]
    BY <1>5 DEF QuerySession
  <2>2. \A e \in left'[o] : e \in Event /\ SessionOf[e] = target[o].session
    BY <1>a, <2>1 DEF TypeOK, FirstItems, SessionItems, Present
  <2>3. \A h \in HaproxyObject \ {o} : left'[h] = left[h] /\ pc'[h] = pc[h]
    BY <1>5, <2>1 DEF QuerySession, GoTo, TypeOK, Object
  <2>4. target[o] # NoTarget /\ UNCHANGED <<conns, target>>
    BY <1>5 DEF QuerySession, TargetGood
  <2> QED
    BY <2>2, <2>3, <2>4 DEF TargetGood
<1>6. CASE UpdateEvent(o)
  <2>1. \A h \in HaproxyObject : left'[h] \subseteq left[h]
    BY <1>6, <1>a DEF UpdateEvent, TypeOK, Object
  <2>2. UNCHANGED <<conns, pc, target>>
    BY <1>6 DEF UpdateEvent
  <2> QED
    BY <2>1, <2>2 DEF TargetGood
<1>7. CASE FinishUpdate(o)
  BY <1>7, <1>a DEF FinishUpdate, TargetGood, TypeOK, GoTo
<1>8. CASE FinishHaproxy(o)
  <2>1. Forget(o) /\ GoTo(o, "done") /\ UNCHANGED conns
    BY <1>8 DEF FinishHaproxy
  <2> QED
    BY <1>a, <2>1 DEF Forget, GoTo, TargetGood, TypeOK, Object
<1> QED
  BY <1>1, <1>2, <1>3, <1>4, <1>5, <1>6, <1>7, <1>8 DEF HaproxyStep

LEMMA TargetOutside ==
    ASSUME IInv,
           \/ \E o \in Object : Fail(o)
           \/ SyncEvent
           \/ SyncConn
    PROVE  TargetGood'
<1> USE DEF tableVars, localVars, IInv
<1>1. ASSUME NEW o \in Object, Fail(o) PROVE TargetGood'
  <2>1. Forget(o) /\ UNCHANGED conns
    BY <1>1 DEF Fail
  <2>2. pc'[o] \in {"idle", "dead"}
    BY <1>1 DEF Fail, GoTo, TypeOK
  <2>3. \A h \in HaproxyObject \ {o} :
          target'[h] = target[h] /\ pc'[h] = pc[h] /\ left'[h] = left[h]
    BY <1>1 DEF Fail, GoTo, Forget, TypeOK, Object
  <2>4. o \in HaproxyObject => target'[o] = NoTarget
    BY <2>1 DEF Forget
  <2> QED
    BY <2>1, <2>2, <2>3, <2>4 DEF TargetGood
<1>2. CASE SyncEvent
  BY <1>2 DEF SyncEvent, TargetGood
<1>3. CASE SyncConn
  BY <1>3 DEF SyncConn, TargetGood
<1> QED
  BY <1>1, <1>2, <1>3

-----------------------------------------------------------------------------
(* Where invocations are *)

\* An object no step is about keeps its control invariant while the table
\* only gains items.
LEMMA CowrieElsewhere ==
    ASSUME NEW o \in CowrieObject, CowrieAt(o),
           pc'[o] = pc[o], pos'[o] = pos[o], attempts'[o] = attempts[o],
           cache'[o] = cache[o], stored'[o] = stored[o], left'[o] = left[o],
           Present(table) \subseteq Present(table')
    PROVE  CowrieAt(o)'
BY DEF CowrieAt, LineSession, Line, Present, LineSet

LEMMA PutsKeepItems ==
    ASSUME TypeOK, NEW e, NEW item, item.status # "absent",
           table' = [table EXCEPT ![e] = item]
    PROVE  Present(table) \subseteq Present(table')
BY DEF Present, TypeOK

LEMMA CowrieStepAt ==
    ASSUME IInv, NEW o \in CowrieObject, CowrieStep(o)
    PROVE  CowrieAt(o)'
<1> USE DEF tableVars, localVars, IInv
<1>a. o \in Object /\ CowrieAt(o)
  BY DEF Object, CowrieControl
\* One more line stored, the loop goes on.
<1>s. ASSUME NEW st, NEW ip, st # "absent", StoreEvent(o, st, ip),
             UNCHANGED <<table, attempts, left>>,
             pc[o] \in {"event", "window"}, pos[o] <= Len(Lines[o])
      PROVE  CowrieAt(o)'
  <2>1. Line(o) \in Event
    BY <1>a, <1>s, LineType
  <2>2. pc'[o] = "event" /\ pos'[o] = pos[o] + 1
    BY <1>a, <1>s DEF StoreEvent, GoTo, TypeOK
  <2>3. \A e \in Event : stored'[o][e] =
          IF e = Line(o) THEN StoredEvent(Line(o), st, ip) ELSE stored[o][e]
    BY <1>s, <2>1 DEF StoreEvent, TypeOK
  <2>4. ASSUME NEW i \in DOMAIN Lines[o], i < pos'[o]
        PROVE  stored'[o][Lines[o][i]].status # "absent"
    <3>1. Lines[o][i] \in Event
      OBVIOUS
    <3>2. CASE Lines[o][i] = Line(o)
      BY <1>s, <2>3, <3>1, <3>2 DEF StoredEvent
    <3>3. CASE Lines[o][i] # Line(o)
      <4>1. i # pos[o]
        BY <3>3 DEF Line
      <4>2. i < pos[o]
        BY <1>a, <2>2, <2>4, <4>1 DEF TypeOK
      <4>3. stored[o][Lines[o][i]].status # "absent"
        BY <1>a, <1>s, <4>2 DEF CowrieAt
      <4> QED
        BY <2>3, <3>1, <3>3, <4>3
    <3> QED
      BY <3>2, <3>3
  <2> QED
    BY <2>2, <2>4 DEF CowrieAt
<1>1. CASE StartCowrie(o)
  BY <1>1, <1>a DEF StartCowrie, GoTo, CowrieAt, TypeOK
<1>2. CASE DirectEvent(o)
  BY <1>2, <1>s DEF DirectEvent
<1>3. CASE InheritFromCache(o)
  BY <1>3, <1>s DEF InheritFromCache
<1>4. CASE SkipLookup(o)
  <2>1. pc'[o] = "window" /\ UNCHANGED localVars
    BY <1>4, <1>a DEF SkipLookup, GoTo, TypeOK
  <2> QED
    BY <1>4, <1>a, <2>1 DEF SkipLookup, CowrieAt, LineSession, Line
<1>5. CASE LookupSessionPriorMatch(o)
  <2>1. Line(o) \in Event /\ LineSession(o) \in Session
    BY <1>5, <1>a, LineType DEF LookupSessionPriorMatch
  <2>2. PICK view \in EventViews :
          \/ \E e \in PriorMatches(view, LineSession(o)) :
                StoreEvent(o, "matched_inherited", view[e].ip)
          \/ /\ cache' = [cache EXCEPT ![o][LineSession(o)] = NoMatch]
             /\ GoTo(o, "window")
             /\ UNCHANGED <<pos, stored>>
    BY <1>5 DEF LookupSessionPriorMatch
  <2>3. CASE \E e \in PriorMatches(view, LineSession(o)) :
                StoreEvent(o, "matched_inherited", view[e].ip)
    BY <1>5, <1>s, <2>3 DEF LookupSessionPriorMatch
  <2>4. CASE /\ cache' = [cache EXCEPT ![o][LineSession(o)] = NoMatch]
             /\ GoTo(o, "window")
             /\ UNCHANGED <<pos, stored>>
    <3>1. pc'[o] = "window" /\ cache'[o][LineSession(o)] = NoMatch
      BY <1>a, <2>1, <2>4 DEF GoTo, TypeOK
    <3> QED
      BY <1>5, <1>a, <2>4, <3>1
      DEF LookupSessionPriorMatch, CowrieAt, LineSession, Line
  <2> QED
    BY <2>2, <2>3, <2>4
<1>6. CASE Correlate(o)
  <2>1. pos[o] <= Len(Lines[o])
    BY <1>6, <1>a DEF Correlate, CowrieAt
  <2>2. PICK st \in Status, ip \in Address :
          st # "absent" /\ StoreEvent(o, st, ip)
    BY <1>6, CandidatesStored DEF Correlate, Status, Unresolved, Matched, Address
  <2> QED
    BY <1>6, <1>s, <2>1, <2>2 DEF Correlate
<1>7. CASE BeginWrite(o)
  <2>1. pc'[o] = "write" /\ left'[o] = Present(stored[o])
    BY <1>7, <1>a DEF BeginWrite, GoTo, TypeOK
  <2>2. LineSet(o) \subseteq Present(stored[o])
    <3> SUFFICES ASSUME NEW i \in DOMAIN Lines[o]
                 PROVE  Lines[o][i] \in Present(stored[o])
      BY DEF LineSet
    <3>1. Lines[o][i] \in Event /\ i < pos[o]
      BY <1>7, <1>a DEF BeginWrite, TypeOK
    <3> QED
      BY <1>7, <1>a, <3>1 DEF BeginWrite, CowrieAt, Present
  <2>3. UNCHANGED stored
    BY <1>7 DEF BeginWrite
  <2> QED
    BY <2>1, <2>2, <2>3 DEF CowrieAt
<1>8. CASE PutEvent(o)
  <2>1. PICK e \in left[o] : /\ table' = [table EXCEPT ![e] = stored[o][e]]
                             /\ left' = [left EXCEPT ![o] = @ \ {e}]
    BY <1>8 DEF PutEvent
  <2>2. e \in Event /\ stored[o][e].status # "absent"
    BY <1>8, <1>a, <2>1 DEF PutEvent, CowrieAt, Present
  <2>3. Present(table) \cup {e} \subseteq Present(table')
    BY <2>1, <2>2 DEF Present, TypeOK
  <2>4. left'[o] = left[o] \ {e} /\ UNCHANGED <<pc, pos, stored>>
    BY <1>8, <1>a, <2>1 DEF PutEvent, TypeOK
  <2> QED
    BY <1>8, <1>a, <2>3, <2>4 DEF PutEvent, CowrieAt
<1>9. CASE FinishCowrie(o)
  <2>1. pc'[o] = "done" /\ UNCHANGED table
    BY <1>9, <1>a DEF FinishCowrie, GoTo, TypeOK
  <2> QED
    BY <1>9, <1>a, <2>1 DEF FinishCowrie, CowrieAt
<1> QED
  BY <1>1, <1>2, <1>3, <1>4, <1>5, <1>6, <1>7, <1>8, <1>9 DEF CowrieStep

\* Neither side ever deletes: items and connections only accumulate.
LEMMA TablesGrow ==
    ASSUME IInv, [Next]_vars
    PROVE  Present(table) \subseteq Present(table') /\ conns \subseteq conns'
<1> USE DEF tableVars, localVars, IInv
<1>1. CASE \E o \in CowrieObject : PutEvent(o)
  <2>1. PICK o \in CowrieObject : PutEvent(o)
    BY <1>1
  <2>2. PICK e \in left[o] : table' = [table EXCEPT ![e] = stored[o][e]]
    BY <2>1 DEF PutEvent
  <2>3. stored[o][e].status # "absent"
    BY <2>1, <2>2 DEF PutEvent, CowrieControl, CowrieAt, Present
  <2> QED
    BY <2>1, <2>2, <2>3, PutsKeepItems DEF PutEvent
<1>2. CASE \E o \in HaproxyObject : UpdateEvent(o)
  <2>1. PICK o \in HaproxyObject : UpdateEvent(o)
    BY <1>2
  <2>2. PICK e \in left[o] :
          table' = [table EXCEPT ![e] = ConditionalUpdate(@, target[o].ip)]
    BY <2>1 DEF UpdateEvent
  <2>3. ConditionalUpdate(table[e], target[o].ip).status # "absent"
    BY DEF ConditionalUpdate, Matched
  <2> QED
    BY <2>1, <2>2, <2>3, PutsKeepItems DEF UpdateEvent
<1>3. CASE \E o \in HaproxyObject : PutConn(o)
  BY <1>3 DEF PutConn
<1>4. CASE \E o \in CowrieObject : CowrieStep(o) /\ ~PutEvent(o)
  BY <1>4
  DEF CowrieStep, StartCowrie, DirectEvent, InheritFromCache, SkipLookup,
      LookupSessionPriorMatch, Correlate, BeginWrite, FinishCowrie
<1>5. CASE \E o \in HaproxyObject :
             HaproxyStep(o) /\ ~PutConn(o) /\ ~UpdateEvent(o)
  BY <1>5
  DEF HaproxyStep, StartHaproxy, BeginBackward, FindTargetSession,
      QuerySession, FinishUpdate, FinishHaproxy
<1>6. CASE \E o \in Object : Fail(o)
  BY <1>6 DEF Fail
<1>7. CASE SyncEvent \/ SyncConn \/ UNCHANGED vars
  BY <1>7 DEF SyncEvent, SyncConn, vars
<1> QED
  BY <1>1, <1>2, <1>3, <1>4, <1>5, <1>6, <1>7 DEF Next

\* A step of one invocation changes nothing of another's.
LEMMA CowrieFrame ==
    ASSUME TypeOK, NEW o \in CowrieObject, CowrieStep(o),
           NEW p \in Object, p # o
    PROVE  /\ pc'[p] = pc[p] /\ pos'[p] = pos[p] /\ left'[p] = left[p]
           /\ attempts'[p] = attempts[p]
           /\ p \in CowrieObject => cache'[p] = cache[p] /\ stored'[p] = stored[p]
<1> USE DEF tableVars, localVars, GoTo, Object
<1>1. CASE FinishCowrie(o)
  BY <1>1 DEF FinishCowrie, Forget, TypeOK
<1>2. CASE StartCowrie(o) \/ SkipLookup(o) \/ BeginWrite(o) \/ PutEvent(o)
  BY <1>2 DEF StartCowrie, SkipLookup, BeginWrite, PutEvent, TypeOK
<1>3. CASE DirectEvent(o) \/ InheritFromCache(o)
  BY <1>3 DEF DirectEvent, InheritFromCache, StoreEvent, TypeOK
<1>4. CASE LookupSessionPriorMatch(o)
  BY <1>4 DEF LookupSessionPriorMatch, StoreEvent, TypeOK
<1>5. CASE Correlate(o)
  BY <1>5 DEF Correlate, CacheMatch, StoreEvent, TypeOK
<1> QED
  BY <1>1, <1>2, <1>3, <1>4, <1>5 DEF CowrieStep

LEMMA HaproxyFrame ==
    ASSUME TypeOK, NEW o \in HaproxyObject, HaproxyStep(o),
           NEW p \in Object, p # o
    PROVE  /\ pc'[p] = pc[p] /\ pos'[p] = pos[p] /\ left'[p] = left[p]
           /\ attempts'[p] = attempts[p]
           /\ p \in CowrieObject => cache'[p] = cache[p] /\ stored'[p] = stored[p]
<1> USE DEF tableVars, localVars, GoTo, Object, NextRecord
<1>1. CASE FinishHaproxy(o)
  BY <1>1 DEF FinishHaproxy, Forget, TypeOK
<1>2. CASE StartHaproxy(o) \/ PutConn(o) \/ BeginBackward(o)
  BY <1>2 DEF StartHaproxy, PutConn, BeginBackward, TypeOK
<1>3. CASE FindTargetSession(o)
  BY <1>3 DEF FindTargetSession, TypeOK
<1>4. CASE QuerySession(o) \/ UpdateEvent(o) \/ FinishUpdate(o)
  BY <1>4 DEF QuerySession, UpdateEvent, FinishUpdate, TypeOK
<1> QED
  BY <1>1, <1>2, <1>3, <1>4 DEF HaproxyStep

LEMMA FailFrame ==
    ASSUME TypeOK, NEW o \in Object, Fail(o), NEW p \in Object, p # o
    PROVE  /\ pc'[p] = pc[p] /\ pos'[p] = pos[p] /\ left'[p] = left[p]
           /\ attempts'[p] = attempts[p]
           /\ p \in CowrieObject => cache'[p] = cache[p] /\ stored'[p] = stored[p]
BY DEF Fail, GoTo, Forget, TypeOK

\* An object no step is about keeps its control invariant.
LEMMA HaproxyElsewhere ==
    ASSUME NEW o \in HaproxyObject, HaproxyAt(o),
           pc'[o] = pc[o], pos'[o] = pos[o], attempts'[o] = attempts[o],
           left'[o] = left[o], conns \subseteq conns'
    PROVE  HaproxyAt(o)'
BY DEF HaproxyAt, LineSet

LEMMA HaproxyStepAt ==
    ASSUME IInv, NEW o \in HaproxyObject, HaproxyStep(o)
    PROVE  HaproxyAt(o)'
<1> USE DEF tableVars, localVars, IInv
<1>a. o \in Object /\ HaproxyAt(o)
  BY DEF Object, HaproxyControl
<1>1. CASE StartHaproxy(o)
  <2>1. pc'[o] = "write" /\ left'[o] = LineSet(o) /\ LineSet(o) \subseteq Conn
    BY <1>1, <1>a DEF StartHaproxy, GoTo, TypeOK, LineSet
  <2> QED
    BY <2>1 DEF HaproxyAt, LineSet
<1>2. CASE PutConn(o)
  <2>1. PICK h \in left[o] : /\ conns' = conns \cup {h}
                             /\ left' = [left EXCEPT ![o] = @ \ {h}]
    BY <1>2 DEF PutConn
  <2>2. left'[o] = left[o] \ {h} /\ pc' = pc /\ pc[o] = "write"
    BY <1>2, <1>a, <2>1 DEF PutConn, TypeOK
  <2> QED
    BY <1>a, <2>1, <2>2 DEF HaproxyAt, LineSet
<1>3. CASE BeginBackward(o)
  <2>1. pc'[o] = "scan" /\ UNCHANGED conns
    BY <1>3, <1>a DEF BeginBackward, GoTo, TypeOK
  <2> QED
    BY <1>3, <1>a, <2>1 DEF BeginBackward, HaproxyAt, LineSet
<1>4. CASE FindTargetSession(o)
  <2>1. \/ pc'[o] = "session" /\ UNCHANGED <<conns, pos>>
        \/ pc'[o] = "scan" /\ UNCHANGED conns
    BY <1>4, <1>a DEF FindTargetSession, GoTo, TypeOK
  <2> QED
    BY <1>4, <1>a, <2>1 DEF FindTargetSession, HaproxyAt, LineSet
<1>5. CASE QuerySession(o)
  <2>1. pc'[o] = "update" /\ UNCHANGED conns
    BY <1>5, <1>a DEF QuerySession, GoTo, TypeOK
  <2> QED
    BY <1>5, <1>a, <2>1 DEF QuerySession, HaproxyAt, LineSet
<1>6. CASE UpdateEvent(o)
  BY <1>6, <1>a DEF UpdateEvent, HaproxyAt, LineSet
<1>7. CASE FinishUpdate(o)
  <2>1. pc'[o] = "scan" /\ UNCHANGED conns
    BY <1>7, <1>a DEF FinishUpdate, GoTo, TypeOK
  <2> QED
    BY <1>7, <1>a, <2>1 DEF FinishUpdate, HaproxyAt, LineSet
<1>8. CASE FinishHaproxy(o)
  <2>1. pc'[o] = "done" /\ UNCHANGED conns
    BY <1>8, <1>a DEF FinishHaproxy, GoTo, TypeOK
  <2> QED
    BY <1>8, <1>a, <2>1 DEF FinishHaproxy, HaproxyAt, LineSet
<1> QED
  BY <1>1, <1>2, <1>3, <1>4, <1>5, <1>6, <1>7, <1>8 DEF HaproxyStep

LEMMA FailAt ==
    ASSUME IInv, NEW o \in Object, Fail(o)
    PROVE  /\ o \in CowrieObject => CowrieAt(o)'
           /\ o \in HaproxyObject => HaproxyAt(o)'
<1>1. /\ pc'[o] = (IF attempts[o] < MaxAttempts THEN "idle" ELSE "dead")
      /\ pos'[o] = 1
      /\ attempts'[o] = attempts[o]
  BY DEF Fail, GoTo, Forget, IInv, TypeOK
<1> QED
  BY <1>1 DEF CowrieAt, HaproxyAt

LEMMA ControlInit == Init => CowrieControl /\ HaproxyControl
BY DEF Init, CowrieControl, CowrieAt, HaproxyControl, HaproxyAt, Object

LEMMA ControlNext ==
    ASSUME IInv, [Next]_vars
    PROVE  CowrieControl' /\ HaproxyControl'
<1> USE DEF IInv
<1>1. ASSUME NEW o \in CowrieObject, CowrieStep(o)
      PROVE  CowrieControl' /\ HaproxyControl'
  <2>1. \A p \in CowrieObject \ {o} : CowrieAt(p)'
    BY <1>1, CowrieFrame, CowrieElsewhere, TablesGrow
    DEF CowrieControl, Object, Next
  <2>2. \A p \in HaproxyObject : HaproxyAt(p)'
    BY <1>1, CowrieFrame, HaproxyElsewhere, TablesGrow
    DEF HaproxyControl, Object, Next
  <2> QED
    BY <1>1, <2>1, <2>2, CowrieStepAt DEF CowrieControl, HaproxyControl
<1>2. ASSUME NEW o \in HaproxyObject, HaproxyStep(o)
      PROVE  CowrieControl' /\ HaproxyControl'
  <2>1. \A p \in CowrieObject : CowrieAt(p)'
    BY <1>2, HaproxyFrame, CowrieElsewhere, TablesGrow
    DEF CowrieControl, Object, Next
  <2>2. \A p \in HaproxyObject \ {o} : HaproxyAt(p)'
    BY <1>2, HaproxyFrame, HaproxyElsewhere, TablesGrow
    DEF HaproxyControl, Object, Next
  <2> QED
    BY <1>2, <2>1, <2>2, HaproxyStepAt DEF CowrieControl, HaproxyControl
<1>3. ASSUME NEW o \in Object, Fail(o)
      PROVE  CowrieControl' /\ HaproxyControl'
  <2>1. \A p \in CowrieObject \ {o} : CowrieAt(p)'
    BY <1>3, FailFrame, CowrieElsewhere, TablesGrow
    DEF CowrieControl, Object, Next
  <2>2. \A p \in HaproxyObject \ {o} : HaproxyAt(p)'
    BY <1>3, FailFrame, HaproxyElsewhere, TablesGrow
    DEF HaproxyControl, Object, Next
  <2> QED
    BY <1>3, <2>1, <2>2, FailAt DEF CowrieControl, HaproxyControl, Object
<1>4. CASE SyncEvent \/ SyncConn \/ UNCHANGED vars
  <2>1. UNCHANGED <<table, conns, pc, attempts, pos, cache, stored, left>>
    BY <1>4 DEF SyncEvent, SyncConn, vars, localVars
  <2>2. \A p \in CowrieObject : CowrieAt(p)'
    BY <2>1, CowrieElsewhere DEF CowrieControl
  <2>3. \A p \in HaproxyObject : HaproxyAt(p)'
    BY <2>1, HaproxyElsewhere DEF HaproxyControl
  <2> QED
    BY <2>2, <2>3 DEF CowrieControl, HaproxyControl
<1> QED
  BY <1>1, <1>2, <1>3, <1>4 DEF Next

LEMMA ReadItemsPresent ==
    ASSUME ReadsStored, NEW view \in EventViews
    PROVE  Present(view) \subseteq Present(table)
BY EventViewItems DEF ReadsStored, Present

LEMMA ReadsInit == Init => ReadsStored
BY DEF Init, ReadsStored, Present, Object

LEMMA ReadsStoredNext ==
    ASSUME IInv, [Next]_vars
    PROVE  ReadsStored'
<1> USE DEF tableVars, localVars, GoTo
<1>t. TypeOK /\ ReadsStored
  BY DEF IInv
<1>p. Present(table) \subseteq Present(table')
  BY TablesGrow
<1>1. Present(seen') \subseteq Present(table')
  <2>1. CASE SyncEvent
    BY <2>1, <1>p, <1>t DEF SyncEvent, ReadsStored, Present, TypeOK
  <2>2. CASE ~SyncEvent
    <3>1. UNCHANGED seen
      BY <2>2
      DEF Next, CowrieStep, StartCowrie, DirectEvent, InheritFromCache,
          SkipLookup, LookupSessionPriorMatch, Correlate, BeginWrite,
          PutEvent, FinishCowrie, HaproxyStep, StartHaproxy, PutConn,
          BeginBackward, FindTargetSession, QuerySession, UpdateEvent,
          FinishUpdate, FinishHaproxy, Fail, SyncConn, vars
    <3> QED
      BY <3>1, <1>p, <1>t DEF ReadsStored, Present
  <2> QED
    BY <2>1, <2>2
\* An invocation the step is not about keeps what it has left.
<1>2. ASSUME NEW o \in HaproxyObject, pc'[o] = "update",
             pc'[o] = pc[o] /\ left'[o] = left[o]
      PROVE  left'[o] \subseteq Present(table')
  BY <1>2, <1>t, <1>p DEF ReadsStored
<1>3. ASSUME NEW o \in HaproxyObject, HaproxyStep(o), pc'[o] = "update"
      PROVE  left'[o] \subseteq Present(table')
  <2>0. o \in Object
    BY DEF Object
  <2>1. CASE QuerySession(o)
    <3>1. PICK view \in EventViews :
            left' = [left EXCEPT
                      ![o] = FirstItems(view, target[o].session, SessionPage)]
      BY <2>1 DEF QuerySession
    <3>2. left'[o] \subseteq Present(view)
      BY <3>1, <1>t, <2>0 DEF TypeOK, FirstItems, SessionItems
    <3> QED
      BY <3>2, <1>p, <1>t, ReadItemsPresent
  <2>2. CASE UpdateEvent(o)
    <3>1. left'[o] \subseteq left[o] /\ pc[o] = "update"
      BY <2>2, <1>t, <2>0 DEF UpdateEvent, TypeOK
    <3> QED
      BY <3>1, <1>p, <1>t DEF ReadsStored
  <2>3. CASE ~QuerySession(o) /\ ~UpdateEvent(o)
    <3>1. pc'[o] # "update"
      BY <2>3, <1>3, <1>t, <2>0
      DEF HaproxyStep, StartHaproxy, PutConn, BeginBackward,
          FindTargetSession, FinishUpdate, FinishHaproxy, TypeOK
    <3> QED
      BY <3>1, <1>3
  <2> QED
    BY <2>1, <2>2, <2>3
<1>4. ASSUME NEW o \in HaproxyObject, pc'[o] = "update"
      PROVE  left'[o] \subseteq Present(table')
  <2>0. o \in Object
    BY DEF Object
  <2>1. CASE \E p \in CowrieObject : CowrieStep(p)
    BY <2>1, <2>0, <1>2, <1>4, <1>t, CowrieFrame
  <2>2. CASE HaproxyStep(o)
    BY <2>2, <1>3, <1>4
  <2>3. CASE \E p \in HaproxyObject \ {o} : HaproxyStep(p)
    BY <2>3, <2>0, <1>2, <1>4, <1>t, HaproxyFrame
  <2>4. CASE \E p \in Object \ {o} : Fail(p)
    BY <2>4, <2>0, <1>2, <1>4, <1>t, FailFrame
  <2>5. CASE Fail(o)
    BY <2>5, <2>0, <1>4, <1>t DEF Fail, TypeOK
  <2>6. CASE SyncEvent \/ SyncConn \/ UNCHANGED vars
    BY <2>6, <1>2, <1>4 DEF SyncEvent, SyncConn, vars
  <2> QED
    BY <2>1, <2>2, <2>3, <2>4, <2>5, <2>6 DEF Next
<1> QED
  BY <1>1, <1>4 DEF ReadsStored

-----------------------------------------------------------------------------
(* The theorems *)

LEMMA Inductive ==
    ASSUME IInv, [Next]_vars
    PROVE  IInv'
<1>1. CASE UNCHANGED vars
  BY <1>1, ControlNext,
     ReadsStoredNext
  DEF vars, IInv, TypeOK, ItemsGood, CacheGood, TargetGood
<1>2. ASSUME NEW o \in CowrieObject, CowrieStep(o) PROVE IInv'
  BY <1>2, TypeCowrie, ItemsCowrie, CacheCowrie, TargetCowrie, ControlNext,
     ReadsStoredNext
  DEF IInv
<1>3. ASSUME NEW o \in HaproxyObject, HaproxyStep(o) PROVE IInv'
  BY <1>3, TypeHaproxy, ItemsHaproxy, CacheHaproxy, TargetHaproxy, ControlNext,
     ReadsStoredNext
  DEF IInv
<1>4. CASE \/ \E o \in Object : Fail(o)
           \/ SyncEvent
           \/ SyncConn
  BY <1>4, TypeOutside, ItemsOutside, CacheOutside, TargetOutside, ControlNext,
     ReadsStoredNext
  DEF IInv
<1> QED
  BY <1>1, <1>2, <1>3, <1>4 DEF Next

\* The invariant of CorrelationInv is inductive: it holds of every state the
\* two passes, their crashes and the lagging replicas can produce.
THEOREM Invariance == Spec => []IInv
<1>1. Init => IInv
  BY TypeInit, ItemsInit, MemoryInit, ReadsInit, ControlInit DEF IInv
<1>2. IInv /\ [Next]_vars => IInv'
  BY Inductive
<1> QED
  BY <1>1, <1>2, PTL DEF Spec

\* Every variable keeps its type; in particular an invocation count never
\* exceeds MaxAttempts and a read never sees a connection that is not stored.
THEOREM TypeCorrect == Spec => []TypeOK
<1>1. IInv => TypeOK
  BY DEF IInv
<1> QED
  BY <1>1, Invariance, PTL

\* However the passes interleave, an event is only shown under an address that
\* a stored connection justifies by the time window of an event of its session.
THEOREM Grounded == Spec => []AttributionGrounded
<1>1. IInv => AttributionGrounded
  BY DEF IInv, ItemsGood, GoodItem, AttributionGrounded
<1> QED
  BY <1>1, Invariance, PTL

\* An item is unresolved exactly while it shows the loopback address, so that
\* the backward pass sees it, and no field of its enrichment is another
\* address's.
THEOREM Coherent == Spec => []ItemCoherent
<1>1. ASSUME IInv, NEW e \in Present(table)
      PROVE  /\ table[e].status \in Unresolved <=> table[e].ip = Loopback
             /\ GeoCoherent(e, table[e])
  <2>1. e \in Event /\ GoodItem(conns, e, table[e]) /\ table[e] \in Item
    BY <1>1 DEF IInv, ItemsGood, TypeOK, Present
  <2>2. table[e].status \in {"none"} \cup Unresolved \cup Matched
    BY <2>1 DEF Present, Item, Status
  <2>3. table[e].status \in Matched => table[e].ip \in Ip
    BY <1>1, <2>1, GroundedIsPublic DEF GoodItem, IInv, TypeOK
  <2> QED
    BY <2>1, <2>2, <2>3 DEF GoodItem, Present, Tunneled, Unresolved, Matched
<1>2. IInv => ItemCoherent
  BY <1>1 DEF ItemCoherent
<1> QED
  BY <1>2, Invariance, PTL

\* "ambiguous" is only reported with two stored connections in the window.
THEOREM AmbiguityReal == Spec => []AmbiguityIsReal
<1>1. IInv => AmbiguityIsReal
  BY DEF IInv, ItemsGood, GoodItem, AmbiguityIsReal
<1> QED
  BY <1>1, Invariance, PTL

\* Within one batch a session has one address.
THEOREM BatchAgreement == Spec => []BatchAgrees
<1>1. IInv => BatchAgrees
  <2> SUFFICES ASSUME IInv, NEW o \in CowrieObject, NEW e \in Event,
                      NEW f \in Event, SessionOf[e] = SessionOf[f],
                      stored[o][e].status \in Matched,
                      stored[o][f].status \in Matched
               PROVE  stored[o][e].ip = stored[o][f].ip
    BY DEF BatchAgrees
  <2>1. stored[o][e].ip = cache[o][SessionOf[e]]
    BY DEF IInv, CacheGood
  <2>2. stored[o][f].ip = cache[o][SessionOf[f]]
    BY DEF IInv, CacheGood
  <2> QED
    BY <2>1, <2>2
<1> QED
  BY <1>1, Invariance, PTL

\* A notification is acknowledged only with every line of its object stored,
\* whatever attempts failed before.
THEOREM DoneStored == Spec => []DoneMeansStored
<1>1. IInv => DoneMeansStored
  BY DEF IInv, CowrieControl, CowrieAt, HaproxyControl, HaproxyAt,
         DoneMeansStored
<1> QED
  BY <1>1, Invariance, PTL

\* The conditional update of the backward pass never replaces an attribution;
\* only a Cowrie batch put again can.
THEOREM UpdateSparesMatches == Spec => OnlyPutsReplaceMatches
<1> USE DEF tableVars, localVars
<1>1. ASSUME TypeOK, NEW o \in CowrieObject, CowrieStep(o)
      PROVE  MatchReplacedByPut
  <2>1. CASE PutEvent(o)
    BY <1>1, <2>1 DEF PutEvent, MatchReplacedByPut, TypeOK, Object
  <2>2. CASE ~PutEvent(o)
    <3>1. UNCHANGED table
      BY <1>1, <2>2
      DEF CowrieStep, StartCowrie, DirectEvent, InheritFromCache, SkipLookup,
          LookupSessionPriorMatch, Correlate, BeginWrite, FinishCowrie
    <3> QED
      BY <3>1 DEF MatchReplacedByPut
  <2> QED
    BY <2>1, <2>2
<1>2. ASSUME TypeOK, NEW o \in HaproxyObject, HaproxyStep(o)
      PROVE  MatchReplacedByPut
  <2>1. CASE UpdateEvent(o)
    BY <2>1, <1>2
    DEF UpdateEvent, ConditionalUpdate, MatchReplacedByPut, TypeOK
  <2>2. CASE ~UpdateEvent(o)
    <3>1. UNCHANGED table
      BY <1>2, <2>2
      DEF HaproxyStep, StartHaproxy, PutConn, BeginBackward,
          FindTargetSession, QuerySession, FinishUpdate, FinishHaproxy
    <3> QED
      BY <3>1 DEF MatchReplacedByPut
  <2> QED
    BY <2>1, <2>2
<1>3. ASSUME \/ \E o \in Object : Fail(o)
             \/ SyncEvent
             \/ SyncConn
             \/ UNCHANGED vars
      PROVE  MatchReplacedByPut
  <2>1. UNCHANGED table
    BY <1>3 DEF Fail, SyncEvent, SyncConn, vars
  <2> QED
    BY <2>1 DEF MatchReplacedByPut
<1>4. TypeOK /\ [Next]_vars => [MatchReplacedByPut]_vars
  BY <1>1, <1>2, <1>3 DEF Next
<1> QED
  BY <1>4, TypeCorrect, PTL DEF Spec, OnlyPutsReplaceMatches

-----------------------------------------------------------------------------
(* Delivered once, ingest implements AttributionLedger *)

\* Only a put and a backward update change an item.
LEMMA TableStep ==
    ASSUME [Next]_vars
    PROVE  \/ UNCHANGED table
           \/ \E o \in CowrieObject : PutEvent(o)
           \/ \E o \in HaproxyObject : UpdateEvent(o)
<1> USE DEF tableVars
<1>1. CASE \E o \in CowrieObject : CowrieStep(o) /\ ~PutEvent(o)
  BY <1>1
  DEF CowrieStep, StartCowrie, DirectEvent, InheritFromCache, SkipLookup,
      LookupSessionPriorMatch, Correlate, BeginWrite, FinishCowrie
<1>2. CASE \E o \in HaproxyObject : HaproxyStep(o) /\ ~UpdateEvent(o)
  BY <1>2
  DEF HaproxyStep, StartHaproxy, PutConn, BeginBackward, FindTargetSession,
      QuerySession, FinishUpdate, FinishHaproxy
<1>3. CASE \/ \E o \in Object : Fail(o)
           \/ SyncEvent \/ SyncConn \/ UNCHANGED vars
  BY <1>3 DEF Fail, SyncEvent, SyncConn, vars
<1> QED
  BY <1>1, <1>2, <1>3 DEF Next

\* A put stores an item the batch has; an update leaves the set of items.
LEMMA PutAdds ==
    ASSUME IInv, NEW o \in CowrieObject, PutEvent(o)
    PROVE  \E e \in left[o] :
              /\ e \in Event /\ stored[o][e].status # "absent"
              /\ table' = [table EXCEPT ![e] = stored[o][e]]
              /\ left' = [left EXCEPT ![o] = @ \ {e}]
              /\ Present(table') = Present(table) \cup {e}
<1>1. PICK e \in left[o] : /\ table' = [table EXCEPT ![e] = stored[o][e]]
                           /\ left' = [left EXCEPT ![o] = @ \ {e}]
  BY DEF PutEvent
<1>2. e \in Event /\ stored[o][e].status # "absent"
  BY <1>1 DEF PutEvent, IInv, CowrieControl, CowrieAt, Present
<1>3. Present(table') = Present(table) \cup {e}
  BY <1>1, <1>2 DEF Present, IInv, TypeOK
<1> QED
  BY <1>1, <1>2, <1>3

LEMMA UpdateChanges ==
    ASSUME IInv, NEW o \in HaproxyObject, UpdateEvent(o)
    PROVE  \E e \in left[o] :
              /\ e \in Event /\ SessionOf[e] = target[o].session
              /\ target[o] # NoTarget
              /\ table' = [table EXCEPT
                             ![e] = ConditionalUpdate(table[e], target[o].ip)]
              /\ left' = [left EXCEPT ![o] = @ \ {e}]
              /\ Present(table') = Present(table) \cup {e}
<1>1. PICK e \in left[o] :
        /\ table' = [table EXCEPT ![e] = ConditionalUpdate(@, target[o].ip)]
        /\ left' = [left EXCEPT ![o] = @ \ {e}]
  BY DEF UpdateEvent
<1>2. e \in Event /\ SessionOf[e] = target[o].session /\ target[o] # NoTarget
  BY <1>1 DEF UpdateEvent, IInv, TargetGood
<1>3. ConditionalUpdate(table[e], target[o].ip).status # "absent"
  BY DEF ConditionalUpdate, Matched
<1>4. Present(table') = Present(table) \cup {e}
  BY <1>1, <1>2, <1>3 DEF Present, IInv, TypeOK
<1> QED
  BY <1>1, <1>2, <1>4

LEMMA FirstPutsElsewhere ==
    ASSUME NEW o \in CowrieObject, FirstPuts(o), CowrieAt(o),
           pc'[o] = pc[o], stored'[o] = stored[o], left'[o] = left[o],
           LineSet(o) \cap Present(table') \subseteq Present(table)
    PROVE  FirstPuts(o)'
BY DEF FirstPuts, CowrieAt, Present, LineSet

LEMMA FirstPutsStep ==
    ASSUME IInv, OnceInv, DeliveredOnce, NEW o \in CowrieObject, CowrieStep(o)
    PROVE  FirstPuts(o)' /\ (pc'[o] # "idle" => attempts'[o] = MaxAttempts)
<1> USE DEF tableVars, localVars, GoTo
<1>a. /\ o \in Object /\ TypeOK /\ CowrieAt(o) /\ FirstPuts(o)
      /\ pc[o] # "idle" => attempts[o] = MaxAttempts
  BY DEF Object, IInv, CowrieControl, OnceInv
<1>s. ASSUME NEW st, NEW ip, StoreEvent(o, st, ip),
             UNCHANGED <<table, attempts, left>>,
             pc[o] \in {"event", "window"}, pos[o] <= Len(Lines[o])
      PROVE  FirstPuts(o)' /\ attempts'[o] = MaxAttempts
  <2>1. Line(o) \in Event /\ Line(o) \in LineSet(o)
    BY <1>a, <1>s, LineType
  <2>2. Present(stored'[o]) \subseteq Present(stored[o]) \cup {Line(o)}
    BY <1>s, <1>a, <2>1 DEF StoreEvent, Present, TypeOK
  <2>3. pc'[o] = "event"
    BY <1>s, <1>a DEF StoreEvent, TypeOK
  <2> QED
    BY <1>a, <1>s, <2>1, <2>2, <2>3 DEF FirstPuts, Present, LineSet
<1>1. CASE StartCowrie(o)
  <2>1. pc'[o] = "event" /\ attempts'[o] = attempts[o] + 1
    BY <1>1, <1>a DEF StartCowrie, TypeOK
  <2>2. attempts[o] \in 0..MaxAttempts /\ attempts[o] < MaxAttempts
    BY <1>1, <1>a DEF StartCowrie, TypeOK, CowrieAt
  <2>3. attempts'[o] = MaxAttempts
    BY <2>1, <2>2 DEF DeliveredOnce
  <2> QED
    BY <1>1, <1>a, <2>1, <2>3 DEF StartCowrie, FirstPuts, Present, LineSet
<1>2. CASE DirectEvent(o) \/ InheritFromCache(o)
  BY <1>2, <1>s DEF DirectEvent, InheritFromCache
<1>3. CASE SkipLookup(o)
  <2>1. pc'[o] = "window"
    BY <1>3, <1>a DEF SkipLookup, TypeOK
  <2> QED
    BY <1>3, <1>a, <2>1 DEF SkipLookup, FirstPuts, Present, LineSet
<1>4. CASE LookupSessionPriorMatch(o)
  <2>1. PICK view \in EventViews :
          \/ \E e \in PriorMatches(view, LineSession(o)) :
                StoreEvent(o, "matched_inherited", view[e].ip)
          \/ GoTo(o, "window") /\ UNCHANGED <<pos, stored>>
    BY <1>4 DEF LookupSessionPriorMatch
  <2>2. CASE \E e \in PriorMatches(view, LineSession(o)) :
                StoreEvent(o, "matched_inherited", view[e].ip)
    BY <1>4, <1>s, <2>2 DEF LookupSessionPriorMatch
  <2>3. CASE GoTo(o, "window") /\ UNCHANGED <<pos, stored>>
    <3>1. pc'[o] = "window"
      BY <2>3, <1>a DEF TypeOK
    <3> QED
      BY <1>4, <1>a, <2>3, <3>1
      DEF LookupSessionPriorMatch, FirstPuts, Present, LineSet
  <2> QED
    BY <2>1, <2>2, <2>3
<1>5. CASE Correlate(o)
  <2>1. PICK st, ip : StoreEvent(o, st, ip)
    BY <1>5 DEF Correlate
  <2>2. pos[o] <= Len(Lines[o])
    BY <1>5, <1>a DEF Correlate, CowrieAt
  <2> QED
    BY <1>5, <1>s, <2>1, <2>2 DEF Correlate
<1>6. CASE BeginWrite(o)
  <2>1. pc'[o] = "write" /\ left'[o] = Present(stored[o])
    BY <1>6, <1>a DEF BeginWrite, TypeOK
  <2> QED
    BY <1>6, <1>a, <2>1 DEF BeginWrite, FirstPuts, Present, LineSet
<1>7. CASE PutEvent(o)
  <2>1. PICK e \in left[o] :
          /\ left' = [left EXCEPT ![o] = @ \ {e}]
          /\ Present(table') = Present(table) \cup {e}
    BY <1>7, PutAdds
  <2>2. left'[o] = left[o] \ {e} /\ UNCHANGED <<pc, stored, attempts>>
    BY <1>7, <1>a, <2>1 DEF PutEvent, TypeOK
  <2>3. pc[o] = "write"
    BY <1>7 DEF PutEvent
  <2> QED
    BY <1>a, <2>1, <2>2, <2>3 DEF FirstPuts, LineSet
<1>8. CASE FinishCowrie(o)
  <2>1. pc'[o] = "done" /\ Present(stored'[o]) = {}
    BY <1>8, <1>a DEF FinishCowrie, Forget, NoItem, TypeOK, Present
  <2> QED
    BY <1>8, <1>a, <2>1 DEF FinishCowrie, FirstPuts
<1> QED
  BY <1>1, <1>2, <1>3, <1>4, <1>5, <1>6, <1>7, <1>8 DEF CowrieStep

\* A put of one batch is never of a line of another.
LEMMA PutsApart ==
    ASSUME IInv, OnceInv, LinesApart, NEW o \in CowrieObject, PutEvent(o),
           NEW p \in CowrieObject, p # o
    PROVE  LineSet(p) \cap Present(table') \subseteq Present(table)
<1>1. PICK e \in left[o] : Present(table') = Present(table) \cup {e}
  BY PutAdds
<1>2. e \in LineSet(o)
  BY <1>1 DEF IInv, CowrieControl, CowrieAt, OnceInv, FirstPuts, PutEvent
<1> QED
  BY <1>1, <1>2 DEF LinesApart

LEMMA OnceNext ==
    ASSUME IInv, OnceInv, DeliveredOnce, LinesApart, [Next]_vars
    PROVE  OnceInv'
<1> USE DEF tableVars, localVars, GoTo
<1>t. TypeOK
  BY DEF IInv
\* What the step adds to the table is not a line of a waiting batch.
<1>p. Present(table) \subseteq Present(table')
  BY TablesGrow
<1>u. ASSUME NEW o \in HaproxyObject, UpdateEvent(o)
      PROVE  Present(table') = Present(table)
  <2>1. PICK e \in left[o] : Present(table') = Present(table) \cup {e}
    BY <1>u, UpdateChanges
  <2>2. e \in Present(table)
    BY <1>u DEF IInv, ReadsStored, UpdateEvent
  <2> QED
    BY <2>1, <2>2
<1>2. ASSUME NEW o \in CowrieObject, CowrieStep(o)
      PROVE  OnceInv'
  <2>1. \A p \in CowrieObject \ {o} : FirstPuts(p)'
    <3> SUFFICES ASSUME NEW p \in CowrieObject, p # o
                 PROVE  FirstPuts(p)'
      OBVIOUS
    <3>1. /\ pc'[p] = pc[p] /\ left'[p] = left[p] /\ stored'[p] = stored[p]
          /\ FirstPuts(p) /\ CowrieAt(p)
      BY <1>2, <1>t, CowrieFrame DEF Object, OnceInv, IInv, CowrieControl
    <3>2. LineSet(p) \cap Present(table') \subseteq Present(table)
      <4>1. CASE PutEvent(o)
        BY <1>2, <4>1, PutsApart
      <4>2. CASE ~PutEvent(o)
        <5>1. UNCHANGED table
          BY <1>2, <4>2
          DEF CowrieStep, StartCowrie, DirectEvent, InheritFromCache, SkipLookup,
              LookupSessionPriorMatch, Correlate, BeginWrite, FinishCowrie
        <5> QED
          BY <5>1 DEF Present
      <4> QED
        BY <4>1, <4>2
    <3> QED
      BY <3>1, <3>2, FirstPutsElsewhere
  <2>2. \A p \in Object \ {o} :
           pc'[p] = pc[p] /\ left'[p] = left[p] /\ attempts'[p] = attempts[p]
    BY <1>2, <1>t, CowrieFrame
  <2>3. \A p \in HaproxyObject : p # o
    BY <1>2
  <2>4. FirstPuts(o)' /\ (pc'[o] # "idle" => attempts'[o] = MaxAttempts)
    BY <1>2, FirstPutsStep
  <2>5. \A p \in Object : pc'[p] # "idle" => attempts'[p] = MaxAttempts
    BY <2>2, <2>4 DEF OnceInv
  <2>7. \A p \in CowrieObject : FirstPuts(p)'
    BY <2>1, <2>4
  <2> QED
    BY <2>5, <2>7 DEF OnceInv
<1>3. ASSUME NEW o \in HaproxyObject, HaproxyStep(o)
      PROVE  OnceInv'
  <2>1. \A p \in Object \ {o} :
           pc'[p] = pc[p] /\ left'[p] = left[p] /\ attempts'[p] = attempts[p]
    BY <1>3, <1>t, HaproxyFrame
  <2>2. \A p \in CowrieObject : p # o /\ p \in Object
    BY <1>3 DEF Object
  <2>3. Present(table') = Present(table)
    <3>1. CASE UpdateEvent(o)
      BY <3>1, <1>u
    <3>2. CASE ~UpdateEvent(o)
      <4>1. UNCHANGED table
        BY <1>3, <3>2
        DEF HaproxyStep, StartHaproxy, PutConn, BeginBackward,
            FindTargetSession, QuerySession, FinishUpdate, FinishHaproxy
      <4> QED
        BY <4>1 DEF Present
    <3> QED
      BY <3>1, <3>2
  <2>4. \A p \in CowrieObject : FirstPuts(p)'
    <3> SUFFICES ASSUME NEW p \in CowrieObject PROVE FirstPuts(p)'
      OBVIOUS
    <3>1. stored'[p] = stored[p]
      BY <1>3, <1>t, <2>2, HaproxyFrame
    <3> QED
      BY <2>1, <2>2, <2>3, <3>1, FirstPutsElsewhere
      DEF OnceInv, IInv, CowrieControl
  <2>5. o \in Object /\ (pc'[o] # "idle" => attempts'[o] = MaxAttempts)
    <3>1. CASE StartHaproxy(o)
      <4>1. o \in Object /\ HaproxyAt(o)
        BY DEF IInv, HaproxyControl, Object
      <4>2. attempts[o] \in 0..MaxAttempts /\ attempts[o] < MaxAttempts
        BY <3>1, <4>1, <1>t DEF StartHaproxy, TypeOK, HaproxyAt
      <4>3. attempts'[o] = attempts[o] + 1
        BY <3>1, <4>1, <1>t DEF StartHaproxy, TypeOK
      <4> QED
        BY <4>1, <4>2, <4>3 DEF DeliveredOnce
    <3>2. CASE ~StartHaproxy(o)
      BY <3>2, <1>3
      DEF HaproxyStep, PutConn, BeginBackward, FindTargetSession, QuerySession,
          UpdateEvent, FinishUpdate, FinishHaproxy, OnceInv, Object
    <3> QED
      BY <3>1, <3>2
  <2>7. \A p \in Object : pc'[p] # "idle" => attempts'[p] = MaxAttempts
    BY <2>1, <2>5 DEF OnceInv
  <2> QED
    BY <2>4, <2>7 DEF OnceInv
<1>4. ASSUME NEW o \in Object, Fail(o)
      PROVE  OnceInv'
  <2>1. \A p \in Object \ {o} :
           pc'[p] = pc[p] /\ left'[p] = left[p] /\ attempts'[p] = attempts[p]
    BY <1>4, <1>t, FailFrame
  <2>2. /\ pc'[o] = "dead" /\ attempts' = attempts /\ left'[o] = {}
        /\ pc[o] # "idle" /\ UNCHANGED table
    BY <1>4, <1>t DEF Fail, Forget, TypeOK, OnceInv
  <2>3. \A p \in CowrieObject : FirstPuts(p)'
    <3> SUFFICES ASSUME NEW p \in CowrieObject PROVE FirstPuts(p)'
      OBVIOUS
    <3>1. CASE p = o
      <4>1. Present(stored'[o]) = {}
        BY <1>4, <1>t, <3>1 DEF Fail, Forget, TypeOK, Present, NoItem
      <4> QED
        BY <3>1, <4>1, <2>2 DEF FirstPuts
    <3>2. CASE p # o
      <4>1. stored'[p] = stored[p] /\ Present(table') = Present(table)
        BY <1>4, <1>t, <3>2, <2>2, FailFrame DEF Object, Present
      <4> QED
        BY <2>1, <3>2, <4>1, FirstPutsElsewhere
        DEF OnceInv, IInv, CowrieControl, Object
    <3> QED
      BY <3>1, <3>2
  <2> QED
    BY <2>1, <2>2, <2>3 DEF OnceInv, Object
<1>5. CASE SyncEvent \/ SyncConn \/ UNCHANGED vars
  <2>1. UNCHANGED <<table, pc, attempts, stored, left>>
    BY <1>5 DEF SyncEvent, SyncConn, vars
  <2> QED
    BY <2>1 DEF OnceInv, FirstPuts, Present, LineSet
<1> QED
  BY <1>2, <1>3, <1>4, <1>5 DEF Next

LEMMA OneShown ==
    ASSUME TypeOK, NEW e \in Event, NEW item, table' = [table EXCEPT ![e] = item],
           item.status # "absent"
    PROVE  /\ item.status \in Unresolved => Shown' = [Shown EXCEPT ![e] = "unresolved"]
           /\ item.status \notin Unresolved => Shown' = [Shown EXCEPT ![e] = item.ip]
BY DEF Shown, TypeOK, Unresolved

\* The first put of an item records it ...
LEMMA PutRecords ==
    ASSUME IInv, OnceInv, NEW o \in CowrieObject, PutEvent(o)
    PROVE  \E e \in Event : Ledger!Record(e)
<1>1. PICK e \in left[o] : /\ e \in Event /\ stored[o][e].status # "absent"
                           /\ table' = [table EXCEPT ![e] = stored[o][e]]
  BY PutAdds
<1>2. table[e].status = "absent"
  BY <1>1 DEF OnceInv, FirstPuts, PutEvent, Present
<1>3. GoodItem(conns, e, stored[o][e]) /\ stored[o][e] \in Item
  BY <1>1 DEF IInv, ItemsGood, TypeOK
<1>4. GroundedIps(conns, SessionOf[e]) \subseteq GroundedIps(Conn, SessionOf[e])
  BY GroundedGrows DEF IInv, TypeOK
<1>5. CASE stored[o][e].status \in Unresolved
  BY <1>1, <1>2, <1>5, OneShown DEF Ledger!Record, Shown, IInv, Unresolved
<1>6. CASE stored[o][e].status \in Matched
  <2>1. /\ stored[o][e].ip \in GroundedIps(Conn, SessionOf[e])
        /\ Tunneled(SessionOf[e])
    BY <1>3, <1>4, <1>6 DEF GoodItem
  <2>2. /\ Shown[e] = "unstored"
        /\ Shown' = [Shown EXCEPT ![e] = stored[o][e].ip]
    BY <1>1, <1>2, <1>6, OneShown DEF Shown, IInv, Unresolved, Matched
  <2>3. stored[o][e].ip \in MayBeShown[e]
    BY <1>1, <2>1 DEF MayBeShown
  <2> QED
    BY <1>1, <2>2, <2>3 DEF Ledger!Record
<1>7. CASE stored[o][e].status = "none"
  <2>1. stored[o][e].ip = SrcIp[SessionOf[e]] /\ ~Tunneled(SessionOf[e])
    BY <1>3, <1>7 DEF GoodItem
  <2>2. Shown[e] = "unstored" /\ Shown' = [Shown EXCEPT ![e] = SrcIp[SessionOf[e]]]
    <3>1. stored[o][e].status \notin Unresolved
      BY <1>7 DEF Unresolved
    <3>2. Shown' = [Shown EXCEPT ![e] = stored[o][e].ip]
      BY <1>1, <3>1, OneShown DEF IInv
    <3> QED
      BY <1>1, <1>2, <2>1, <3>2 DEF Shown
  <2>3. SrcIp[SessionOf[e]] \in MayBeShown[e]
    BY <1>1, <2>1 DEF MayBeShown
  <2> QED
    BY <1>1, <2>2, <2>3 DEF Ledger!Record
<1> QED
  BY <1>1, <1>3, <1>5, <1>6, <1>7 DEF Item, Status

\* ... and a backward update resolves one that was not, or changes nothing.
LEMMA UpdateResolves ==
    ASSUME IInv, OnceInv, NEW o \in HaproxyObject, UpdateEvent(o)
    PROVE  table' = table \/ \E e \in Event : Ledger!Resolve(e)
<1>1. PICK e \in left[o] :
        /\ e \in Event /\ SessionOf[e] = target[o].session
        /\ target[o] # NoTarget
        /\ table' = [table EXCEPT
                       ![e] = ConditionalUpdate(table[e], target[o].ip)]
  BY UpdateChanges
<1>2. CASE table[e].status \in Matched
  BY <1>1, <1>2 DEF ConditionalUpdate, IInv, TypeOK
<1>3. CASE table[e].status \notin Matched
  <2>1. /\ Tunneled(SessionOf[e])
        /\ target[o].ip \in GroundedIps(conns, SessionOf[e])
    BY <1>1 DEF IInv, TargetGood
  <2>2. target[o].ip \in GroundedIps(Conn, SessionOf[e])
    BY <2>1, GroundedGrows DEF IInv, TypeOK
  <2>3. table[e].status \in Unresolved
    <3>1. table[e].status # "absent"
      BY <1>1 DEF IInv, ReadsStored, UpdateEvent, Present
    <3>2. table[e].status # "none"
      BY <1>1, <2>1 DEF IInv, ItemsGood, GoodItem
    <3> QED
      BY <1>1, <1>3, <3>1, <3>2 DEF IInv, TypeOK, Item, Status
  <2>4. /\ ConditionalUpdate(table[e], target[o].ip).status = "matched"
        /\ ConditionalUpdate(table[e], target[o].ip).ip = target[o].ip
    BY <1>3 DEF ConditionalUpdate
  <2> QED
    <3>1. Shown[e] = "unresolved" /\ Shown' = [Shown EXCEPT ![e] = target[o].ip]
      <4>1. ConditionalUpdate(table[e], target[o].ip).status \notin Unresolved
        BY <2>4 DEF Unresolved
      <4>2. Shown' = [Shown EXCEPT ![e] = target[o].ip]
        BY <1>1, <2>4, <4>1, OneShown DEF IInv
      <4> QED
        BY <1>1, <2>3, <4>2 DEF Shown, Unresolved
    <3>2. target[o].ip \in MayBeShown[e]
      BY <1>1, <2>1, <2>2 DEF MayBeShown
    <3> QED
      BY <1>1, <3>1, <3>2 DEF Ledger!Resolve
<1> QED
  BY <1>2, <1>3

(***************************************************************************)
(* Where a notification is delivered once and a log line travels in one    *)
(* object, ingest implements AttributionLedger: an item is recorded,       *)
(* unresolved or under an address its session may have, an unresolved one  *)
(* may be resolved later, and an address once shown never changes.         *)
(***************************************************************************)
THEOREM ImplementsLedger ==
    ASSUME DeliveredOnce, LinesApart
    PROVE  Spec => LedgerRefined
<1>1. Init => OnceInv
  BY DEF Init, OnceInv, FirstPuts, Present, NoItem, Object
<1>2. IInv /\ OnceInv /\ [Next]_vars => OnceInv'
  BY OnceNext
<1>3. Init => Ledger!Init
  <2> SUFFICES ASSUME Init PROVE Shown = [e \in Event |-> "unstored"]
    BY DEF Ledger!Init, Shown
  <2>1. \A e \in Event : table[e].status = "absent"
    BY DEF Init, NoItem
  <2> QED
    BY <2>1 DEF Shown
<1>4. IInv /\ OnceInv /\ [Next]_vars => [Ledger!Next]_Shown
  <2> SUFFICES ASSUME IInv, OnceInv, [Next]_vars
               PROVE  Ledger!Next \/ Shown' = Shown
    OBVIOUS
  <2>1. CASE table' = table
    BY <2>1 DEF Shown
  <2>2. ASSUME NEW o \in CowrieObject, PutEvent(o) PROVE Ledger!Next
    BY <2>2, PutRecords DEF Ledger!Next
  <2>3. ASSUME NEW o \in HaproxyObject, UpdateEvent(o)
        PROVE  Ledger!Next \/ table' = table
    BY <2>3, UpdateResolves DEF Ledger!Next
  <2> QED
    BY <2>1, <2>2, <2>3, TableStep
<1> QED
  BY <1>1, <1>2, <1>3, <1>4, Invariance, PTL
  DEF Spec, LedgerRefined, Ledger!Spec, Shown

-----------------------------------------------------------------------------
(* One invocation at a time, each side covers the other *)

\* Later connections only make it harder to be unambiguous.
LEMMA UnambiguousBefore ==
    ASSUME NEW before, NEW after, before \subseteq after,
           NEW h \in before, NEW e, Unambiguous(after, h, e)
    PROVE  Unambiguous(before, h, e)
BY DEF Unambiguous

\* A covered connection stays covered while items only become matched, or are
\* put as its coverage asks.
LEMMA CoveredStays ==
    ASSUME NEW h \in conns, Covered(h), conns \subseteq conns',
           \A e \in Present(table') :
              \/ e \in Present(table) /\ table'[e] = table[e]
              \/ table'[e].status \in Matched
              \/ ~Unambiguous(conns, h, e)
    PROVE  Covered(h)'
BY UnambiguousBefore DEF Covered

\* The forward pass resolves what is unambiguous: the sole candidate is h.
LEMMA SoleCandidate ==
    ASSUME TypeOK, connsSeen = conns, NEW view \in ConnViews,
           NEW e \in Event, NEW h \in conns, Unambiguous(conns, h, e)
    PROVE  Candidates(view, e) = {h}
<1>1. view = conns
  BY DEF ConnViews
<1>2. \A g \in conns : InWindow(g, e) => Responds(g, e)
  BY WindowsRespond DEF TypeOK
<1>3. InWindow(h, e)
  BY WindowsRespond DEF TypeOK, Unambiguous
<1> QED
  BY <1>1, <1>2, <1>3 DEF Candidates, Unambiguous

LEMMA ForwardStep ==
    ASSUME IInv, SerialInv, NEW o \in CowrieObject, CowrieStep(o), OneAtATime
    PROVE  ForwardCovers(o)'
<1> USE DEF tableVars, localVars, GoTo
<1>a. /\ o \in Object /\ TypeOK /\ CowrieAt(o) /\ ForwardCovers(o)
      /\ UNCHANGED <<conns, connsSeen>>
  BY DEF Object, IInv, CowrieControl, SerialInv, CowrieStep, StartCowrie,
         DirectEvent, InheritFromCache, SkipLookup, LookupSessionPriorMatch,
         Correlate, BeginWrite, PutEvent, FinishCowrie
<1>s. ASSUME NEW st, NEW ip, StoreEvent(o, st, ip),
             pc[o] \in {"event", "window"}, pos[o] <= Len(Lines[o]),
             \/ st \in Matched
             \/ \A h \in conns : ~Unambiguous(conns, h, Line(o))
      PROVE  ForwardCovers(o)'
  <2>1. Line(o) \in Event
    BY <1>a, <1>s, LineType
  <2>2. \A e \in Event : stored'[o][e] =
          IF e = Line(o) THEN StoredEvent(Line(o), st, ip) ELSE stored[o][e]
    BY <1>s, <1>a, <2>1 DEF StoreEvent, TypeOK
  <2>3. Active(o)
    BY <1>s DEF Active, Settled
  <2>4. StoredEvent(Line(o), st, ip).status = st
    BY DEF StoredEvent
  <2>5. ASSUME NEW e \in Present(stored'[o]), NEW h \in conns, Unambiguous(conns, h, e)
        PROVE  stored'[o][e].status \in Matched
    <3>1. CASE e = Line(o)
      BY <2>1, <2>2, <2>4, <2>5, <3>1, <1>s
    <3>2. CASE e # Line(o)
      <4>1. e \in Present(stored[o]) /\ stored'[o][e] = stored[o][e]
        BY <2>2, <2>5, <3>2 DEF Present
      <4> QED
        BY <4>1, <2>3, <2>5, <1>a DEF ForwardCovers
    <3> QED
      BY <3>1, <3>2
  <2>6. Active(o)'
    BY <1>s, <1>a DEF StoreEvent, Active, Settled, TypeOK
  <2> QED
    BY <1>a, <2>3, <2>5, <2>6 DEF ForwardCovers, Present
\* Nothing new is stored.
<1>u. ASSUME Active(o), Active(o)', stored'[o] = stored[o]
      PROVE  ForwardCovers(o)'
  BY <1>a, <1>u DEF ForwardCovers, Present
<1>1. CASE StartCowrie(o)
  <2>1. pc[o] = "idle" /\ pc'[o] = "event" /\ stored' = stored
    BY <1>1, <1>a DEF StartCowrie, TypeOK
  <2>2. connsSeen = conns
    BY <2>1, <1>a DEF OneAtATime
  <2>3. Present(stored[o]) = {}
    BY <2>1, <1>a DEF ForwardCovers, Active
  <2>4. Active(o)'
    BY <2>1 DEF Active, Settled
  <2> QED
    BY <1>a, <2>1, <2>2, <2>3, <2>4 DEF ForwardCovers, Present
<1>2. CASE DirectEvent(o)
  BY <1>2, <1>s DEF DirectEvent, Unambiguous, LineSession
<1>3. CASE InheritFromCache(o)
  BY <1>3, <1>s DEF InheritFromCache, Matched
<1>4. CASE SkipLookup(o)
  <2>1. Active(o) /\ Active(o)'
    BY <1>4, <1>a DEF SkipLookup, Active, Settled, TypeOK
  <2> QED
    BY <1>4, <2>1, <1>u DEF SkipLookup
<1>5. CASE LookupSessionPriorMatch(o)
  <2>1. \/ \E ip : StoreEvent(o, "matched_inherited", ip)
        \/ GoTo(o, "window") /\ UNCHANGED <<pos, stored>>
    BY <1>5 DEF LookupSessionPriorMatch
  <2>2. CASE \E ip : StoreEvent(o, "matched_inherited", ip)
    BY <1>5, <1>s, <2>2 DEF LookupSessionPriorMatch, Matched
  <2>3. CASE GoTo(o, "window") /\ UNCHANGED <<pos, stored>>
    <3>1. Active(o) /\ Active(o)'
      BY <1>5, <2>3, <1>a DEF LookupSessionPriorMatch, Active, Settled, TypeOK
    <3> QED
      BY <2>3, <3>1, <1>u
  <2> QED
    BY <2>1, <2>2, <2>3
<1>6. CASE Correlate(o)
  <2>1. pc[o] = "window" /\ pos[o] <= Len(Lines[o]) /\ connsSeen = conns
    BY <1>6, <1>a DEF Correlate, CowrieAt, ForwardCovers, Active, Settled
  <2>2. Line(o) \in Event
    BY <1>a, <2>1, LineType
  <2>3. PICK view \in ConnViews :
          \/ Candidates(view, Line(o)) = {} /\ StoreEvent(o, "missed", Loopback)
          \/ \E ip : StoreEvent(o, "matched", ip)
          \/ /\ \E g, h \in Candidates(view, Line(o)) : g # h
             /\ StoreEvent(o, "ambiguous", Loopback)
    BY <1>6 DEF Correlate
  <2>4. CASE \E ip : StoreEvent(o, "matched", ip)
    BY <2>1, <2>4, <1>s DEF Matched
  <2>5. CASE ~\E ip : StoreEvent(o, "matched", ip)
    <3>1. \A h \in conns : ~Unambiguous(conns, h, Line(o))
      <4> SUFFICES ASSUME NEW h \in conns, Unambiguous(conns, h, Line(o))
                   PROVE  FALSE
        OBVIOUS
      <4>1. Candidates(view, Line(o)) = {h}
        BY <2>1, <2>2, <1>a, SoleCandidate
      <4> QED
        BY <2>3, <2>5, <4>1
    <3> QED
      BY <2>1, <2>3, <2>5, <3>1, <1>s
  <2> QED
    BY <2>4, <2>5
<1>7. CASE BeginWrite(o) \/ PutEvent(o)
  <2>1. Active(o) /\ Active(o)'
    BY <1>7, <1>a DEF BeginWrite, PutEvent, Active, Settled, TypeOK
  <2> QED
    BY <1>7, <2>1, <1>u DEF BeginWrite, PutEvent
<1>8. CASE FinishCowrie(o)
  <2>1. ~Active(o)'
    BY <1>8, <1>a DEF FinishCowrie, Active, Settled, TypeOK
  <2>2. Present(stored'[o]) = {}
    BY <1>8, <1>a DEF FinishCowrie, Forget, NoItem, TypeOK, Present
  <2> QED
    BY <2>1, <2>2 DEF ForwardCovers, Present
<1> QED
  BY <1>1, <1>2, <1>3, <1>4, <1>5, <1>6, <1>7, <1>8 DEF CowrieStep

\* While one invocation takes a step no other is running.
LEMMA OthersRest ==
    ASSUME IInv, SerialInv, OneAtATime, NEW o \in Object,
           \/ o \in CowrieObject /\ CowrieStep(o)
           \/ o \in HaproxyObject /\ HaproxyStep(o)
           \/ Fail(o),
           NEW p \in Object, p # o
    PROVE  ~Active(p) /\ pc'[p] = pc[p]
<1> USE DEF tableVars, localVars, GoTo
<1>1. TypeOK
  BY DEF IInv
<1>2. Active(o) \/ (pc[o] = "idle" /\ pc'[o] # "idle")
  <2>1. CASE o \in CowrieObject /\ CowrieStep(o)
    BY <2>1, <1>1
    DEF CowrieStep, StartCowrie, DirectEvent, InheritFromCache, SkipLookup,
        LookupSessionPriorMatch, Correlate, BeginWrite, PutEvent, FinishCowrie,
        Active, Settled, TypeOK
  <2>2. CASE o \in HaproxyObject /\ HaproxyStep(o)
    BY <2>2, <1>1
    DEF HaproxyStep, StartHaproxy, PutConn, BeginBackward, FindTargetSession,
        QuerySession, UpdateEvent, FinishUpdate, FinishHaproxy,
        Active, Settled, TypeOK
  <2>3. CASE Fail(o)
    BY <2>3 DEF Fail, Active, Settled
  <2> QED
    BY <2>1, <2>2, <2>3
<1>3. ~Active(p)
  BY <1>2 DEF SerialInv, OneAtATime, Active
<1>4. pc'[p] = pc[p]
  BY <1>1, CowrieFrame, HaproxyFrame, FailFrame
<1> QED
  BY <1>3, <1>4

\* What is covered stays covered.
LEMMA CoveredNext ==
    ASSUME IInv, SerialInv, [Next]_vars, NEW h \in conns, Covered(h)
    PROVE  Covered(h)'
<1>1. conns \subseteq conns'
  BY TablesGrow
<1>2. CASE UNCHANGED table
  BY <1>1, <1>2, CoveredStays DEF Present
<1>3. ASSUME NEW o \in CowrieObject, PutEvent(o)
      PROVE  Covered(h)'
  <2>1. PICK e \in left[o] :
          /\ e \in Event /\ stored[o][e].status # "absent"
          /\ table' = [table EXCEPT ![e] = stored[o][e]]
          /\ Present(table') = Present(table) \cup {e}
    BY <1>3, PutAdds
  <2>2. Unambiguous(conns, h, e) => stored[o][e].status \in Matched
    BY <1>3, <2>1 DEF PutEvent, SerialInv, ForwardCovers, Active, Settled, Present
  <2>3. ASSUME NEW f \in Present(table')
        PROVE  \/ f \in Present(table) /\ table'[f] = table[f]
               \/ table'[f].status \in Matched
               \/ ~Unambiguous(conns, h, f)
    BY <2>1, <2>2, <2>3 DEF IInv, TypeOK, Present
  <2> QED
    BY <1>1, <2>3, CoveredStays
<1>4. ASSUME NEW o \in HaproxyObject, UpdateEvent(o)
      PROVE  Covered(h)'
  <2>1. PICK e \in left[o] :
          /\ e \in Event
          /\ table' = [table EXCEPT
                         ![e] = ConditionalUpdate(table[e], target[o].ip)]
          /\ Present(table') = Present(table) \cup {e}
    BY <1>4, UpdateChanges
  <2>2. ConditionalUpdate(table[e], target[o].ip).status \in Matched
    BY DEF ConditionalUpdate, Matched
  <2>3. ASSUME NEW f \in Present(table')
        PROVE  \/ f \in Present(table) /\ table'[f] = table[f]
               \/ table'[f].status \in Matched
    BY <2>1, <2>2, <2>3 DEF IInv, TypeOK, Present
  <2> QED
    BY <1>1, <2>3, CoveredStays
<1> QED
  BY <1>2, <1>3, <1>4, TableStep

\* A batch that is not running only has what it covered to keep.
LEMMA RestingKeeps ==
    ASSUME IInv, SerialInv, [Next]_vars, NEW p \in Object, ~Active(p),
           pc'[p] = pc[p], pos'[p] = pos[p],
           p \in CowrieObject => stored'[p] = stored[p]
    PROVE  /\ p \in CowrieObject => ForwardCovers(p)'
           /\ p \in HaproxyObject => BackwardCovers(p)'
<1>1. ~Active(p)'
  BY DEF Active
<1>2. p \in CowrieObject => ForwardCovers(p)'
  BY <1>1 DEF SerialInv, ForwardCovers, Present
<1>3. ASSUME p \in HaproxyObject
      PROVE  BackwardCovers(p)'
  <2>1. pc[p] \in {"idle", "done", "dead"}
    BY DEF Active, Settled
  <2>2. ASSUME NEW i \in DOMAIN Lines[p], pc[p] = "done"
        PROVE  Covered(Lines[p][i])'
    <3>1. Lines[p][i] \in conns
      BY <1>3, <2>2 DEF IInv, HaproxyControl, HaproxyAt, LineSet
    <3>2. Covered(Lines[p][i])
      BY <1>3, <2>2 DEF SerialInv, BackwardCovers
    <3> QED
      BY <3>1, <3>2, CoveredNext
  <2>3. pc[p] = "idle" => pos[p] = 1
    BY <1>3 DEF SerialInv, BackwardCovers
  <2> QED
    BY <1>1, <2>1, <2>2, <2>3 DEF BackwardCovers
<1> QED
  BY <1>2, <1>3

\* What a running backward pass reads is what is stored, but for items that
\* are matched by now.
LEMMA BackwardReads ==
    ASSUME NEW o \in HaproxyObject, BackwardCovers(o), Active(o),
           NEW view \in EventViews
    PROVE  /\ Present(view) = Present(table)
           /\ \A e \in Event :
                 view[e] = table[e] \/ table[e].status \in Matched
<1>1. \A e \in Event : view[e] = table[e] \/ view[e] = seen[e]
  BY EventViewItems
<1> QED
  BY <1>1 DEF BackwardCovers, Present

\* The sessions around a connection that is some unresolved event's only one:
\* that event's, and no other.
LEMMA OnlySession ==
    ASSUME IInv, NEW o \in HaproxyObject, BackwardCovers(o), Active(o),
           NEW view \in EventViews, NEW h \in Conn,
           NEW e \in Present(table), Unambiguous(conns, h, e),
           table[e].status \notin Matched
    PROVE  SessionsInWindow(view, h) = {SessionOf[e]}
<1>1. e \in Event /\ e \in Present(view) /\ view[e] = table[e]
  BY BackwardReads DEF Present
<1>2. view[e].ip = Loopback
  <2>1. GoodItem(conns, e, table[e]) /\ table[e] \in Item
    BY <1>1 DEF IInv, ItemsGood, TypeOK
  <2>2. table[e].status \in Unresolved
    BY <1>1, <2>1 DEF GoodItem, Unambiguous, Item, Status, Present
  <2> QED
    BY <1>1, <2>1, <2>2 DEF GoodItem
<1>3. InResponseWindow(e, h)
  BY <1>1, WindowsRespond DEF Unambiguous
<1>4. ASSUME NEW f \in Present(view), view[f].ip = Loopback, InResponseWindow(f, h)
      PROVE  SessionOf[f] = SessionOf[e]
  <2>1. f \in Event /\ GoodItem(conns, f, view[f]) /\ view[f] \in Item
    BY <1>4, EventViewGood, EventViewType DEF IInv, Present
  <2>2. view[f].status \notin Matched
    BY <2>1, <1>4, GroundedIsPublic DEF GoodItem, IInv, TypeOK
  <2>3. Tunneled(SessionOf[f])
    BY <2>1, <2>2, <1>4 DEF GoodItem, Item, Status, Tunneled, Present
  <2>4. Responds(h, f)
    BY <2>1, <1>4, WindowsRespond
  <2> QED
    BY <2>1, <2>3, <2>4 DEF Unambiguous
<1> QED
  BY <1>1, <1>2, <1>3, <1>4 DEF SessionsInWindow

\* A page that holds a session holds each of its items.
LEMMA PageHasAll ==
    ASSUME PageHolds, NEW view, NEW e \in Present(view)
    PROVE  e \in FirstItems(view, SessionOf[e], SessionPage)
<1> DEFINE events == {f \in Event : SessionOf[f] = SessionOf[e]}
           items  == SessionItems(view, SessionOf[e])
           before == {f \in items : SortKey[f] < SortKey[e]}
<1>1. e \in Event /\ e \in items /\ items \subseteq events
  BY DEF SessionItems, Present
<1>2. IsFiniteSet(events) /\ Cardinality(events) <= SessionPage
  BY <1>1 DEF PageHolds
<1>3. before \subseteq events \ {e}
  BY <1>1
<1>4. IsFiniteSet(events \ {e}) /\ Cardinality(events \ {e}) = Cardinality(events) - 1
  BY <1>1, <1>2, FS_RemoveElement
<1>5. Cardinality(before) <= Cardinality(events \ {e}) /\ Cardinality(before) \in Nat
  BY <1>3, <1>4, FS_Subset, FS_CardinalityType
<1>6. Cardinality(events) \in Nat
  BY <1>2, FS_CardinalityType
<1>7. Cardinality(before) < SessionPage
  BY <1>2, <1>4, <1>5, <1>6
<1> QED
  BY <1>1, <1>7 DEF FirstItems

LEMMA BackwardStep ==
    ASSUME IInv, SerialInv, PageHolds, [Next]_vars, OneAtATime,
           NEW o \in HaproxyObject, HaproxyStep(o)
    PROVE  BackwardCovers(o)'
<1> USE DEF tableVars, localVars, GoTo
<1>a. /\ o \in Object /\ TypeOK /\ HaproxyAt(o) /\ BackwardCovers(o)
      /\ pos[o] \in Nat \ {0}
  BY DEF Object, IInv, HaproxyControl, SerialInv, TypeOK
\* Connections it has passed stay covered.
<1>p. ASSUME NEW i \in DOMAIN Lines[o], pc[o] \in {"scan", "session", "update"},
             Covered(Lines[o][i])
      PROVE  Covered(Lines[o][i])'
  <2>1. Lines[o][i] \in conns
    BY <1>a, <1>p DEF HaproxyAt, LineSet
  <2> QED
    BY <1>p, <2>1, CoveredNext
<1>1. CASE StartHaproxy(o)
  <2>1. /\ pc[o] = "idle" /\ pc'[o] = "write" /\ left'[o] = LineSet(o)
        /\ UNCHANGED <<table, seen, pos>>
    BY <1>1, <1>a DEF StartHaproxy, TypeOK
  <2>2. seen = table
    BY <2>1, <1>a DEF OneAtATime
  <2>3. pos[o] = 1 /\ LineSet(o)' = LineSet(o)
    BY <2>1, <1>a DEF BackwardCovers, LineSet
  <2> QED
    BY <2>1, <2>2, <2>3 DEF BackwardCovers, Present
<1>2. CASE PutConn(o)
  <2>1. /\ pc[o] = "write" /\ left'[o] \subseteq left[o]
        /\ UNCHANGED <<table, seen, pc, pos>>
    BY <1>2, <1>a DEF PutConn, TypeOK
  <2>2. Active(o) /\ LineSet(o)' = LineSet(o)
    BY <2>1 DEF Active, Settled, LineSet
  <2> QED
    BY <1>a, <2>1, <2>2 DEF BackwardCovers, Present
<1>3. CASE BeginBackward(o)
  <2>1. /\ pc[o] = "write" /\ pc'[o] = "scan"
        /\ UNCHANGED <<table, seen, pos>>
    BY <1>3, <1>a DEF BeginBackward, TypeOK
  <2>2. Active(o)
    BY <2>1 DEF Active, Settled
  <2>3. pos[o] = 1
    BY <1>a, <2>1 DEF BackwardCovers
  <2> QED
    BY <1>a, <2>1, <2>2, <2>3 DEF BackwardCovers, Present
<1>4. CASE FindTargetSession(o)
  <2>1. /\ pc[o] = "scan" /\ pos[o] <= Len(Lines[o]) /\ Active(o)
        /\ UNCHANGED <<table, seen, conns, left>>
    BY <1>4 DEF FindTargetSession, Active, Settled
  <2>2. Line(o) \in Conn
    BY <1>a, <2>1, LineType
  <2>3. PICK view \in EventViews :
          \/ \E s \in SessionsInWindow(view, Line(o)) :
                /\ SessionsInWindow(view, Line(o)) = {s}
                /\ target' = [target EXCEPT
                                ![o] = [session |-> s, ip |-> ConnIp[Line(o)]]]
                /\ GoTo(o, "session")
                /\ UNCHANGED pos
          \/ /\ ~\E s \in Session : SessionsInWindow(view, Line(o)) = {s}
             /\ NextRecord(o)
             /\ UNCHANGED <<pc, target>>
    BY <1>4 DEF FindTargetSession
  <2>4. ASSUME NEW e \in Present(table), Unambiguous(conns, Line(o), e),
               table[e].status \notin Matched
        PROVE  SessionsInWindow(view, Line(o)) = {SessionOf[e]}
    BY <1>a, <2>1, <2>2, <2>4, OnlySession
  <2>5. ASSUME NEW s \in SessionsInWindow(view, Line(o)),
               SessionsInWindow(view, Line(o)) = {s},
               target' = [target EXCEPT
                            ![o] = [session |-> s, ip |-> ConnIp[Line(o)]]],
               GoTo(o, "session"), UNCHANGED pos
        PROVE  BackwardCovers(o)'
    <3>1. pc'[o] = "session" /\ target'[o].session = s
      BY <1>a, <2>5 DEF TypeOK
    <3>2. \A e \in Present(table) : Unambiguous(conns, Line(o), e) =>
             table[e].status \in Matched \/ SessionOf[e] = s
      BY <2>4, <2>5
    <3>3. \A i \in DOMAIN Lines[o] : i < pos[o] => Covered(Lines[o][i])'
      BY <1>a, <1>p, <2>1 DEF BackwardCovers
    <3>4. Line(o)' = Line(o)
      BY <2>5 DEF Line
    <3>5. /\ Present(seen') = Present(table')
          /\ \A e \in Event : seen'[e] = table'[e] \/ table'[e].status \in Matched
      BY <1>a, <2>1 DEF BackwardCovers, Present
    <3>6. \A e \in Present(table') : Unambiguous(conns', Line(o)', e) =>
             table'[e].status \in Matched \/ SessionOf[e] = target'[o].session
      BY <2>1, <3>1, <3>2, <3>4 DEF Present
    <3> QED
      BY <2>1, <2>5, <3>1, <3>3, <3>5, <3>6 DEF BackwardCovers
  <2>6. ASSUME ~\E s \in Session : SessionsInWindow(view, Line(o)) = {s},
               NextRecord(o), UNCHANGED <<pc, target>>
        PROVE  BackwardCovers(o)'
    <3>1. pos'[o] = pos[o] + 1
      BY <1>a, <2>6 DEF NextRecord, TypeOK
    <3>2. Covered(Line(o))
      BY <2>4, <2>6 DEF Covered, Present
    <3>3. ASSUME NEW i \in DOMAIN Lines[o], i < pos'[o]
          PROVE  Covered(Lines[o][i])'
      <4>0. i \in Int
        OBVIOUS
      <4>1. i < pos[o] \/ i = pos[o]
        BY <1>a, <3>1, <3>3, <4>0
      <4>2. Covered(Lines[o][i])
        BY <1>a, <2>1, <3>2, <4>1 DEF BackwardCovers, Line
      <4> QED
        BY <1>p, <2>1, <4>2
    <3> QED
      BY <1>a, <2>1, <2>6, <3>1, <3>3 DEF BackwardCovers, Present
  <2> QED
    BY <2>3, <2>5, <2>6
<1>5. CASE QuerySession(o)
  <2>1. /\ pc[o] = "session" /\ pc'[o] = "update" /\ Active(o)
        /\ UNCHANGED <<table, seen, conns, pos, target>>
    BY <1>5, <1>a DEF QuerySession, Active, Settled, TypeOK
  <2>2. PICK view \in EventViews :
          left' = [left EXCEPT
                     ![o] = FirstItems(view, target[o].session, SessionPage)]
    BY <1>5 DEF QuerySession
  <2>3. left'[o] = FirstItems(view, target[o].session, SessionPage)
    BY <1>a, <2>2 DEF TypeOK
  <2>4. Present(view) = Present(table)
    BY <1>a, <2>1, BackwardReads
  <2>5. left'[o] \subseteq Present(table)
    BY <2>3, <2>4 DEF FirstItems, SessionItems
  <2>6. \A e \in Present(table) :
           SessionOf[e] = target[o].session => e \in left'[o]
    BY <2>3, <2>4, PageHasAll
  <2>7. \A i \in DOMAIN Lines[o] : i < pos[o] => Covered(Lines[o][i])'
    BY <1>a, <1>p, <2>1 DEF BackwardCovers
  <2>8. Line(o)' = Line(o)
    BY <2>1 DEF Line
  <2> QED
    BY <1>a, <2>1, <2>5, <2>6, <2>7, <2>8 DEF BackwardCovers, Present, Unambiguous
<1>6. CASE UpdateEvent(o)
  <2>1. /\ pc[o] = "update" /\ Active(o)
        /\ UNCHANGED <<seen, conns, pc, pos, target>>
    BY <1>6 DEF UpdateEvent, Active, Settled
  <2>2. PICK e \in left[o] :
          /\ e \in Event
          /\ table' = [table EXCEPT
                         ![e] = ConditionalUpdate(table[e], target[o].ip)]
          /\ left' = [left EXCEPT ![o] = @ \ {e}]
          /\ Present(table') = Present(table) \cup {e}
    BY <1>6, UpdateChanges
  <2>3. ConditionalUpdate(table[e], target[o].ip).status \in Matched
    BY DEF ConditionalUpdate, Matched
  <2>4. /\ Present(table') = Present(table) /\ left'[o] = left[o] \ {e}
        /\ table'[e].status \in Matched
        /\ \A f \in Event : f # e => table'[f] = table[f]
    <3>1. e \in Present(table)
      BY <1>a, <2>1 DEF BackwardCovers
    <3>2. Present(table') = Present(table)
      BY <2>2, <3>1
    <3>3. left'[o] = left[o] \ {e}
      BY <1>a, <2>2 DEF TypeOK
    <3>4. \A f \in Event : table'[f] =
             IF f = e THEN ConditionalUpdate(table[e], target[o].ip) ELSE table[f]
      BY <1>a, <2>2 DEF TypeOK
    <3> QED
      BY <2>2, <2>3, <3>2, <3>3, <3>4
  <2>5. \A i \in DOMAIN Lines[o] : i < pos[o] => Covered(Lines[o][i])'
    BY <1>a, <1>p, <2>1 DEF BackwardCovers
  <2>6. Line(o)' = Line(o)
    BY <2>1 DEF Line
  <2>7. \A f \in Present(table) : Unambiguous(conns, Line(o), f) =>
           table'[f].status \in Matched \/ f \in left'[o]
    BY <1>a, <2>1, <2>4 DEF BackwardCovers, Present
  <2> QED
    BY <1>a, <2>1, <2>4, <2>5, <2>6, <2>7 DEF BackwardCovers, Unambiguous
<1>7. CASE FinishUpdate(o)
  <2>1. /\ pc[o] = "update" /\ pc'[o] = "scan" /\ left[o] = {} /\ Active(o)
        /\ pos'[o] = pos[o] + 1 /\ UNCHANGED <<table, seen, conns, left>>
    BY <1>7, <1>a DEF FinishUpdate, NextRecord, Active, Settled, TypeOK
  <2>2. Covered(Line(o))
    BY <1>a, <2>1 DEF BackwardCovers, Covered
  <2>3. ASSUME NEW i \in DOMAIN Lines[o], i < pos'[o]
        PROVE  Covered(Lines[o][i])'
    <3>1. i < pos[o] \/ i = pos[o]
      <4>1. i \in Int /\ pos[o] \in Int
        BY <1>a, <2>3 DEF TypeOK, Object
      <4> QED
        BY <2>1, <2>3, <4>1
    <3>2. Covered(Lines[o][i])
      BY <1>a, <2>1, <2>2, <3>1 DEF BackwardCovers, Line
    <3> QED
      BY <1>p, <2>1, <3>2
  <2> QED
    BY <1>a, <2>1, <2>3 DEF BackwardCovers, Present
<1>8. CASE FinishHaproxy(o)
  <2>1. /\ pc[o] = "scan" /\ pos[o] > Len(Lines[o]) /\ pc'[o] = "done"
    BY <1>8, <1>a DEF FinishHaproxy, TypeOK
  <2>2. ASSUME NEW i \in DOMAIN Lines[o]
        PROVE  Covered(Lines[o][i])'
    <3>1. i < pos[o]
      BY <1>a, <2>1
    <3>2. Covered(Lines[o][i])
      BY <1>a, <2>1, <3>1 DEF BackwardCovers
    <3> QED
      BY <1>p, <2>1, <3>2
  <2>3. ~Active(o)'
    BY <2>1 DEF Active, Settled
  <2> QED
    BY <2>1, <2>2, <2>3 DEF BackwardCovers
<1> QED
  BY <1>1, <1>2, <1>3, <1>4, <1>5, <1>6, <1>7, <1>8 DEF HaproxyStep

\* Stored connections come from the objects.
LEMMA ConnsFromObjects ==
    ASSUME IInv, SerialInv, [Next]_vars
    PROVE  conns' \subseteq UNION {LineSet(o) : o \in HaproxyObject}
<1> USE DEF tableVars
<1>1. CASE \E o \in HaproxyObject : PutConn(o)
  <2>1. PICK o \in HaproxyObject : PutConn(o)
    BY <1>1
  <2>2. left[o] \subseteq LineSet(o)
    BY <2>1 DEF PutConn, SerialInv, BackwardCovers
  <2>3. \E h \in left[o] : conns' = conns \cup {h}
    BY <2>1 DEF PutConn
  <2> QED
    BY <2>2, <2>3 DEF SerialInv
<1>2. CASE ~\E o \in HaproxyObject : PutConn(o)
  <2>1. UNCHANGED conns
    BY <1>2
    DEF Next, CowrieStep, StartCowrie, DirectEvent, InheritFromCache,
        SkipLookup, LookupSessionPriorMatch, Correlate, BeginWrite,
        PutEvent, FinishCowrie, HaproxyStep, StartHaproxy,
        BeginBackward, FindTargetSession, QuerySession, UpdateEvent,
        FinishUpdate, FinishHaproxy, Fail, SyncEvent, SyncConn, vars
  <2> QED
    BY <2>1 DEF SerialInv
<1> QED
  BY <1>1, <1>2

LEMMA SerialStep ==
    ASSUME IInv, SerialInv, PageHolds, [Next]_vars, OneAtATime, NEW o \in Object,
           \/ o \in CowrieObject /\ CowrieStep(o)
           \/ o \in HaproxyObject /\ HaproxyStep(o)
           \/ Fail(o)
    PROVE  SerialInv'
<1>1. \A p \in Object : p # o => ~Active(p) /\ pc'[p] = pc[p]
  BY OthersRest
<1>2. \A p, q \in Object : Active(p)' /\ Active(q)' => p = q
  BY <1>1 DEF Active
<1>3. ASSUME NEW p \in Object, p # o
      PROVE  /\ p \in CowrieObject => ForwardCovers(p)'
             /\ p \in HaproxyObject => BackwardCovers(p)'
  <2>1. pos'[p] = pos[p] /\ (p \in CowrieObject => stored'[p] = stored[p])
    BY <1>3, CowrieFrame, HaproxyFrame, FailFrame DEF IInv
  <2> QED
    BY <1>1, <1>3, <2>1, RestingKeeps
<1>4. /\ o \in CowrieObject => ForwardCovers(o)'
      /\ o \in HaproxyObject => BackwardCovers(o)'
  <2>1. CASE o \in CowrieObject /\ CowrieStep(o)
    BY <2>1, ForwardStep
  <2>2. CASE o \in HaproxyObject /\ HaproxyStep(o)
    BY <2>2, BackwardStep
  <2>3. CASE Fail(o)
    <3>1. /\ pc'[o] \in {"idle", "dead"} /\ pos'[o] = 1
          /\ o \in CowrieObject => Present(stored'[o]) = {}
      BY <2>3 DEF Fail, Forget, GoTo, IInv, TypeOK, Present, NoItem
    <3>2. ~Active(o)'
      BY <3>1 DEF Active, Settled
    <3> QED
      BY <3>1, <3>2 DEF ForwardCovers, BackwardCovers, Present
  <2> QED
    BY <2>1, <2>2, <2>3
<1>5. LineSet(o)' = LineSet(o)
  BY DEF LineSet
<1>6. \A p \in CowrieObject : ForwardCovers(p)'
  BY <1>3, <1>4 DEF Object
<1>7. \A p \in HaproxyObject : BackwardCovers(p)'
  BY <1>3, <1>4 DEF Object
<1> QED
  BY <1>2, <1>6, <1>7, ConnsFromObjects DEF SerialInv, LineSet

LEMMA SerialNext ==
    ASSUME IInv, SerialInv, PageHolds, [Next /\ OneAtATime]_vars
    PROVE  SerialInv'
<1>1. ASSUME OneAtATime, NEW o \in Object,
             \/ o \in CowrieObject /\ CowrieStep(o)
             \/ o \in HaproxyObject /\ HaproxyStep(o)
             \/ Fail(o)
      PROVE  SerialInv'
  BY <1>1, SerialStep
<1>2. CASE SyncEvent \/ SyncConn \/ UNCHANGED vars
  <2>1. /\ UNCHANGED <<table, conns, pc, pos, stored, left, target>>
        /\ \A e \in Event : seen'[e] = table[e] \/ seen'[e] = seen[e]
        /\ connsSeen = conns => connsSeen' = conns
    BY <1>2 DEF SyncEvent, SyncConn, vars, localVars, IInv, TypeOK
  <2>2. \A o \in CowrieObject : ForwardCovers(o)'
    BY <2>1 DEF SerialInv, ForwardCovers, Active, Present
  <2>3. ASSUME NEW o \in HaproxyObject PROVE BackwardCovers(o)'
    <3>1. BackwardCovers(o)
      BY DEF SerialInv
    <3>2. /\ Line(o)' = Line(o) /\ LineSet(o)' = LineSet(o)
          /\ \A h : Covered(h)' <=> Covered(h)
          /\ Active(o)' <=> Active(o)
      BY <2>1 DEF Line, LineSet, Covered, Present, Active
    <3>3. Active(o) =>
            /\ Present(seen') = Present(table')
            /\ \A e \in Event : seen'[e] = table'[e] \/ table'[e].status \in Matched
      BY <2>1, <3>1 DEF BackwardCovers, Present
    <3> QED
      BY <2>1, <3>1, <3>2, <3>3 DEF BackwardCovers, Present
  <2>4. \A o, p \in Object : Active(o)' /\ Active(p)' => o = p
    BY <2>1 DEF SerialInv, Active
  <2> QED
    BY <2>1, <2>2, <2>3, <2>4 DEF SerialInv, LineSet
<1> QED
  <2>1. CASE UNCHANGED vars
    BY <2>1, <1>2
  <2>2. CASE Next /\ OneAtATime
    <3>1. \A o \in CowrieObject : CowrieStep(o) => SerialInv'
      BY <1>1, <2>2 DEF Object
    <3>2. \A o \in HaproxyObject : HaproxyStep(o) => SerialInv'
      BY <1>1, <2>2 DEF Object
    <3>3. \A o \in Object : Fail(o) => SerialInv'
      BY <1>1, <2>2
    <3> QED
      BY <2>2, <3>1, <3>2, <3>3, <1>2 DEF Next
  <2> QED
    BY <2>1, <2>2

(***************************************************************************)
(* "Each side handles the case where the OTHER source's batch landed       *)
(* first" (_backward_correlate): where invocations do not overlap, reads   *)
(* have caught up between them and a session fits in a page, every         *)
(* unambiguous event has its address once all batches are in, in whatever  *)
(* order they came and however often they failed and came again.           *)
(***************************************************************************)
THEOREM SidesCover ==
    ASSUME PageHolds
    PROVE  SerialSpec => []EachSideCovers
<1>1. Init => IInv /\ SerialInv
  <2>1. Init => IInv
    BY TypeInit, ItemsInit, MemoryInit, ReadsInit, ControlInit DEF IInv
  <2>2. Init => SerialInv
    BY DEF Init, SerialInv, Active, Settled, ForwardCovers, BackwardCovers,
           Present, NoItem, Object
  <2> QED
    BY <2>1, <2>2
<1>2. IInv /\ SerialInv /\ [Next /\ OneAtATime]_vars => IInv' /\ SerialInv'
  BY Inductive, SerialNext
<1>3. IInv /\ SerialInv => EachSideCovers
  <2> SUFFICES ASSUME IInv, SerialInv, Quiescent, NEW e \in Present(table),
                      NEW h \in conns, Unambiguous(conns, h, e)
               PROVE  table[e].status \in Matched
    BY DEF EachSideCovers
  <2>1. PICK o \in HaproxyObject : h \in LineSet(o)
    BY DEF SerialInv
  <2>2. PICK i \in DOMAIN Lines[o] : h = Lines[o][i]
    BY <2>1 DEF LineSet
  <2>3. Covered(h)
    BY <2>2 DEF Quiescent, Object, SerialInv, BackwardCovers
  <2> QED
    BY <2>3 DEF Covered
<1> QED
  BY <1>1, <1>2, <1>3, PTL DEF SerialSpec

=============================================================================
