-------------------------- MODULE BatchWriteProofs --------------------------
(***************************************************************************)
(* Proofs about BatchWrite, for every notification, table and limit.       *)
(***************************************************************************)
EXTENDS BatchWrite, FiniteSetTheorems, WellFoundedInduction, TLAPS

-----------------------------------------------------------------------------
(* Chunks.                                                                 *)

(* A nonempty set of lines of an object has a first one and a last one.    *)
LEMMA FirstExists ==
    ASSUME NEW S \in SUBSET Nat, S # {}
    PROVE  \E i \in S : \A j \in S : i <= j
<1>1. PICK x \in S : \A y \in S : ~ (<<y, x>> \in OpToRel(<, Nat))
  BY NatLessThanWellFounded, WFMin
<1>2. \A y \in S : ~(y < x)
  BY <1>1 DEF OpToRel
<1> QED
  BY <1>2

LEMMA LastExists ==
    ASSUME NEW n \in Nat, NEW S \in SUBSET (1..n), S # {}
    PROVE  \E i \in S : \A j \in S : j <= i
<1> DEFINE T == {n - i : i \in S}
<1>0. \A i \in S : i \in Int /\ i <= n
  OBVIOUS
<1>1. T \subseteq Nat /\ T # {}
  <2>1. \A i \in S : n - i \in Nat
    BY <1>0
  <2>2. T # {}
    OBVIOUS
  <2> QED
    BY <2>1, <2>2
<1>2. PICK x \in T : \A y \in T : x <= y
  BY <1>1, FirstExists
<1>3. PICK i \in S : x = n - i
  OBVIOUS
<1>4. \A j \in S : j <= i
  <2> SUFFICES ASSUME NEW j \in S PROVE j <= i
    OBVIOUS
  <2>1. n - i <= n - j
    BY <1>2, <1>3
  <2> QED
    BY <1>0, <2>1
<1> QED
  BY <1>4

LEMMA ValidFinite ==
    ASSUME NEW o \in Object
    PROVE  /\ Lines[o] \in Seq(Line)
           /\ Len(Lines[o]) \in Nat
           /\ DOMAIN Lines[o] = 1..Len(Lines[o])
           /\ \A v : /\ LinesWith(o, v) \subseteq 1..Len(Lines[o])
                     /\ IsFiniteSet(LinesWith(o, v))
           /\ ValidLines(o) \subseteq 1..Len(Lines[o])
           /\ IsFiniteSet(ValidLines(o))
           /\ \A i \in ValidLines(o) : KeyAt(o, i) \in Key
<1>1. Lines[o] \in Seq(Line)
  BY NotificationAssumption
<1>2. Len(Lines[o]) \in Nat /\ DOMAIN Lines[o] = 1..Len(Lines[o])
  BY <1>1
<1>3. IsFiniteSet(1..Len(Lines[o]))
  BY <1>2, FS_Interval
<1>4. \A v : LinesWith(o, v) \subseteq 1..Len(Lines[o])
  BY <1>2 DEF LinesWith
<1>5. \A v : IsFiniteSet(LinesWith(o, v))
  BY <1>3, <1>4, FS_Subset
<1>6. \A i \in ValidLines(o) : KeyAt(o, i) \in Key
  BY <1>1, <1>2, <1>4, NotificationAssumption DEF ValidLines, LinesWith, KeyAt
<1> QED
  BY <1>1, <1>2, <1>4, <1>5, <1>6 DEF ValidLines

LEMMA ChunkType ==
    ASSUME NEW o \in Object, NEW n \in Nat \ {0}
    PROVE  /\ Chunk(o, n) \subseteq ValidLines(o)
           /\ Chunk(o, n) \subseteq 1..Len(Lines[o])
           /\ IsFiniteSet(Chunk(o, n))
           /\ \A i \in Chunk(o, n) : n <= i
BY ValidFinite, FS_Subset DEF Chunk

(* What precedes a line of the chunk is in the chunk or was before it.     *)
LEMMA ChunkClosed ==
    ASSUME NEW o \in Object, NEW n \in Nat \ {0}, NEW i \in Chunk(o, n),
           NEW j \in ValidLines(o), n <= j, j <= i
    PROVE  j \in Chunk(o, n)
<1> DEFINE Upto(k) == {l \in ValidLines(o) : n <= l /\ l < k}
<1>1. i \in Nat /\ j \in Nat /\ ValidLines(o) \subseteq Nat
  BY ValidFinite, ChunkType
<1>2. IsFiniteSet(Upto(i)) /\ Upto(j) \subseteq Upto(i)
  <2>1. IsFiniteSet(Upto(i))
    BY ValidFinite, FS_Subset
  <2>2. \A l \in Upto(j) : l \in Upto(i)
    BY <1>1
  <2> QED
    BY <2>1, <2>2
<1>3. Cardinality(Upto(j)) <= Cardinality(Upto(i))
  BY <1>2, FS_Subset
<1>4. IsFiniteSet(Upto(j))
  BY <1>2, FS_Subset
<1>5. Cardinality(Upto(j)) \in Nat /\ Cardinality(Upto(i)) \in Nat
  BY <1>2, <1>4, FS_CardinalityType
<1>6. Cardinality(Upto(i)) < ChunkSize
  BY DEF Chunk
<1>7. Cardinality(Upto(j)) < ChunkSize
  BY <1>3, <1>5, <1>6, LimitAssumption
<1> QED
  BY <1>7 DEF Chunk

(* Nothing valid is left behind an empty chunk.                            *)
LEMMA ChunkEmpty ==
    ASSUME NEW o \in Object, NEW n \in Nat \ {0}, Chunk(o, n) = {}
    PROVE  \A i \in ValidLines(o) : i < n
<1> DEFINE Rest == {i \in ValidLines(o) : n <= i}
<1>1. ValidLines(o) \subseteq Nat
  BY ValidFinite
<1>2. CASE Rest = {}
  BY <1>1, <1>2
<1>3. CASE Rest # {}
  <2>1. PICK i \in Rest : \A j \in Rest : i <= j
    BY <1>1, <1>3, FirstExists
  <2>2. {j \in ValidLines(o) : n <= j /\ j < i} = {}
    BY <1>1, <2>1
  <2>3. Cardinality({j \in ValidLines(o) : n <= j /\ j < i}) = 0
    BY <2>2, FS_EmptySet
  <2>4. i \in Chunk(o, n)
    BY <2>3, LimitAssumption DEF Chunk
  <2> QED
    BY <2>4
<1> QED
  BY <1>2, <1>3

(* The next chunk begins behind the last line of this one.                 *)
LEMMA PastChunkSplits ==
    ASSUME NEW o \in Object, NEW n \in Nat \ {0}
    PROVE  /\ PastChunk(o, n) \in Nat \ {0}
           /\ \A i \in ValidLines(o) :
                 i < PastChunk(o, n) <=> i < n \/ i \in Chunk(o, n)
<1>1. ValidLines(o) \subseteq Nat /\ Len(Lines[o]) \in Nat
  BY ValidFinite
<1>2. CASE Chunk(o, n) = {}
  BY <1>2 DEF PastChunk
<1>3. CASE Chunk(o, n) # {}
  <2> DEFINE last == CHOOSE i \in Chunk(o, n) : \A j \in Chunk(o, n) : j <= i
  <2>1. last \in Chunk(o, n) /\ \A j \in Chunk(o, n) : j <= last
    BY <1>1, <1>3, ChunkType, LastExists
  <2>2. PastChunk(o, n) = 1 + last
    BY <1>3 DEF PastChunk
  <2>3. last \in Nat /\ n <= last
    BY <2>1, <1>1, ChunkType
  <2> HIDE DEF last
  <2>4. ASSUME NEW i \in ValidLines(o)
        PROVE  i < 1 + last <=> i < n \/ i \in Chunk(o, n)
    <3>1. i \in Nat
      BY <1>1
    <3>2. CASE i < n
      BY <3>1, <3>2, <2>3
    <3>3. CASE n <= i /\ i <= last
      BY <3>1, <3>3, <2>1, <2>3, ChunkClosed
    <3>4. CASE last < i
      BY <3>1, <3>4, <2>1, <2>3
    <3> QED
      BY <3>1, <3>2, <3>3, <3>4, <2>3
  <2> QED
    BY <2>2, <2>3, <2>4
<1> QED
  BY <1>2, <1>3

-----------------------------------------------------------------------------
(* The inductive invariant: the chunk in hand, what is known of its keys,  *)
(* and the two properties of what has been put so far.                     *)

Sums == totals.written = totals.validated

WriterInv ==
    /\ TypeOK
    /\ pc = "waiting" => rec = 1
    /\ pc \in {"call", "object"} => rec \in DOMAIN records /\ Current \in Object
    /\ pc = "call" =>
          /\ request \subseteq Chunk(Current, next)
          /\ request = Chunk(Current, next) \/ KeysDiffer(Current, Chunk(Current, next))
    /\ pc = "object" => Chunk(Current, next) = {}
    /\ Sums
    /\ CountsAddUp
    /\ LastLineWins

InFlight == {"record", "call", "object"}

LEMMA PlaceType ==
    ASSUME TypeOK, NEW p \in Place
    PROVE  /\ p[1] \in DOMAIN records /\ p[1] \in Nat
           /\ records[p[1]] \in Object
           /\ p[2] \in ValidLines(records[p[1]]) /\ p[2] \in Nat
           /\ p = <<p[1], p[2]>>
           /\ PlaceKey(p) \in Key
<1>1. records \in Seq(Object \cup {Malformed})
  BY NotificationAssumption DEF TypeOK
<1>2. /\ p[1] \in DOMAIN records
      /\ records[p[1]] # Malformed
      /\ p[2] \in ValidLines(records[p[1]])
      /\ p = <<p[1], p[2]>>
  BY DEF Place
<1>3. p[1] \in Nat /\ records[p[1]] \in Object
  BY <1>1, <1>2
<1> QED
  BY <1>2, <1>3, ValidFinite DEF PlaceKey

LEMMA PlaceIntro ==
    ASSUME TypeOK, rec \in DOMAIN records, Current \in Object,
           NEW i \in ValidLines(Current)
    PROVE  <<rec, i>> \in Place
<1>1. i \in DOMAIN Lines[Current]
  BY ValidFinite
<1>2. Current # Malformed
  BY NotificationAssumption
<1> QED
  BY <1>1, <1>2 DEF Place, Current

LEMMA RecordType ==
    ASSUME TypeOK, rec <= Len(records), Current # Malformed
    PROVE  rec \in DOMAIN records /\ Current \in Object
<1>1. records \in Seq(Object \cup {Malformed}) /\ rec \in Nat \ {0}
  BY NotificationAssumption DEF TypeOK
<1>2. rec \in DOMAIN records
  BY <1>1
<1> QED
  BY <1>1, <1>2 DEF Current

(* Where nothing is put and the places put stay the same, the last line of *)
(* each key stays.                                                         *)
LEMMA SamePlaces ==
    ASSUME LastLineWins, pc \in InFlight, UNCHANGED <<records, table>>, Landed' = Landed
    PROVE  LastLineWins'
<1>1. \A p : PlaceKey(p)' = PlaceKey(p) /\ PlaceLine(p)' = PlaceLine(p)
  BY DEF PlaceKey, PlaceLine
<1> QED
  BY <1>1 DEF LastLineWins, InFlight

(* A failed invocation leaves nothing to be said but the types.            *)
LEMMA RaiseKeeps ==
    ASSUME TypeOK, Raise, records' = records, table' \in [Key -> Line \cup {NoLine}]
    PROVE  WriterInv'
<1>1. pc' \in {"waiting", "dead"}
  BY DEF Raise, AfterFailure
<1>2. /\ rec' = 1 /\ next' = 1 /\ request' = {} /\ attempts' = 0 /\ backoff' = 1
      /\ clock' = 0 /\ written' = 0 /\ totals' = Zero
      /\ deliveries' = deliveries /\ acked' = acked
  BY DEF Raise, Forget
<1>3. TypeOK'
  BY <1>1, <1>2, LimitAssumption DEF TypeOK, Zero
<1>4. Sums'
  BY <1>2 DEF Sums, Zero
<1>5. CountsAddUp' /\ LastLineWins'
  BY <1>1 DEF CountsAddUp, LastLineWins
<1> QED
  BY <1>1, <1>2, <1>3, <1>4, <1>5 DEF WriterInv

(* The lines a chunk adds to those before it.                              *)
LEMMA ChunkCounts ==
    ASSUME NEW o \in Object, NEW n \in Nat \ {0}
    PROVE  LET before == {i \in ValidLines(o) : i < n}
           IN  /\ IsFiniteSet(before)
               /\ Cardinality({i \in ValidLines(o) : i < n \/ i \in Chunk(o, n)})
                     = Cardinality(before) + Cardinality(Chunk(o, n))
               /\ Cardinality(before) \in Nat
               /\ Cardinality(Chunk(o, n)) \in Nat
<1> DEFINE before == {i \in ValidLines(o) : i < n}
<1>1. IsFiniteSet(before) /\ IsFiniteSet(Chunk(o, n))
  BY ValidFinite, ChunkType, FS_Subset
<1>2. before \cap Chunk(o, n) = {}
  BY ChunkType, ValidFinite
<1>3. {i \in ValidLines(o) : i < n \/ i \in Chunk(o, n)} = before \cup Chunk(o, n)
  BY ChunkType
<1>4. Cardinality(before) \in Nat /\ Cardinality(Chunk(o, n)) \in Nat
  BY <1>1, FS_CardinalityType
<1>5. Cardinality(before \cup Chunk(o, n)) = Cardinality(before) + Cardinality(Chunk(o, n))
  <2> HIDE DEF before
  <2>1. Cardinality(before \cup Chunk(o, n)) =
          Cardinality(before) + Cardinality(Chunk(o, n)) - Cardinality(before \cap Chunk(o, n))
    BY <1>1, FS_Union
  <2>2. Cardinality(before \cap Chunk(o, n)) = 0
    BY <1>2, FS_EmptySet
  <2> QED
    BY <1>4, <2>1, <2>2
<1> QED
  BY <1>1, <1>3, <1>4, <1>5

(* A loop that goes on at line n, with nothing of its chunk accepted yet.  *)
LEMMA BeginChunkCounts ==
    ASSUME TypeOK, NEW n \in Nat \ {0}, Current \in Object,
           BeginChunk(Current, n), UNCHANGED <<records, rec, totals>>, Sums,
           written' = Cardinality({i \in ValidLines(Current) : i < n})
    PROVE  /\ next' = n /\ request' = Chunk(Current, n)
           /\ attempts' = 0 /\ backoff' = 1
           /\ pc' \in {"call", "object"}
           /\ pc' = "object" => Chunk(Current, n) = {}
           /\ written' \in Nat
           /\ CountsAddUp'
<1> DEFINE before == {i \in ValidLines(Current) : i < n}
<1>1. /\ next' = n /\ request' = Chunk(Current, n) /\ attempts' = 0 /\ backoff' = 1
      /\ pc' = IF Chunk(Current, n) = {} THEN "object" ELSE "call"
      /\ Current' = Current
  BY DEF BeginChunk, Current
<1>2. /\ Cardinality({i \in ValidLines(Current) : i < n \/ i \in Chunk(Current, n)})
           = Cardinality(before) + Cardinality(Chunk(Current, n))
      /\ Cardinality(before) \in Nat
  BY ChunkCounts
<1>3. ASSUME pc' = "object" PROVE written' = Cardinality(ValidLines(Current))
  <2>1. \A i \in ValidLines(Current) : i < n
    BY <1>1, <1>3, ChunkEmpty
  <2>2. before = ValidLines(Current)
    BY <2>1
  <2> QED
    BY <2>2
<1>4. ASSUME pc' = "call"
      PROVE  written' + Cardinality(request') =
                Cardinality({i \in ValidLines(Current) : i < n \/ i \in Chunk(Current, n)})
  BY <1>1, <1>2
<1>5. CountsAddUp'
  <2>1. pc' \notin {"record", "done"}
    BY <1>1
  <2> QED
    BY <2>1, <1>1, <1>3, <1>4 DEF CountsAddUp
<1> QED
  BY <1>1, <1>2, <1>5

-----------------------------------------------------------------------------
(* The steps.                                                              *)

LEMMA ReadObjectKeeps ==
    ASSUME WriterInv, ReadObject
    PROVE  WriterInv'
<1>1. TypeOK /\ LastLineWins /\ Sums /\ pc = "record" /\ UNCHANGED <<records, table>>
  BY DEF WriterInv, ReadObject
<1>2. rec \in DOMAIN records /\ Current \in Object
  BY <1>1, RecordType DEF ReadObject
<1>3. CASE Raise
  BY <1>1, <1>3, RaiseKeeps DEF TypeOK
<1>4. CASE /\ BeginChunk(Current, 1)
           /\ written' = 0
           /\ UNCHANGED <<deliveries, acked, rec, clock, totals>>
  <2>1. {i \in ValidLines(Current) : i < 1} = {}
    BY <1>2, ValidFinite
  <2>2. written' = Cardinality({i \in ValidLines(Current) : i < 1})
    BY <1>4, <2>1, FS_EmptySet
  <2>3. /\ next' = 1 /\ request' = Chunk(Current, 1)
        /\ attempts' = 0 /\ backoff' = 1
        /\ pc' \in {"call", "object"}
        /\ pc' = "object" => Chunk(Current, 1) = {}
        /\ written' \in Nat
        /\ CountsAddUp'
    BY <1>1, <1>2, <1>4, <2>2, BeginChunkCounts
  <2>4. TypeOK'
    <3>1. Chunk(Current, 1) \subseteq Nat
      BY <1>2, ChunkType, ValidFinite
    <3> QED
      BY <1>1, <1>4, <2>3, <3>1, LimitAssumption DEF TypeOK
  <2>5. Current' = Current
    BY <1>1, <1>4 DEF Current
  <2>6. Landed' = Landed
    <3>1. Place' = Place
      BY <1>1 DEF Place
    <3>2. \A p \in Place : p[2] \in Nat /\ (p[1] = rec => p[2] \in ValidLines(Current))
      BY <1>1, PlaceType DEF Current
    <3>3. \A p \in Place : ~(p[1] = rec /\ p[2] < 1)
      BY <3>2, <2>1
    <3> QED
      BY <1>1, <1>4, <2>3, <2>5, <3>1, <3>3 DEF Landed
  <2>7. LastLineWins'
    BY <1>1, <2>6, SamePlaces DEF InFlight
  <2>8. Sums'
    BY <1>1, <1>4 DEF Sums
  <2> QED
    BY <1>1, <1>2, <1>4, <2>3, <2>4, <2>5, <2>7, <2>8 DEF WriterInv
<1> QED
  BY <1>3, <1>4 DEF ReadObject

LEMMA SkipRecordKeeps ==
    ASSUME WriterInv, SkipRecord
    PROVE  WriterInv'
<1>1. /\ TypeOK /\ LastLineWins /\ Sums /\ pc = "record" /\ pc' = "record"
      /\ rec' = rec + 1
      /\ UNCHANGED <<records, table, deliveries, acked, chunkVars, clock, written, totals>>
  BY DEF WriterInv, SkipRecord
<1>2. TypeOK'
  BY <1>1 DEF TypeOK, chunkVars
<1>3. Landed' = Landed
  <2>1. Place' = Place
    BY <1>1 DEF Place
  <2>2. \A p \in Place : p[1] # rec
    BY <1>1, PlaceType, NotificationAssumption DEF SkipRecord, Current
  <2>3. \A p \in Place : p[1] < rec + 1 <=> p[1] < rec
    BY <1>1, <2>2, PlaceType DEF TypeOK
  <2> QED
    BY <1>1, <2>1, <2>3 DEF Landed
<1>4. LastLineWins'
  BY <1>1, <1>3, SamePlaces DEF InFlight
<1> QED
  BY <1>1, <1>2, <1>4 DEF WriterInv, Sums, CountsAddUp

LEMMA FinishObjectKeeps ==
    ASSUME WriterInv, FinishObject
    PROVE  WriterInv'
<1>1. /\ TypeOK /\ LastLineWins /\ Sums /\ CountsAddUp /\ pc = "object" /\ pc' = "record"
      /\ rec \in DOMAIN records /\ Current \in Object /\ Chunk(Current, next) = {}
      /\ rec' = rec + 1
      /\ UNCHANGED <<records, table, deliveries, acked, chunkVars, clock, written>>
  BY DEF WriterInv, FinishObject
<1>2. /\ Cardinality(ValidLines(Current)) \in Nat
      /\ Cardinality(LinesWith(Current, "invalid")) \in Nat
  BY <1>1, ValidFinite, FS_CardinalityType
<1>3. TypeOK' /\ Sums'
  <2>1. totals' = [objects   |-> totals.objects + 1,
                   validated |-> totals.validated + Cardinality(ValidLines(Current)),
                   written   |-> totals.written + written,
                   errors    |-> totals.errors + Cardinality(LinesWith(Current, "invalid"))]
    BY DEF FinishObject
  <2>2. totals' \in [objects : Nat, validated : Nat, written : Nat, errors : Nat]
    BY <1>1, <1>2, <2>1 DEF TypeOK
  <2>3. TypeOK'
    BY <1>1, <2>2 DEF TypeOK, chunkVars
  <2>4. written = Cardinality(ValidLines(Current))
    BY <1>1 DEF CountsAddUp
  <2> QED
    BY <1>1, <2>1, <2>3, <2>4 DEF Sums
<1>4. Landed' = Landed
  <2>1. Place' = Place
    BY <1>1 DEF Place
  <2>2. \A p \in Place : p[1] = rec => p[2] < next
    BY <1>1, PlaceType, ChunkEmpty DEF Current, TypeOK
  <2>3. \A p \in Place : p[1] < rec + 1 <=> p[1] < rec \/ p[1] = rec
    BY <1>1, PlaceType DEF TypeOK
  <2> QED
    BY <1>1, <2>1, <2>2, <2>3 DEF Landed
<1>5. LastLineWins'
  BY <1>1, <1>4, SamePlaces DEF InFlight
<1> QED
  BY <1>1, <1>3, <1>5 DEF WriterInv, Sums, CountsAddUp

(* Asking again leaves the items put, and the keys of the chunk, as they   *)
(* are, and the sum of what is accepted and what is asked for.             *)
LEMMA RetryKeeps ==
    ASSUME WriterInv, pc = "call", KeysDiffer(Current, request), records' = records,
           table' \in [Key -> Line \cup {NoLine}],
           NEW rest \in SUBSET request, NEW accepted \in Nat,
           accepted + Cardinality(rest) = Cardinality(request),
           rest # request => KeysDiffer(Current, Chunk(Current, next)),
           Retry(rest, accepted), ~Raise
    PROVE  /\ TypeOK' /\ Sums' /\ CountsAddUp'
           /\ pc' = "call" /\ rec' = rec /\ next' = next /\ request' = rest
           /\ Current' = Current
           /\ rest = Chunk(Current, next) \/ KeysDiffer(Current, Chunk(Current, next))
<1>1. /\ TypeOK /\ Sums /\ CountsAddUp
      /\ rec \in DOMAIN records /\ Current \in Object
      /\ request \subseteq Chunk(Current, next)
      /\ request = Chunk(Current, next) \/ KeysDiffer(Current, Chunk(Current, next))
  BY DEF WriterInv
<1>2. /\ attempts + 1 <= MaxRetries /\ clock + Wait <= TimeLimit
      /\ request' = rest
      /\ attempts' = attempts + 1
      /\ clock' = clock + Wait
      /\ backoff' = Doubled(backoff)
      /\ written' = written + accepted
      /\ UNCHANGED <<pc, deliveries, acked, rec, next, totals>>
  <2>1. Wait \in Nat
    BY <1>1, LimitAssumption DEF Wait, TypeOK
  <2>2. attempts \in Nat /\ clock \in Nat
    BY <1>1, LimitAssumption DEF TypeOK
  <2>3. ~(attempts + 1 > MaxRetries) /\ ~OutOfTime
    BY DEF Retry
  <2> QED
    BY <2>1, <2>2, <2>3, LimitAssumption DEF Retry, OutOfTime
<1>3. TypeOK'
  <2>1. Wait \in Nat
    BY <1>1, LimitAssumption DEF Wait, TypeOK
  <2>2. attempts' \in 0..MaxRetries /\ clock' \in 0..TimeLimit /\ backoff' \in Nat
    BY <1>1, <1>2, <2>1, LimitAssumption DEF TypeOK, Doubled
  <2> QED
    BY <1>1, <1>2, <2>2 DEF TypeOK
<1>4. Current' = Current
  BY <1>2 DEF Current
<1>5. CountsAddUp'
  <2>1. IsFiniteSet(request)
    BY <1>1, ChunkType, FS_Subset DEF TypeOK
  <2>2. Cardinality(rest) \in Nat /\ Cardinality(request) \in Nat
    BY <2>1, FS_Subset, FS_CardinalityType
  <2>3. written + Cardinality(request) =
           Cardinality({i \in ValidLines(Current) : i < next \/ i \in Chunk(Current, next)})
    BY <1>1 DEF CountsAddUp
  <2>4. written' + Cardinality(rest) = written + Cardinality(request)
    BY <1>1, <1>2, <2>2 DEF TypeOK
  <2> QED
    BY <1>2, <1>4, <2>3, <2>4 DEF CountsAddUp
<1> QED
  BY <1>1, <1>2, <1>3, <1>4, <1>5 DEF Sums

LEMMA ThrottledKeeps ==
    ASSUME WriterInv, Throttled
    PROVE  WriterInv'
<1>1. /\ TypeOK /\ LastLineWins /\ pc = "call" /\ KeysDiffer(Current, request)
      /\ Retry(request, 0) /\ UNCHANGED <<records, table>>
      /\ rec \in DOMAIN records /\ Current \in Object
      /\ request \subseteq Chunk(Current, next)
  BY DEF WriterInv, Throttled
<1>2. CASE Raise
  BY <1>1, <1>2, RaiseKeeps DEF TypeOK
<1>3. CASE ~Raise
  <2>1. Cardinality(request) \in Nat
    BY <1>1, ChunkType, FS_Subset, FS_CardinalityType DEF TypeOK
  <2>2. 0 + Cardinality(request) = Cardinality(request)
    BY <2>1
  <2>3. table' \in [Key -> Line \cup {NoLine}]
    BY <1>1 DEF TypeOK
  <2>4. /\ TypeOK' /\ Sums' /\ CountsAddUp'
        /\ pc' = "call" /\ rec' = rec /\ next' = next /\ request' = request
        /\ Current' = Current
        /\ request = Chunk(Current, next) \/ KeysDiffer(Current, Chunk(Current, next))
    BY <1>1, <1>3, <2>2, <2>3, RetryKeeps
  <2>5. Landed' = Landed
    BY <1>1, <2>4 DEF Landed, Place
  <2>6. LastLineWins'
    BY <1>1, <2>5, SamePlaces DEF InFlight
  <2>7. KeysDiffer(Current, Chunk(Current, next))' = KeysDiffer(Current, Chunk(Current, next))
    BY <2>4 DEF KeysDiffer
  <2> QED
    BY <1>1, <2>4, <2>6, <2>7 DEF WriterInv
<1> QED
  BY <1>2, <1>3

(* Putting items of the chunk in hand: the places put grow by them, and    *)
(* each key of theirs holds them, for no other place put has such a key    *)
(* and comes later.                                                        *)
LEMMA PutKeepsLast ==
    ASSUME WriterInv, pc = "call", KeysDiffer(Current, request), records' = records,
           NEW done \in SUBSET request,
           table' = WithLines(Current, done),
           pc' \in InFlight,
           Landed' = Landed \cup {<<rec, i>> : i \in done}
    PROVE  LastLineWins'
<1>1. /\ TypeOK /\ LastLineWins
      /\ rec \in DOMAIN records /\ Current \in Object /\ rec \in Nat
      /\ request \subseteq Chunk(Current, next)
      /\ request = Chunk(Current, next) \/ KeysDiffer(Current, Chunk(Current, next))
      /\ table \in [Key -> Line \cup {NoLine}]
  BY DEF WriterInv, TypeOK
<1>2. \A p : PlaceKey(p)' = PlaceKey(p) /\ PlaceLine(p)' = PlaceLine(p)
  BY DEF PlaceKey, PlaceLine
<1>3. \A i : PlaceKey(<<rec, i>>) = KeyAt(Current, i)
             /\ PlaceLine(<<rec, i>>) = Lines[Current][i]
  BY DEF PlaceKey, PlaceLine, Current
<1>4. /\ Chunk(Current, next) \subseteq ValidLines(Current)
      /\ \A i \in Chunk(Current, next) : next <= i /\ i \in Nat /\ KeyAt(Current, i) \in Key
      /\ next \in Nat
  BY <1>1, ChunkType, ValidFinite DEF TypeOK
<1>5. SUFFICES ASSUME NEW p \in Landed',
                      \A q \in Landed' : PlaceKey(q) = PlaceKey(p) => ~Before(p, q)
               PROVE  table'[PlaceKey(p)] = PlaceLine(p)
  BY <1>2 DEF LastLineWins
<1>6. CASE \E i \in done : p = <<rec, i>>
  <2>1. PICK i \in done : p = <<rec, i>>
    BY <1>6
  <2>2. \A j \in done : KeyAt(Current, j) = KeyAt(Current, i) => j = i
    BY DEF KeysDiffer
  <2>3. table'[KeyAt(Current, i)] = Lines[Current][i]
    <3>1. KeyAt(Current, i) \in Key
      BY <1>1, <1>4
    <3> DEFINE k == KeyAt(Current, i)
               line == CHOOSE j \in done : KeyAt(Current, j) = k
    <3>2. line \in done /\ KeyAt(Current, line) = k
      OBVIOUS
    <3>3. line = i
      BY <2>2, <3>2
    <3>4. table'[k] = Lines[Current][line]
      BY <3>1 DEF WithLines
    <3> QED
      BY <3>3, <3>4
  <2> QED
    BY <1>3, <2>1, <2>3
<1>7. CASE ~\E i \in done : p = <<rec, i>>
  <2>1. p \in Landed
    BY <1>7
  <2>2. p \in Place
    BY <2>1 DEF Landed
  <2>3. /\ p[1] \in Nat /\ p[2] \in Nat /\ p = <<p[1], p[2]>> /\ PlaceKey(p) \in Key
    BY <1>1, <2>2, PlaceType
  <2>4. \A i \in done : KeyAt(Current, i) # PlaceKey(p)
    <3> SUFFICES ASSUME NEW i \in done, KeyAt(Current, i) = PlaceKey(p)
                 PROVE  FALSE
      OBVIOUS
    <3>1. ~Before(p, <<rec, i>>)
      BY <1>3, <1>5
    <3>2. ~(p[1] < rec) /\ ~(p[1] = rec /\ p[2] < i)
      BY <3>1 DEF Before
    <3>3. p[1] = rec /\ p[2] \in Chunk(Current, next) \ request
      <4>1. i \in Nat /\ next <= i
        BY <1>1, <1>4
      <4>2. ~(p[1] = rec /\ p[2] < next)
        BY <1>4, <2>3, <3>2, <4>1
      <4> QED
        BY <2>1, <3>2, <4>2 DEF Landed
    <3>4. KeysDiffer(Current, Chunk(Current, next))
      BY <1>1, <3>3
    <3>5. KeyAt(Current, p[2]) = KeyAt(Current, i)
      BY <1>3, <2>3, <3>3
    <3>6. p[2] = i
      BY <1>1, <3>3, <3>4, <3>5 DEF KeysDiffer
    <3> QED
      BY <3>3, <3>6
  <2>5. table'[PlaceKey(p)] = table[PlaceKey(p)]
    BY <2>3, <2>4 DEF WithLines
  <2>6. \A q \in Landed : PlaceKey(q) = PlaceKey(p) => ~Before(p, q)
    BY <1>5
  <2>7. table[PlaceKey(p)] = PlaceLine(p)
    BY <1>1, <2>1, <2>6 DEF LastLineWins, InFlight
  <2> QED
    BY <2>5, <2>7
<1> QED
  BY <1>6, <1>7

LEMMA BatchWriteItemKeeps ==
    ASSUME WriterInv, BatchWriteItem
    PROVE  WriterInv'
<1>1. /\ TypeOK /\ LastLineWins /\ Sums /\ CountsAddUp
      /\ pc = "call" /\ KeysDiffer(Current, request) /\ records' = records
      /\ rec \in DOMAIN records /\ Current \in Object /\ rec \in Nat
      /\ next \in Nat \ {0}
      /\ request \subseteq Chunk(Current, next)
      /\ request = Chunk(Current, next) \/ KeysDiffer(Current, Chunk(Current, next))
  BY DEF WriterInv, BatchWriteItem, TypeOK
<1>2. PICK rest \in SUBSET request :
        /\ table' = WithLines(Current, request \ rest)
        /\ \/ /\ Unprocessed(rest) = {}
              /\ written' = written + Accepted(rest)
              /\ BeginChunk(Current, PastChunk(Current, next))
              /\ UNCHANGED <<deliveries, acked, rec, clock, totals>>
           \/ /\ Unprocessed(rest) # {}
              /\ Retry(rest, Accepted(rest))
  BY DEF BatchWriteItem
<1> DEFINE done == request \ rest
<1>3. IsFiniteSet(request) /\ IsFiniteSet(rest)
  BY <1>1, ChunkType, FS_Subset
<1>4. /\ Cardinality(request) \in Nat /\ Cardinality(rest) \in Nat
      /\ Cardinality(rest) <= Cardinality(request)
  BY <1>3, FS_Subset, FS_CardinalityType
<1>5. /\ Accepted(rest) \in Nat
      /\ Accepted(rest) + Cardinality(rest) = Cardinality(request)
  BY <1>4 DEF Accepted
<1>6. table' \in [Key -> Line \cup {NoLine}]
  <2>1. \A i \in done : Lines[Current][i] \in Line
    BY <1>1, ChunkType, ValidFinite
  <2>2. ASSUME NEW k \in Key
        PROVE  table'[k] \in Line \cup {NoLine}
    <3>1. CASE \E i \in done : KeyAt(Current, i) = k
      <4>1. table'[k] = Lines[Current][CHOOSE i \in done : KeyAt(Current, i) = k]
        BY <1>2, <3>1 DEF WithLines
      <4>2. (CHOOSE i \in done : KeyAt(Current, i) = k) \in done
        BY <3>1
      <4> QED
        BY <2>1, <4>1, <4>2
    <3>2. CASE ~\E i \in done : KeyAt(Current, i) = k
      <4>1. table'[k] = table[k]
        BY <1>2, <3>2 DEF WithLines
      <4> QED
        BY <1>1, <4>1 DEF TypeOK
    <3> QED
      BY <3>1, <3>2
  <2>3. table' = [k \in Key |-> table'[k]]
    BY <1>2 DEF WithLines
  <2> QED
    BY <2>2, <2>3
<1>7. Place' = Place /\ \A p \in Place : p[1] \in Nat /\ p[2] \in Nat /\ p = <<p[1], p[2]>>
  BY <1>1, PlaceType DEF Place
<1>8. \A i \in done : <<rec, i>> \in Place
  BY <1>1, ChunkType, PlaceIntro
<1>9. CASE Raise
  BY <1>1, <1>6, <1>9, RaiseKeeps
<1>10. CASE Unprocessed(rest) # {} /\ ~Raise
  <2>1. Retry(rest, Accepted(rest))
    BY <1>2, <1>10
  <2>2. rest # request \/ rest = request
    OBVIOUS
  <2>3. /\ TypeOK' /\ Sums' /\ CountsAddUp'
        /\ pc' = "call" /\ rec' = rec /\ next' = next /\ request' = rest
        /\ Current' = Current
    BY <1>1, <1>5, <1>6, <1>10, <2>1, RetryKeeps
  <2>4. KeysDiffer(Current, rest)
    BY <1>1 DEF KeysDiffer
  <2>5. rest = Chunk(Current, next) \/ KeysDiffer(Current, Chunk(Current, next))
    BY <1>1
  <2>6. Landed' = Landed \cup {<<rec, i>> : i \in done}
    <3>1. \A p \in Place : p \in {<<rec, i>> : i \in done} <=> p[1] = rec /\ p[2] \in done
      BY <1>7
    <3> HIDE DEF done
    <3>2. Chunk(Current, next) \ rest = (Chunk(Current, next) \ request) \cup done
      BY <1>1 DEF done
    <3> QED
      BY <1>1, <1>7, <1>8, <2>3, <3>1, <3>2 DEF Landed
  <2>7. LastLineWins'
    BY <1>1, <1>2, <2>3, <2>6, PutKeepsLast DEF InFlight
  <2>8. KeysDiffer(Current, Chunk(Current, next))' = KeysDiffer(Current, Chunk(Current, next))
    BY <2>3 DEF KeysDiffer
  <2> QED
    BY <1>1, <2>3, <2>5, <2>7, <2>8 DEF WriterInv
<1>11. CASE /\ Unprocessed(rest) = {}
            /\ written' = written + Accepted(rest)
            /\ BeginChunk(Current, PastChunk(Current, next))
            /\ UNCHANGED <<deliveries, acked, rec, clock, totals>>
  <2> DEFINE past == PastChunk(Current, next)
  <2>1. rest = {} /\ done = request
    BY <1>11 DEF Unprocessed
  <2>2. /\ past \in Nat \ {0}
        /\ \A i \in ValidLines(Current) : i < past <=> i < next \/ i \in Chunk(Current, next)
    BY <1>1, PastChunkSplits
  <2>3. written' = Cardinality({i \in ValidLines(Current) : i < past})
    <3>1. written' = written + Cardinality(request)
      BY <1>4, <1>11, <2>1, FS_EmptySet DEF Accepted
    <3>2. written + Cardinality(request) =
            Cardinality({i \in ValidLines(Current) : i < next \/ i \in Chunk(Current, next)})
      BY <1>1 DEF CountsAddUp
    <3>3. {i \in ValidLines(Current) : i < next \/ i \in Chunk(Current, next)}
            = {i \in ValidLines(Current) : i < past}
      BY <2>2
    <3> QED
      BY <3>1, <3>2, <3>3
  <2> HIDE DEF past
  <2>4. BeginChunk(Current, past)
    BY <1>11 DEF past
  <2>5. /\ next' = past /\ request' = Chunk(Current, past)
        /\ attempts' = 0 /\ backoff' = 1
        /\ pc' \in {"call", "object"}
        /\ pc' = "object" => Chunk(Current, past) = {}
        /\ written' \in Nat
        /\ CountsAddUp'
    BY <1>1, <1>11, <2>2, <2>3, <2>4, BeginChunkCounts
  <2>6. Current' = Current
    BY <1>1, <1>11 DEF Current
  <2>7. TypeOK'
    <3>1. Chunk(Current, past) \subseteq Nat
      BY <1>1, <2>2, ChunkType
    <3> QED
      BY <1>1, <1>6, <1>11, <2>2, <2>5, <3>1, LimitAssumption DEF TypeOK
  <2>8. Landed' = Landed \cup {<<rec, i>> : i \in done}
    <3>1. \A p \in Place : p \in {<<rec, i>> : i \in done} <=> p[1] = rec /\ p[2] \in request
      BY <1>7, <2>1
    <3>2. \A p \in Place : p[1] = rec => p[2] \in ValidLines(Current)
      BY <1>1, PlaceType DEF Current
    <3>3. \A p \in Place : p[1] = rec =>
            (p[2] < past <=> \/ p[2] < next
                             \/ p[2] \in Chunk(Current, next) \ request
                             \/ p[2] \in request)
      BY <1>1, <2>2, <3>2
    <3>4. Landed' = {p \in Place : p[1] < rec \/ (p[1] = rec /\ p[2] < past)}
      BY <1>7, <1>11, <2>5, <2>6 DEF Landed
    <3> HIDE DEF done
    <3> QED
      BY <1>1, <1>7, <1>8, <3>1, <3>3, <3>4 DEF Landed
  <2>9. LastLineWins'
    BY <1>1, <1>2, <2>5, <2>8, PutKeepsLast DEF InFlight
  <2>10. Sums'
    BY <1>1, <1>11 DEF Sums
  <2>11. rec' \in DOMAIN records'
    BY <1>1, <1>11
  <2> QED
    BY <1>1, <2>5, <2>6, <2>7, <2>9, <2>10, <2>11 DEF WriterInv
<1> QED
  BY <1>2, <1>9, <1>10, <1>11

-----------------------------------------------------------------------------

LEMMA InitKeeps == Init => WriterInv
<1> SUFFICES ASSUME Init PROVE WriterInv
  OBVIOUS
<1>1. TypeOK
  <2>1. totals \in [objects : Nat, validated : Nat, written : Nat, errors : Nat]
    BY DEF Init, Zero
  <2>2. table \in [Key -> Line \cup {NoLine}]
    BY DEF Init
  <2>3. 0 \in 0 .. MaxDeliveries /\ 0 \in 0 .. MaxRetries /\ 0 \in 0 .. TimeLimit
    BY LimitAssumption
  <2>4. pc \in {"waiting"} /\ acked \in BOOLEAN /\ rec = 1 /\ next = 1 /\ request = {}
    BY DEF Init
  <2>5. /\ deliveries = 0 /\ attempts = 0 /\ backoff = 1 /\ clock = 0 /\ written = 0
        /\ records \in Notification
    BY DEF Init
  <2> QED
    BY <2>1, <2>2, <2>3, <2>4, <2>5 DEF TypeOK
<1>2. Sums /\ CountsAddUp /\ LastLineWins
  BY DEF Init, Sums, Zero, CountsAddUp, LastLineWins
<1> QED
  BY <1>1, <1>2 DEF Init, WriterInv

LEMMA StepKeeps == WriterInv /\ [Next]_vars => WriterInv'
<1> SUFFICES ASSUME WriterInv, [Next]_vars PROVE WriterInv'
  OBVIOUS
<1>1. TypeOK /\ Sums /\ CountsAddUp /\ LastLineWins
  BY DEF WriterInv
<1>2. CASE Deliver
  <2>1. rec = 1 /\ UNCHANGED <<records, table, acked, localVars>> /\ pc' = "record"
    BY <1>2 DEF Deliver, WriterInv
  <2>2. TypeOK'
    BY <1>1, <1>2, <2>1, LimitAssumption DEF TypeOK, Deliver, localVars, chunkVars
  <2>3. Sums' /\ CountsAddUp'
    BY <1>1, <2>1 DEF Sums, CountsAddUp, localVars
  <2>4. Landed' = {}
    <3>1. Landed' = {p \in Place : p[1] < 1}
      BY <2>1 DEF Landed, Place, localVars
    <3>2. \A p \in Place : p[1] \in DOMAIN records /\ p[1] \in Nat
      BY <1>1, PlaceType
    <3>3. records \in Seq(Object \cup {Malformed})
      BY <1>1, NotificationAssumption DEF TypeOK
    <3> QED
      BY <3>1, <3>2, <3>3
  <2>5. LastLineWins'
    BY <2>4 DEF LastLineWins
  <2> QED
    BY <2>1, <2>2, <2>3, <2>5 DEF WriterInv
<1>3. CASE DeliverAgain
  <2>1. /\ pc' = "waiting" /\ rec' = 1 /\ next' = 1 /\ request' = {} /\ attempts' = 0
        /\ backoff' = 1 /\ clock' = 0 /\ written' = 0 /\ totals' = Zero
        /\ UNCHANGED <<records, table, deliveries, acked>>
    BY <1>3 DEF DeliverAgain, Forget
  <2>2. TypeOK'
    BY <1>1, <2>1, LimitAssumption DEF TypeOK, Zero
  <2>3. Sums' /\ CountsAddUp' /\ LastLineWins'
    BY <2>1 DEF Sums, Zero, CountsAddUp, LastLineWins
  <2> QED
    BY <2>1, <2>2, <2>3 DEF WriterInv
<1>4. CASE SkipRecord
  BY <1>4, SkipRecordKeeps
<1>5. CASE ReadObject
  BY <1>5, ReadObjectKeeps
<1>6. CASE FinishObject
  BY <1>6, FinishObjectKeeps
<1>7. CASE BatchWriteItem
  BY <1>7, BatchWriteItemKeeps
<1>8. CASE Throttled
  BY <1>8, ThrottledKeeps
<1>9. CASE Rejected \/ Crash
  <2>1. Raise /\ UNCHANGED <<records, table>>
    BY <1>9 DEF Rejected, Crash
  <2>2. table' \in [Key -> Line \cup {NoLine}]
    BY <1>1, <2>1 DEF TypeOK
  <2> QED
    BY <1>1, <2>1, <2>2, RaiseKeeps
<1>10. CASE Return
  <2>1. pc' = "done" /\ acked' = TRUE /\ UNCHANGED <<records, table, deliveries, localVars>>
    BY <1>10 DEF Return
  <2>2. TypeOK'
    BY <1>1, <2>1 DEF TypeOK, localVars, chunkVars
  <2>3. Sums' /\ CountsAddUp' /\ LastLineWins'
    BY <1>1, <2>1 DEF Sums, CountsAddUp, LastLineWins, localVars
  <2> QED
    BY <2>1, <2>2, <2>3 DEF WriterInv
<1>11. CASE UNCHANGED vars
  <2>1. /\ UNCHANGED <<records, table, pc, rec, next, request, written, totals>>
        /\ Current' = Current
    BY <1>11 DEF vars, Current
  <2>2. TypeOK' /\ Sums' /\ CountsAddUp'
    BY <1>1, <1>11, <2>1 DEF vars, TypeOK, Sums, CountsAddUp
  <2>3. Landed' = Landed /\ \A p : PlaceKey(p)' = PlaceKey(p) /\ PlaceLine(p)' = PlaceLine(p)
    BY <2>1 DEF Landed, Place, PlaceKey, PlaceLine
  <2>4. LastLineWins'
    BY <1>1, <2>1, <2>3 DEF LastLineWins
  <2>5. KeysDiffer(Current, Chunk(Current, next))' = KeysDiffer(Current, Chunk(Current, next))
    BY <2>1 DEF KeysDiffer
  <2> QED
    BY <2>1, <2>2, <2>4, <2>5 DEF WriterInv
<1> QED
  BY <1>2, <1>3, <1>4, <1>5, <1>6, <1>7, <1>8, <1>9, <1>10, <1>11 DEF Next, Step

(* The chunk in hand and the sums hold at every point of an invocation.    *)
THEOREM Invariance == Spec => []WriterInv
BY InitKeeps, StepKeeps, PTL DEF Spec

(* Types, for every notification and every limit.                          *)
THEOREM TypeCorrect == Spec => []TypeOK
<1>1. WriterInv => TypeOK
  BY DEF WriterInv
<1> QED
  BY <1>1, Invariance, PTL

(* Of the items an invocation has put, the table holds the last of each    *)
(* key, whatever was left unprocessed, throttled, or put by an earlier     *)
(* delivery (_batch_write_with_retries).                                   *)
THEOREM LastLine == Spec => []LastLineWins
<1>1. WriterInv => LastLineWins
  BY DEF WriterInv
<1> QED
  BY <1>1, Invariance, PTL

(* What is returned accounts for every line of every object, although the  *)
(* writer rebinds the chunk to what is left of it.                         *)
THEOREM Counts == Spec => []CountsAddUp
<1>1. WriterInv => CountsAddUp
  BY DEF WriterInv
<1> QED
  BY <1>1, Invariance, PTL

-----------------------------------------------------------------------------
(* The batch writer implements PutAll.                                     *)

work == {[key |-> PlaceKey(p), item |-> PlaceLine(p), place |-> p] : p \in Place}

outcome ==
    CASE pc = "dead" -> "dead"
      [] pc # "dead" /\ acked -> "acknowledged"
      [] OTHER -> "open"

LEMMA OutcomeCases ==
    /\ pc = "dead" => outcome = "dead"
    /\ pc # "dead" /\ acked => outcome = "acknowledged"
    /\ pc # "dead" /\ ~acked => outcome = "open"
BY DEF outcome

LEMMA SameWork == ASSUME records' = records PROVE work' = work
BY DEF work, Place, PlaceKey, PlaceLine

(* Every record has been put when the loop of handler is over.             *)
LEMMA AllLanded ==
    ASSUME WriterInv, pc = "record", rec > Len(records)
    PROVE  Landed = Place
<1>1. TypeOK
  BY DEF WriterInv
<1>2. records \in Seq(Object \cup {Malformed}) /\ rec \in Nat
  BY <1>1, NotificationAssumption DEF TypeOK
<1>3. \A p \in Place : p[1] < rec
  BY <1>1, <1>2, PlaceType
<1> QED
  BY <1>3 DEF Landed

(* What a call of the table changes is the item of a key of the chunk.     *)
LEMMA CallPuts ==
    ASSUME WriterInv, BatchWriteItem, NEW k \in Key, table'[k] # table[k]
    PROVE  \E w \in work : w.key = k /\ table'[k] = w.item
<1>1. /\ TypeOK /\ rec \in DOMAIN records /\ Current \in Object
      /\ request \subseteq Chunk(Current, next)
      /\ next \in Nat \ {0}
  BY DEF WriterInv, BatchWriteItem, TypeOK
<1>2. PICK rest \in SUBSET request : table' = WithLines(Current, request \ rest)
  BY DEF BatchWriteItem
<1>3. \E i \in request \ rest : KeyAt(Current, i) = k
  BY <1>2 DEF WithLines
<1> DEFINE line == CHOOSE i \in request \ rest : KeyAt(Current, i) = k
<1>4. line \in request /\ KeyAt(Current, line) = k
  BY <1>3
<1>5. table'[k] = Lines[Current][line]
  BY <1>2, <1>3 DEF WithLines
<1> HIDE DEF line
<1>6. <<rec, line>> \in Place
  BY <1>1, <1>4, ChunkType, PlaceIntro
<1>7. PlaceKey(<<rec, line>>) = k /\ PlaceLine(<<rec, line>>) = table'[k]
  BY <1>4, <1>5 DEF PlaceKey, PlaceLine, Current
<1> DEFINE w == [key |-> PlaceKey(<<rec, line>>), item |-> PlaceLine(<<rec, line>>),
                 place |-> <<rec, line>>]
<1>8. w \in work
  BY <1>6 DEF work
<1>9. w.key = k /\ w.item = table'[k]
  BY <1>7
<1> QED
  BY <1>8, <1>9

(* Initial states are initial states of PutAll, and every step puts        *)
(* something, acknowledges, gives up or changes nothing there.             *)
THEOREM Implements == Spec => PutAllRefined
<1> USE DEF Promise!PutSome, Promise!Put, Promise!Acknowledge, Promise!GiveUp
<1>1. Init => Promise!Init
  <2> SUFFICES ASSUME Init PROVE Promise!Init
    OBVIOUS
  <2>1. TypeOK
    BY InitKeeps DEF WriterInv
  <2>2. outcome = "open"
    BY OutcomeCases DEF Init
  <2>3. \A w \in work : table[w.key] # w.item
    <3> SUFFICES ASSUME NEW p \in Place PROVE table[PlaceKey(p)] # PlaceLine(p)
      BY DEF work
    <3>1. PlaceLine(p) \in Line
      BY <2>1, PlaceType, ValidFinite DEF PlaceLine
    <3>2. table[PlaceKey(p)] = NoLine
      BY <2>1, PlaceType DEF Init
    <3> QED
      BY <3>1, <3>2, NotificationAssumption
  <2> QED
    BY <2>2, <2>3 DEF Promise!Init, work, outcome
<1>2. WriterInv /\ [Next]_vars => [Promise!Next]_<<work, table, outcome>>
  <2> SUFFICES ASSUME WriterInv, [Next]_vars
               PROVE  [Promise!Next]_<<work, table, outcome>>
    OBVIOUS
  <2>1. TypeOK
    BY DEF WriterInv
  <2>2. DOMAIN table = Key
    BY <2>1 DEF TypeOK
  <2>3. ASSUME UNCHANGED <<records, table, acked>>, pc' # "dead", pc # "dead"
        PROVE  UNCHANGED <<work, table, outcome>>
    BY <2>3, SameWork DEF outcome
  <2>4. ASSUME UNCHANGED <<records, acked>>, pc # "dead", pc' # "dead",
               \A k \in Key : table'[k] # table[k] =>
                   \E w \in work : w.key = k /\ table'[k] = w.item
        PROVE  [Promise!Next]_<<work, table, outcome>>
    <3>1. outcome' = outcome /\ work' = work
      BY <2>4, SameWork DEF outcome
    <3> QED
      BY <2>2, <2>4, <3>1 DEF Promise!Next, work, outcome
  <2>5. ASSUME records' = records, pc' = "dead",
               \A k \in Key : table'[k] # table[k] =>
                   \E w \in work : w.key = k /\ table'[k] = w.item
        PROVE  [Promise!Next]_<<work, table, outcome>>
    <3>1. outcome' = "dead" /\ work' = work
      BY <2>5, SameWork DEF outcome
    <3> QED
      BY <2>2, <2>5, <3>1 DEF Promise!Next, work, outcome
  <2>6. ASSUME UNCHANGED <<records, table, acked>>, pc # "dead"
        PROVE  [Promise!Next]_<<work, table, outcome>>
    BY <2>3, <2>5, <2>6
  <2>7. CASE BatchWriteItem
    <3>1. UNCHANGED <<records, acked>> /\ pc # "dead"
      BY <2>7 DEF BatchWriteItem, Retry, Raise
    <3>2. \A k \in Key : table'[k] # table[k] =>
             \E w \in work : w.key = k /\ table'[k] = w.item
      BY <2>7, CallPuts
    <3> QED
      BY <2>4, <2>5, <3>1, <3>2
  <2>8. CASE Return
    <3>1. /\ pc = "record" /\ rec > Len(records) /\ pc' = "done" /\ acked' = TRUE
          /\ UNCHANGED <<records, table>>
      BY <2>8 DEF Return
    <3>2. Landed = Place /\ LastLineWins
      BY <3>1, AllLanded DEF WriterInv
    <3>3. ASSUME NEW p \in Place, \A q \in Place : PlaceKey(q) = PlaceKey(p) => ~Before(p, q)
          PROVE  table[PlaceKey(p)] = PlaceLine(p)
      BY <3>1, <3>2, <3>3 DEF LastLineWins
    <3>4. \A w \in work : Promise!LastOfKey(w) => table[w.key] = w.item
      <4> SUFFICES ASSUME NEW p \in Place,
                          Promise!LastOfKey([key |-> PlaceKey(p), item |-> PlaceLine(p),
                                             place |-> p])
                   PROVE  table[PlaceKey(p)] = PlaceLine(p)
        BY DEF work
      <4>1. ASSUME NEW q \in Place, PlaceKey(q) = PlaceKey(p)
            PROVE  ~Before(p, q)
        <5> DEFINE w == [key |-> PlaceKey(q), item |-> PlaceLine(q), place |-> q]
        <5>1. w \in work
          BY DEF work
        <5> QED
          BY <4>1, <5>1 DEF Promise!LastOfKey, Promise!Before, Before, work
      <4> QED
        BY <3>3, <4>1
    <3>5. outcome # "dead" /\ outcome' = "acknowledged" /\ work' = work
      BY <3>1, SameWork DEF outcome
    <3> QED
      BY <3>1, <3>4, <3>5 DEF Promise!Next, work, outcome
  <2>9. CASE Deliver \/ DeliverAgain
    BY <2>6, <2>9 DEF Deliver, DeliverAgain
  <2>10. CASE SkipRecord \/ ReadObject \/ FinishObject \/ Throttled \/ Rejected \/ Crash
    <3>1. UNCHANGED <<records, table, acked>> /\ pc # "dead"
      BY <2>10 DEF SkipRecord, ReadObject, FinishObject, Throttled, Rejected, Crash, Retry, Raise
    <3> QED
      BY <2>6, <3>1
  <2>11. CASE UNCHANGED vars
    <3>1. UNCHANGED <<work, table, outcome>>
      BY <2>11, SameWork DEF vars, outcome
    <3> QED
      BY <3>1
  <2> QED
    BY <2>7, <2>8, <2>9, <2>10, <2>11 DEF Next, Step
<1> QED
  BY <1>1, <1>2, Invariance, PTL DEF Spec, PutAllRefined, Promise!Spec, work, outcome

-----------------------------------------------------------------------------
(* The waits and the time limit.                                           *)

\* _MAX_BATCH_WRITE_RETRIES, the cap of the waits, and the function's timeout.
DeployedLimits == MaxRetries = 10 /\ BackoffCap = 300 /\ TimeLimit = 600

\* Calls made for a chunk, and the wait that would follow the next.
Waits == {<<0, 1>>, <<1, 2>>, <<2, 4>>, <<3, 8>>, <<4, 16>>, <<5, 32>>,
          <<6, 64>>, <<7, 128>>, <<8, 256>>, <<9, 512>>}

\* The waits of one chunk are part of the time the invocation has taken.
WaitsAddUp == pc = "call" => <<attempts, backoff>> \in Waits /\ clock >= backoff - 1

(* A retry waits for the whole of its wait, if there is time for that.     *)
LEMMA RetryWaits ==
    ASSUME DeployedLimits, TypeOK, WaitsAddUp, pc = "call",
           NEW rest, NEW n, Retry(rest, n)
    PROVE  WaitsAddUp'
<1>1. <<attempts, backoff>> \in Waits /\ clock >= backoff - 1 /\ clock \in Nat
  BY DEF WaitsAddUp, TypeOK
<1>2. CASE Raise
  <2>1. pc' # "call"
    BY <1>2 DEF Raise, AfterFailure
  <2> QED
    BY <2>1 DEF WaitsAddUp
<1>3. CASE /\ ~(attempts + 1 > MaxRetries) /\ ~OutOfTime
           /\ attempts' = attempts + 1 /\ clock' = clock + Wait
           /\ backoff' = Doubled(backoff)
  <2>1. backoff < 512
    <3> SUFFICES ASSUME backoff = 512 PROVE FALSE
      BY <1>1 DEF Waits
    <3>1. Wait = 300
      BY DEF Wait, DeployedLimits
    <3> QED
      BY <1>1, <1>3, <3>1 DEF OutOfTime, DeployedLimits
  <2>2. Wait = backoff
    BY <1>1, <2>1 DEF Wait, Waits, DeployedLimits
  <2>3. <<attempts', backoff'>> \in Waits
    BY <1>1, <1>3, <2>1 DEF Waits, Doubled
  <2>4. clock' >= backoff' - 1
    BY <1>1, <1>3, <2>2 DEF Waits, Doubled
  <2> QED
    BY <2>3, <2>4 DEF WaitsAddUp
<1> QED
  BY <1>2, <1>3 DEF Retry

(* A chunk begins with the shortest wait.                                  *)
LEMMA ChunkWaits ==
    ASSUME TypeOK, NEW o, NEW n, BeginChunk(o, n), UNCHANGED clock
    PROVE  WaitsAddUp'
<1>1. attempts' = 0 /\ backoff' = 1 /\ clock' \in Nat
  BY DEF BeginChunk, TypeOK
<1> QED
  BY <1>1 DEF WaitsAddUp, Waits

(* No other step touches the waits of the chunk being written.             *)
LEMMA WaitsStep ==
    ASSUME DeployedLimits, TypeOK, WaitsAddUp, [Next]_vars
    PROVE  WaitsAddUp'
<1>1. CASE pc' # "call"
  BY <1>1 DEF WaitsAddUp
<1>2. CASE BatchWriteItem
  BY <1>2, RetryWaits, ChunkWaits DEF BatchWriteItem
<1>3. CASE Throttled
  BY <1>3, RetryWaits DEF Throttled
<1>4. CASE ReadObject
  <2>1. CASE Raise
    BY <1>1, <2>1 DEF Raise, AfterFailure
  <2>2. CASE BeginChunk(Current, 1) /\ UNCHANGED clock
    BY <2>2, ChunkWaits
  <2> QED
    BY <1>4, <2>1, <2>2 DEF ReadObject
<1>5. CASE Deliver \/ DeliverAgain \/ FinishObject \/ Return
  BY <1>1, <1>5 DEF Deliver, DeliverAgain, FinishObject, Return
<1>6. CASE Rejected \/ Crash
  BY <1>1, <1>6 DEF Rejected, Crash, Raise, AfterFailure
<1>7. CASE SkipRecord
  BY <1>1, <1>7 DEF SkipRecord
<1>8. CASE UNCHANGED vars
  BY <1>8 DEF vars, WaitsAddUp
<1> QED
  BY <1>2, <1>3, <1>4, <1>5, <1>6, <1>7, <1>8 DEF Next, Step

(* With the limits as deployed, however often the table throttles a call   *)
(* or leaves items unprocessed, an invocation runs out of time before it   *)
(* has made ten retries of one chunk.                                      *)
THEOREM TimeOutFirst == ASSUME DeployedLimits PROVE Spec => []DeadlineFirst
<1>1. Init => WaitsAddUp
  BY DEF Init, WaitsAddUp
<1>2. TypeOK /\ WaitsAddUp /\ [Next]_vars => WaitsAddUp'
  BY WaitsStep
<1>3. WaitsAddUp => DeadlineFirst
  BY DEF WaitsAddUp, DeadlineFirst, Waits, DeployedLimits
<1> QED
  BY <1>1, <1>2, <1>3, TypeCorrect, PTL DEF Spec

-----------------------------------------------------------------------------
(* What an acknowledged notification is made of.                           *)

Ahead(o, n) == {i \in ValidLines(o) : i < n}

(* No two lines have the same places ahead of them, unless the same chunk  *)
(* begins at both.                                                         *)
LEMMA SameAhead ==
    ASSUME NEW o \in Object, NEW m \in Nat \ {0}, NEW n \in Nat \ {0},
           Cardinality(Ahead(o, m)) = Cardinality(Ahead(o, n))
    PROVE  Chunk(o, m) = Chunk(o, n)
<1>1. ValidLines(o) \subseteq Nat /\ IsFiniteSet(ValidLines(o))
  BY ValidFinite
<1>2. IsFiniteSet(Ahead(o, m)) /\ IsFiniteSet(Ahead(o, n))
  BY <1>1, FS_Subset DEF Ahead
<1>3. Ahead(o, m) \subseteq Ahead(o, n) \/ Ahead(o, n) \subseteq Ahead(o, m)
  BY <1>1 DEF Ahead
<1>4. Ahead(o, m) = Ahead(o, n)
  BY <1>2, <1>3, FS_Subset
<1>5. \A i \in ValidLines(o) : i >= m <=> i >= n
  BY <1>1, <1>4 DEF Ahead
<1>6. \A i \in ValidLines(o) : {j \in ValidLines(o) : m <= j /\ j < i}
                             = {j \in ValidLines(o) : n <= j /\ j < i}
  BY <1>1, <1>5
<1> QED
  BY <1>5, <1>6 DEF Chunk

(* The lines ahead of one are some of the object's.                        *)
LEMMA AheadGrows ==
    ASSUME NEW o \in Object, NEW n \in Nat
    PROVE  /\ IsFiniteSet(Ahead(o, n))
           /\ Cardinality(Ahead(o, n)) \in Nat
           /\ Cardinality(Ahead(o, n)) <= Cardinality(ValidLines(o))
           /\ Cardinality(ValidLines(o)) \in Nat
<1>1. IsFiniteSet(ValidLines(o)) /\ Ahead(o, n) \subseteq ValidLines(o)
  BY ValidFinite DEF Ahead
<1> QED
  BY <1>1, FS_Subset, FS_CardinalityType

(* A chunk has ChunkSize items, unless it is the last.                     *)
LEMMA ChunkFull ==
    ASSUME NEW o \in Object, NEW n \in Nat \ {0}
    PROVE  /\ Cardinality(Chunk(o, n)) \in Nat
           /\ Cardinality(Chunk(o, n)) <= ChunkSize
           /\ \A i \in ValidLines(o) : i >= n /\ i \notin Chunk(o, n)
                 => Cardinality(Chunk(o, n)) = ChunkSize
<1> DEFINE Upto(i) == {j \in ValidLines(o) : n <= j /\ j < i}
           size == Cardinality(Chunk(o, n))
<1>1. /\ IsFiniteSet(Chunk(o, n)) /\ size \in Nat
      /\ ValidLines(o) \subseteq Nat /\ IsFiniteSet(ValidLines(o))
      /\ Chunk(o, n) \subseteq ValidLines(o) /\ \A i \in Chunk(o, n) : n <= i
      /\ ChunkSize \in Nat \ {0} /\ Len(Lines[o]) \in Nat
      /\ Chunk(o, n) \subseteq 1..Len(Lines[o])
  BY ChunkType, ValidFinite, FS_CardinalityType, LimitAssumption
<1>2. size <= ChunkSize
  <2>1. CASE Chunk(o, n) = {}
    BY <1>1, <2>1, FS_EmptySet
  <2>2. CASE Chunk(o, n) # {}
    <3>1. PICK i \in Chunk(o, n) : \A j \in Chunk(o, n) : j <= i
      BY <1>1, <2>2, LastExists
    <3>2. Chunk(o, n) \ {i} \subseteq Upto(i)
      BY <1>1, <3>1
    <3>3. IsFiniteSet(Upto(i))
      BY <1>1, FS_Subset
    <3>4. Cardinality(Upto(i)) < ChunkSize /\ Cardinality(Upto(i)) \in Nat
      BY <3>3, FS_CardinalityType DEF Chunk
    <3>5. Cardinality(Chunk(o, n) \ {i}) = size - 1
      BY <1>1, FS_RemoveElement
    <3>6. Cardinality(Chunk(o, n) \ {i}) <= Cardinality(Upto(i))
      BY <3>2, <3>3, FS_Subset
    <3> QED
      BY <1>1, <3>4, <3>5, <3>6
  <2> QED
    BY <2>1, <2>2
<1>3. ASSUME NEW k \in ValidLines(o), k >= n, k \notin Chunk(o, n)
      PROVE  size = ChunkSize
  <2> DEFINE out == {i \in ValidLines(o) : i >= n /\ i \notin Chunk(o, n)}
  <2>1. out \in SUBSET Nat /\ out # {}
    BY <1>1, <1>3
  <2>2. PICK i \in out : \A j \in out : i <= j
    BY <2>1, FirstExists
  <2>3. Upto(i) = Chunk(o, n)
    <3>1. \A j \in Upto(i) : j \in Chunk(o, n)
      BY <1>1, <2>2
    <3>2. \A j \in Chunk(o, n) : ~(i <= j)
      BY <1>1, <2>2, ChunkClosed
    <3> QED
      BY <1>1, <2>2, <3>1, <3>2
  <2>4. ~(Cardinality(Upto(i)) < ChunkSize)
    BY <2>2 DEF Chunk
  <2>5. ~(size < ChunkSize)
    BY <2>3, <2>4
  <2> QED
    BY <1>1, <1>2, <2>5
<1> QED
  BY <1>1, <1>2, <1>3

(* Multiples of a number are as far apart as it is.                        *)
LEMMA TimesGrows ==
    ASSUME NEW c \in Nat \ {0}, NEW q \in Int, NEW r \in Int, q < r
    PROVE  c * q + c <= c * r
<1>1. r - q - 1 \in Nat
  OBVIOUS
<1>2. c * (r - q - 1) >= 0
  BY <1>1
<1>3. c * (r - q - 1) = c * r - c * q - c
  OBVIOUS
<1> QED
  BY <1>2, <1>3

(* Division with remainder.                                                *)
LEMMA DivMod ==
    ASSUME NEW c \in Nat \ {0}, NEW a \in Nat
    PROVE  a = c * (a \div c) + (a % c) /\ a \div c \in Int
OBVIOUS

(* One ChunkSize after a multiple of it comes the next.                    *)
LEMMA StepRemains ==
    ASSUME NEW c \in Nat \ {0}, NEW a \in Nat, a % c = 0
    PROVE  (a + c) % c = 0
<1> SUFFICES ASSUME NEW b \in Nat, b = a + c PROVE b % c = 0
  OBVIOUS
<1> DEFINE q == a \div c
           r == b \div c
           m == b % c
<1>1. a = c * q /\ q \in Int
  BY DivMod
<1>2. b = c * r + m /\ r \in Int /\ m \in Int /\ 0 <= m /\ m < c
  <2>1. m \in 0..(c - 1)
    OBVIOUS
  <2>2. b = c * r + m /\ r \in Int
    BY DivMod
  <2> QED
    BY <2>1, <2>2
<1> HIDE DEF q, r, m
<1>3. b = c * (q + 1) /\ c * (q + 1) = c * q + c
  BY <1>1
<1>4. CASE r < q + 1
  BY <1>1, <1>2, <1>3, <1>4, TimesGrows
<1>5. CASE q + 1 < r
  <2>1. c * (q + 1) + c <= c * r
    BY <1>1, <1>2, <1>5, TimesGrows
  <2> QED
    BY <1>1, <1>2, <1>3, <2>1
<1>6. CASE r = q + 1
  BY <1>1, <1>2, <1>3, <1>6
<1> QED
  BY <1>1, <1>2, <1>4, <1>5, <1>6 DEF m

(* No multiple lies between a multiple and the next.                       *)
LEMMA Multiples ==
    ASSUME NEW c \in Nat \ {0}, NEW a \in Nat, NEW b \in Nat,
           a % c = 0, b % c = 0, b < a + c
    PROVE  b <= a
<1> DEFINE q == a \div c
           r == b \div c
<1>1. a = c * q + (a % c) /\ q \in Int
  BY DivMod
<1>2. b = c * r + (b % c) /\ r \in Int
  BY DivMod
<1>3. a = c * q /\ b = c * r
  BY <1>1, <1>2
<1> HIDE DEF q, r
<1>4. CASE q < r
  BY <1>1, <1>2, <1>3, <1>4, TimesGrows
<1>5. CASE r < q
  <2>1. c * r + c <= c * q
    BY <1>1, <1>2, <1>5, TimesGrows
  <2> QED
    BY <1>3, <2>1
<1>6. CASE q = r
  BY <1>3, <1>6
<1> QED
  BY <1>1, <1>2, <1>4, <1>5, <1>6

\* The chunks that begin ahead of line n can be written.
PassedUpTo(o, n) ==
    \A m \in DOMAIN Lines[o] :
        /\ Cardinality(Ahead(o, m)) % ChunkSize = 0
        /\ Cardinality(Ahead(o, m)) < Cardinality(Ahead(o, n))
        => KeysDiffer(o, Chunk(o, m))

\* An object that has been written can be written.
Passed(r) == records[r] # Malformed => ~Unwritable(records[r])

PassedInv ==
    /\ acked => \A r \in DOMAIN records : Passed(r)
    /\ pc \in InFlight => \A r \in DOMAIN records : r < rec => Passed(r)
    /\ pc \in {"call", "object"} => Parses(Current)
    /\ pc = "call" => /\ Cardinality(Ahead(Current, next)) % ChunkSize = 0
                      /\ PassedUpTo(Current, next)
    /\ pc = "object" => ~Unwritable(Current)

(* Once no chunk is left, the object was one that can be written.          *)
LEMMA AllPassed ==
    ASSUME NEW o \in Object, NEW n \in Nat \ {0}, Parses(o), PassedUpTo(o, n),
           Chunk(o, n) = {}
    PROVE  ~Unwritable(o)
<1>1. Lines[o] \in Seq(Line) /\ ValidLines(o) \subseteq Nat
  BY ValidFinite
<1>2. Ahead(o, n) = ValidLines(o)
  BY ChunkEmpty DEF Ahead
<1>3. ASSUME NEW m \in DOMAIN Lines[o], Cardinality(Ahead(o, m)) % ChunkSize = 0
      PROVE  KeysDiffer(o, Chunk(o, m))
  <2>0. m \in Nat \ {0}
    BY <1>1
  <2>1. /\ Cardinality(Ahead(o, m)) \in Nat /\ Cardinality(ValidLines(o)) \in Nat
        /\ Cardinality(Ahead(o, m)) <= Cardinality(ValidLines(o))
    BY <2>0, AheadGrows
  <2>2. CASE Cardinality(Ahead(o, m)) < Cardinality(Ahead(o, n))
    BY <1>3, <2>2 DEF PassedUpTo
  <2>3. CASE Cardinality(Ahead(o, m)) = Cardinality(Ahead(o, n))
    <3>1. Chunk(o, m) = {}
      BY <2>0, <2>3, SameAhead
    <3> QED
      BY <3>1 DEF KeysDiffer
  <2> QED
    BY <1>2, <2>1, <2>2, <2>3
<1> QED
  BY <1>3 DEF Unwritable, Parses, Ahead

(* The chunk at line n having been accepted, it has passed as well, and    *)
(* the next one begins a multiple of ChunkSize further on, if there is one. *)
LEMMA ChunkPassed ==
    ASSUME NEW o \in Object, NEW n \in Nat \ {0}, PassedUpTo(o, n),
           Cardinality(Ahead(o, n)) % ChunkSize = 0, KeysDiffer(o, Chunk(o, n))
    PROVE  /\ PassedUpTo(o, PastChunk(o, n))
           /\ Chunk(o, PastChunk(o, n)) # {} =>
                 Cardinality(Ahead(o, PastChunk(o, n))) % ChunkSize = 0
<1> DEFINE k == PastChunk(o, n)
           a == Cardinality(Ahead(o, n))
           size == Cardinality(Chunk(o, n))
<1>1. /\ k \in Nat \ {0} /\ ValidLines(o) \subseteq Nat /\ ChunkSize \in Nat \ {0}
      /\ a \in Nat /\ size \in Nat /\ size <= ChunkSize
      /\ Lines[o] \in Seq(Line)
  <2>1. k \in Nat \ {0}
    BY PastChunkSplits
  <2>2. ValidLines(o) \subseteq Nat /\ Lines[o] \in Seq(Line)
    BY ValidFinite
  <2>3. a \in Nat
    BY AheadGrows
  <2>4. size \in Nat /\ size <= ChunkSize
    BY ChunkFull
  <2> QED
    BY <2>1, <2>2, <2>3, <2>4, LimitAssumption
<1>2. Cardinality(Ahead(o, k)) = a + size
  <2>1. Ahead(o, k) = {i \in ValidLines(o) : i < n \/ i \in Chunk(o, n)}
    BY PastChunkSplits DEF Ahead
  <2> QED
    BY <2>1, ChunkCounts DEF Ahead
<1>3. ASSUME NEW m \in DOMAIN Lines[o], Cardinality(Ahead(o, m)) % ChunkSize = 0,
             Cardinality(Ahead(o, m)) < a + size
      PROVE  KeysDiffer(o, Chunk(o, m))
  <2>0. m \in Nat \ {0}
    BY <1>1
  <2>1. Cardinality(Ahead(o, m)) \in Nat
    BY <2>0, AheadGrows
  <2>2. Cardinality(Ahead(o, m)) <= a
    BY <1>1, <1>3, <2>1, Multiples
  <2>3. CASE Cardinality(Ahead(o, m)) < a
    BY <1>3, <2>3 DEF PassedUpTo
  <2>4. CASE Cardinality(Ahead(o, m)) = a
    BY <2>0, <2>4, SameAhead
  <2> QED
    BY <1>1, <2>1, <2>2, <2>3, <2>4
<1>4. ASSUME Chunk(o, k) # {} PROVE Cardinality(Ahead(o, k)) % ChunkSize = 0
  <2>1. PICK i \in Chunk(o, k) : TRUE
    BY <1>4
  <2>2. i \in ValidLines(o) /\ k <= i
    BY <1>1, <2>1, ChunkType
  <2>3. i >= n /\ i \notin Chunk(o, n)
    BY <1>1, <2>2, PastChunkSplits
  <2>4. size = ChunkSize
    BY <2>2, <2>3, ChunkFull
  <2> QED
    BY <1>1, <1>2, <2>4, StepRemains
<1> QED
  BY <1>2, <1>3, <1>4 DEF PassedUpTo

(* A record that has passed keeps so.                                      *)
LEMMA PassedStays ==
    ASSUME records' = records
    PROVE  \A r : Passed(r)' = Passed(r)
  BY DEF Passed

(* Going to the next chunk: what has passed is what lies ahead of it.      *)
LEMMA BeginChunkPasses ==
    ASSUME TypeOK, PassedInv, rec \in DOMAIN records, Current \in Object, pc \in InFlight,
           NEW n \in Nat \ {0}, BeginChunk(Current, n),
           UNCHANGED <<records, rec, acked>>,
           Parses(Current), PassedUpTo(Current, n),
           Chunk(Current, n) # {} => Cardinality(Ahead(Current, n)) % ChunkSize = 0
    PROVE  PassedInv'
<1>1. Current' = Current /\ next' = n
      /\ pc' = IF Chunk(Current, n) = {} THEN "object" ELSE "call"
  BY DEF Current, BeginChunk
<1>2. \A r : Passed(r)' = Passed(r)
  BY PassedStays
<1>3. pc' = "object" => ~Unwritable(Current)
  BY <1>1, AllPassed
<1>4. /\ Parses(Current)' /\ (PassedUpTo(Current, next)' <=> PassedUpTo(Current, n))
      /\ Ahead(Current, next)' = Ahead(Current, n)
      /\ (Unwritable(Current)' <=> Unwritable(Current))
  BY <1>1 DEF Parses, PassedUpTo, Ahead, Unwritable
<1>5. /\ acked' = acked /\ rec' = rec /\ DOMAIN records' = DOMAIN records
      /\ acked => \A r \in DOMAIN records : Passed(r)
      /\ \A r \in DOMAIN records : r < rec => Passed(r)
  BY DEF PassedInv
<1> QED
  BY <1>1, <1>2, <1>3, <1>4, <1>5 DEF PassedInv, InFlight

(* A failed invocation has passed nothing.                                 *)
LEMMA RaisePasses ==
    ASSUME PassedInv, Raise, records' = records
    PROVE  PassedInv'
<1>1. pc' \in {"waiting", "dead"} /\ acked' = acked
  BY DEF Raise, AfterFailure
<1>2. \A r : Passed(r)' = Passed(r)
  BY PassedStays
<1> QED
  BY <1>1, <1>2 DEF PassedInv, InFlight

(* Every step keeps what has passed.                                       *)
LEMMA PassedStep == WriterInv /\ PassedInv /\ [Next]_vars => PassedInv'
<1> SUFFICES ASSUME WriterInv, PassedInv, [Next]_vars PROVE PassedInv'
  OBVIOUS
<1>1. TypeOK /\ rec \in Nat \ {0} /\ next \in Nat \ {0}
      /\ records \in Seq(Object \cup {Malformed})
  BY NotificationAssumption DEF WriterInv, TypeOK
<1>2. ASSUME pc \in {"call", "object"} PROVE rec \in DOMAIN records /\ Current \in Object
  BY <1>2 DEF WriterInv
<1>3. records' = records /\ \A r : Passed(r)' = Passed(r)
  <2>1. records' = records
    BY DEF Next, Step, Deliver, SkipRecord, ReadObject, FinishObject, BatchWriteItem,
       Throttled, Rejected, Return, DeliverAgain, Crash, vars
  <2> QED
    BY <2>1, PassedStays
<1>4. CASE Deliver
  <2>1. /\ pc' = "record" /\ rec' = 1 /\ acked' = acked
    BY <1>4 DEF Deliver, localVars, WriterInv
  <2>2. \A r \in DOMAIN records : ~(r < 1)
    BY <1>1
  <2> QED
    BY <1>3, <2>1, <2>2 DEF PassedInv, InFlight
<1>5. CASE DeliverAgain
  BY <1>3, <1>5 DEF DeliverAgain, PassedInv, InFlight
<1>6. CASE Raise
  BY <1>3, <1>6, RaisePasses
<1>7. CASE SkipRecord
  <2>1. /\ pc' = "record" /\ pc = "record" /\ rec' = rec + 1 /\ acked' = acked
        /\ Passed(rec)
    BY <1>7 DEF SkipRecord, Passed, Current
  <2>2. \A r \in DOMAIN records : r < rec + 1 => r < rec \/ r = rec
    BY <1>1
  <2> QED
    BY <1>3, <2>1, <2>2 DEF PassedInv, InFlight
<1>8. CASE ReadObject /\ ~Raise
  <2>1. /\ pc = "record" /\ Parses(Current) /\ BeginChunk(Current, 1)
        /\ UNCHANGED <<records, rec, acked>>
        /\ rec \in DOMAIN records /\ Current \in Object
    BY <1>1, <1>8, RecordType DEF ReadObject
  <2>2. Ahead(Current, 1) = {}
    BY <2>1, ValidFinite DEF Ahead
  <2>3. Cardinality(Ahead(Current, 1)) = 0
    BY <2>2, FS_EmptySet
  <2>4. PassedUpTo(Current, 1)
    <3>1. \A m \in DOMAIN Lines[Current] : m \in Nat
      BY <2>1, ValidFinite
    <3> QED
      BY <2>1, <2>3, <3>1, AheadGrows DEF PassedUpTo
  <2>5. 0 % ChunkSize = 0
    BY LimitAssumption
  <2> QED
    BY <1>1, <2>1, <2>3, <2>4, <2>5, BeginChunkPasses DEF InFlight
<1>9. CASE FinishObject
  <2>1. /\ pc' = "record" /\ pc = "object" /\ rec' = rec + 1 /\ acked' = acked
    BY <1>9 DEF FinishObject
  <2>2. Passed(rec)
    BY <2>1 DEF PassedInv, Passed, Current
  <2>3. \A r \in DOMAIN records : r < rec + 1 => r < rec \/ r = rec
    BY <1>1
  <2> QED
    BY <1>3, <2>1, <2>2, <2>3 DEF PassedInv, InFlight
\* A call that leaves the chunk as it was, or with less to be accepted.
<1>10. ASSUME pc = "call", pc' = "call", UNCHANGED <<rec, next, acked>>
       PROVE  PassedInv'
  <2>1. Current' = Current
    BY <1>3, <1>10 DEF Current
  <2>2. /\ Parses(Current)' = Parses(Current)
        /\ PassedUpTo(Current, next)' = PassedUpTo(Current, next)
        /\ Ahead(Current, next)' = Ahead(Current, next)
    BY <1>10, <2>1 DEF Parses, PassedUpTo, Ahead
  <2> QED
    BY <1>3, <1>10, <2>2 DEF PassedInv, InFlight
<1>11. ASSUME NEW rest, NEW accepted, pc = "call", Retry(rest, accepted)
       PROVE  PassedInv'
  <2>1. Raise \/ UNCHANGED <<pc, rec, next, acked>>
    BY <1>11 DEF Retry
  <2> QED
    BY <1>6, <1>10, <1>11, <2>1
<1>12. CASE BatchWriteItem
  <2>1. ASSUME NEW rest, Retry(rest, Accepted(rest)) PROVE PassedInv'
    BY <1>11, <1>12, <2>1 DEF BatchWriteItem
  <2>2. ASSUME BeginChunk(Current, PastChunk(Current, next)),
               UNCHANGED <<deliveries, acked, rec, clock, totals>>
        PROVE  PassedInv'
    <3>1. pc = "call" /\ KeysDiffer(Current, Chunk(Current, next))
      BY <1>12 DEF BatchWriteItem, WriterInv
    <3>2. /\ Current \in Object /\ Parses(Current) /\ PassedUpTo(Current, next)
          /\ Cardinality(Ahead(Current, next)) % ChunkSize = 0
      BY <1>2, <3>1 DEF PassedInv
    <3>3. PastChunk(Current, next) \in Nat \ {0}
      BY <1>1, <3>2, PastChunkSplits
    <3>4. /\ PassedUpTo(Current, PastChunk(Current, next))
          /\ Chunk(Current, PastChunk(Current, next)) # {} =>
                Cardinality(Ahead(Current, PastChunk(Current, next))) % ChunkSize = 0
      BY <1>1, <3>1, <3>2, ChunkPassed
    <3> QED
      BY <1>1, <1>2, <1>3, <2>2, <3>1, <3>2, <3>3, <3>4, BeginChunkPasses DEF InFlight
  <2> QED
    BY <1>12, <2>1, <2>2 DEF BatchWriteItem
<1>13. CASE Throttled
  BY <1>11, <1>13 DEF Throttled
<1>14. CASE Return
  <2>1. /\ pc = "record" /\ pc' = "done" /\ rec > Len(records)
    BY <1>14 DEF Return
  <2>2. \A r \in DOMAIN records : r < rec
    BY <1>1, <2>1
  <2> QED
    BY <1>3, <2>1, <2>2 DEF PassedInv, InFlight
<1>15. CASE UNCHANGED vars
  <2>1. Current' = Current /\ UNCHANGED <<pc, rec, next, acked>>
    BY <1>15 DEF Current, vars
  <2>2. /\ Parses(Current)' = Parses(Current)
        /\ PassedUpTo(Current, next)' = PassedUpTo(Current, next)
        /\ Ahead(Current, next)' = Ahead(Current, next)
        /\ Unwritable(Current)' = Unwritable(Current)
    BY <2>1 DEF Parses, PassedUpTo, Ahead, Unwritable
  <2> QED
    BY <1>3, <2>1, <2>2 DEF PassedInv, InFlight
<1> QED
  BY <1>4, <1>5, <1>6, <1>7, <1>8, <1>9, <1>12, <1>13, <1>14, <1>15
     DEF Next, Step, ReadObject, Rejected, Crash

(* For every notification and chunk size: an object with a line that is    *)
(* not JSON, or with two items of one key in a chunk as _chunked cuts it,  *)
(* keeps its notification from ever being acknowledged.                    *)
THEOREM AckedWhole == Spec => []AckedMeansWhole
<1>1. Init => PassedInv
  BY DEF Init, PassedInv, InFlight
<1>2. PassedInv => AckedMeansWhole
  BY DEF PassedInv, Passed, AckedMeansWhole
<1> QED
  BY <1>1, <1>2, PassedStep, Invariance, PTL DEF Spec
=============================================================================
