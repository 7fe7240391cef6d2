----------------------- MODULE StreamAggregatorProofs -----------------------
(***************************************************************************)
(* Proofs that the safety properties of StreamAggregator hold for every    *)
(* number of shards, items, counters, batch sizes and retries.             *)
(***************************************************************************)
EXTENDS StreamAggregatorInv, TLAPS, SequenceTheorems

\* What every step does to the stream: records are only ever appended.
Grows ==
    /\ stream' \in [Shard -> Seq(Record)]
    /\ \A s \in Shard :
          /\ Len(stream[s]) <= Len(stream'[s])
          /\ \A i \in DOMAIN stream[s] : stream'[s][i] = stream[s][i]

\* An element of a sequence, and its first one, are in the set it is over.
LEMMA SeqElements ==
    ASSUME NEW S, NEW q \in Seq(S)
    PROVE  /\ \A i \in 1..Len(q) : q[i] \in S
           /\ DOMAIN q = 1..Len(q) /\ Len(q) \in Nat
           /\ q # <<>> =>
                 /\ Len(q) >= 1
                 /\ Head(q) = q[1] /\ Head(q) \in S
                 /\ Tail(q) \in Seq(S)
                 /\ Len(Tail(q)) = Len(q) - 1
                 /\ \A i \in 1..Len(Tail(q)) : Tail(q)[i] = q[i + 1]
  OBVIOUS

\* Appending records to the shard of a key.
LEMMA PublishGrows ==
    ASSUME stream \in [Shard -> Seq(Record)], NEW k \in Key,
           NEW records \in Seq(Record), Publish(k, records)
    PROVE  Grows
<1>1. ShardOf[k] \in Shard
  BY KeyAssumption
<1>2. \A s \in Shard : stream'[s] = IF s = ShardOf[k] THEN stream[s] \o records
                                                      ELSE stream[s]
  BY DEF Publish
<1>3. stream' = [s \in Shard |-> stream'[s]]
  BY DEF Publish
<1>4. ASSUME NEW q \in Seq(Record)
      PROVE  /\ q \o records \in Seq(Record)
             /\ Len(q) <= Len(q \o records)
             /\ \A i \in DOMAIN q : (q \o records)[i] = q[i]
  OBVIOUS
<1>5. ASSUME NEW s \in Shard
      PROVE  /\ stream'[s] \in Seq(Record)
             /\ Len(stream[s]) <= Len(stream'[s])
             /\ \A i \in DOMAIN stream[s] : stream'[s][i] = stream[s][i]
  <2>1. stream[s] \in Seq(Record) /\ Len(stream[s]) \in Nat
    OBVIOUS
  <2>2. CASE s = ShardOf[k]
    <3>1. stream'[s] = stream[s] \o records
      BY <2>2, <1>2
    <3> QED  BY <2>1, <3>1, <1>4
  <2>3. CASE s # ShardOf[k]
    <3>1. stream'[s] = stream[s]
      BY <2>3, <1>2
    <3> QED  BY <2>1, <3>1
  <2> QED  BY <2>2, <2>3
<1>6. stream' \in [Shard -> Seq(Record)]
  BY <1>3, <1>5
<1> QED  BY <1>5, <1>6 DEF Grows

LEMMA PublishOne ==
    ASSUME stream \in [Shard -> Seq(Record)], NEW k \in Key,
           NEW rec \in Record, Publish(k, <<rec>>)
    PROVE  Grows
<1>1. <<rec>> \in Seq(Record)
  OBVIOUS
<1> QED  BY <1>1, PublishGrows

\* The aggregator's own records are records.
LEMMA OwnRecords ==
    ASSUME NEW k \in Counter \cup {Sentinel}
    PROVE  /\ OwnRecord(k) \in Record
           /\ <<OwnRecord(k)>> \in Seq(Record)
           /\ \A n \in {1, 2} : [i \in 1..n |-> OwnRecord(k)] \in Seq(Record)
<1>1. OwnRecord(k) \in Record
  BY DEF OwnRecord, Record, OtherRecord
<1> QED  BY <1>1

\* The elements of Published are the places of the stream.
LEMMA PublishedPlaces ==
    ASSUME stream \in [Shard -> Seq(Record)]
    PROVE  /\ \A s \in Shard : \A i \in 1..Len(stream[s]) : <<s, i>> \in Published
           /\ \A r \in Published :
                 /\ r[1] \in Shard /\ r[2] \in Nat \ {0}
                 /\ r[2] \in 1..Len(stream[r[1]])
                 /\ r = <<r[1], r[2]>>
                 /\ Rec(r) \in Record
<1>1. \A s \in Shard : stream[s] \in Seq(Record) /\ DOMAIN stream[s] = 1..Len(stream[s])
                       /\ Len(stream[s]) \in Nat
  OBVIOUS
<1>2. ASSUME NEW s \in Shard, NEW i \in 1..Len(stream[s])
      PROVE  <<s, i>> \in Published
  BY <1>1 DEF Published
<1>3. ASSUME NEW r \in Published
      PROVE  /\ r[1] \in Shard /\ r[2] \in Nat \ {0}
             /\ r[2] \in 1..Len(stream[r[1]])
             /\ r = <<r[1], r[2]>>
             /\ Rec(r) \in Record
  <2>1. PICK s \in Shard : r \in {<<s, i>> : i \in DOMAIN stream[s]}
    BY DEF Published
  <2>2. PICK i \in 1..Len(stream[s]) : r = <<s, i>>
    BY <2>1, <1>1
  <2>3. r[1] = s /\ r[2] = i
    BY <2>2
  <2>4. stream[s][i] \in Record
    BY <1>1, SeqElements
  <2> QED  BY <2>2, <2>3, <2>4, <1>1 DEF Rec
<1> QED  BY <1>2, <1>3

\* Growth keeps every published record where and what it is.
LEMMA GrowsKeeps ==
    ASSUME stream \in [Shard -> Seq(Record)], Grows
    PROVE  /\ Published \subseteq Published'
           /\ \A r \in Published : Rec(r)' = Rec(r)
<1>1. ASSUME NEW r \in Published
      PROVE  r \in Published' /\ Rec(r)' = Rec(r)
  <2>1. /\ r[1] \in Shard /\ r[2] \in Nat \ {0}
        /\ r[2] \in 1..Len(stream[r[1]]) /\ r = <<r[1], r[2]>>
    BY PublishedPlaces
  <2>2. stream[r[1]] \in Seq(Record) /\ stream'[r[1]] \in Seq(Record)
    BY <2>1 DEF Grows
  <2>3. r[2] \in DOMAIN stream'[r[1]] /\ stream'[r[1]][r[2]] = stream[r[1]][r[2]]
    BY <2>1, <2>2 DEF Grows
  <2> QED  BY <2>1, <2>3 DEF Published, Rec
<1> QED  BY <1>1

\* After a step, too, a published record is a place of a shard.
LEMMA PublishedNext ==
    ASSUME Grows, NEW r \in Published'
    PROVE  r[1] \in Shard /\ r[2] \in Nat \ {0} /\ r = <<r[1], r[2]>>
<1>1. PICK s \in Shard : r \in {<<s, i>> : i \in DOMAIN stream'[s]}
  BY DEF Published
<1>2. stream'[s] \in Seq(Record)
  BY DEF Grows
<1>3. DOMAIN stream'[s] = 1..Len(stream'[s]) /\ Len(stream'[s]) \in Nat
  BY <1>2
<1>4. PICK i \in 1..Len(stream'[s]) : r = <<s, i>>
  BY <1>1, <1>3
<1> QED  BY <1>3, <1>4

-----------------------------------------------------------------------------
(* Typing *)

\* What TypeOK says of one shard.
LEMMA ShardTypes ==
    ASSUME TypeOK, NEW s \in Shard
    PROVE  /\ stream[s] \in Seq(Record) /\ Len(stream[s]) \in Nat
           /\ next[s] \in Nat \ {0} /\ next[s] <= Len(stream[s]) + 1
           /\ queue[s] \in Seq(Parts(next[s] - 1))
           /\ pc[s] \in {"idle", "record", "count", "technique"}
           /\ at[s] \in Nat \ {0}
           /\ todo[s] \in Seq(Counter)
           /\ \A k \in DOMAIN queue[s] :
                 /\ queue[s][k] \in Parts(next[s] - 1)
                 /\ queue[s][k].lo \in 1..(next[s] - 1)
                 /\ queue[s][k].hi \in 1..(next[s] - 1)
                 /\ queue[s][k].tries \in 0..MaxRetries
                 /\ queue[s][k].lo <= queue[s][k].hi
           /\ queue[s] # <<>> =>
                 /\ 1 \in DOMAIN queue[s]
                 /\ Current(s) = queue[s][1]
                 /\ Current(s) \in Parts(next[s] - 1)
                 /\ Current(s).lo \in 1..(next[s] - 1)
                 /\ Current(s).hi \in 1..(next[s] - 1)
                 /\ Current(s).tries \in 0..MaxRetries
                 /\ Current(s).lo <= Current(s).hi
                 /\ Tail(queue[s]) \in Seq(Parts(next[s] - 1))
                 /\ DOMAIN Tail(queue[s]) = 1..(Len(queue[s]) - 1)
                 /\ \A k \in DOMAIN Tail(queue[s]) :
                       k + 1 \in DOMAIN queue[s] /\ Tail(queue[s])[k] = queue[s][k + 1]
<1>1. /\ stream[s] \in Seq(Record) /\ Len(stream[s]) \in Nat
      /\ next[s] \in Nat \ {0} /\ next[s] <= Len(stream[s]) + 1
      /\ queue[s] \in Seq(Parts(next[s] - 1))
      /\ pc[s] \in {"idle", "record", "count", "technique"}
      /\ at[s] \in Nat \ {0}
      /\ todo[s] \in Seq(Counter)
  BY DEF TypeOK
<1>2. \A p \in Parts(next[s] - 1) :
          /\ p.lo \in 1..(next[s] - 1) /\ p.hi \in 1..(next[s] - 1)
          /\ p.tries \in 0..MaxRetries /\ p.lo <= p.hi
  BY DEF Parts
<1>3. /\ DOMAIN queue[s] = 1..Len(queue[s]) /\ Len(queue[s]) \in Nat
      /\ \A k \in 1..Len(queue[s]) : queue[s][k] \in Parts(next[s] - 1)
  BY <1>1, SeqElements
<1>4. ASSUME queue[s] # <<>>
      PROVE  /\ 1 \in DOMAIN queue[s]
             /\ Current(s) = queue[s][1]
             /\ Current(s) \in Parts(next[s] - 1)
             /\ Tail(queue[s]) \in Seq(Parts(next[s] - 1))
             /\ DOMAIN Tail(queue[s]) = 1..(Len(queue[s]) - 1)
             /\ \A k \in DOMAIN Tail(queue[s]) :
                   k + 1 \in DOMAIN queue[s] /\ Tail(queue[s])[k] = queue[s][k + 1]
  <2>1. /\ Len(queue[s]) >= 1
        /\ Head(queue[s]) = queue[s][1]
        /\ Tail(queue[s]) \in Seq(Parts(next[s] - 1))
        /\ Len(Tail(queue[s])) = Len(queue[s]) - 1
        /\ \A k \in 1..Len(Tail(queue[s])) : Tail(queue[s])[k] = queue[s][k + 1]
    <3> DEFINE S == Parts(next[s] - 1)  q == queue[s]
    <3>1. q \in Seq(S) /\ q # <<>>
      BY <1>1, <1>4
    <3> HIDE DEF S, q
    <3>2. /\ Len(q) >= 1 /\ Head(q) = q[1] /\ Tail(q) \in Seq(S) /\ Len(Tail(q)) = Len(q) - 1
          /\ \A k \in 1..Len(Tail(q)) : Tail(q)[k] = q[k + 1]
      BY <3>1, SeqElements
    <3> QED  BY <3>2 DEF S, q
  <2>2. DOMAIN Tail(queue[s]) = 1..(Len(queue[s]) - 1)
    BY <2>1, SeqElements
  <2>3. 1 \in 1..Len(queue[s]) /\ \A k \in 1..(Len(queue[s]) - 1) : k + 1 \in 1..Len(queue[s])
    BY <2>1, <1>3
  <2>4. Current(s) = queue[s][1]
    BY <2>1 DEF Current
  <2> QED  BY <2>1, <2>2, <2>3, <2>4, <1>3
<1> QED  BY <1>1, <1>2, <1>3, <1>4

\* An invocation that has not run off its range is at a published record.
LEMMA HerePublished ==
    ASSUME TypeOK, NEW s \in Shard, queue[s] # <<>>, at[s] <= Current(s).hi
    PROVE  /\ Here(s) \in Published
           /\ Here(s)[1] = s /\ Here(s)[2] = at[s]
           /\ at[s] < next[s]
<1>1. at[s] \in 1..Len(stream[s]) /\ at[s] < next[s]
  BY ShardTypes
<1> QED  BY <1>1, PublishedPlaces DEF Here, TypeOK

\* An accepted record is that of an event, with an image.
LEMMA AcceptedRecord ==
    ASSUME NEW rec \in Record, Accepts(rec)
    PROVE  /\ rec.key \in Event /\ rec.image \in Image
           /\ Fields[rec.key][rec.image] \in Seq(Counter \ Technique)
<1>1. rec \in EventRecord
  BY KeyAssumption DEF Accepts, Record, OtherRecord
<1> QED  BY <1>1, FieldsAssumption DEF EventRecord

\* The counters a running invocation adds to are counters.
LEMMA AddGrows ==
    ASSUME TypeOK, NEW s \in Shard, NEW n \in {1, 2}, todo[s] # <<>>,
           AddToCounter(s, Head(todo[s]), n)
    PROVE  Grows /\ Head(todo[s]) \in Counter
<1>1. Head(todo[s]) \in Counter
  BY ShardTypes, SeqElements
<1> QED  BY <1>1, PublishGrows, OwnRecords DEF AddToCounter, Key, TypeOK

LEMMA NextGrows == TypeOK /\ [Next]_vars => Grows
<1> SUFFICES ASSUME TypeOK, [Next]_vars PROVE Grows
  OBVIOUS
<1>1. ASSUME stream' = stream PROVE Grows
  BY <1>1 DEF Grows, TypeOK
<1>2. ASSUME NEW e \in Event, WriteItem(e) PROVE Grows
  <2> DEFINE rec(img) == [kind |-> IF table[e] = "absent" THEN "INSERT" ELSE "MODIFY",
                          key |-> e, image |-> img]
  <2>1. PICK img \in Image : Publish(e, <<rec(img)>>)
    BY <1>2 DEF WriteItem
  <2>2. rec(img) \in Record
    BY DEF Record, EventRecord
  <2>3. e \in Key
    BY DEF Key
  <2> HIDE DEF rec
  <2> QED  BY <2>1, <2>2, <2>3, PublishOne DEF TypeOK
<1>3. ASSUME NEW e \in Event, ExpireItem(e) PROVE Grows
  <2> DEFINE rec == [kind |-> "REMOVE", key |-> e, image |-> "none"]
  <2>1. Publish(e, <<rec>>)
    BY <1>3 DEF ExpireItem
  <2>2. rec \in Record
    BY DEF Record, OtherRecord
  <2>3. e \in Key
    BY DEF Key
  <2> HIDE DEF rec
  <2> QED  BY <2>1, <2>2, <2>3, PublishOne DEF TypeOK
<1>4. ASSUME NEW s \in Shard, ClaimRecord(s) \/ ClaimResent(s) PROVE Grows
  BY <1>4, PublishGrows, OwnRecords DEF ClaimRecord, ClaimResent, Key, TypeOK
<1>5. ASSUME NEW s \in Shard, Increment(s) \/ IncrementResent(s) PROVE Grows
  BY <1>5, AddGrows DEF Increment, IncrementResent
<1>6. ASSUME NEW s \in Shard,
             Poll(s) \/ Invoke(s) \/ FinishBatch(s) \/ SkipRecord(s) \/ SkipDuplicate(s)
             \/ ClassifySession(s) \/ FinishRecord(s) \/ Fail(s)
      PROVE  stream' = stream
  BY <1>6 DEF Poll, Invoke, FinishBatch, SkipRecord, SkipDuplicate, ClassifySession,
              FinishRecord, Fail
<1> QED  BY <1>1, <1>2, <1>3, <1>4, <1>5, <1>6 DEF Next, Progress, vars

-----------------------------------------------------------------------------
(* The ranges still to deliver *)

Covered(q, i) == \E k \in DOMAIN q : q[k].lo <= i /\ i <= q[k].hi

\* The tail of the queue covers what its head does not.
LEMMA TailCovers ==
    ASSUME TypeOK, NEW s \in Shard, queue[s] # <<>>, NEW i \in Nat,
           Covered(queue[s], i), ~(Current(s).lo <= i /\ i <= Current(s).hi)
    PROVE  Covered(Tail(queue[s]), i)
<1>1. PICK k \in DOMAIN queue[s] : queue[s][k].lo <= i /\ i <= queue[s][k].hi
  BY DEF Covered
<1>2. DOMAIN queue[s] = 1..Len(queue[s]) /\ Len(queue[s]) \in Nat
  BY ShardTypes, SeqElements
<1>3. k # 1
  BY <1>1, ShardTypes
<1>4. k - 1 \in DOMAIN Tail(queue[s]) /\ Tail(queue[s])[k - 1] = queue[s][k]
  <2>1. k - 1 \in 1..(Len(queue[s]) - 1) /\ (k - 1) + 1 = k
    BY <1>2, <1>3
  <2> QED  BY <2>1, ShardTypes
<1> QED  BY <1>1, <1>4 DEF Covered

\* The two halves of a bisected range, in front of the rest.
LEMMA HalvesCover ==
    ASSUME NEW S, NEW a \in S, NEW b \in S, NEW q \in Seq(S)
    PROVE  /\ <<a, b>> \o q \in Seq(S)
           /\ 1 \in DOMAIN (<<a, b>> \o q) /\ (<<a, b>> \o q)[1] = a
           /\ 2 \in DOMAIN (<<a, b>> \o q) /\ (<<a, b>> \o q)[2] = b
           /\ \A k \in DOMAIN q : /\ k + 2 \in DOMAIN (<<a, b>> \o q)
                                 /\ (<<a, b>> \o q)[k + 2] = q[k]
  OBVIOUS

LEMMA BisectQueue ==
    ASSUME TypeOK, NEW s \in Shard, queue[s] # <<>>, Bisect(s)
    PROVE  /\ DOMAIN queue' = Shard /\ \A t \in Shard \ {s} : queue'[t] = queue[t]
           /\ queue'[s] \in Seq(Parts(next[s] - 1))
           /\ \A i \in Nat : Covered(queue[s], i) => Covered(queue'[s], i)
<1> DEFINE lo  == Current(s).lo
           hi  == Current(s).hi
           mid == (lo + hi) \div 2
           q   == Tail(queue[s])
           S   == Parts(next[s] - 1)
<1>1. lo \in 1..(next[s] - 1) /\ hi \in 1..(next[s] - 1) /\ lo < hi
  BY ShardTypes DEF Bisect
<1>2. /\ mid \in 1..(next[s] - 1) /\ mid + 1 \in 1..(next[s] - 1)
      /\ lo <= mid /\ mid + 1 <= hi
  BY <1>1, ShardTypes
<1>3. Part(lo, mid) \in S /\ Part(mid + 1, hi) \in S /\ q \in Seq(S)
  BY <1>1, <1>2, ShardTypes, LimitAssumption DEF Part, Parts
<1>4. /\ DOMAIN queue' = Shard /\ \A t \in Shard \ {s} : queue'[t] = queue[t]
      /\ queue'[s] = <<Part(lo, mid), Part(mid + 1, hi)>> \o q
  BY DEF Bisect, TypeOK
<1> HIDE DEF S, q
<1>5. /\ queue'[s] \in Seq(S)
      /\ 1 \in DOMAIN queue'[s] /\ queue'[s][1] = Part(lo, mid)
      /\ 2 \in DOMAIN queue'[s] /\ queue'[s][2] = Part(mid + 1, hi)
      /\ \A k \in DOMAIN q : k + 2 \in DOMAIN queue'[s] /\ queue'[s][k + 2] = q[k]
  BY <1>3, <1>4, HalvesCover
<1>6. ASSUME NEW i \in Nat, Covered(queue[s], i) PROVE Covered(queue'[s], i)
  <2>1. CASE lo <= i /\ i <= hi
    <3>1. \/ Part(lo, mid).lo <= i /\ i <= Part(lo, mid).hi
          \/ Part(mid + 1, hi).lo <= i /\ i <= Part(mid + 1, hi).hi
      BY <2>1, <1>1, <1>2, ShardTypes DEF Part
    <3> QED  BY <3>1, <1>5 DEF Covered
  <2>2. CASE ~(lo <= i /\ i <= hi)
    <3>1. PICK k \in DOMAIN q : q[k].lo <= i /\ i <= q[k].hi
      BY <2>2, <1>6, TailCovers DEF Covered, q
    <3> QED  BY <3>1, <1>5 DEF Covered
  <2> QED  BY <2>1, <2>2
<1> QED  BY <1>4, <1>5, <1>6 DEF S

LEMMA RetryQueue ==
    ASSUME TypeOK, NEW s \in Shard, queue[s] # <<>>, Retry(s)
    PROVE  /\ DOMAIN queue' = Shard /\ \A t \in Shard \ {s} : queue'[t] = queue[t]
           /\ queue'[s] \in Seq(Parts(next[s] - 1))
           /\ \A i \in Nat : Covered(queue[s], i) => Covered(queue'[s], i)
<1> DEFINE S == Parts(next[s] - 1)
           p == [queue[s][1] EXCEPT !.tries = @ + 1]
<1>1. DOMAIN queue' = Shard /\ \A t \in Shard \ {s} : queue'[t] = queue[t]
  BY DEF Retry, TypeOK
<1>2. queue'[s] = [queue[s] EXCEPT ![1] = p]
  BY ShardTypes DEF Retry, TypeOK
<1>3. queue[s] \in Seq(S) /\ 1 \in DOMAIN queue[s]
  BY ShardTypes
<1>4. p \in S /\ p.lo = queue[s][1].lo /\ p.hi = queue[s][1].hi
  <2>1. queue[s][1] \in S /\ queue[s][1].tries < MaxRetries
    BY ShardTypes DEF Retry
  <2>2. queue[s][1].tries + 1 \in 0..MaxRetries
    BY <2>1, LimitAssumption DEF Parts
  <2> QED  BY <2>1, <2>2 DEF Parts
<1> HIDE DEF S, p
<1>5. queue'[s] \in Seq(S)
  BY <1>2, <1>3, <1>4
<1>6. /\ DOMAIN queue'[s] = DOMAIN queue[s]
      /\ \A k \in DOMAIN queue[s] : /\ queue'[s][k].lo = queue[s][k].lo
                                   /\ queue'[s][k].hi = queue[s][k].hi
  BY <1>2, <1>3, <1>4
<1> QED  BY <1>1, <1>5, <1>6 DEF Covered, S

LEMMA TailQueue ==
    ASSUME TypeOK, NEW s \in Shard, queue[s] # <<>>,
           queue' = [queue EXCEPT ![s] = Tail(@)]
    PROVE  /\ DOMAIN queue' = Shard /\ \A t \in Shard \ {s} : queue'[t] = queue[t]
           /\ queue'[s] \in Seq(Parts(next[s] - 1))
           /\ \A i \in Nat : Covered(queue[s], i) =>
                 Covered(queue'[s], i) \/ (Current(s).lo <= i /\ i <= Current(s).hi)
  BY ShardTypes, TailCovers DEF TypeOK

LEMMA PollQueue ==
    ASSUME TypeOK, NEW s \in Shard, Poll(s)
    PROVE  /\ DOMAIN queue' = Shard /\ \A t \in Shard \ {s} : queue'[t] = queue[t]
           /\ next' \in [Shard -> Nat \ {0}]
           /\ \A t \in Shard \ {s} : next'[t] = next[t]
           /\ next[s] < next'[s] /\ next'[s] <= Len(stream[s]) + 1
           /\ queue'[s] \in Seq(Parts(next'[s] - 1))
           /\ \A i \in Nat : i < next'[s] => i < next[s] \/ Covered(queue'[s], i)
<1>1. PICK hi \in next[s]..Len(stream[s]) :
          /\ queue' = [queue EXCEPT ![s] = <<Part(next[s], hi)>>]
          /\ next' = [next EXCEPT ![s] = hi + 1]
  BY DEF Poll
<1>2. hi \in Nat \ {0} /\ next[s] \in Nat \ {0} /\ next[s] <= hi /\ hi <= Len(stream[s])
  BY ShardTypes
<1>3. /\ next' \in [Shard -> Nat \ {0}] /\ next'[s] = hi + 1
      /\ \A t \in Shard \ {s} : next'[t] = next[t]
  BY <1>1, <1>2 DEF TypeOK
<1>4. /\ DOMAIN queue' = Shard /\ \A t \in Shard \ {s} : queue'[t] = queue[t]
      /\ queue'[s] = <<Part(next[s], hi)>>
  BY <1>1 DEF TypeOK
<1>5. Part(next[s], hi) \in Parts(next'[s] - 1)
  BY <1>2, <1>3, LimitAssumption DEF Part, Parts
<1>6. queue'[s] \in Seq(Parts(next'[s] - 1))
  BY <1>4, <1>5
<1>7. ASSUME NEW i \in Nat, i < next'[s], ~(i < next[s]) PROVE Covered(queue'[s], i)
  <2>1. Part(next[s], hi).lo <= i /\ i <= Part(next[s], hi).hi
    BY <1>2, <1>3, <1>7 DEF Part
  <2> QED  BY <1>4, <2>1 DEF Covered
<1>8. next[s] < next'[s] /\ next'[s] <= Len(stream[s]) + 1
  <2>1. Len(stream[s]) \in Nat
    BY ShardTypes
  <2> QED  BY <2>1, <1>2, <1>3
<1> QED  BY <1>3, <1>4, <1>6, <1>7, <1>8

-----------------------------------------------------------------------------
(* One step of a shard *)

ShardStep(s) == Progress(s) \/ Fail(s) \/ ClaimResent(s) \/ IncrementResent(s)

otherVars == <<claims, by, extra, next, queue, pc, at, todo, dlq, cut, resends>>

\* A step is that of a writer or of a shard.
LEMMA NextSplit ==
    ASSUME TypeOK, [Next]_vars
    PROVE  \/ UNCHANGED otherVars /\ table' \in [Event -> Image \cup {"absent"}]
           \/ \E s \in Shard : ShardStep(s)
<1>1. ASSUME NEW e \in Event, WriteItem(e) \/ ExpireItem(e)
      PROVE  UNCHANGED otherVars /\ table' \in [Event -> Image \cup {"absent"}]
  BY <1>1 DEF WriteItem, ExpireItem, otherVars, countVars, esmVars, TypeOK
<1>2. ASSUME UNCHANGED vars
      PROVE  UNCHANGED otherVars /\ table' \in [Event -> Image \cup {"absent"}]
  BY <1>2 DEF vars, otherVars, TypeOK
<1> QED  BY <1>1, <1>2 DEF Next, ShardStep

\* What the mapping or the invocation is past has been published.
LEMMA PassedPublished ==
    ASSUME TypeOK, InvocationGood, NEW r, Passed(r),
           r[1] \in Shard, r[2] \in Nat \ {0}, r = <<r[1], r[2]>>
    PROVE  r \in Published
<1> DEFINE s == r[1]
<1>1. r[2] < next[s]
  <2>1. CASE Finished(r)
    BY <2>1 DEF Finished
  <2>2. CASE pc[s] # "idle" /\ r[2] < at[s]
    <3>1. queue[s] # <<>> /\ at[s] <= Current(s).hi + 1
      BY <2>2 DEF InvocationGood, InvocationAt
    <3>2. Current(s).hi \in 1..(next[s] - 1) /\ at[s] \in Nat /\ next[s] \in Nat
      BY <3>1, ShardTypes
    <3> QED  BY <2>2, <3>1, <3>2
  <2> QED  BY <2>1, <2>2 DEF Passed
<1>2. r[2] \in 1..Len(stream[s])
  BY <1>1, ShardTypes
<1> QED  BY <1>2, PublishedPlaces DEF TypeOK

\* A writer's step disturbs nothing: records keep their places.
LEMMA WriterStep ==
    ASSUME IInv, Grows, UNCHANGED otherVars,
           table' \in [Event -> Image \cup {"absent"}]
    PROVE  IInv'
<1> USE DEF otherVars
<1>1. Published \subseteq Published' /\ \A r \in Published : Rec(r)' = Rec(r)
  BY GrowsKeeps DEF IInv, TypeOK
<1>2. TypeOK'
  <2>1. \A s \in Shard : next[s] <= Len(stream'[s]) + 1
    <3> TAKE s \in Shard
    <3>1. stream'[s] \in Seq(Record) /\ stream[s] \in Seq(Record) /\ next[s] \in Nat
      BY DEF Grows, IInv, TypeOK
    <3>2. Len(stream'[s]) \in Nat /\ Len(stream[s]) \in Nat
      BY <3>1
    <3> QED  BY <3>1, <3>2 DEF Grows, IInv, TypeOK
  <2> QED  BY <1>1, <2>1 DEF IInv, TypeOK, Grows
<1>3. InvocationGood'
  BY DEF IInv, InvocationGood, InvocationAt, Current, Here
<1>4. TodoGood'
  BY DEF IInv, TodoGood, TodoAt, Counted, Here
<1>5. ClaimsGood'
  <2> SUFFICES ASSUME NEW r \in claims
               PROVE  Accepts(Rec(r)') /\ (FullyCounted(r)' \/ InProgress(r)' \/ r \in cut)
    BY DEF ClaimsGood
  <2>1. r \in Published /\ Rec(r)' = Rec(r)
    BY <1>1 DEF IInv, TypeOK
  <2>2. Accepts(Rec(r)) /\ (FullyCounted(r) \/ InProgress(r) \/ r \in cut)
    BY DEF IInv, ClaimsGood
  <2>3. FullyCounted(r) => FullyCounted(r)'
    BY <2>1 DEF FullyCounted, Counted
  <2>4. InProgress(r) => InProgress(r)'
    BY <2>1 DEF InProgress, Counted, Here
  <2> QED  BY <2>1, <2>2, <2>3, <2>4
<1>6. CountsClaimed'
  BY DEF IInv, CountsClaimed
<1>7. PassedGood'
  <2> SUFFICES ASSUME NEW r \in Published', Passed(r)', Accepts(Rec(r)')
               PROVE  r \in claims \cup dlq
    BY DEF PassedGood
  <2>1. Passed(r)
    BY DEF Passed, Finished, Current
  <2>2. r \in Published
    BY <2>1, PassedPublished, PublishedNext DEF IInv
  <2> QED  BY <1>1, <2>1, <2>2 DEF IInv, PassedGood
<1>8. CountedAtMostOnce'
  BY DEF IInv, CountedAtMostOnce
<1> QED  BY <1>2, <1>3, <1>4, <1>5, <1>6, <1>7, <1>8 DEF IInv

\* The record a handler is about to claim, or is counting, is published.
LEMMA HereFacts ==
    ASSUME TypeOK, InvocationGood, NEW s \in Shard,
           AtRecord(s) \/ pc[s] \in Counting
    PROVE  /\ queue[s] # <<>> /\ at[s] <= Current(s).hi
           /\ Here(s) \in Published
           /\ Here(s)[1] = s /\ Here(s)[2] = at[s]
           /\ Here(s) = <<s, at[s]>>
           /\ at[s] < next[s]
<1>1. queue[s] # <<>> /\ at[s] <= Current(s).hi
  BY DEF InvocationGood, InvocationAt, AtRecord, Counting
<1> QED  BY <1>1, HerePublished DEF Here

\* The handler only increments while it is counting.
LEMMA TodoCounting ==
    ASSUME InvocationGood, NEW s \in Shard, todo[s] # <<>>
    PROVE  pc[s] \in Counting
  BY DEF InvocationGood, InvocationAt

\* What a step of shard s may change, and in which direction.
LEMMA StepFrame ==
    ASSUME TypeOK, InvocationGood, NEW s \in Shard, ShardStep(s)
    PROVE  /\ \A t \in Shard \ {s} :
                 /\ pc'[t] = pc[t] /\ at'[t] = at[t] /\ todo'[t] = todo[t]
                 /\ queue'[t] = queue[t] /\ next'[t] = next[t]
           /\ claims \subseteq claims' /\ claims' \subseteq claims \cup {Here(s)}
           /\ cut \subseteq cut' /\ cut' \subseteq cut \cup {Here(s)}
           /\ dlq \subseteq dlq'
           /\ \A c \in Counter : /\ by[c] \subseteq by'[c]
                                 /\ by'[c] \subseteq by[c] \cup {Here(s)}
           /\ table' = table
<1> USE DEF TypeOK, countVars, esmVars
<1>1. CASE Poll(s)
  BY <1>1 DEF Poll
<1>2. CASE Invoke(s)
  BY <1>2 DEF Invoke
<1>3. CASE FinishBatch(s)
  BY <1>3 DEF FinishBatch, EndInvocation
<1>4. CASE SkipRecord(s)
  BY <1>4 DEF SkipRecord, NextRecord
<1>5. CASE ClaimRecord(s)
  BY <1>5 DEF ClaimRecord
<1>6. CASE SkipDuplicate(s)
  BY <1>6 DEF SkipDuplicate, NextRecord
<1>7. CASE Increment(s)
  BY <1>7 DEF Increment, AddToCounter
<1>8. CASE ClassifySession(s)
  BY <1>8 DEF ClassifySession
<1>9. CASE FinishRecord(s)
  BY <1>9 DEF FinishRecord, NextRecord
<1>10. CASE Fail(s)
  <2>1. queue[s] # <<>>
    BY <1>10 DEF Fail, InvocationGood, InvocationAt
  <2>2. dlq \subseteq dlq' /\ \A t \in Shard \ {s} : queue'[t] = queue[t]
    BY <1>10, <2>1, BisectQueue, RetryQueue DEF Fail, Bisect, Retry, GiveUp
  <2>3. cut \subseteq cut' /\ cut' \subseteq cut \cup {Here(s)}
    BY <1>10 DEF Fail, Here
  <2> QED  BY <1>10, <2>2, <2>3 DEF Fail, EndInvocation
<1>11. CASE ClaimResent(s)
  BY <1>11 DEF ClaimResent, NextRecord
<1>12. CASE IncrementResent(s)
  BY <1>12 DEF IncrementResent, AddToCounter
<1> QED  BY <1>1, <1>2, <1>3, <1>4, <1>5, <1>6, <1>7, <1>8, <1>9, <1>10, <1>11, <1>12
         DEF ShardStep, Progress

\* The handler's and the mapping's steps, by what they do to the queue.
LEMMA QueueStep ==
    ASSUME TypeOK, InvocationGood, NEW s \in Shard, ShardStep(s)
    PROVE  /\ next' \in [Shard -> Nat \ {0}]
           /\ next'[s] <= Len(stream[s]) + 1 /\ next[s] <= next'[s]
           /\ DOMAIN queue' = Shard
           /\ queue'[s] \in Seq(Parts(next'[s] - 1))
           /\ dlq' \subseteq Published
<1>0. next \in [Shard -> Nat \ {0}] /\ next[s] <= Len(stream[s]) + 1 /\ dlq \subseteq Published
  BY DEF TypeOK
<1>1. CASE Poll(s)
  <2>1. dlq' = dlq
    BY <1>1 DEF Poll
  <2>2. /\ next' \in [Shard -> Nat \ {0}]
        /\ next[s] < next'[s] /\ next'[s] <= Len(stream[s]) + 1
        /\ DOMAIN queue' = Shard /\ queue'[s] \in Seq(Parts(next'[s] - 1))
    BY <1>1, PollQueue
  <2>3. next[s] <= next'[s]
    BY <1>0, <2>2
  <2> QED  BY <1>0, <2>1, <2>2, <2>3
<1>2. CASE FinishBatch(s)
  <2>1. queue[s] # <<>>
    BY <1>2 DEF FinishBatch, InvocationGood, InvocationAt
  <2>2. /\ queue' = [queue EXCEPT ![s] = Tail(@)]
        /\ next' = next /\ dlq' = dlq
    BY <1>2 DEF FinishBatch
  <2>3. DOMAIN queue' = Shard /\ queue'[s] \in Seq(Parts(next[s] - 1))
    BY <2>1, <2>2, TailQueue
  <2>4. next[s] <= next'[s]
    BY <1>0, <2>2
  <2> QED  BY <1>0, <2>2, <2>3, <2>4
<1>3. CASE Fail(s)
  <2>1. queue[s] # <<>>
    BY <1>3 DEF Fail, InvocationGood, InvocationAt
  <2>2. /\ DOMAIN queue' = Shard
        /\ queue'[s] \in Seq(Parts(next[s] - 1))
    BY <1>3, <2>1, BisectQueue, RetryQueue, TailQueue DEF Fail, GiveUp
  <2>3. \A i \in Current(s).lo..Current(s).hi : <<s, i>> \in Published
    <3>1. /\ Current(s).lo \in 1..(next[s] - 1) /\ Current(s).hi \in 1..(next[s] - 1)
          /\ Len(stream[s]) \in Nat
      BY <2>1, ShardTypes
    <3>2. \A i \in Current(s).lo..Current(s).hi : i \in 1..Len(stream[s])
      BY <3>1, <1>0
    <3> QED  BY <3>2, PublishedPlaces DEF TypeOK
  <2>4. dlq' \subseteq Published
    BY <1>3, <1>0, <2>3 DEF Fail, Bisect, Retry, GiveUp
  <2> QED  BY <1>0, <1>3, <2>2, <2>4 DEF Fail
<1>4. CASE UNCHANGED <<next, queue, dlq>>
  BY <1>0, <1>4 DEF TypeOK
<1>5. ASSUME \/ Invoke(s) \/ SkipRecord(s) \/ ClaimRecord(s) \/ SkipDuplicate(s)
             \/ Increment(s) \/ ClassifySession(s) \/ FinishRecord(s)
             \/ ClaimResent(s) \/ IncrementResent(s)
      PROVE  UNCHANGED <<next, queue, dlq>>
  BY <1>5 DEF Invoke, SkipRecord, ClaimRecord, SkipDuplicate, Increment, ClassifySession,
              FinishRecord, ClaimResent, IncrementResent, esmVars
<1> QED  BY <1>1, <1>2, <1>3, <1>4, <1>5 DEF ShardStep, Progress

\* What the handler's steps do to the counters.
LEMMA CountStep ==
    ASSUME TypeOK, InvocationGood, NEW s \in Shard, ShardStep(s)
    PROVE  \/ UNCHANGED <<by, extra>>
           \/ /\ todo[s] # <<>> /\ Head(todo[s]) \in Counter
              /\ by' = [by EXCEPT ![Head(todo[s])] = @ \cup {Here(s)}]
              /\ todo' = [todo EXCEPT ![s] = Tail(@)]
              /\ UNCHANGED <<claims, pc, at>>
              /\ \/ /\ resends' = resends
                    /\ extra' = [extra EXCEPT ![Head(todo[s])] =
                                    @ + (IF Here(s) \in by[Head(todo[s])] THEN 1 ELSE 0)]
                 \/ /\ resends' = resends + 1
                    /\ extra' = [extra EXCEPT ![Head(todo[s])] =
                                    @ + (IF Here(s) \in by[Head(todo[s])] THEN 2 ELSE 1)]
<1>1. CASE Increment(s)
  <2>1. todo[s] # <<>> /\ Head(todo[s]) \in Counter
    BY <1>1, AddGrows DEF Increment
  <2>2. AddToCounter(s, Head(todo[s]), 1) /\ UNCHANGED <<claims, pc, at, resends>>
    BY <1>1 DEF Increment
  <2> QED  BY <2>1, <2>2 DEF AddToCounter
<1>2. CASE IncrementResent(s)
  <2>1. todo[s] # <<>> /\ Head(todo[s]) \in Counter
    BY <1>2, AddGrows DEF IncrementResent
  <2>2. AddToCounter(s, Head(todo[s]), 2) /\ UNCHANGED <<claims, pc, at>>
        /\ resends' = resends + 1
    BY <1>2 DEF IncrementResent
  <2> QED  BY <2>1, <2>2 DEF AddToCounter
<1>3. ASSUME \/ Poll(s) \/ Invoke(s) \/ FinishBatch(s) \/ SkipRecord(s) \/ ClaimRecord(s)
             \/ SkipDuplicate(s) \/ ClassifySession(s) \/ FinishRecord(s)
             \/ Fail(s) \/ ClaimResent(s)
      PROVE  UNCHANGED <<by, extra>>
  BY <1>3 DEF Poll, Invoke, FinishBatch, SkipRecord, ClaimRecord, SkipDuplicate,
              ClassifySession, FinishRecord, Fail, ClaimResent, countVars
<1> QED  BY <1>1, <1>2, <1>3 DEF ShardStep, Progress

\* The memory of the invocation keeps its type.
LEMMA MemoryStep ==
    ASSUME TypeOK, InvocationGood, NEW s \in Shard, ShardStep(s)
    PROVE  /\ pc' \in [Shard -> {"idle", "record", "count", "technique"}]
           /\ at' \in [Shard -> Nat \ {0}]
           /\ todo' \in [Shard -> Seq(Counter)]
           /\ resends' \in 0..MaxResends
<1> USE DEF TypeOK, countVars, esmVars
<1>0. <<>> \in Seq(Counter) /\ at[s] + 1 \in Nat \ {0}
  OBVIOUS
<1>1. CASE Poll(s)
  BY <1>1 DEF Poll
<1>2. CASE Invoke(s)
  <2>1. Current(s).lo \in Nat \ {0}
    <3>1. Current(s).lo \in 1..(next[s] - 1)
      BY <1>2, ShardTypes DEF Invoke
    <3> QED  BY <3>1
  <2> QED  BY <1>2, <2>1 DEF Invoke
<1>3. CASE FinishBatch(s)
  BY <1>0, <1>3 DEF FinishBatch, EndInvocation
<1>4. CASE SkipRecord(s)
  BY <1>0, <1>4 DEF SkipRecord, NextRecord
<1>5. CASE ClaimRecord(s)
  <2>1. Here(s) \in Published
    BY <1>5, HereFacts DEF ClaimRecord, AtRecord
  <2>2. Rec(Here(s)) \in Record
    BY <2>1, PublishedPlaces
  <2>3. Fields[Rec(Here(s)).key][Rec(Here(s)).image] \in Seq(Counter \ Technique)
    BY <1>5, <2>2, AcceptedRecord DEF ClaimRecord
  <2>4. Fields[Rec(Here(s)).key][Rec(Here(s)).image] \in Seq(Counter)
    BY <2>3
  <2>5. /\ todo' = [todo EXCEPT ![s] = Fields[Rec(Here(s)).key][Rec(Here(s)).image]]
        /\ pc' = [pc EXCEPT ![s] = "count"]
        /\ UNCHANGED <<at, resends>>
    BY <1>5 DEF ClaimRecord
  <2> QED  BY <2>4, <2>5
<1>6. CASE SkipDuplicate(s)
  BY <1>0, <1>6 DEF SkipDuplicate, NextRecord
<1>7. ASSUME todo[s] # <<>>, todo' = [todo EXCEPT ![s] = Tail(@)], UNCHANGED <<pc, at>>,
             resends' \in 0..MaxResends
      PROVE  /\ pc' \in [Shard -> {"idle", "record", "count", "technique"}]
             /\ at' \in [Shard -> Nat \ {0}]
             /\ todo' \in [Shard -> Seq(Counter)]
             /\ resends' \in 0..MaxResends
  <2>1. Tail(todo[s]) \in Seq(Counter)
    BY <1>7, SeqElements
  <2> QED  BY <1>7, <2>1
<1>8. CASE Increment(s)
  BY <1>7, <1>8 DEF Increment, AddToCounter
<1>9. CASE IncrementResent(s)
  <2>1. resends' \in 0..MaxResends
    BY <1>9, LimitAssumption DEF IncrementResent
  <2> QED  BY <1>7, <1>9, <2>1 DEF IncrementResent, AddToCounter
<1>10. CASE ClassifySession(s)
  <2>1. PICK view \in SUBSET Event : todo' = [todo EXCEPT ![s] = <<TechniqueOf[view]>>]
    BY <1>10 DEF ClassifySession
  <2>2. <<TechniqueOf[view]>> \in Seq(Counter)
    BY KeyAssumption
  <2>3. pc' = [pc EXCEPT ![s] = "technique"] /\ UNCHANGED <<at, resends>>
    BY <1>10 DEF ClassifySession
  <2> QED  BY <2>1, <2>2, <2>3
<1>11. CASE FinishRecord(s)
  BY <1>0, <1>11 DEF FinishRecord, NextRecord
<1>12. CASE Fail(s)
  BY <1>0, <1>12 DEF Fail, EndInvocation
<1>13. CASE ClaimResent(s)
  <2>1. resends' \in 0..MaxResends
    BY <1>13, LimitAssumption DEF ClaimResent
  <2> QED  BY <1>0, <1>13, <2>1 DEF ClaimResent, NextRecord
<1> QED  BY <1>1, <1>2, <1>3, <1>4, <1>5, <1>6, <1>8, <1>9, <1>10, <1>11, <1>12, <1>13
         DEF ShardStep, Progress

\* Only the record an invocation is at is claimed, cut or counted.
LEMMA HereOnly ==
    ASSUME TypeOK, InvocationGood, NEW s \in Shard, ShardStep(s), Here(s) \notin Published
    PROVE  UNCHANGED <<claims, by, cut>>
<1>1. pc[s] \notin Counting /\ ~(AtRecord(s) /\ pc[s] = "record")
  BY HereFacts
<1>2. todo[s] = <<>> /\ ~AtRecord(s)
  BY <1>1 DEF InvocationGood, InvocationAt, AtRecord
<1> QED  BY <1>1, <1>2
         DEF ShardStep, Progress, Poll, Invoke, FinishBatch, SkipRecord, ClaimRecord,
             SkipDuplicate, Increment, IncrementResent, ClassifySession, FinishRecord, Fail,
             ClaimResent, countVars, Counting, TypeOK

LEMMA StepType ==
    ASSUME TypeOK, InvocationGood, Grows, NEW s \in Shard, ShardStep(s)
    PROVE  TypeOK'
<1>1. Published \subseteq Published'
  BY GrowsKeeps DEF TypeOK
<1>2. /\ claims' \subseteq Published /\ cut' \subseteq Published
      /\ \A c \in Counter : by'[c] \subseteq Published
  <2>1. /\ claims \subseteq Published /\ cut \subseteq Published
        /\ \A c \in Counter : by[c] \subseteq Published
    BY DEF TypeOK
  <2>2. CASE Here(s) \in Published
    BY <2>1, <2>2, StepFrame
  <2>3. CASE Here(s) \notin Published
    BY <2>1, <2>3, HereOnly
  <2> QED  BY <2>2, <2>3
<1>3. by' = [c \in Counter |-> by'[c]]
  <2>1. by = [c \in Counter |-> by[c]]
    BY DEF TypeOK
  <2>2. CASE UNCHANGED by
    BY <2>1, <2>2
  <2>3. ASSUME NEW c \in Counter, by' = [by EXCEPT ![c] = @ \cup {Here(s)}]
        PROVE  by' = [d \in Counter |-> by'[d]]
    BY <2>1, <2>3
  <2>4. by' = by \/ \E c \in Counter : by' = [by EXCEPT ![c] = @ \cup {Here(s)}]
    BY CountStep
  <2> QED  BY <2>2, <2>3, <2>4
<1>4. extra' \in [Counter -> Nat]
  <2>1. extra \in [Counter -> Nat]
    BY DEF TypeOK
  <2>2. ASSUME NEW c \in Counter, NEW n \in {0, 1, 2}, extra' = [extra EXCEPT ![c] = @ + n]
        PROVE  extra' \in [Counter -> Nat]
    BY <2>1, <2>2
  <2>3. \/ extra' = extra
        \/ \E c \in Counter, n \in {0, 1, 2} : extra' = [extra EXCEPT ![c] = @ + n]
    BY CountStep
  <2> QED  BY <2>1, <2>2, <2>3
<1>5. \A t \in Shard : next'[t] <= Len(stream'[t]) + 1
  <2> TAKE t \in Shard
  <2>1. /\ stream[t] \in Seq(Record) /\ stream'[t] \in Seq(Record)
        /\ Len(stream[t]) <= Len(stream'[t])
    BY DEF Grows, TypeOK
  <2>2. Len(stream[t]) \in Nat /\ Len(stream'[t]) \in Nat
    BY <2>1
  <2>3. next'[t] \in Nat /\ next'[t] <= Len(stream[t]) + 1
    <3>1. CASE t = s
      BY <3>1, QueueStep
    <3>2. CASE t # s
      <4>1. next'[t] = next[t]
        BY <3>2, StepFrame
      <4> QED  BY <4>1, ShardTypes
    <3> QED  BY <3>1, <3>2
  <2> QED  BY <2>1, <2>2, <2>3
<1>6. \A t \in Shard : queue'[t] \in Seq(Parts(next'[t] - 1))
  <2> TAKE t \in Shard
  <2>1. CASE t = s
    BY <2>1, QueueStep
  <2>2. CASE t # s
    <3>1. next'[t] = next[t] /\ queue'[t] = queue[t]
      BY <2>2, StepFrame
    <3> QED  BY <3>1, ShardTypes
  <2> QED  BY <2>1, <2>2
<1>7. table' \in [Event -> Image \cup {"absent"}]
  BY StepFrame DEF TypeOK
<1> QED  BY <1>1, <1>2, <1>3, <1>4, <1>5, <1>6, <1>7, QueueStep, MemoryStep DEF TypeOK, Grows

-----------------------------------------------------------------------------
(* Invocations *)

LEMMA StepInvocation ==
    ASSUME TypeOK, InvocationGood, Grows, NEW s \in Shard, ShardStep(s)
    PROVE  InvocationGood'
<1>1. ASSUME NEW t \in Shard, t # s PROVE InvocationAt(t)'
  <2>1. /\ pc'[t] = pc[t] /\ at'[t] = at[t] /\ todo'[t] = todo[t]
        /\ queue'[t] = queue[t] /\ claims \subseteq claims'
    BY <1>1, StepFrame
  <2> QED  BY <2>1 DEF InvocationGood, InvocationAt, Current, Here
<1>2. InvocationAt(s)'
  <2>0. InvocationAt(s)
    BY DEF InvocationGood
  <2>i. ASSUME pc'[s] = "idle", todo'[s] = <<>> PROVE InvocationAt(s)'
    BY <2>i DEF InvocationAt, Counting
  <2>r. ASSUME pc'[s] = "record", todo'[s] = <<>>, queue'[s] = queue[s], queue[s] # <<>>,
               Current(s).lo <= at'[s], at'[s] <= Current(s).hi + 1
        PROVE  InvocationAt(s)'
    BY <2>r DEF InvocationAt, Counting, Current
  <2>c. ASSUME pc'[s] \in Counting, at'[s] = at[s], queue'[s] = queue[s], queue[s] # <<>>,
               Current(s).lo <= at[s], at[s] <= Current(s).hi, Here(s) \in claims'
        PROVE  InvocationAt(s)'
    <3>1. at[s] <= Current(s).hi + 1
      BY <2>c, ShardTypes
    <3> QED  BY <2>c, <3>1 DEF InvocationAt, Counting, Current, Here
  <2>n. ASSUME queue[s] # <<>>, Current(s).lo <= at[s], at[s] <= Current(s).hi
        PROVE  Current(s).lo <= at[s] + 1 /\ at[s] + 1 <= Current(s).hi + 1
    BY <2>n, ShardTypes
  <2>1. CASE Poll(s)
    BY <2>0, <2>i, <2>1 DEF Poll, InvocationAt, Counting, TypeOK
  <2>2. CASE Invoke(s)
    <3>1. /\ queue[s] # <<>> /\ pc[s] = "idle" /\ pc'[s] = "record"
          /\ at'[s] = Current(s).lo /\ queue' = queue /\ todo' = todo
      BY <2>2 DEF Invoke, esmVars, TypeOK
    <3>2. Current(s).lo <= Current(s).lo /\ Current(s).lo <= Current(s).hi + 1
      BY <3>1, ShardTypes
    <3>3. todo[s] = <<>>
      BY <2>0, <3>1 DEF InvocationAt, Counting
    <3> QED  BY <2>r, <3>1, <3>2, <3>3
  <2>3. CASE FinishBatch(s) \/ Fail(s)
    BY <2>i, <2>3 DEF FinishBatch, Fail, EndInvocation, TypeOK
  <2>4. CASE SkipRecord(s) \/ SkipDuplicate(s) \/ ClaimResent(s)
    <3>1. AtRecord(s) /\ pc[s] = "record"
      BY <2>4 DEF SkipRecord, SkipDuplicate, ClaimResent, AtRecord
    <3>2. queue[s] # <<>> /\ Current(s).lo <= at[s] /\ at[s] <= Current(s).hi /\ todo[s] = <<>>
      BY <2>0, <3>1 DEF InvocationAt, AtRecord, Counting
    <3>3. pc'[s] = "record" /\ at'[s] = at[s] + 1 /\ queue' = queue /\ todo' = todo
      BY <2>4 DEF SkipRecord, SkipDuplicate, ClaimResent, NextRecord, TypeOK, esmVars
    <3> QED  BY <2>r, <2>n, <3>2, <3>3
  <2>5. CASE ClaimRecord(s)
    <3>1. queue[s] # <<>> /\ Current(s).lo <= at[s] /\ at[s] <= Current(s).hi
      BY <2>0, <2>5 DEF InvocationAt, ClaimRecord, AtRecord
    <3>2. /\ pc'[s] \in Counting /\ at' = at /\ queue' = queue /\ Here(s) \in claims'
      BY <2>5 DEF ClaimRecord, TypeOK, esmVars, Counting
    <3> QED  BY <2>c, <3>1, <3>2
  <2>6. CASE Increment(s) \/ IncrementResent(s)
    <3>1. /\ pc[s] \in Counting /\ queue[s] # <<>>
          /\ Current(s).lo <= at[s] /\ at[s] <= Current(s).hi /\ Here(s) \in claims
      BY <2>0, <2>6, TodoCounting DEF InvocationAt, Increment, IncrementResent, Counting
    <3>2. pc' = pc /\ at' = at /\ queue' = queue /\ claims' = claims
      BY <2>6 DEF Increment, IncrementResent, esmVars
    <3> QED  BY <2>c, <3>1, <3>2
  <2>7. CASE ClassifySession(s)
    <3>1. /\ pc[s] \in Counting /\ queue[s] # <<>>
          /\ Current(s).lo <= at[s] /\ at[s] <= Current(s).hi /\ Here(s) \in claims
      BY <2>0, <2>7 DEF InvocationAt, ClassifySession, Counting
    <3>2. pc'[s] \in Counting /\ at' = at /\ queue' = queue /\ claims' = claims
      BY <2>7 DEF ClassifySession, esmVars, countVars, Counting, TypeOK
    <3> QED  BY <2>c, <3>1, <3>2
  <2>8. CASE FinishRecord(s)
    <3>1. /\ queue[s] # <<>> /\ Current(s).lo <= at[s] /\ at[s] <= Current(s).hi
          /\ todo[s] = <<>>
      BY <2>0, <2>8 DEF InvocationAt, FinishRecord, Counting
    <3>2. pc'[s] = "record" /\ at'[s] = at[s] + 1 /\ queue' = queue /\ todo' = todo
      BY <2>8 DEF FinishRecord, NextRecord, TypeOK, esmVars
    <3> QED  BY <2>r, <2>n, <3>1, <3>2
  <2> QED  BY <2>1, <2>2, <2>3, <2>4, <2>5, <2>6, <2>7, <2>8 DEF ShardStep, Progress
<1> QED  BY <1>1, <1>2 DEF InvocationGood

-----------------------------------------------------------------------------
(* Counting *)

\* What is still to do after an increment.
LEMMA RestOfTodo ==
    ASSUME NEW S, NEW q \in Seq(S), q # <<>>,
           \A i, j \in DOMAIN q : q[i] = q[j] => i = j
    PROVE  /\ Tail(q) \in Seq(S) /\ Head(q) \in S
           /\ \A i, j \in DOMAIN Tail(q) : Tail(q)[i] = Tail(q)[j] => i = j
           /\ \A i \in DOMAIN Tail(q) : /\ Tail(q)[i] # Head(q)
                                      /\ \E k \in DOMAIN q : q[k] = Tail(q)[i]
           /\ \A k \in DOMAIN q : q[k] = Head(q) \/ \E i \in DOMAIN Tail(q) : Tail(q)[i] = q[k]
<1>1. /\ DOMAIN q = 1..Len(q) /\ Len(q) \in Nat /\ Len(q) >= 1
      /\ Head(q) = q[1] /\ Head(q) \in S /\ Tail(q) \in Seq(S)
      /\ Len(Tail(q)) = Len(q) - 1
      /\ \A i \in 1..Len(Tail(q)) : Tail(q)[i] = q[i + 1]
  BY SeqElements
<1>2. DOMAIN Tail(q) = 1..(Len(q) - 1)
  BY <1>1, SeqElements
<1>3. \A i \in DOMAIN Tail(q) : i + 1 \in DOMAIN q /\ i + 1 # 1 /\ Tail(q)[i] = q[i + 1]
  BY <1>1, <1>2
<1>4. \A k \in DOMAIN q : k = 1 \/ (k - 1 \in DOMAIN Tail(q) /\ Tail(q)[k - 1] = q[k])
  <2> TAKE k \in DOMAIN q
  <2>1. CASE k # 1
    <3>1. k - 1 \in 1..(Len(q) - 1) /\ (k - 1) + 1 = k
      BY <2>1, <1>1
    <3> QED  BY <3>1, <1>2, <1>3
  <2> QED  BY <2>1
<1>5. ASSUME NEW i \in DOMAIN Tail(q), NEW j \in DOMAIN Tail(q), Tail(q)[i] = Tail(q)[j]
      PROVE  i = j
  <2>1. i + 1 = j + 1
    BY <1>3, <1>5
  <2> QED  BY <1>2, <2>1
<1>6. 1 \in DOMAIN q
  BY <1>1
<1>7. \A i \in DOMAIN Tail(q) : Tail(q)[i] # Head(q) /\ \E k \in DOMAIN q : q[k] = Tail(q)[i]
  BY <1>1, <1>3, <1>6
<1>8. \A k \in DOMAIN q : q[k] = Head(q) \/ \E i \in DOMAIN Tail(q) : Tail(q)[i] = q[k]
  BY <1>1, <1>4
<1> QED  BY <1>1, <1>5, <1>7, <1>8

LEMMA StepTodo ==
    ASSUME TypeOK, InvocationGood, TodoGood, CountsClaimed, NEW s \in Shard, ShardStep(s)
    PROVE  TodoGood'
<1>1. ASSUME NEW t \in Shard, t # s PROVE TodoAt(t)'
  <2>1. pc'[t] = pc[t] /\ at'[t] = at[t] /\ todo'[t] = todo[t] /\ TodoAt(t)
    BY <1>1, StepFrame DEF TodoGood
  <2>2. \A c \in Counter : Counted(Here(t), c)' => Counted(Here(t), c)
    <3>1. Here(t) # Here(s) /\ Here(t)' = Here(t)
      BY <1>1, <2>1 DEF Here
    <3> QED  BY <3>1, StepFrame DEF Counted
  <2>3. todo[t] \in Seq(Counter) /\ \A i \in DOMAIN todo[t] : todo[t][i] \in Counter
    BY ShardTypes, SeqElements
  <2>4. ASSUME pc[t] \in Counting
        PROVE  \A i \in DOMAIN todo[t] : ~Counted(Here(t), todo[t][i])'
    <3> TAKE i \in DOMAIN todo[t]
    <3>1. ~Counted(Here(t), todo[t][i]) /\ todo[t][i] \in Counter
      BY <2>1, <2>3, <2>4 DEF TodoAt
    <3>2. ~(Here(t)' \in by'[todo[t][i]])
      BY <2>2, <3>1 DEF Counted
    <3> QED  BY <2>1, <3>2 DEF Counted
  <2>5. pc[t] = "count" => \A c \in Technique : ~Counted(Here(t), c)'
    BY <2>1, <2>2, KeyAssumption DEF TodoAt, Counting
  <2> QED  BY <2>1, <2>4, <2>5 DEF TodoAt, Counted
<1>2. TodoAt(s)'
  <2>0. TodoAt(s) /\ CountsClaimed
    BY DEF TodoGood
  <2>1. CASE Invoke(s) \/ FinishBatch(s) \/ Fail(s) \/ SkipRecord(s) \/ SkipDuplicate(s)
             \/ FinishRecord(s) \/ ClaimResent(s)
    <3>1. pc'[s] \notin Counting
      BY <2>1 DEF Invoke, FinishBatch, Fail, SkipRecord, SkipDuplicate, FinishRecord,
                  ClaimResent, NextRecord, EndInvocation, TypeOK, Counting
    <3> QED  BY <3>1 DEF TodoAt
  <2>2. CASE Poll(s)
    BY <2>0, <2>2 DEF Poll, TodoAt, Counted, Here, countVars
  <2>3. CASE ClaimRecord(s)
    <3> DEFINE fields == Fields[Rec(Here(s)).key][Rec(Here(s)).image]
    <3>1. /\ pc'[s] = "count" /\ todo'[s] = fields /\ by' = by /\ at' = at
          /\ Here(s) \notin claims /\ Accepts(Rec(Here(s)))
      BY <2>3 DEF ClaimRecord, TypeOK
    <3>2. Rec(Here(s)) \in Record
      BY <2>3, HereFacts, PublishedPlaces DEF ClaimRecord, AtRecord, TypeOK
    <3>3. /\ Rec(Here(s)).key \in Event /\ Rec(Here(s)).image \in Image
          /\ fields \in Seq(Counter \ Technique)
      BY <3>1, <3>2, AcceptedRecord
    <3>4. \A i, j \in DOMAIN fields : fields[i] = fields[j] => i = j
      BY <3>3, FieldsAssumption
    <3>5. \A c \in Counter : ~Counted(Here(s), c)'
      BY <2>0, <3>1 DEF CountsClaimed, Counted, Here
    <3>6. \A i \in DOMAIN fields : fields[i] \in Counter
      BY <3>3, SeqElements
    <3> HIDE DEF fields
    <3>7. Here(s)' = Here(s)
      BY <3>1 DEF Here
    <3> QED  BY <3>1, <3>3, <3>4, <3>5, <3>6, <3>7, KeyAssumption DEF TodoAt, Counted
  <2>4. CASE Increment(s) \/ IncrementResent(s)
    <3> DEFINE c == Head(todo[s])
    <3>1. /\ todo[s] # <<>> /\ c \in Counter /\ pc' = pc /\ at' = at
          /\ by' = [by EXCEPT ![c] = @ \cup {Here(s)}]
          /\ todo'[s] = Tail(todo[s])
      BY <2>4, ShardTypes, SeqElements DEF Increment, IncrementResent, AddToCounter, TypeOK
    <3>2. pc[s] \in Counting
      BY <3>1, TodoCounting
    <3>3. \A d \in Counter \ {c} : by'[d] = by[d]
      BY <3>1 DEF TypeOK
    <3>4. todo[s] \in Seq(Counter) /\ \A i, j \in DOMAIN todo[s] : todo[s][i] = todo[s][j] => i = j
      BY <2>0, <3>2, ShardTypes DEF TodoAt
    <3>5. /\ \A i, j \in DOMAIN Tail(todo[s]) : Tail(todo[s])[i] = Tail(todo[s])[j] => i = j
          /\ \A i \in DOMAIN Tail(todo[s]) :
                /\ Tail(todo[s])[i] # c
                /\ \E k \in DOMAIN todo[s] : todo[s][k] = Tail(todo[s])[i]
      BY <3>1, <3>4, RestOfTodo
    <3>6. \A i \in DOMAIN todo[s] : todo[s][i] \in Counter
      BY <3>4, SeqElements
    <3>7. \A i \in DOMAIN Tail(todo[s]) : Here(s) \notin by'[Tail(todo[s])[i]]
      <4> TAKE i \in DOMAIN Tail(todo[s])
      <4>1. PICK k \in DOMAIN todo[s] : todo[s][k] = Tail(todo[s])[i]
        BY <3>5
      <4>2. ~Counted(Here(s), todo[s][k])
        BY <2>0, <3>2 DEF TodoAt
      <4>3. todo[s][k] \in Counter \ {c}
        BY <4>1, <3>5, <3>6
      <4> QED  BY <4>1, <4>2, <4>3, <3>3 DEF Counted
    <3>8. ASSUME pc[s] = "count"
          PROVE  /\ Tail(todo[s]) \in Seq(Counter \ Technique)
                 /\ \A d \in Technique : Here(s) \notin by'[d]
      <4>1. todo[s] \in Seq(Counter \ Technique) /\ \A d \in Technique : ~Counted(Here(s), d)
        BY <2>0, <3>8 DEF TodoAt, Counting
      <4>2. Tail(todo[s]) \in Seq(Counter \ Technique) /\ c \in Counter \ Technique
        BY <3>1, <3>4, <4>1, RestOfTodo
      <4>3. \A d \in Technique : d \in Counter \ {c}
        BY <4>2, KeyAssumption
      <4> QED  BY <4>1, <4>2, <4>3, <3>3 DEF Counted
    <3>9. ASSUME pc[s] = "technique" PROVE Tail(todo[s]) \in Seq(Technique)
      <4>1. todo[s] \in Seq(Technique)
        BY <2>0, <3>9 DEF TodoAt, Counting
      <4> QED  BY <3>1, <3>4, <4>1, RestOfTodo
    <3>10. Here(s)' = Here(s)
      BY <3>1 DEF Here
    <3> HIDE DEF c
    <3>11. \A i \in DOMAIN todo'[s] : ~Counted(Here(s), todo[s][i])'
      BY <3>1, <3>7, <3>10 DEF Counted
    <3>12. pc[s] = "count" => \A d \in Technique : ~Counted(Here(s), d)'
      BY <3>8, <3>10 DEF Counted
    <3> QED  BY <3>1, <3>5, <3>8, <3>9, <3>11, <3>12 DEF TodoAt
  <2>5. CASE ClassifySession(s)
    <3>1. PICK view \in SUBSET Event : todo' = [todo EXCEPT ![s] = <<TechniqueOf[view]>>]
      BY <2>5 DEF ClassifySession
    <3>2. /\ pc[s] = "count" /\ pc'[s] = "technique" /\ by' = by /\ at' = at
          /\ todo'[s] = <<TechniqueOf[view]>>
      BY <2>5, <3>1 DEF ClassifySession, countVars, TypeOK
    <3>3. TechniqueOf[view] \in Technique
      BY KeyAssumption
    <3>4. ~Counted(Here(s), TechniqueOf[view])
      BY <2>0, <3>2, <3>3 DEF TodoAt, Counting
    <3>5. /\ <<TechniqueOf[view]>> \in Seq(Technique)
          /\ DOMAIN <<TechniqueOf[view]>> = {1}
          /\ <<TechniqueOf[view]>>[1] = TechniqueOf[view]
      BY <3>3
    <3>6. \A i \in DOMAIN todo'[s] : ~Counted(Here(s), todo[s][i])'
      BY <3>2, <3>4, <3>5 DEF Counted, Here
    <3>7. \A i, j \in DOMAIN todo'[s] : todo'[s][i] = todo'[s][j] => i = j
      BY <3>2, <3>5
    <3>8. pc'[s] = "technique" /\ todo'[s] \in Seq(Technique)
      BY <3>2, <3>5
    <3> QED  BY <3>6, <3>7, <3>8 DEF TodoAt
  <2> QED  BY <2>1, <2>2, <2>3, <2>4, <2>5 DEF ShardStep, Progress
<1> QED  BY <1>1, <1>2 DEF TodoGood

\* Only claimed records are counted, and none twice but by a resend.
LEMMA StepCounts ==
    ASSUME TypeOK, InvocationGood, TodoGood, CountsClaimed, CountedAtMostOnce,
           NEW s \in Shard, ShardStep(s)
    PROVE  CountsClaimed' /\ CountedAtMostOnce'
<1>0. /\ claims \subseteq claims'
      /\ extra \in [Counter -> Nat] /\ resends \in Nat /\ resends' \in Nat /\ resends <= resends'
  <2>1. resends' = resends \/ resends' = resends + 1
    BY DEF ShardStep, Progress, Poll, Invoke, FinishBatch, SkipRecord, ClaimRecord, SkipDuplicate,
           Increment, ClassifySession, FinishRecord, Fail, ClaimResent, IncrementResent
  <2>2. resends \in Nat
    BY LimitAssumption DEF TypeOK
  <2> QED  BY <2>1, <2>2, StepFrame DEF TypeOK
<1>1. CASE UNCHANGED <<by, extra>>
  BY <1>0, <1>1 DEF CountsClaimed, CountedAtMostOnce, TypeOK
<1>2. CASE ~UNCHANGED <<by, extra>>
  <2> DEFINE c == Head(todo[s])
  <2>1. /\ todo[s] # <<>> /\ c \in Counter /\ claims' = claims
        /\ by' = [by EXCEPT ![c] = @ \cup {Here(s)}]
        /\ \/ resends' = resends /\ extra' = [extra EXCEPT ![c] =
                                        @ + (IF Here(s) \in by[c] THEN 1 ELSE 0)]
           \/ resends' = resends + 1 /\ extra' = [extra EXCEPT ![c] =
                                        @ + (IF Here(s) \in by[c] THEN 2 ELSE 1)]
    BY <1>2, CountStep
  <2>2. pc[s] \in Counting /\ Here(s) \in claims
    BY <2>1, TodoCounting DEF InvocationGood, InvocationAt
  <2>3. Here(s) \notin by[c]
    <3>1. 1 \in DOMAIN todo[s] /\ todo[s][1] = c
      BY <2>1, ShardTypes, SeqElements
    <3> QED  BY <2>2, <3>1 DEF TodoGood, TodoAt, Counted
  <2>4. CountsClaimed'
    BY <2>1, <2>2 DEF CountsClaimed, TypeOK
  <2>5. CountedAtMostOnce'
    <3> SUFFICES ASSUME NEW d \in Counter PROVE extra'[d] <= resends'
      BY DEF CountedAtMostOnce
    <3>1. extra[d] \in Nat /\ extra[d] <= resends
      BY <1>0 DEF CountedAtMostOnce
    <3>2. extra'[d] = extra[d] \/ (resends' = resends + 1 /\ extra'[d] = extra[d] + 1)
          \/ extra'[d] = extra[d] + 0
      BY <1>0, <2>1, <2>3
    <3> QED  BY <1>0, <3>1, <3>2
  <2> QED  BY <2>4, <2>5
<1> QED  BY <1>1, <1>2

-----------------------------------------------------------------------------
(* What a sentinel stands for *)

\* The fields of an accepted record name counters.
LEMMA FieldCounters ==
    ASSUME TypeOK, NEW r \in Published, Accepts(Rec(r))
    PROVE  \A i \in DOMAIN Fields[Rec(r).key][Rec(r).image] :
              Fields[Rec(r).key][Rec(r).image][i] \in Counter
<1>1. Rec(r) \in Record
  BY PublishedPlaces DEF TypeOK
<1>2. Fields[Rec(r).key][Rec(r).image] \in Seq(Counter \ Technique)
  BY <1>1, AcceptedRecord
<1> QED  BY <1>2, SeqElements

\* A record in progress on a shard stays so while its invocation stays put.
LEMMA StaysInProgress ==
    ASSUME TypeOK, Grows, NEW r \in Published, Accepts(Rec(r)), InProgress(r),
           pc'[r[1]] = pc[r[1]], at'[r[1]] = at[r[1]], todo'[r[1]] = todo[r[1]],
           \A c \in Counter : by[c] \subseteq by'[c]
    PROVE  InProgress(r)'
<1>1. Rec(r)' = Rec(r)
  BY GrowsKeeps DEF TypeOK
<1>2. \A i \in DOMAIN Fields[Rec(r).key][Rec(r).image] :
          Fields[Rec(r).key][Rec(r).image][i] \in Counter
  BY FieldCounters
<1>3. Here(r[1])' = Here(r[1])
  BY DEF Here
<1> QED  BY <1>1, <1>2, <1>3, KeyAssumption DEF InProgress, Counted

\* A record that is in all its counters stays there.
LEMMA StaysCounted ==
    ASSUME TypeOK, Grows, NEW r \in Published, Accepts(Rec(r)), FullyCounted(r),
           \A c \in Counter : by[c] \subseteq by'[c]
    PROVE  FullyCounted(r)'
<1>1. Rec(r)' = Rec(r)
  BY GrowsKeeps DEF TypeOK
<1>2. \A i \in DOMAIN Fields[Rec(r).key][Rec(r).image] :
          Fields[Rec(r).key][Rec(r).image][i] \in Counter
  BY FieldCounters
<1> QED  BY <1>1, <1>2, KeyAssumption DEF FullyCounted, Counted

\* A record in progress, at the step of its own invocation.
LEMMA StepHere ==
    ASSUME TypeOK, InvocationGood, TodoGood, Grows, NEW s \in Shard, ShardStep(s),
           NEW r \in Published, r = Here(s), Accepts(Rec(r)), InProgress(r)
    PROVE  FullyCounted(r)' \/ InProgress(r)' \/ r \in cut'
<1> DEFINE fields == Fields[Rec(r).key][Rec(r).image]
<1>1. /\ Rec(r)' = Rec(r) /\ r[1] = s /\ pc[s] \in Counting
      /\ \A c \in Counter : by[c] \subseteq by'[c]
  BY GrowsKeeps, StepFrame DEF TypeOK, InProgress, Here
<1>2. \A i \in DOMAIN fields : fields[i] \in Counter
  BY FieldCounters
<1>3. \A i \in DOMAIN fields :
         Counted(r, fields[i]) \/ (pc[s] = "count" /\ \E j \in DOMAIN todo[s] : todo[s][j] = fields[i])
  BY <1>1 DEF InProgress
<1>4. pc[s] = "technique" => todo[s] # <<>> \/ \E c \in Technique : Counted(r, c)
  BY <1>1 DEF InProgress
<1>5. queue[s] # <<>>
  BY <1>1 DEF InvocationGood, InvocationAt, Counting
<1> HIDE DEF fields
<1>6. todo[s] \in Seq(Counter)
  BY ShardTypes
<1>7. CASE Increment(s) \/ IncrementResent(s)
  <2>1. PICK c \in Counter : /\ todo[s] # <<>> /\ c = Head(todo[s])
                             /\ by' = [by EXCEPT ![c] = @ \cup {Here(s)}]
                             /\ todo'[s] = Tail(todo[s])
                             /\ pc' = pc /\ at' = at
    BY <1>6, <1>7, SeqElements DEF Increment, IncrementResent, AddToCounter, TypeOK
  <2>2. \A i, j \in DOMAIN todo[s] : todo[s][i] = todo[s][j] => i = j
    BY <1>1 DEF TodoGood, TodoAt
  <2>3. \A k \in DOMAIN todo[s] : todo[s][k] = c \/ \E i \in DOMAIN todo'[s] : todo'[s][i] = todo[s][k]
    BY <1>6, <2>1, <2>2, RestOfTodo
  <2>4. r \in by'[c]
    BY <2>1 DEF TypeOK
  <2>5. ASSUME NEW i \in DOMAIN fields
        PROVE  r \in by'[fields[i]] \/ (pc[s] = "count" /\ \E j \in DOMAIN todo'[s] : todo'[s][j] = fields[i])
    <3>1. CASE Counted(r, fields[i])
      BY <1>1, <1>2, <3>1 DEF Counted
    <3>2. CASE pc[s] = "count" /\ \E j \in DOMAIN todo[s] : todo[s][j] = fields[i]
      BY <2>3, <2>4, <3>2
    <3> QED  BY <1>3, <3>1, <3>2
  <2>6. pc[s] = "technique" => c \in Technique
    <3> SUFFICES ASSUME pc[s] = "technique" PROVE c \in Technique
      OBVIOUS
    <3>1. todo[s] \in Seq(Technique)
      BY <1>1 DEF TodoGood, TodoAt
    <3> QED  BY <2>1, <3>1, SeqElements
  <2>7. r = Here(s)'
    BY <2>1 DEF Here
  <2>8. pc[s] = "technique" => \E d \in Technique : r \in by'[d]
    BY <2>4, <2>6
  <2>9. InProgress(r)'
    BY <1>1, <2>1, <2>5, <2>7, <2>8 DEF InProgress, Counted, fields
  <2> QED  BY <2>9
<1>8. CASE ClassifySession(s)
  <2>1. PICK view \in SUBSET Event : todo' = [todo EXCEPT ![s] = <<TechniqueOf[view]>>]
    BY <1>8 DEF ClassifySession
  <2>2. /\ pc[s] = "count" /\ pc'[s] = "technique" /\ by' = by /\ at' = at
        /\ todo[s] = <<>> /\ todo'[s] # <<>>
    BY <1>8, <2>1 DEF ClassifySession, countVars, TypeOK
  <2>3. \A i \in DOMAIN fields : r \in by'[fields[i]]
    BY <1>3, <2>2 DEF Counted
  <2>4. r = Here(s)'
    BY <2>2 DEF Here
  <2>5. InProgress(r)'
    BY <1>1, <2>2, <2>3, <2>4 DEF InProgress, Counted, Counting, fields
  <2> QED  BY <2>5
<1>9. CASE FinishRecord(s)
  <2>1. by' = by /\ todo[s] = <<>> /\ (Rec(r).key \notin Closed \/ pc[s] = "technique")
    BY <1>9 DEF FinishRecord, countVars
  <2>2. \A i \in DOMAIN fields : r \in by'[fields[i]]
    BY <1>3, <2>1 DEF Counted
  <2>3. Rec(r).key \in Closed => \E c \in Technique : r \in by'[c]
    BY <1>4, <2>1 DEF Counted
  <2> QED  BY <1>1, <2>2, <2>3 DEF FullyCounted, Counted, fields
<1>10. CASE Fail(s)
  BY <1>1, <1>10 DEF Fail, Counting, Here
<1>11. ~(Poll(s) \/ Invoke(s) \/ FinishBatch(s) \/ SkipRecord(s) \/ ClaimRecord(s)
         \/ SkipDuplicate(s) \/ ClaimResent(s))
  BY <1>1, <1>5 DEF Poll, Invoke, FinishBatch, SkipRecord, ClaimRecord, SkipDuplicate,
                    ClaimResent, AtRecord, Counting
<1> QED  BY <1>7, <1>8, <1>9, <1>10, <1>11 DEF ShardStep, Progress

\* A sentinel that a step puts.
LEMMA StepNewClaim ==
    ASSUME TypeOK, InvocationGood, Grows, NEW s \in Shard, ShardStep(s),
           NEW r \in claims', r \notin claims
    PROVE  r \in Published /\ Accepts(Rec(r)) /\ (InProgress(r)' \/ r \in cut')
<1>1. r = Here(s)
  BY StepFrame
<1>2. ClaimRecord(s) \/ ClaimResent(s)
  BY DEF ShardStep, Progress, Poll, Invoke, FinishBatch, SkipRecord, SkipDuplicate, Increment,
         IncrementResent, ClassifySession, FinishRecord, Fail, AddToCounter, countVars
<1>3. r \in Published /\ Accepts(Rec(r)) /\ r[1] = s
  BY <1>1, <1>2, HereFacts DEF ClaimRecord, ClaimResent, AtRecord
<1>4. Rec(r)' = Rec(r)
  BY <1>3, GrowsKeeps DEF TypeOK
<1>5. CASE ClaimRecord(s)
  <2>1. /\ pc'[s] = "count" /\ at' = at
        /\ todo'[s] = Fields[Rec(r).key][Rec(r).image]
    BY <1>1, <1>5 DEF ClaimRecord, TypeOK
  <2>2. r = Here(s)'
    BY <1>1, <2>1 DEF Here
  <2> QED  BY <1>3, <1>4, <2>1, <2>2 DEF InProgress, Counting
<1>6. CASE ClaimResent(s)
  BY <1>1, <1>3, <1>6 DEF ClaimResent
<1> QED  BY <1>2, <1>3, <1>5, <1>6

LEMMA StepClaims ==
    ASSUME TypeOK, InvocationGood, TodoGood, ClaimsGood, Grows, NEW s \in Shard, ShardStep(s)
    PROVE  ClaimsGood'
<1> SUFFICES ASSUME NEW r \in claims'
             PROVE  Accepts(Rec(r)') /\ (FullyCounted(r)' \/ InProgress(r)' \/ r \in cut')
  BY DEF ClaimsGood
<1>1. CASE r \notin claims
  <2>1. r \in Published /\ Accepts(Rec(r)) /\ (InProgress(r)' \/ r \in cut')
    BY <1>1, StepNewClaim
  <2> QED  BY <2>1, GrowsKeeps DEF TypeOK
<1>2. CASE r \in claims
  <2>1. r \in Published /\ Accepts(Rec(r)) /\ Rec(r)' = Rec(r) /\ r[1] \in Shard
    BY <1>2, GrowsKeeps, PublishedPlaces DEF ClaimsGood, TypeOK
  <2>2. CASE FullyCounted(r)
    BY <2>1, <2>2, StaysCounted, StepFrame
  <2>3. CASE r \in cut
    BY <2>1, <2>3, StepFrame
  <2>4. CASE InProgress(r)
    <3>1. CASE r[1] = s
      <4>1. r = Here(s)
        BY <2>4, <3>1 DEF InProgress
      <4> QED  BY <2>1, <2>4, <4>1, StepHere
    <3>2. CASE r[1] # s
      <4>1. pc'[r[1]] = pc[r[1]] /\ at'[r[1]] = at[r[1]] /\ todo'[r[1]] = todo[r[1]]
        BY <2>1, <3>2, StepFrame
      <4> QED  BY <2>1, <2>4, <4>1, StaysInProgress, StepFrame
    <3> QED  BY <3>1, <3>2
  <2> QED  BY <1>2, <2>1, <2>2, <2>3, <2>4 DEF ClaimsGood
<1> QED  BY <1>1, <1>2

-----------------------------------------------------------------------------
(* Progress of the mapping *)

LEMMA FinishedCovered ==
    ASSUME NEW r
    PROVE  /\ Finished(r) <=> r[2] < next[r[1]] /\ ~Covered(queue[r[1]], r[2])
           /\ Finished(r)' <=> r[2] < next'[r[1]] /\ ~Covered(queue'[r[1]], r[2])
  BY DEF Finished, Covered

\* A step of shard s passes only the record it is at, or gives records up.
LEMMA StepPasses ==
    ASSUME TypeOK, InvocationGood, NEW s \in Shard, ShardStep(s),
           NEW i \in Nat \ {0}, Passed(<<s, i>>)'
    PROVE  \/ Passed(<<s, i>>)
           \/ <<s, i>> \in dlq'
           \/ /\ <<s, i>> = Here(s)
              /\ \/ pc[s] \in Counting
                 \/ <<s, i>> \in claims'
                 \/ Here(s) \in Published /\ ~Accepts(Rec(Here(s)))
<1> DEFINE r == <<s, i>>
<1>0. /\ r[1] = s /\ r[2] = i /\ next[s] \in Nat /\ at[s] \in Nat
      /\ InvocationAt(s)
  BY ShardTypes DEF InvocationGood
<1>1. CASE Poll(s)
  <2>1. pc' = pc /\ at' = at /\ queue[s] = <<>>
    BY <1>1 DEF Poll
  <2>2. pc[s] = "idle"
    BY <1>0, <2>1 DEF InvocationAt
  <2>3. i < next'[s] /\ ~Covered(queue'[s], i)
    BY <1>0, <2>1, <2>2, FinishedCovered DEF Passed
  <2>4. i < next[s]
    BY <1>1, <2>3, PollQueue
  <2>5. ~Covered(queue[s], i)
    BY <2>1 DEF Covered
  <2> QED  BY <1>0, <2>4, <2>5, FinishedCovered DEF Passed
<1>2. CASE Invoke(s)
  <2>1. /\ next' = next /\ queue' = queue /\ queue[s] # <<>> /\ at'[s] = Current(s).lo
    BY <1>2 DEF Invoke, esmVars, TypeOK
  <2>2. Current(s).lo \in Nat
    <3>1. Current(s).lo \in 1..(next[s] - 1)
      BY <2>1, ShardTypes
    <3> QED  BY <3>1
  <2>3. ~(Current(s).lo <= i /\ i < at'[s])
    BY <2>1, <2>2
  <2> QED  BY <1>0, <2>1, <2>3 DEF Passed, Finished, Current
<1>3. CASE FinishBatch(s)
  <2>1. /\ next' = next /\ queue' = [queue EXCEPT ![s] = Tail(@)] /\ pc'[s] = "idle"
        /\ pc[s] = "record" /\ at[s] > Current(s).hi /\ queue[s] # <<>>
    BY <1>0, <1>3 DEF FinishBatch, EndInvocation, TypeOK, InvocationAt
  <2>2. i < next[s] /\ ~Covered(queue'[s], i)
    BY <1>0, <2>1, FinishedCovered DEF Passed
  <2>3. CASE ~Covered(queue[s], i)
    BY <1>0, <2>2, <2>3, FinishedCovered DEF Passed
  <2>4. CASE Current(s).lo <= i /\ i <= Current(s).hi
    <3>1. Current(s).hi \in Nat
      <4>1. Current(s).hi \in 1..(next[s] - 1)
        BY <2>1, ShardTypes
      <4> QED  BY <4>1
    <3>2. i < at[s]
      BY <1>0, <2>1, <2>4, <3>1
    <3> QED  BY <1>0, <2>1, <2>4, <3>2 DEF Passed
  <2> QED  BY <2>1, <2>2, <2>3, <2>4, TailQueue
<1>4. CASE Fail(s)
  <2>1. /\ next' = next /\ pc'[s] = "idle" /\ queue[s] # <<>>
        /\ Bisect(s) \/ Retry(s) \/ GiveUp(s)
    BY <1>0, <1>4 DEF Fail, EndInvocation, TypeOK, InvocationAt
  <2>2. i < next[s] /\ ~Covered(queue'[s], i)
    BY <1>0, <2>1, FinishedCovered DEF Passed
  <2>3. ~Covered(queue[s], i) \/ (GiveUp(s) /\ Current(s).lo <= i /\ i <= Current(s).hi)
    <3>1. CASE GiveUp(s)
      BY <2>1, <2>2, <3>1, TailQueue DEF GiveUp
    <3>2. CASE Bisect(s) \/ Retry(s)
      BY <2>1, <2>2, <3>2, BisectQueue, RetryQueue
    <3> QED  BY <2>1, <3>1, <3>2
  <2>4. CASE ~Covered(queue[s], i)
    BY <1>0, <2>2, <2>4, FinishedCovered DEF Passed
  <2>5. CASE GiveUp(s) /\ Current(s).lo <= i /\ i <= Current(s).hi
    <3>1. Current(s).lo \in 1..(next[s] - 1) /\ Current(s).hi \in 1..(next[s] - 1)
      BY <2>1, ShardTypes
    <3>2. i \in Current(s).lo..Current(s).hi
      BY <2>5, <3>1
    <3> QED  BY <2>5, <3>2 DEF GiveUp
  <2> QED  BY <2>3, <2>4, <2>5
<1>5. CASE SkipRecord(s) \/ SkipDuplicate(s) \/ ClaimResent(s) \/ FinishRecord(s)
  <2>1. /\ next' = next /\ queue' = queue /\ at'[s] = at[s] + 1 /\ pc[s] # "idle"
    BY <1>5 DEF SkipRecord, SkipDuplicate, ClaimResent, FinishRecord, NextRecord, AtRecord,
                esmVars, TypeOK
  <2>2. i < at[s] + 1 => i < at[s] \/ i = at[s]
    BY <1>0
  <2>3. Passed(r) \/ i = at[s]
    BY <1>0, <2>1, <2>2 DEF Passed, Finished, Current
  <2>4. \/ pc[s] \in Counting
        \/ Here(s) \in claims'
        \/ Here(s) \in Published /\ ~Accepts(Rec(Here(s)))
    BY <1>5, HereFacts DEF SkipRecord, SkipDuplicate, ClaimResent, FinishRecord, AtRecord,
                           Counting, countVars
  <2>5. i = at[s] => r = Here(s)
    BY DEF Here
  <2> HIDE DEF r
  <2> QED  BY <2>3, <2>4, <2>5 DEF r
<1>6. CASE ClaimRecord(s) \/ Increment(s) \/ IncrementResent(s) \/ ClassifySession(s)
  <2>1. next' = next /\ queue' = queue /\ at' = at /\ pc[s] # "idle"
    BY <1>6, TodoCounting DEF ClaimRecord, AtRecord, Increment, IncrementResent,
                              ClassifySession, esmVars, Counting
  <2>2. CASE Finished(r)'
    BY <1>0, <2>1, <2>2 DEF Passed, Finished
  <2>3. CASE ~Finished(r)'
    <3>1. Current(s).lo <= i /\ i < at[s]
      BY <1>0, <2>1, <2>3 DEF Passed, Current
    <3> QED  BY <1>0, <2>1, <3>1 DEF Passed
  <2> QED  BY <2>2, <2>3
<1> QED  BY <1>1, <1>2, <1>3, <1>4, <1>5, <1>6 DEF ShardStep, Progress

LEMMA StepPassed ==
    ASSUME TypeOK, InvocationGood, PassedGood, Grows, NEW s \in Shard, ShardStep(s)
    PROVE  PassedGood'
<1> SUFFICES ASSUME NEW r \in Published', Passed(r)', Accepts(Rec(r)')
             PROVE  r \in claims' \cup dlq'
  BY DEF PassedGood
<1>1. r[1] \in Shard /\ r[2] \in Nat \ {0} /\ r = <<r[1], r[2]>>
  BY PublishedNext
<1>2. claims \subseteq claims' /\ dlq \subseteq dlq'
  BY StepFrame
<1>3. CASE Passed(r)
  <2>1. r \in Published
    BY <1>1, <1>3, PassedPublished
  <2>2. Rec(r)' = Rec(r)
    BY <2>1, GrowsKeeps DEF TypeOK
  <2> QED  BY <1>2, <1>3, <2>1, <2>2 DEF PassedGood
<1>4. CASE r[1] # s
  <2>1. /\ pc'[r[1]] = pc[r[1]] /\ at'[r[1]] = at[r[1]]
        /\ queue'[r[1]] = queue[r[1]] /\ next'[r[1]] = next[r[1]]
    BY <1>1, <1>4, StepFrame
  <2> QED  BY <1>3, <2>1 DEF Passed, Finished, Current
<1>5. CASE r = Here(s) /\ ~Passed(r)
  <2>1. r[1] = s
    BY <1>5 DEF Here
  <2>2. \/ r \in dlq'
        \/ pc[s] \in Counting
        \/ r \in claims'
        \/ r \in Published /\ ~Accepts(Rec(r))
    BY <1>1, <1>5, <2>1, StepPasses
  <2>3. CASE pc[s] \in Counting
    BY <1>2, <1>5, <2>3 DEF InvocationGood, InvocationAt
  <2>4. CASE r \in Published /\ ~Accepts(Rec(r))
    BY <2>4, GrowsKeeps DEF TypeOK
  <2> QED  BY <2>2, <2>3, <2>4
<1>6. CASE r[1] = s /\ r # Here(s) /\ ~Passed(r)
  BY <1>1, <1>6, StepPasses
<1> QED  BY <1>3, <1>4, <1>5, <1>6

-----------------------------------------------------------------------------
(* The theorems *)

LEMMA InitInv == Init => IInv
<1> SUFFICES ASSUME Init PROVE IInv
  OBVIOUS
<1> USE DEF Init
<1>1. Published = {}
  BY DEF Published
<1>2. TypeOK
  <2>1. \A s \in Shard : <<>> \in Seq(Parts(next[s] - 1)) /\ <<>> \in Seq(Record) /\ <<>> \in Seq(Counter)
    OBVIOUS
  <2>2. \A s \in Shard : next[s] <= Len(stream[s]) + 1
    OBVIOUS
  <2> QED  BY <1>1, <2>1, <2>2, LimitAssumption DEF TypeOK
<1>3. InvocationGood /\ TodoGood
  BY DEF InvocationGood, InvocationAt, TodoGood, TodoAt, Counting
<1>4. ClaimsGood /\ CountsClaimed /\ PassedGood
  BY <1>1 DEF ClaimsGood, CountsClaimed, PassedGood
<1>5. CountedAtMostOnce
  BY LimitAssumption DEF CountedAtMostOnce
<1> QED  BY <1>2, <1>3, <1>4, <1>5 DEF IInv

LEMMA InvStep == IInv /\ [Next]_vars => IInv'
<1> SUFFICES ASSUME IInv, [Next]_vars PROVE IInv'
  OBVIOUS
<1>1. /\ TypeOK /\ InvocationGood /\ TodoGood /\ ClaimsGood /\ CountsClaimed
      /\ PassedGood /\ CountedAtMostOnce
  BY DEF IInv
<1>2. Grows
  BY <1>1, NextGrows
<1>3. CASE UNCHANGED otherVars /\ table' \in [Event -> Image \cup {"absent"}]
  BY <1>2, <1>3, WriterStep
<1>4. ASSUME NEW s \in Shard, ShardStep(s) PROVE IInv'
  <2>1. TypeOK' /\ InvocationGood'
    BY <1>1, <1>2, <1>4, StepType, StepInvocation
  <2>2. TodoGood'
    BY <1>1, <1>4, StepTodo
  <2>3. ClaimsGood'
    BY <1>1, <1>2, <1>4, StepClaims
  <2>4. PassedGood'
    BY <1>1, <1>2, <1>4, StepPassed
  <2>5. CountsClaimed' /\ CountedAtMostOnce'
    BY <1>1, <1>4, StepCounts
  <2> QED  BY <2>1, <2>2, <2>3, <2>4, <2>5 DEF IInv
<1> QED  BY <1>1, <1>3, <1>4, NextSplit

\* IInv holds in every reachable state.
THEOREM Invariance == Spec => []IInv
<1>1. Init => IInv
  BY InitInv
<1>2. IInv /\ [Next]_vars => IInv'
  BY InvStep
<1> QED  BY <1>1, <1>2, PTL DEF Spec

\* The variables keep their types: no sentinel, count or dead letter is of a
\* record the stream does not hold, and no range runs past what was polled.
THEOREM TypeCorrect == Spec => []TypeOK
<1>1. IInv => TypeOK
  BY DEF IInv
<1> QED  BY <1>1, Invariance, PTL

\* A counter exceeds the number of records it counts by no more than the
\* increments the SDK repeated: redelivery never counts a record twice.
THEOREM CountsBounded == Spec => []CountedAtMostOnce
<1>1. IInv => CountedAtMostOnce
  BY DEF IInv
<1> QED  BY <1>1, Invariance, PTL

\* A record in progress lies in the range its shard is still delivering.
LEMMA InProgressUnfinished ==
    ASSUME TypeOK, InvocationGood, NEW r \in Published, InProgress(r)
    PROVE  ~Finished(r)
<1> DEFINE s == r[1]
<1>1. s \in Shard /\ r = Here(s) /\ pc[s] \in Counting
  BY PublishedPlaces DEF InProgress, TypeOK
<1>2. queue[s] # <<>> /\ Current(s).lo <= at[s] /\ at[s] <= Current(s).hi
  BY <1>1 DEF InvocationGood, InvocationAt, Counting
<1>3. r[2] = at[s]
  BY <1>1 DEF Here
<1>4. 1 \in DOMAIN queue[s] /\ Current(s) = queue[s][1]
  BY <1>1, <1>2, ShardTypes
<1> QED  BY <1>2, <1>3, <1>4 DEF Finished

\* A record the mapping is done with is in all its counters or in the
\* dead-letter queue, but where an invocation failed inside that record:
\* neither bisection nor a failing neighbour loses one.
THEOREM NoSilentLoss == Spec => []LossesExplained
<1>1. IInv => LossesExplained
  <2> SUFFICES ASSUME IInv, NEW r \in Published, Finished(r), Accepts(Rec(r))
               PROVE  FullyCounted(r) \/ r \in dlq \cup cut
    BY DEF LossesExplained
  <2>1. TypeOK /\ InvocationGood /\ ClaimsGood /\ PassedGood
    BY DEF IInv
  <2>2. r \in claims \cup dlq
    BY <2>1 DEF PassedGood, Passed
  <2>3. ~InProgress(r)
    BY <2>1, InProgressUnfinished
  <2> QED  BY <2>1, <2>2, <2>3 DEF ClaimsGood
<1> QED  BY <1>1, Invariance, PTL

=============================================================================
