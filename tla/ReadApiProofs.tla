--------------------------- MODULE ReadApiProofs ---------------------------
(***************************************************************************)
(* Proofs about ReadApi: for every set of events, every window, limit and  *)
(* page size, and any number of failed reads, the answers are honest while *)
(* the table changes under the client.  The inductive invariant is IInv of *)
(* ReadApiInv; the first lemmas are about the two orders rows come in.     *)
(***************************************************************************)
EXTENDS ReadApiInv, FiniteSetTheorems, TLAPS

USE RowAssumption, ApiAssumption

-----------------------------------------------------------------------------
(* A finite set in an order *)

\* R puts the members of S in a row.
Ranks(R, S) ==
    /\ \A e, f \in S : e # f => <<e, f>> \in R \/ <<f, e>> \in R
    /\ \A e, f \in S : ~(<<e, f>> \in R /\ <<f, e>> \in R)
    /\ \A e, f, g \in S : <<e, f>> \in R /\ <<f, g>> \in R => <<e, g>> \in R

Before(R, S, e) == {f \in S : <<f, e>> \in R}

\* What a sequence lists, and that it lists it in the order R.
Lists(row, S) == row \in Seq(S) /\ {row[i] : i \in DOMAIN row} = S
Sorted(R, row) == \A i, j \in DOMAIN row : i < j => <<row[i], row[j]>> \in R

\* What comes before a member is part of the rest.
LEMMA BeforeFinite ==
    ASSUME NEW S, IsFiniteSet(S), NEW R, Ranks(R, S), NEW e \in S
    PROVE  /\ IsFiniteSet(Before(R, S, e))
           /\ Cardinality(Before(R, S, e)) \in Nat
           /\ Cardinality(Before(R, S, e)) < Cardinality(S)
           /\ Cardinality(S) \in Nat
<1>1. Before(R, S, e) \subseteq S \ {e}
  BY DEF Before, Ranks
<1>2. IsFiniteSet(S \ {e}) /\ Cardinality(S \ {e}) = Cardinality(S) - 1
  BY FS_RemoveElement
<1>3. /\ IsFiniteSet(Before(R, S, e))
      /\ Cardinality(Before(R, S, e)) <= Cardinality(S \ {e})
  BY <1>1, <1>2, FS_Subset
<1> QED
  BY <1>2, <1>3, FS_CardinalityType

\* More comes before the later of two.
LEMMA BeforeGrows ==
    ASSUME NEW S, IsFiniteSet(S), NEW R, Ranks(R, S), NEW e \in S, NEW f \in S,
           <<e, f>> \in R
    PROVE  Cardinality(Before(R, S, e)) < Cardinality(Before(R, S, f))
<1>1. Before(R, S, e) \subseteq Before(R, S, f)
  BY DEF Before, Ranks
<1>2. e \in Before(R, S, f) /\ e \notin Before(R, S, e)
  BY DEF Before, Ranks
<1>3. Cardinality(Before(R, S, e)) <= Cardinality(Before(R, S, f))
  BY <1>1, BeforeFinite, FS_Subset
<1>4. Cardinality(Before(R, S, e)) # Cardinality(Before(R, S, f))
  BY <1>1, <1>2, BeforeFinite, FS_Subset
<1> QED
  BY <1>3, <1>4, BeforeFinite

\* As many members precede one as its place in the row says: each place up to
\* the size of the set is somebody's, and one's only.
LEMMA PlacesFilled ==
    ASSUME NEW S, IsFiniteSet(S), NEW R, Ranks(R, S),
           NEW n \in Nat, n < Cardinality(S)
    PROVE  \E e \in S : Cardinality(Before(R, S, e)) = n
<1> DEFINE size == Cardinality(S)
           place == [e \in S |-> Cardinality(Before(R, S, e))]
<1>1. size \in Nat
  BY FS_CardinalityType
<1>2. place \in [S -> 0 .. size - 1]
  BY <1>1, BeforeFinite
<1>3. \A e, f \in S : place[e] = place[f] => e = f
  <2> SUFFICES ASSUME NEW e \in S, NEW f \in S, e # f
               PROVE  Cardinality(Before(R, S, e)) # Cardinality(Before(R, S, f))
    OBVIOUS
  <2>1. Cardinality(Before(R, S, e)) \in Nat /\ Cardinality(Before(R, S, f)) \in Nat
    BY BeforeFinite
  <2>2. \/ Cardinality(Before(R, S, e)) < Cardinality(Before(R, S, f))
        \/ Cardinality(Before(R, S, f)) < Cardinality(Before(R, S, e))
    BY BeforeGrows DEF Ranks
  <2> QED
    BY <2>1, <2>2
<1>4. place \in Injection(S, 0 .. size - 1)
  BY <1>2, <1>3 DEF Injection, IsInjective
<1>5. IsFiniteSet(0 .. size - 1) /\ Cardinality(0 .. size - 1) = size
  <2>1. \A m \in Nat : IsFiniteSet(0 .. m - 1) /\ Cardinality(0 .. m - 1) = m
    BY FS_Interval
  <2> QED
    BY <1>1, <2>1
<1>6. place \in Surjection(S, 0 .. size - 1)
  BY <1>4, <1>5, FS_Injection
<1>7. \A i \in 0 .. size - 1 : \E e \in S : place[e] = i
  BY <1>6 DEF Surjection
<1> QED
  BY <1>1, <1>7

First(R, S, n) == {e \in S : Cardinality(Before(R, S, e)) < n}

\* The first n of a set are n of them, unless they are all; and whoever is not
\* among them comes after them.
LEMMA FirstCount ==
    ASSUME NEW S, IsFiniteSet(S), NEW R, Ranks(R, S), NEW n \in Nat
    PROVE  /\ IsFiniteSet(First(R, S, n))
           /\ Cardinality(First(R, S, n)) <= n
           /\ \A e \in S \ First(R, S, n) :
                 /\ Cardinality(First(R, S, n)) = n
                 /\ \A f \in First(R, S, n) : <<f, e>> \in R
<1> DEFINE first == {e \in S : Cardinality(Before(R, S, e)) < n}
           place == [e \in first |-> Cardinality(Before(R, S, e))]
<1>1. IsFiniteSet(first) /\ first \subseteq S
  BY FS_Subset
<1>2. IsFiniteSet(0 .. n - 1) /\ Cardinality(0 .. n - 1) = n
  BY FS_Interval
<1>3. place \in [first -> 0 .. n - 1]
  BY BeforeFinite
<1>4. \A e, f \in first : place[e] = place[f] => e = f
  <2> SUFFICES ASSUME NEW e \in S, NEW f \in S, e # f
               PROVE  Cardinality(Before(R, S, e)) # Cardinality(Before(R, S, f))
    OBVIOUS
  <2>1. Cardinality(Before(R, S, e)) \in Nat /\ Cardinality(Before(R, S, f)) \in Nat
    BY BeforeFinite
  <2>2. \/ Cardinality(Before(R, S, e)) < Cardinality(Before(R, S, f))
        \/ Cardinality(Before(R, S, f)) < Cardinality(Before(R, S, e))
    BY BeforeGrows DEF Ranks
  <2> QED
    BY <2>1, <2>2
<1>5. place \in Injection(first, 0 .. n - 1)
  BY <1>3, <1>4 DEF Injection, IsInjective
<1>6. Cardinality(first) <= n /\ (Cardinality(first) = n <=> place \in Surjection(first, 0 .. n - 1))
  BY <1>2, <1>5, FS_Injection
<1>7. ASSUME NEW e \in S \ first
      PROVE  Cardinality(first) = n /\ \A f \in first : <<f, e>> \in R
  <2>1. Cardinality(Before(R, S, e)) >= n
    BY <1>7, BeforeFinite
  <2>2. \A i \in 0 .. n - 1 : \E f \in first : place[f] = i
    <3> SUFFICES ASSUME NEW i \in 0 .. n - 1
                 PROVE  \E f \in S : Cardinality(Before(R, S, f)) = i
      OBVIOUS
    <3>1. i \in Nat /\ i < Cardinality(S)
      BY <1>7, <2>1, BeforeFinite
    <3> QED
      BY <3>1, PlacesFilled
  <2>3. place \in Surjection(first, 0 .. n - 1)
    BY <1>3, <2>2 DEF Surjection
  <2>4. ASSUME NEW f \in first PROVE <<f, e>> \in R
    <3>1. f \in S /\ f # e /\ Cardinality(Before(R, S, f)) < n
      BY <1>7
    <3>2. ~(<<e, f>> \in R)
      BY <1>7, <2>1, <3>1, BeforeGrows, BeforeFinite
    <3> QED
      BY <1>7, <3>1, <3>2 DEF Ranks
  <2> QED
    BY <1>6, <2>3, <2>4
<1> QED
  BY <1>1, <1>6, <1>7 DEF First

\* A sequence that has at each place the member as many others precede has
\* every member, in order.
LEMMA InRow ==
    ASSUME NEW S, IsFiniteSet(S), NEW R, Ranks(R, S),
           NEW row, row \in Seq(S), Len(row) = Cardinality(S),
           \A i \in 1 .. Cardinality(S) :
              row[i] \in S /\ Cardinality(Before(R, S, row[i])) = i - 1
    PROVE  Lists(row, S) /\ Sorted(R, row)
<1>1. Cardinality(S) \in Nat /\ DOMAIN row = 1 .. Cardinality(S)
  BY FS_CardinalityType
<1>2. ASSUME NEW i \in 1 .. Cardinality(S)
      PROVE  row[i] \in S /\ Cardinality(Before(R, S, row[i])) = i - 1
  OBVIOUS
<1>4. ASSUME NEW e \in S PROVE \E i \in DOMAIN row : row[i] = e
  <2> DEFINE i == Cardinality(Before(R, S, e)) + 1
  <2>1. i \in 1 .. Cardinality(S) /\ i - 1 = Cardinality(Before(R, S, e))
    BY <1>1, BeforeFinite
  <2> HIDE DEF i
  <2>2. row[i] \in S /\ Cardinality(Before(R, S, row[i])) = Cardinality(Before(R, S, e))
    BY <1>2, <2>1
  <2>3. ~(<<row[i], e>> \in R)
    BY <2>2, BeforeGrows, BeforeFinite
  <2>4. ~(<<e, row[i]>> \in R)
    BY <2>2, BeforeGrows, BeforeFinite
  <2>5. row[i] = e
    BY <2>2, <2>3, <2>4 DEF Ranks
  <2> QED
    BY <1>1, <2>1, <2>5
<1>5. ASSUME NEW i \in DOMAIN row, NEW j \in DOMAIN row, i < j
      PROVE  <<row[i], row[j]>> \in R
  <2>1. /\ row[i] \in S /\ Cardinality(Before(R, S, row[i])) = i - 1
        /\ row[j] \in S /\ Cardinality(Before(R, S, row[j])) = j - 1
    BY <1>2
  <2>2. row[i] # row[j] /\ ~(<<row[j], row[i]>> \in R)
    BY <1>5, <2>1, BeforeGrows, <1>1
  <2> QED
    BY <2>1, <2>2 DEF Ranks
<1>6. {row[i] : i \in DOMAIN row} = S
  BY <1>1, <1>2, <1>4
<1> QED
  BY <1>5, <1>6 DEF Lists, Sorted

-----------------------------------------------------------------------------
(* Events in the order of their times *)

NewerPairs == {p \in Event \X Event : Newer(p[1], p[2])}
OlderPairs == {p \in Event \X Event : Older(p[1], p[2])}

\* No two events share a place: newer and older put any events in a row.
LEMMA TimesRank ==
    ASSUME NEW S \in SUBSET Event
    PROVE  /\ IsFiniteSet(S)
           /\ Ranks(NewerPairs, S)
           /\ Ranks(OlderPairs, S)
           /\ \A e \in S : Before(NewerPairs, S, e) = {f \in S : Newer(f, e)}
           /\ \A e \in S : Before(OlderPairs, S, e) = {f \in S : Older(f, e)}
<1>1. IsFiniteSet(S)
  BY FS_Subset
<1>2. \A e, f \in S : <<e, f>> \in NewerPairs <=> Newer(e, f)
  BY DEF NewerPairs
<1>3. \A e, f \in S : <<e, f>> \in OlderPairs <=> Older(e, f)
  BY DEF OlderPairs
<1>4. /\ \A e, f \in S : e # f => Newer(e, f) \/ Newer(f, e)
      /\ \A e, f \in S : ~(Newer(e, f) /\ Newer(f, e))
      /\ \A e, f, g \in S : Newer(e, f) /\ Newer(f, g) => Newer(e, g)
  BY DEF Newer
<1>5. Ranks(NewerPairs, S)
  BY <1>2, <1>4 DEF Ranks
<1>6. Ranks(OlderPairs, S)
  BY <1>3, <1>4 DEF Ranks, Older
<1>7. \A e \in S : Before(NewerPairs, S, e) = {f \in S : Newer(f, e)}
  BY <1>2 DEF Before
<1>8. \A e \in S : Before(OlderPairs, S, e) = {f \in S : Older(f, e)}
  BY <1>3 DEF Before
<1> QED
  BY <1>1, <1>5, <1>6, <1>7, <1>8

\* The first n rows in one order and in the other.
NewestOf(S, n) == {e \in S : Cardinality({f \in S : Newer(f, e)}) < n}
OldestOf(S, n) == {e \in S : Cardinality({f \in S : Older(f, e)}) < n}

\* The rows a page has of those it is asked for.
LEMMA NewestFirst ==
    ASSUME NEW S \in SUBSET Event, NEW n \in Nat,
           NEW rows, rows = NewestOf(S, n)
    PROVE  /\ rows \subseteq S /\ IsFiniteSet(rows)
           /\ Cardinality(rows) \in Nat /\ Cardinality(rows) <= n
           /\ \A e \in S \ rows :
                 Cardinality(rows) = n /\ \A f \in rows : Newer(f, e)
<1>1. rows = First(NewerPairs, S, n)
  BY TimesRank DEF First, NewestOf
<1>2. /\ IsFiniteSet(rows) /\ Cardinality(rows) <= n
      /\ \A e \in S \ rows :
            Cardinality(rows) = n /\ \A f \in rows : <<f, e>> \in NewerPairs
  <2>1. IsFiniteSet(S) /\ Ranks(NewerPairs, S)
    BY TimesRank
  <2> QED
    BY <1>1, <2>1, FirstCount
<1>3. rows \subseteq S
  BY <1>1 DEF First
<1> QED
  BY <1>2, <1>3, FS_CardinalityType DEF NewerPairs

\* The same for a page that goes from the oldest on.
LEMMA OldestFirst ==
    ASSUME NEW S \in SUBSET Event, NEW n \in Nat,
           NEW rows, rows = OldestOf(S, n)
    PROVE  /\ rows \subseteq S /\ IsFiniteSet(rows)
           /\ Cardinality(rows) \in Nat /\ Cardinality(rows) <= n
           /\ \A e \in S \ rows :
                 Cardinality(rows) = n /\ \A f \in rows : Older(f, e)
<1>1. rows = First(OlderPairs, S, n)
  BY TimesRank DEF First, OldestOf
<1>2. /\ IsFiniteSet(rows) /\ Cardinality(rows) <= n
      /\ \A e \in S \ rows :
            Cardinality(rows) = n /\ \A f \in rows : <<f, e>> \in OlderPairs
  <2>1. IsFiniteSet(S) /\ Ranks(OlderPairs, S)
    BY TimesRank
  <2> QED
    BY <1>1, <2>1, FirstCount
<1>3. rows \subseteq S
  BY <1>1 DEF First
<1> QED
  BY <1>2, <1>3, FS_CardinalityType DEF OlderPairs

\* InOrder lists a set, each of it once, newest first ...
LEMMA NewestRow ==
    ASSUME NEW S \in SUBSET Event
    PROVE  Lists(InOrder(S, Newer), S) /\ Sorted(NewerPairs, InOrder(S, Newer))
<1> DEFINE row == InOrder(S, Newer)
           at(i) == CHOOSE e \in S : Cardinality({f \in S : Newer(f, e)}) = i - 1
<1>1. IsFiniteSet(S) /\ Ranks(NewerPairs, S)
  BY TimesRank
<1>2. Cardinality(S) \in Nat
  BY <1>1, FS_CardinalityType
<1>3. row = [i \in 1 .. Cardinality(S) |-> at(i)]
  BY Zenon DEF InOrder
<1>4. ASSUME NEW i \in 1 .. Cardinality(S)
      PROVE  at(i) \in S /\ Cardinality(Before(NewerPairs, S, at(i))) = i - 1
  <2>1. i - 1 \in Nat /\ i - 1 < Cardinality(S)
    BY <1>2
  <2>2. PICK e \in S : Cardinality(Before(NewerPairs, S, e)) = i - 1
    BY <1>1, <2>1, PlacesFilled
  <2>3. Cardinality({f \in S : Newer(f, e)}) = i - 1
    BY <2>2, TimesRank
  <2>4. at(i) \in S /\ Cardinality({f \in S : Newer(f, at(i))}) = i - 1
    BY <2>3, Zenon
  <2> HIDE DEF at
  <2> QED
    BY <2>4, TimesRank
<1> HIDE DEF row, at
<1>5. row \in Seq(S) /\ Len(row) = Cardinality(S)
  <2>1. row \in [1 .. Cardinality(S) -> S]
    BY <1>3, <1>4
  <2> QED
    BY <1>2, <2>1
<1>6. \A i \in 1 .. Cardinality(S) :
         row[i] \in S /\ Cardinality(Before(NewerPairs, S, row[i])) = i - 1
  BY <1>3, <1>4
<1>7. Lists(row, S) /\ Sorted(NewerPairs, row)
  BY <1>1, <1>5, <1>6, InRow
<1> QED
  BY <1>7 DEF row

\* ... or oldest first.
LEMMA OldestRow ==
    ASSUME NEW S \in SUBSET Event
    PROVE  Lists(InOrder(S, Older), S) /\ Sorted(OlderPairs, InOrder(S, Older))
<1> DEFINE row == InOrder(S, Older)
           at(i) == CHOOSE e \in S : Cardinality({f \in S : Older(f, e)}) = i - 1
<1>1. IsFiniteSet(S) /\ Ranks(OlderPairs, S)
  BY TimesRank
<1>2. Cardinality(S) \in Nat
  BY <1>1, FS_CardinalityType
<1>3. row = [i \in 1 .. Cardinality(S) |-> at(i)]
  BY Zenon DEF InOrder
<1>4. ASSUME NEW i \in 1 .. Cardinality(S)
      PROVE  at(i) \in S /\ Cardinality(Before(OlderPairs, S, at(i))) = i - 1
  <2>1. i - 1 \in Nat /\ i - 1 < Cardinality(S)
    BY <1>2
  <2>2. PICK e \in S : Cardinality(Before(OlderPairs, S, e)) = i - 1
    BY <1>1, <2>1, PlacesFilled
  <2>3. Cardinality({f \in S : Older(f, e)}) = i - 1
    BY <2>2, TimesRank
  <2>4. at(i) \in S /\ Cardinality({f \in S : Older(f, at(i))}) = i - 1
    BY <2>3, Zenon
  <2> HIDE DEF at
  <2> QED
    BY <2>4, TimesRank
<1> HIDE DEF row, at
<1>5. row \in Seq(S) /\ Len(row) = Cardinality(S)
  <2>1. row \in [1 .. Cardinality(S) -> S]
    BY <1>3, <1>4
  <2> QED
    BY <1>2, <2>1
<1>6. \A i \in 1 .. Cardinality(S) :
         row[i] \in S /\ Cardinality(Before(OlderPairs, S, row[i])) = i - 1
  BY <1>3, <1>4
<1>7. Lists(row, S) /\ Sorted(OlderPairs, row)
  BY <1>1, <1>5, <1>6, InRow
<1> QED
  BY <1>7 DEF row

\* One page after another.
LEMMA Joined ==
    ASSUME NEW S, NEW T, NEW l, NEW r, Lists(l, S), Lists(r, T),
           NEW R, Sorted(R, l), Sorted(R, r),
           \A e \in S, f \in T : <<e, f>> \in R
    PROVE  Lists(l \o r, S \cup T) /\ Sorted(R, l \o r)
<1> DEFINE both == l \o r
<1>1. l \in Seq(S) /\ r \in Seq(T) /\ l \in Seq(S \cup T) /\ r \in Seq(S \cup T)
  BY DEF Lists
<1>2. /\ both \in Seq(S \cup T) /\ Len(both) = Len(l) + Len(r)
      /\ DOMAIN both = 1 .. Len(l) + Len(r)
      /\ DOMAIN l = 1 .. Len(l) /\ DOMAIN r = 1 .. Len(r)
      /\ Len(l) \in Nat /\ Len(r) \in Nat
  BY <1>1
<1>3. \A i \in 1 .. Len(l) + Len(r) :
         both[i] = IF i <= Len(l) THEN l[i] ELSE r[i - Len(l)]
  BY <1>1
<1> HIDE DEF both
<1>4. {both[i] : i \in DOMAIN both} = S \cup T
  <2>1. \A i \in DOMAIN both : both[i] \in S \cup T
    BY <1>2
  <2>2. \A e \in S : \E i \in DOMAIN both : both[i] = e
    <3> SUFFICES ASSUME NEW e \in S PROVE \E i \in DOMAIN both : both[i] = e
      OBVIOUS
    <3>1. PICK i \in DOMAIN l : l[i] = e
      BY DEF Lists
    <3>2. i \in 1 .. Len(l) + Len(r) /\ i <= Len(l)
      BY <1>2
    <3> QED
      BY <3>1, <3>2, <1>2, <1>3
  <2>3. \A e \in T : \E i \in DOMAIN both : both[i] = e
    <3> SUFFICES ASSUME NEW e \in T PROVE \E i \in DOMAIN both : both[i] = e
      OBVIOUS
    <3>1. PICK i \in DOMAIN r : r[i] = e
      BY DEF Lists
    <3>2. Len(l) + i \in 1 .. Len(l) + Len(r) /\ ~(Len(l) + i <= Len(l))
          /\ Len(l) + i - Len(l) = i
      BY <1>2
    <3>3. both[Len(l) + i] = e
      BY <3>1, <3>2, <1>3
    <3> QED
      BY <3>2, <3>3, <1>2
  <2> QED
    BY <2>1, <2>2, <2>3
<1>5. ASSUME NEW i \in DOMAIN both, NEW j \in DOMAIN both, i < j
      PROVE  <<both[i], both[j]>> \in R
  <2>1. i \in 1 .. Len(l) + Len(r) /\ j \in 1 .. Len(l) + Len(r)
    BY <1>2
  <2>2. CASE j <= Len(l)
    <3>1. i \in DOMAIN l /\ j \in DOMAIN l /\ both[i] = l[i] /\ both[j] = l[j]
      BY <1>2, <1>3, <1>5, <2>1, <2>2
    <3> QED
      BY <1>5, <3>1 DEF Sorted
  <2>3. CASE i <= Len(l) /\ ~(j <= Len(l))
    <3>1. /\ i \in DOMAIN l /\ j - Len(l) \in DOMAIN r
          /\ both[i] = l[i] /\ both[j] = r[j - Len(l)]
      BY <1>2, <1>3, <2>1, <2>3
    <3> QED
      BY <3>1 DEF Lists
  <2>4. CASE ~(i <= Len(l))
    <3>1. /\ i - Len(l) \in DOMAIN r /\ j - Len(l) \in DOMAIN r
          /\ i - Len(l) < j - Len(l)
          /\ both[i] = r[i - Len(l)] /\ both[j] = r[j - Len(l)]
      BY <1>2, <1>3, <1>5, <2>1, <2>4
    <3> QED
      BY <3>1 DEF Sorted
  <2> QED
    BY <1>2, <2>1, <2>2, <2>3, <2>4
<1> QED
  BY <1>2, <1>4, <1>5 DEF Lists, Sorted, both

-----------------------------------------------------------------------------
(* One step keeps the invariant *)

\* A later hour is of no earlier day.
LEMMA Days ==
    /\ \A h \in Int : h \div HoursPerDay \in Int
    /\ \A g, h \in Int : g <= h => g \div HoursPerDay <= h \div HoursPerDay
  OBVIOUS

\* Events of different days: the later day's are newer.
LEMMA LaterDay ==
    ASSUME NEW e \in Event, NEW f \in Event, DayOf(e) < DayOf(f)
    PROVE  Ts[e] < Ts[f] /\ Newer(f, e)
<1>1. HourOf[e] \in Int /\ HourOf[f] \in Int
  BY DEF Hour
<1>2. HourOf[e] < HourOf[f]
  BY <1>1, Days DEF DayOf
<1> QED
  BY <1>2 DEF Newer

\* next_before is the timestamp of the last row answered.
LEMMA OldestIs ==
    ASSUME NEW S \in SUBSET Event, S # {}
    PROVE  /\ Oldest(S) \in Nat
           /\ \E f \in S : Ts[f] = Oldest(S)
           /\ \A e \in S : Oldest(S) <= Ts[e]
<1> DEFINE row == InOrder(S, Newer)
<1>1. Lists(row, S) /\ Sorted(NewerPairs, row)
  BY NewestRow
<1> HIDE DEF row
<1>2. row \in Seq(S) /\ DOMAIN row = 1 .. Len(row) /\ Len(row) \in Nat /\ Len(row) > 0
  BY <1>1 DEF Lists
<1>3. row[Len(row)] \in S
  BY <1>2
<1>4. ASSUME NEW e \in S PROVE Ts[row[Len(row)]] <= Ts[e]
  <2>1. PICK i \in DOMAIN row : row[i] = e
    BY <1>1 DEF Lists
  <2>2. CASE i = Len(row)
    BY <1>3, <2>1, <2>2
  <2>3. CASE i < Len(row)
    <3>1. i \in DOMAIN row /\ Len(row) \in DOMAIN row
      BY <1>2
    <3>2. <<row[i], row[Len(row)]>> \in NewerPairs
      BY <1>1, <2>3, <3>1 DEF Sorted
    <3> QED
      BY <1>3, <2>1, <3>2 DEF NewerPairs, Newer
  <2> QED
    BY <1>2, <2>2, <2>3
<1>5. \E t \in {Ts[e] : e \in S} : \A e \in S : t <= Ts[e]
  BY <1>3, <1>4
<1>6. /\ Oldest(S) \in {Ts[e] : e \in S}
      /\ \A e \in S : Oldest(S) <= Ts[e]
  BY <1>5 DEF Oldest
<1> QED
  BY <1>6

\* A bucket counts events of the table.
LEMMA BucketType ==
    ASSUME NEW table, NEW w
    PROVE  Bucket(table, w) \subseteq table
  BY DEF Bucket

\* Hours and days are numbers.
LEMMA WorkType ==
    ASSUME NEW k, NEW hour \in Int
    PROVE  Work(k, hour) \subseteq Int
<1>1. \A n \in Int : Back(n) \subseteq Int
  BY DEF Back
<1> QED
  BY <1>1, Days DEF Work

\* The invariant holds before anything is asked.
LEMMA InitInv == Init => IInv
<1> SUFFICES ASSUME Init PROVE IInv
  OBVIOUS
<1>1. TypeOK
  BY DEF Init, TypeOK, Hour
<1>2. BaseGood /\ IdleClean
  BY DEF Init, BaseGood, IdleClean, Hour
<1>3. TotalsGood
  <2>1. \A d \in Day : DaySize({}, d) = 0
    BY FS_EmptySet DEF DaySize
  <2> QED
    BY <2>1 DEF Init, TotalsGood
<1>4. pc = "idle" /\ DOMAIN left = {} /\ DOMAIN listed = {} /\ DOMAIN pages = {}
      /\ Answered = {}
  BY DEF Init, Answered
<1>5. FanOutAt
  BY <1>4 DEF FanOutAt
<1>6. SessionAt /\ EventsAt
  BY <1>4 DEF SessionAt, EventsAt
<1>7. ListedInOrder /\ GapsExplained
  BY <1>4 DEF ListedInOrder, GapsExplained
<1> QED
  BY <1>1, <1>2, <1>3, <1>5, <1>6, <1>7 DEF IInv

\* A day has no fewer events when there are more.
LEMMA DayGrows ==
    ASSUME NEW S, NEW T, S \subseteq T, T \subseteq Event, NEW d
    PROVE  /\ DaySize(S, d) \in Nat /\ DaySize(T, d) \in Nat
           /\ DaySize(S, d) <= DaySize(T, d)
<1> DEFINE of(table) == {e \in table : DayOf(e) = d}
<1>1. IsFiniteSet(of(T)) /\ of(S) \subseteq of(T)
  BY FS_Subset
<1> HIDE DEF of
<1>2. IsFiniteSet(of(S)) /\ Cardinality(of(S)) <= Cardinality(of(T))
  BY <1>1, FS_Subset
<1>3. Cardinality(of(S)) \in Nat /\ Cardinality(of(T)) \in Nat
  BY <1>1, <1>2, FS_CardinalityType
<1> QED
  BY <1>2, <1>3 DEF DaySize, of

\* A summary is put behind those that were put before, and what is stored only
\* makes more room for it.
LEMMA TotalsKeep ==
    ASSUME TypeOK, BaseGood, TotalsGood, Environment, stored \subseteq stored',
           stored' \subseteq Event
    PROVE  /\ totals' \in [Day -> Seq(Nat)]
           /\ TotalsGood'
           /\ \A d : Offered(d) \subseteq Offered(d)'
<1>1. base' = base
  BY DEF Environment
<1>2. \A d : DaySize(stored, d) <= DaySize(stored', d) /\ DaySize(stored', d) \in Nat
             /\ DaySize(stored, d) \in Nat
  BY DayGrows
<1>3. CASE UNCHANGED totals
  <2>1. ASSUME NEW d \in Day, NEW i \in DOMAIN totals[d]
        PROVE  totals[d][i] <= DaySize(stored', d)
    <3>1. totals[d][i] \in Nat /\ totals[d][i] <= DaySize(stored, d)
      BY DEF TypeOK, TotalsGood
    <3> QED
      BY <1>2, <3>1
  <2>2. \A d \in Day : DaySize(stored, d)' = DaySize(stored', d)
    BY DEF DaySize, DayOf
  <2> QED
    BY <1>1, <1>3, <2>1, <2>2 DEF TypeOK, TotalsGood, Offered
<1>4. CASE \E d \in Day, n \in 0 .. Cardinality(Event) : Summarise(d, n)
  <2>1. PICK d \in Day, n \in 0 .. Cardinality(Event) : Summarise(d, n)
    BY <1>4
  <2>2. /\ Len(totals[d]) <= MaxPuts /\ n \in Nat /\ n <= DaySize(stored, d)
        /\ totals' = [totals EXCEPT ![d] = Append(@, n)]
        /\ stored' = stored
    BY <2>1, FS_CardinalityType DEF Summarise
  <2>3. totals \in [Day -> Seq(Nat)]
    BY DEF TypeOK
  <2>4. \A c \in Day : totals'[c] = IF c = d THEN Append(totals[d], n) ELSE totals[c]
    BY <2>2, <2>3
  <2>5. /\ Append(totals[d], n) \in Seq(Nat)
        /\ Len(Append(totals[d], n)) = Len(totals[d]) + 1
        /\ DOMAIN totals[d] = 1 .. Len(totals[d]) /\ Len(totals[d]) \in Nat
        /\ DOMAIN Append(totals[d], n) = 1 .. Len(totals[d]) + 1
        /\ \A i \in 1 .. Len(totals[d]) : Append(totals[d], n)[i] = totals[d][i]
        /\ Append(totals[d], n)[Len(totals[d]) + 1] = n
    BY <2>2, <2>3
  <2>6. totals' \in [Day -> Seq(Nat)]
    BY <2>2, <2>3, <2>5
  <2>7. ASSUME NEW c \in Day
        PROVE  /\ base.oldest[c] \in DOMAIN totals'[c]
               /\ Len(totals'[c]) <= MaxPuts + 1
               /\ \A i \in DOMAIN totals'[c] : totals'[c][i] <= DaySize(stored, c)
    <3>1. /\ base.oldest[c] \in DOMAIN totals[c] /\ Len(totals[c]) <= MaxPuts + 1
          /\ \A i \in DOMAIN totals[c] : totals[c][i] <= DaySize(stored, c)
      BY DEF TotalsGood
    <3>2. CASE c # d
      BY <2>4, <3>1, <3>2
    <3>3. CASE c = d
      <4>1. totals'[c] = Append(totals[d], n)
        BY <2>4, <3>3
      <4>2. \A i \in DOMAIN totals'[c] : totals'[c][i] <= DaySize(stored, c)
        BY <2>2, <2>5, <3>1, <3>3, <4>1
      <4> QED
        BY <2>2, <2>5, <3>1, <3>3, <4>1, <4>2
    <3> QED
      BY <3>2, <3>3
  <2>8. \A c \in Day : DaySize(stored, c)' = DaySize(stored, c)
    BY <2>2 DEF DaySize, DayOf
  <2>9. TotalsGood'
    BY <1>1, <2>7, <2>8 DEF TotalsGood
  <2>10. \A c : Offered(c) \subseteq Offered(c)'
    <3>1. ASSUME NEW c \in Day, NEW i \in base.oldest[c] .. Len(totals[c])
          PROVE  /\ i \in base.oldest[c] .. Len(totals'[c])
                 /\ totals'[c][i] = totals[c][i]
      <4>1. CASE c # d
        BY <2>4, <4>1
      <4>2. CASE c = d
        <5>1. totals'[c] = Append(totals[d], n)
          BY <2>4, <4>2
        <5>2. base.oldest[c] \in 1 .. Len(totals[d])
          BY <2>5, <4>2 DEF TotalsGood
        <5>3. i \in 1 .. Len(totals[d]) /\ base.oldest[c] <= i
          BY <2>5, <4>2, <5>2
        <5> QED
          BY <2>5, <4>2, <5>1, <5>2, <5>3
      <4> QED
        BY <4>1, <4>2
    <3>2. \A c \in Day : Offered(c) = {totals[c][i] : i \in base.oldest[c] .. Len(totals[c])}
      BY DEF Offered
    <3>3. \A c \in Day :
             Offered(c)' = {totals'[c][i] : i \in base.oldest[c] .. Len(totals'[c])}
      BY <1>1 DEF Offered
    <3>4. \A c \in Day : Offered(c) \subseteq Offered(c)'
      BY <3>1, <3>2, <3>3
    <3>5. \A c : c \notin Day => Offered(c) = Offered(c)'
      BY DEF Offered
    <3> QED
      BY <3>4, <3>5
  <2> QED
    BY <2>6, <2>9, <2>10
<1> QED
  BY <1>3, <1>4 DEF Environment, Store, Tick

\* An event stored, a summary put or an hour gone by takes nothing from what has
\* been read.
LEMMA EnvironmentKeeps == IInv /\ Environment => IInv'
<1> SUFFICES ASSUME IInv, Environment PROVE IInv'
  OBVIOUS
<1>1. /\ stored \subseteq stored' /\ stored' \subseteq Event
      /\ clock' \in Hour /\ clock <= clock'
      /\ pc # "done"
      /\ UNCHANGED <<pc, kind, base, fanVars, listVars, fails>>
  <2>1. /\ stored \subseteq Event /\ clock \in 0 .. MaxHour /\ clock \in Nat
        /\ pc # "done"
        /\ UNCHANGED <<pc, kind, base, fanVars, listVars, fails>>
    BY DEF IInv, TypeOK, Environment, Hour
  <2>2. CASE \E e \in Event : Store(e)
    BY <2>1, <2>2 DEF Store, Hour
  <2>3. CASE \E d \in Day, n \in 0 .. Cardinality(Event) : Summarise(d, n)
    BY <2>1, <2>3 DEF Summarise, Hour
  <2>4. CASE Tick
    BY <2>1, <2>4 DEF Tick, Hour
  <2> QED
    BY <2>2, <2>3, <2>4 DEF Environment
<1>2. /\ totals' \in [Day -> Seq(Nat)]
      /\ TotalsGood'
      /\ \A d : Offered(d) \subseteq Offered(d)'
  BY <1>1, TotalsKeep DEF IInv
<1>3. TypeOK'
  BY <1>1, <1>2 DEF IInv, TypeOK, fanVars, listVars
<1>4. BaseGood' /\ IdleClean'
  BY <1>1 DEF IInv, TypeOK, BaseGood, IdleClean, fanVars, listVars, Hour
<1>5. FanOutAt'
  <2>1. \A w : Bucket(stored, w) \subseteq Bucket(stored', w)
    BY <1>1 DEF Bucket
  <2>2. \A d : /\ DaySize(stored, d) <= DaySize(stored', d)
               /\ DaySize(stored, d) \in Nat /\ DaySize(stored', d) \in Nat
    BY <1>1, DayGrows
  <2>3. \A d : DaySize(stored, d)' = DaySize(stored', d)
    BY DEF DaySize, DayOf
  <2>4. UNCHANGED <<pc, kind, base, left, got, total, failed>>
    BY <1>1 DEF fanVars
  <2>5. Work(kind, base.clock)' = Work(kind, base.clock)
    BY <2>4 DEF Work, Back
  <2>6. \A d \in DOMAIN left :
           /\ total[d] \in Nat
           /\ total[d] <= DaySize(stored, d) => total[d] <= DaySize(stored', d)
    BY <2>2 DEF IInv, TypeOK
  <2>7. \A w : Bucket(base.seen, w)' = Bucket(base.seen, w)
                /\ Bucket(stored, w)' = Bucket(stored', w)
    BY <2>4 DEF Bucket
  <2> QED
    BY <1>1, <1>2, <2>1, <2>3, <2>4, <2>5, <2>6, <2>7 DEF IInv, FanOutAt
<1>6. SessionAt' /\ EventsAt'
  BY <1>1 DEF IInv, SessionAt, EventsAt, listVars, Answered, TiedAtPageEnd, Past
<1>7. ListedInOrder' /\ GapsExplained'
  BY <1>1 DEF IInv, ListedInOrder, GapsExplained, listVars
<1> QED
  BY <1>2, <1>3, <1>4, <1>5, <1>6, <1>7 DEF IInv

\* What was asked for is good to go on with.
LEMMA AskGood ==
    ASSUME IInv, NEW k \in FanOut \cup Listings, NEW limit \in Nat \ {0}, Ask(k, limit)
    PROVE  /\ pc = "idle" /\ kind = k /\ kind' = k
           /\ UNCHANGED <<clock, stored, totals, fails>>
           /\ base'.limit = limit /\ base'.clock = clock /\ base'.seen \subseteq stored
           /\ BaseGood' /\ TotalsGood'
<1>1. PICK seen \in SeenThen, oldest \in OldestThen :
         base' = [limit |-> limit, clock |-> clock, seen |-> seen, oldest |-> oldest]
  BY DEF Ask
<1>2. /\ pc = "idle" /\ kind = k /\ kind' = k
      /\ UNCHANGED <<clock, stored, totals, fails>>
  BY DEF Ask, tableVars
<1>3. /\ seen \subseteq stored
      /\ oldest \in [Day -> Nat]
      /\ \A d \in Day : oldest[d] \in DOMAIN totals[d]
  <2>1. seen \subseteq stored
    BY DEF SeenThen
  <2>2. /\ oldest \in [Day -> 1 .. MaxPuts + 1]
        /\ \A d \in Day : oldest[d] <= Len(totals[d])
    BY DEF OldestThen
  <2>3. \A d \in Day : totals[d] \in Seq(Nat)
    BY DEF IInv, TypeOK
  <2>4. \A d \in Day : oldest[d] \in 1 .. MaxPuts + 1 /\ oldest[d] \in Nat
    BY <2>2
  <2>5. \A d \in Day : DOMAIN totals[d] = 1 .. Len(totals[d]) /\ Len(totals[d]) \in Nat
    BY <2>3
  <2>6. oldest \in [Day -> Nat]
    BY <2>2, <2>4
  <2> QED
    BY <2>1, <2>2, <2>4, <2>5, <2>6
<1>4. base'.limit = limit /\ base'.clock = clock /\ base'.seen = seen /\ base'.oldest = oldest
  BY <1>1
<1>5. clock \in Hour /\ clock <= clock
  BY DEF IInv, TypeOK, Hour
<1>6. BaseGood'
  BY <1>2, <1>3, <1>4, <1>5 DEF BaseGood
<1>7. \A d \in Day : DaySize(stored, d)' = DaySize(stored, d)
  BY <1>2 DEF DaySize, DayOf
<1>8. TotalsGood'
  BY <1>2, <1>3, <1>4, <1>7 DEF IInv, TotalsGood
<1> QED
  BY <1>2, <1>3, <1>4, <1>6, <1>8

\* A fan-out begins with nothing read.
LEMMA AskFanOutKeeps ==
    ASSUME IInv, NEW k \in FanOut, AskFanOut(k)
    PROVE  IInv'
<1>1. /\ pc = "idle" /\ kind' = k /\ kind = k
      /\ UNCHANGED <<clock, stored, totals, fails>>
      /\ base'.clock = clock /\ base'.seen \subseteq stored
      /\ BaseGood' /\ TotalsGood'
  BY AskGood DEF AskFanOut
<1>2. /\ pc' = "read"
      /\ left' = [w \in Work(k, clock) |-> Value]
      /\ got' = [w \in Work(k, clock) |-> {}]
      /\ total' = [w \in Work(k, clock) |-> 0]
      /\ failed' = {}
      /\ UNCHANGED <<cursor, listed, pages>>
  BY DEF AskFanOut, listVars
<1>3. clock \in Int /\ Work(k, clock) \subseteq Int
  BY WorkType DEF IInv, TypeOK, Hour
<1>4. TypeOK'
  BY <1>1, <1>2, <1>3 DEF IInv, TypeOK
<1>5. k \notin Listings
  BY DEF FanOut, Hourly, Listings
<1>6. IdleClean'
  BY <1>2 DEF IdleClean
<1>7. FanOutAt'
  <2>1. \A w : \A e \in Bucket(base.seen, w)' : e \in Event
    BY <1>1 DEF IInv, TypeOK, Bucket
  <2>2. \A e \in Event : ValueOf[e] \in Value
    OBVIOUS
  <2>3. DOMAIN left' = Work(kind, base.clock)' /\ DOMAIN left' = Work(k, clock)
    BY <1>1, <1>2 DEF Work, Back
  <2>4. \A w \in DOMAIN left' : left'[w] = Value /\ got'[w] = {} /\ total'[w] = 0
    BY <1>2, <2>3
  <2>5. \A d \in DOMAIN left' : left'[d] # {}
    BY <2>4
  <2> QED
    BY <1>1, <1>2, <2>1, <2>2, <2>3, <2>4, <2>5 DEF FanOutAt
<1>8. SessionAt' /\ EventsAt' /\ GapsExplained'
  BY <1>1, <1>5 DEF SessionAt, EventsAt, GapsExplained, Listings
<1>9. ListedInOrder'
  BY <1>1, <1>2 DEF IInv, IdleClean, ListedInOrder
<1> QED
  BY <1>1, <1>4, <1>6, <1>7, <1>8, <1>9 DEF IInv

\* A listing begins with everything still to come.
LEMMA AskListingKeeps ==
    ASSUME IInv, NEW k \in Listings, NEW limit \in Limits, AskListing(k, limit)
    PROVE  IInv'
<1>1. /\ pc = "idle" /\ kind' = k /\ kind = k
      /\ UNCHANGED <<clock, stored, totals, fails>>
      /\ base'.clock = clock /\ base'.seen \subseteq stored
      /\ BaseGood' /\ TotalsGood'
  <2>1. limit \in Nat \ {0}
    OBVIOUS
  <2> QED
    BY <2>1, AskGood DEF AskListing
<1>2. /\ pc' = "page"
      /\ UNCHANGED <<left, got, total, failed, cursor, listed, pages>>
      /\ cursor = None /\ listed = <<>> /\ pages = <<>>
  BY <1>1 DEF IInv, IdleClean, AskListing, listVars, fanVars
<1>3. TypeOK'
  BY <1>1, <1>2 DEF IInv, TypeOK
<1>4. k \notin FanOut
  BY DEF FanOut, Hourly, Listings
<1>5. IdleClean'
  BY <1>2 DEF IdleClean
<1>6. FanOutAt'
  BY <1>1, <1>4 DEF FanOutAt
<1>7. SessionAt'
  BY <1>2 DEF SessionAt, Past, Answered
<1>8. EventsAt'
  BY <1>2 DEF EventsAt, OlderThan, Answered
<1>9. ListedInOrder' /\ GapsExplained'
  BY <1>2 DEF ListedInOrder, GapsExplained
<1> QED
  BY <1>1, <1>3, <1>5, <1>6, <1>7, <1>8, <1>9 DEF IInv

\* What is settled of the table stays so while no call changes it.
LEMMA TableStays ==
    ASSUME IInv, UNCHANGED <<clock, stored, totals, base>>
    PROVE  /\ BaseGood' /\ TotalsGood'
           /\ \A d : DaySize(stored, d)' = DaySize(stored, d)
           /\ \A d : Offered(d)' = Offered(d)
           /\ \A w : /\ Bucket(stored, w)' = Bucket(stored, w)
                     /\ Bucket(base.seen, w)' = Bucket(base.seen, w)
<1>1. \A d : DaySize(stored, d)' = DaySize(stored, d)
  BY DEF DaySize, DayOf
<1>2. \A d : Offered(d)' = Offered(d)
  BY DEF Offered
<1>3. \A w : /\ Bucket(stored, w)' = Bucket(stored, w)
             /\ Bucket(base.seen, w)' = Bucket(base.seen, w)
  BY DEF Bucket
<1> QED
  BY <1>1, <1>2, <1>3 DEF IInv, BaseGood, TotalsGood

\* A page of an hour adds what it was asked for, as one replica has it.
LEMMA ReadBucketKeeps ==
    ASSUME IInv, NEW w \in Pending, NEW view \in Views, ReadBucket(w, view)
    PROVE  IInv'
<1>1. PICK v \in left[w] :
         /\ left' = [left EXCEPT ![w] = @ \ {v}]
         /\ got' = [got EXCEPT ![w] = @ \cup {e \in Bucket(view, w) : ValueOf[e] = v}]
  BY DEF ReadBucket
<1>2. /\ pc = "read" /\ kind \in Hourly /\ kind \in FanOut
      /\ base.seen \subseteq view /\ view \subseteq stored
      /\ UNCHANGED <<clock, stored, totals, pc, kind, base, total, failed, cursor, listed,
                     pages, fails>>
  BY DEF ReadBucket, tableVars, listVars, Views, FanOut
<1>3. /\ w \in DOMAIN left /\ DOMAIN got = DOMAIN left
      /\ DOMAIN left' = DOMAIN left /\ DOMAIN got' = DOMAIN got
  BY <1>1 DEF IInv, TypeOK, Pending
<1>4. \A u \in DOMAIN left :
         /\ left'[u] = IF u = w THEN left[u] \ {v} ELSE left[u]
         /\ got'[u] = IF u = w
                      THEN got[u] \cup {e \in Bucket(view, u) : ValueOf[e] = v}
                      ELSE got[u]
  BY <1>1, <1>3 DEF IInv, TypeOK
<1>5. \A u : /\ Bucket(view, u) \subseteq Bucket(stored, u)
             /\ Bucket(base.seen, u) \subseteq Bucket(view, u)
  BY <1>2 DEF Bucket
<1>6. TypeOK'
  <2>1. \A u \in DOMAIN left : left'[u] \subseteq Value /\ got'[u] \subseteq stored
    BY <1>4, <1>5, BucketType DEF IInv, TypeOK
  <2> QED
    BY <1>2, <1>3, <2>1 DEF IInv, TypeOK
<1>7. BaseGood' /\ TotalsGood' /\ IdleClean'
  BY <1>2, TableStays DEF IInv, IdleClean
<1>8. FanOutAt'
  <2>1. \A u : /\ Bucket(stored, u)' = Bucket(stored, u)
               /\ Bucket(base.seen, u)' = Bucket(base.seen, u)
    BY <1>2, TableStays
  <2>2. Work(kind, base.clock)' = Work(kind, base.clock)
    BY <1>2 DEF Work, Back
  <2>3. ASSUME NEW u \in DOMAIN left
        PROVE  /\ got'[u] \subseteq Bucket(stored, u)
               /\ \A e \in Bucket(base.seen, u) :
                     ValueOf[e] \in left'[u] \/ e \in got'[u]
    <3>1. /\ got[u] \subseteq Bucket(stored, u)
          /\ \A e \in Bucket(base.seen, u) : ValueOf[e] \in left[u] \/ e \in got[u]
      BY <1>2 DEF IInv, FanOutAt
    <3> QED
      BY <1>4, <1>5, <3>1
  <2>4. DOMAIN left = Work(kind, base.clock)
    BY <1>2 DEF IInv, FanOutAt
  <2> QED
    BY <1>2, <1>3, <2>1, <2>2, <2>3, <2>4 DEF FanOutAt
<1>9. SessionAt' /\ EventsAt' /\ GapsExplained'
  BY <1>2 DEF SessionAt, EventsAt, GapsExplained, FanOut, Hourly
<1>10. ListedInOrder'
  BY <1>2 DEF IInv, ListedInOrder
<1> QED
  BY <1>6, <1>7, <1>8, <1>9, <1>10 DEF IInv

\* The total of a day is one that a replica may have had since the request.
LEMMA ReadSummaryKeeps ==
    ASSUME IInv, NEW d \in Pending, NEW n \in Offered(d), ReadSummary(d, n)
    PROVE  IInv'
<1>1. /\ pc = "read" /\ kind \notin Hourly /\ kind \in FanOut
      /\ left' = [left EXCEPT ![d] = {}]
      /\ total' = [total EXCEPT ![d] = n]
      /\ UNCHANGED <<clock, stored, totals, pc, kind, base, got, failed, cursor, listed,
                     pages, fails>>
  BY DEF ReadSummary, tableVars, listVars, FanOut, Hourly
<1>2. /\ d \in DOMAIN left /\ DOMAIN total = DOMAIN left
      /\ DOMAIN left' = DOMAIN left /\ DOMAIN total' = DOMAIN total
  BY <1>1 DEF IInv, TypeOK, Pending
<1>3. \A c \in DOMAIN left :
         /\ left'[c] = IF c = d THEN {} ELSE left[c]
         /\ total'[c] = IF c = d THEN n ELSE total[c]
  BY <1>1, <1>2 DEF IInv, TypeOK
<1>4. n \in Nat /\ n <= DaySize(stored, d)
  <2>1. CASE d \in Day
    <3>1. PICK i \in base.oldest[d] .. Len(totals[d]) : n = totals[d][i]
      BY <2>1 DEF Offered
    <3>2. base.oldest[d] \in DOMAIN totals[d] /\ totals[d] \in Seq(Nat)
      BY <2>1 DEF IInv, TypeOK, TotalsGood
    <3>3. i \in DOMAIN totals[d]
      BY <3>1, <3>2
    <3> QED
      BY <2>1, <3>1, <3>2, <3>3 DEF IInv, TotalsGood
  <2>2. CASE d \notin Day
    <3>1. n = 0
      BY <2>2 DEF Offered
    <3>2. DaySize(stored, d) \in Nat
      BY DayGrows DEF IInv, TypeOK
    <3> QED
      BY <3>1, <3>2
  <2> QED
    BY <2>1, <2>2
<1>5. TypeOK'
  <2>1. \A c \in DOMAIN left : left'[c] \subseteq Value /\ total'[c] \in Nat
    BY <1>3, <1>4 DEF IInv, TypeOK
  <2> QED
    BY <1>1, <1>2, <2>1 DEF IInv, TypeOK
<1>6. BaseGood' /\ TotalsGood' /\ IdleClean'
  BY <1>1, TableStays DEF IInv, IdleClean
<1>7. FanOutAt'
  <2>1. \A c : DaySize(stored, c)' = DaySize(stored, c) /\ Offered(c)' = Offered(c)
    BY <1>1, TableStays
  <2>2. Work(kind, base.clock)' = Work(kind, base.clock)
    BY <1>1 DEF Work, Back
  <2>3. ASSUME NEW c \in DOMAIN left, left'[c] = {}
        PROVE  total'[c] \in Offered(c) /\ total'[c] <= DaySize(stored, c)
    <3>1. left[c] = {} => total[c] \in Offered(c) /\ total[c] <= DaySize(stored, c)
      BY <1>1 DEF IInv, FanOutAt
    <3> QED
      BY <1>3, <1>4, <2>3, <3>1
  <2>4. DOMAIN left = Work(kind, base.clock)
    BY <1>1 DEF IInv, FanOutAt
  <2> QED
    BY <1>1, <1>2, <2>1, <2>2, <2>3, <2>4 DEF FanOutAt
<1>8. SessionAt' /\ EventsAt' /\ GapsExplained'
  BY <1>1 DEF SessionAt, EventsAt, GapsExplained, FanOut, Hourly
<1>9. ListedInOrder'
  BY <1>1 DEF IInv, ListedInOrder
<1> QED
  BY <1>5, <1>6, <1>7, <1>8, <1>9 DEF IInv

\* A failure leaves the bucket to the gaps.
LEMMA ReadFailsKeeps ==
    ASSUME IInv, NEW w \in Pending, ReadFails(w)
    PROVE  IInv'
<1>1. /\ pc = "read" /\ fails < MaxFails /\ fails' = fails + 1
      /\ failed' = failed \cup {w} /\ w \in DOMAIN left
      /\ UNCHANGED <<clock, stored, totals, pc, kind, base, left, got, total, cursor,
                     listed, pages>>
  BY DEF ReadFails, tableVars, listVars, Pending
<1>2. kind \in FanOut
  BY <1>1 DEF IInv, TypeOK, SessionAt, EventsAt, Listings
<1>3. TypeOK'
  <2>1. fails' \in 0 .. MaxFails
    BY <1>1 DEF IInv, TypeOK
  <2>2. failed' \subseteq DOMAIN left
    BY <1>1 DEF IInv, TypeOK
  <2> QED
    BY <1>1, <2>1, <2>2 DEF IInv, TypeOK
<1>4. BaseGood' /\ TotalsGood' /\ IdleClean'
  BY <1>1, TableStays DEF IInv, IdleClean
<1>5. FanOutAt'
  BY <1>1, TableStays DEF IInv, FanOutAt, Work, Back
<1>6. SessionAt' /\ EventsAt' /\ GapsExplained'
  BY <1>1, <1>2 DEF SessionAt, EventsAt, GapsExplained, FanOut, Hourly
<1>7. ListedInOrder'
  BY <1>1 DEF IInv, ListedInOrder
<1> QED
  BY <1>3, <1>4, <1>5, <1>6, <1>7 DEF IInv

\* The answer waits for every bucket that has not failed.
LEMMA AnswerKeeps == IInv /\ Answer => IInv'
<1> SUFFICES ASSUME IInv, Answer PROVE IInv'
  OBVIOUS
<1>1. /\ pc = "read" /\ pc' = "done" /\ Pending = {}
      /\ UNCHANGED <<clock, stored, totals, kind, base, left, got, total, failed, cursor,
                     listed, pages, fails>>
  BY DEF Answer, Awaited, tableVars, fanVars, listVars
<1>2. kind \in FanOut
  BY <1>1 DEF IInv, TypeOK, SessionAt, EventsAt, Listings
<1>3. TypeOK'
  BY <1>1 DEF IInv, TypeOK
<1>4. BaseGood' /\ TotalsGood' /\ IdleClean'
  BY <1>1, TableStays DEF IInv, IdleClean
<1>5. FanOutAt'
  BY <1>1, TableStays DEF IInv, FanOutAt, Work, Back, Pending
<1>6. SessionAt' /\ EventsAt' /\ GapsExplained'
  BY <1>1, <1>2 DEF SessionAt, EventsAt, GapsExplained, FanOut, Hourly
<1>7. ListedInOrder'
  BY <1>1 DEF IInv, ListedInOrder
<1> QED
  BY <1>3, <1>4, <1>5, <1>6, <1>7 DEF IInv

-----------------------------------------------------------------------------
(* The pages of a listing *)

\* A listing as it stands: what it has answered, in the order of its kind.
LEMMA ListedSoFar ==
    ASSUME TypeOK, ListedInOrder
    PROVE  /\ Lists(listed, Answered) /\ Answered \subseteq Fits
           /\ kind = "events" => Sorted(NewerPairs, listed)
           /\ kind = "session" => Sorted(OlderPairs, listed)
<1>1. listed \in Seq(Fits) /\ DOMAIN listed = 1 .. Len(listed)
  BY DEF TypeOK
<1>2. listed \in Seq(Answered) /\ Answered \subseteq Fits
  <2>1. \A i \in 1 .. Len(listed) : listed[i] \in Answered /\ listed[i] \in Fits
    <3> SUFFICES ASSUME NEW i \in 1 .. Len(listed)
                 PROVE  listed[i] \in Answered /\ listed[i] \in Fits
      OBVIOUS
    <3>1. i \in DOMAIN listed
      BY <1>1
    <3> QED
      BY <1>1, <3>1 DEF Answered
  <2>2. listed = [i \in 1 .. Len(listed) |-> listed[i]] /\ Len(listed) \in Nat
    BY <1>1
  <2>3. listed \in [1 .. Len(listed) -> Answered]
    BY <2>1, <2>2
  <2>4. listed \in Seq(Answered)
    BY <2>2, <2>3
  <2> QED
    BY <1>1, <2>1, <2>4 DEF Answered
<1>3. \A i \in DOMAIN listed : listed[i] \in Event
  BY <1>1
<1> QED
  BY <1>2, <1>3 DEF ListedInOrder, Lists, Answered, Sorted, NewerPairs, OlderPairs

\* A page is one longer than the one before.
LEMMA PageAdded ==
    ASSUME TypeOK, NEW rows \in SUBSET Event, pages' = Append(pages, rows)
    PROVE  /\ pages' \in Seq(SUBSET Event)
           /\ Len(pages') = Len(pages) + 1 /\ Len(pages) \in Nat
           /\ DOMAIN pages' = 1 .. Len(pages) + 1 /\ DOMAIN pages = 1 .. Len(pages)
           /\ pages'[Len(pages')] = rows
           /\ \A i \in DOMAIN pages : i \in DOMAIN pages' /\ pages'[i] = pages[i]
  BY DEF TypeOK

\* A page of the day's events: what it answers is older than all before, and
\* what it passes over is at its end, or past a row that did not fit, or of a
\* day that is over.
LEMMA EventsPageKeeps ==
    ASSUME IInv, NEW view \in Views, EventsPage(view)
    PROVE  IInv'
<1> DEFINE today == {e \in view : DayOf(e) = clock \div HoursPerDay}
           tail == {e \in today : OlderThan(e, cursor)}
           rows == FirstOf(tail, base.limit, Newer)
           pub == Public(rows)
<1>1. /\ pc = "page" /\ kind = "events"
      /\ listed' = listed \o InOrder(pub, Newer)
      /\ pages' = Append(pages, rows)
      /\ UNCHANGED <<clock, stored, totals, kind, base, left, got, total, failed, fails>>
      /\ \/ FullPage(rows) /\ cursor' = Oldest(pub) /\ pc' = pc
         \/ ~FullPage(rows) /\ pc' = "done" /\ cursor' = cursor
  BY DEF EventsPage, tableVars, fanVars
<1>2. /\ tail \in SUBSET Event /\ base.limit \in Nat \ {0}
      /\ base.clock \in Int /\ clock \in Int /\ base.clock <= clock
      /\ base.seen \subseteq view /\ view \subseteq stored /\ stored \subseteq Event
      /\ cursor \in Nat \cup {None} /\ None \notin Nat
      /\ TypeOK /\ ListedInOrder
  BY DEF IInv, TypeOK, BaseGood, Hour, None, Views
<1>3. /\ rows \subseteq tail /\ rows \in SUBSET Event /\ IsFiniteSet(rows)
      /\ Cardinality(rows) \in Nat /\ Cardinality(rows) <= base.limit
      /\ \A e \in tail \ rows :
            Cardinality(rows) = base.limit /\ \A f \in rows : Newer(f, e)
  <2> HIDE DEF tail
  <2>1. rows = NewestOf(tail, base.limit)
    BY DEF FirstOf, NewestOf
  <2> HIDE DEF rows
  <2> QED
    BY <1>2, <2>1, NewestFirst
<1>4. \A e \in tail : /\ e \in view /\ DayOf(e) = clock \div HoursPerDay
                      /\ cursor # None => Ts[e] < cursor
  BY DEF OlderThan
<1>5. \A e \in view : DayOf(e) = clock \div HoursPerDay /\ OlderThan(e, cursor)
         => e \in tail
  OBVIOUS
<1> HIDE DEF today, tail, rows
<1>6. pub \subseteq rows /\ pub = rows \cap Fits /\ pub \in SUBSET Event /\ IsFiniteSet(pub)
  BY <1>3, FS_Subset DEF Public
<1> HIDE DEF pub
<1>7. /\ \A e \in Answered : cursor # None /\ cursor <= Ts[e]
      /\ \A e \in base.seen \cap Fits :
            DayOf(e) = base.clock \div HoursPerDay =>
               e \in Answered \/ TiedAtPageEnd(e) \/ OlderThan(e, cursor)
  BY <1>1 DEF IInv, EventsAt
<1>8. Answered \subseteq Fits /\ Answered \subseteq Event
  BY <1>2, ListedSoFar
<1>9. Lists(listed', Answered \cup pub) /\ Sorted(NewerPairs, listed')
  <2> DEFINE row == InOrder(pub, Newer)
  <2>1. Lists(row, pub) /\ Sorted(NewerPairs, row)
    BY <1>6, NewestRow
  <2>2. Lists(listed, Answered) /\ Sorted(NewerPairs, listed)
    BY <1>1, <1>2, ListedSoFar
  <2>3. ASSUME NEW e \in Answered, NEW f \in pub PROVE <<e, f>> \in NewerPairs
    <3>1. cursor # None /\ cursor <= Ts[e]
      BY <1>7
    <3>2. Ts[f] < cursor
      BY <1>3, <1>4, <1>6, <3>1
    <3>3. Ts[e] \in Nat /\ Ts[f] \in Nat /\ cursor \in Nat
      BY <1>2, <1>6, <1>8, <3>1
    <3>4. Newer(e, f)
      BY <3>1, <3>2, <3>3 DEF Newer
    <3> QED
      BY <1>6, <1>8, <3>4 DEF NewerPairs
  <2>4. listed' = listed \o row
    BY <1>1
  <2> HIDE DEF row
  <2>5. Lists(listed \o row, Answered \cup pub) /\ Sorted(NewerPairs, listed \o row)
    BY <2>1, <2>2, <2>3, Joined
  <2> QED
    BY <2>4, <2>5
<1>10. Answered' = Answered \cup pub
  BY <1>9 DEF Answered, Lists
<1>11. /\ pages' \in Seq(SUBSET Event)
       /\ Len(pages') \in DOMAIN pages' /\ pages'[Len(pages')] = rows
       /\ \A i \in DOMAIN pages : i \in DOMAIN pages' /\ pages'[i] = pages[i]
  BY <1>1, <1>2, <1>3, PageAdded
<1>12. ASSUME FullPage(rows) PROVE pub # {}
  <2>1. Cardinality({}) = 0
    BY FS_EmptySet
  <2>2. Cardinality(pub) >= base.limit
    BY <1>12 DEF FullPage, pub
  <2> QED
    BY <1>2, <2>1, <2>2
<1>13. ASSUME FullPage(rows)
       PROVE  /\ cursor' \in Nat
              /\ \A f \in pub : cursor' <= Ts[f]
              /\ \E f \in pub : Ts[f] = cursor'
  <2>1. cursor' = Oldest(pub)
    BY <1>1, <1>13
  <2>2. /\ Oldest(pub) \in Nat
        /\ \E f \in pub : Ts[f] = Oldest(pub)
        /\ \A f \in pub : Oldest(pub) <= Ts[f]
    BY <1>6, <1>12, <1>13, OldestIs
  <2> QED
    BY <2>1, <2>2
<1>14. TypeOK'
  <2>1. listed' \in Seq(Fits)
    <3>1. Answered \cup pub \subseteq Fits
      BY <1>6, <1>8
    <3> QED
      BY <1>9, <3>1 DEF Lists
  <2> QED
    BY <1>1, <1>11, <1>13, <2>1 DEF IInv, TypeOK
<1>15. BaseGood' /\ TotalsGood' /\ IdleClean'
  BY <1>1, TableStays DEF IInv, IdleClean
<1>16. FanOutAt' /\ SessionAt'
  BY <1>1 DEF FanOutAt, SessionAt, FanOut, Hourly
<1>17. ListedInOrder'
  BY <1>1, <1>9 DEF ListedInOrder, Sorted, NewerPairs
<1>18. \A e : TiedAtPageEnd(e) => TiedAtPageEnd(e)'
  BY <1>1, <1>11 DEF TiedAtPageEnd
\* The rows of the page are newer than what is still to come.
<1>19. ASSUME NEW e \in base.seen, OlderThan(e, cursor),
              DayOf(e) = base.clock \div HoursPerDay, e \notin rows
       PROVE  /\ \A f \in rows : Newer(f, e)
              /\ \/ Cardinality(rows) = base.limit
                 \/ clock \div HoursPerDay # base.clock \div HoursPerDay
  <2>1. e \in Event /\ e \in view
    BY <1>2
  <2>2. CASE clock \div HoursPerDay = base.clock \div HoursPerDay
    <3>1. e \in tail \ rows
      BY <1>5, <1>19, <2>1, <2>2
    <3> QED
      BY <1>3, <3>1
  <2>3. CASE clock \div HoursPerDay # base.clock \div HoursPerDay
    <3>1. /\ clock \div HoursPerDay \in Int /\ base.clock \div HoursPerDay \in Int
          /\ base.clock \div HoursPerDay < clock \div HoursPerDay
      BY <1>2, <2>3, Days
    <3>2. ASSUME NEW f \in rows PROVE Newer(f, e)
      <4>1. DayOf(e) < DayOf(f) /\ f \in Event
        BY <1>3, <1>4, <1>19, <3>1
      <4> QED
        BY <2>1, <4>1, LaterDay
    <3> QED
      BY <2>3, <3>2
  <2> QED
    BY <2>2, <2>3
<1>20. EventsAt'
  <2>1. CASE FullPage(rows)
    <3>1. pc' = "page" /\ kind' = "events" /\ base' = base
      BY <1>1, <2>1
    <3>2. ASSUME NEW e \in Answered \cup pub PROVE cursor' # None /\ cursor' <= Ts[e]
      <4>1. PICK f \in pub : Ts[f] = cursor'
        BY <1>13, <2>1
      <4>2. CASE e \in pub
        BY <1>2, <1>13, <2>1, <4>2
      <4>3. CASE e \in Answered
        <5>1. cursor # None /\ cursor <= Ts[e] /\ Ts[f] < cursor
          BY <1>3, <1>4, <1>6, <1>7, <4>3
        <5>2. Ts[e] \in Nat /\ Ts[f] \in Nat /\ cursor \in Nat
          BY <1>2, <1>6, <1>8, <4>3, <5>1
        <5> QED
          BY <1>2, <4>1, <5>1, <5>2
      <4> QED
        BY <4>2, <4>3
    <3>3. ASSUME NEW e \in base.seen \cap Fits, DayOf(e) = base.clock \div HoursPerDay
          PROVE  e \in Answered \cup pub \/ TiedAtPageEnd(e)' \/ OlderThan(e, cursor')
      <4> SUFFICES ASSUME e \notin Answered \cup pub, ~TiedAtPageEnd(e)'
                   PROVE  OlderThan(e, cursor')
        OBVIOUS
      <4>1. OlderThan(e, cursor) /\ e \notin rows /\ e \in Event
        BY <1>2, <1>6, <1>7, <1>18, <3>3
      <4>2. /\ \A f \in rows : Newer(f, e)
            /\ \/ Cardinality(rows) = base.limit
               \/ clock \div HoursPerDay # base.clock \div HoursPerDay
        BY <1>19, <3>3, <4>1
      <4>3. PICK f \in pub : Ts[f] = cursor'
        BY <1>13, <2>1
      <4>4. f \in rows /\ f \in Event /\ Newer(f, e)
        BY <1>6, <4>2, <4>3
      <4>5. CASE Ts[f] > Ts[e]
        BY <4>3, <4>5 DEF OlderThan
      <4>6. CASE Ts[f] = Ts[e]
        <5>1. clock \div HoursPerDay = base.clock \div HoursPerDay
          <6>1. DayOf(f) = clock \div HoursPerDay /\ clock \div HoursPerDay \in Int
                /\ base.clock \div HoursPerDay \in Int
            BY <1>2, <1>3, <1>4, <4>4, Days
          <6>2. base.clock \div HoursPerDay <= clock \div HoursPerDay
            BY <1>2, Days
          <6>3. ~(DayOf(e) < DayOf(f))
            BY <4>1, <4>4, <4>6, LaterDay
          <6> QED
            BY <3>3, <6>1, <6>2, <6>3
        <5>2. TiedAtPageEnd(e)'
          BY <1>1, <1>11, <4>2, <4>4, <4>6, <5>1 DEF TiedAtPageEnd
        <5> QED
          BY <5>2
      <4> QED
        BY <4>1, <4>4, <4>5, <4>6 DEF Newer
    <3>4. \A e : DayOf(e)' = DayOf(e) /\ OlderThan(e, cursor)' = OlderThan(e, cursor')
      BY DEF DayOf, OlderThan
    <3> QED
      BY <1>10, <3>1, <3>2, <3>3, <3>4 DEF EventsAt
  <2>2. CASE ~FullPage(rows)
    BY <1>1, <2>2 DEF EventsAt
  <2> QED
    BY <2>1, <2>2
<1>21. GapsExplained'
  <2>1. CASE FullPage(rows)
    BY <1>1, <2>1 DEF GapsExplained
  <2>2. CASE ~FullPage(rows)
    <3>1. ASSUME NEW e \in base.seen, DayOf(e) = base.clock \div HoursPerDay,
                 e \in Fits, e \notin Answered', ~TiedAtPageEnd(e)'
          PROVE  EndsEarly' /\ \A i \in DOMAIN listed' : Newer(listed'[i], e)
      <4>1. OlderThan(e, cursor) /\ e \notin rows /\ e \in Event
        BY <1>2, <1>6, <1>7, <1>10, <1>18, <3>1
      <4>2. /\ \A f \in rows : Newer(f, e)
            /\ \/ Cardinality(rows) = base.limit
               \/ clock \div HoursPerDay # base.clock \div HoursPerDay
        BY <1>19, <3>1, <4>1
      <4>3. ASSUME NEW f \in Answered \cup pub PROVE Newer(f, e)
        <5>1. CASE f \in pub
          BY <1>6, <4>2, <5>1
        <5>2. CASE f \in Answered
          <6>1. cursor # None /\ cursor <= Ts[f] /\ cursor \in Nat
            BY <1>2, <1>7, <5>2
          <6>2. Ts[e] < cursor /\ Ts[e] \in Nat /\ Ts[f] \in Nat
            BY <1>8, <4>1, <5>2, <6>1 DEF OlderThan
          <6> QED
            BY <6>1, <6>2 DEF Newer
        <5> QED
          BY <5>1, <5>2
      <4>4. \A i \in DOMAIN listed' : Newer(listed'[i], e)
        BY <1>9, <4>3 DEF Lists
      <4>5. CASE Cardinality(rows) = base.limit
        <5>1. pub # rows
          BY <1>2, <2>2, <4>5 DEF FullPage, pub
        <5>2. rows \ Fits # {}
          BY <1>6, <5>1
        <5>3. EndsEarly'
          BY <1>11, <5>2 DEF EndsEarly
        <5> QED
          BY <4>4, <5>3
      <4>6. CASE clock \div HoursPerDay # base.clock \div HoursPerDay
        <5>1. EndsEarly'
          BY <1>1, <4>6 DEF EndsEarly
        <5> QED
          BY <4>4, <5>1
      <4> QED
        BY <4>2, <4>5, <4>6
    <3>2. \A e : DayOf(e)' = DayOf(e)
      BY DEF DayOf
    <3> QED
      BY <1>1, <3>1, <3>2 DEF GapsExplained
  <2> QED
    BY <2>1, <2>2
<1> QED
  BY <1>14, <1>15, <1>16, <1>17, <1>20, <1>21 DEF IInv

\* A page of a session takes up where the one before ended.
LEMMA SessionPageKeeps ==
    ASSUME IInv, NEW view \in Views, SessionPage(view)
    PROVE  IInv'
<1> DEFINE rest == {e \in view : Past(e)}
           rows == FirstOf(rest, PageSize, Older)
           pub == Public(rows)
           last == Len(pages)
<1>1. /\ pc = "page" /\ kind = "session"
      /\ listed' = listed \o InOrder(pub, Older)
      /\ pages' = Append(pages, rows)
      /\ pc' = IF LastPage(rows) THEN "done" ELSE "page"
      /\ UNCHANGED <<clock, stored, totals, kind, base, left, got, total, failed, cursor,
                     fails>>
  BY DEF SessionPage, tableVars, fanVars
<1>2. /\ rest \in SUBSET Event /\ base.seen \subseteq view /\ stored \subseteq Event
      /\ TypeOK /\ ListedInOrder /\ PageSize \in Nat \ {0}
      /\ pages \in Seq(SUBSET Event) /\ last \in Nat /\ DOMAIN pages = 1 .. last
  BY DEF IInv, TypeOK, Views
<1>3. /\ rows \subseteq rest /\ rows \in SUBSET Event /\ IsFiniteSet(rows)
      /\ Cardinality(rows) \in Nat /\ Cardinality(rows) <= PageSize
      /\ \A e \in rest \ rows :
            Cardinality(rows) = PageSize /\ \A f \in rows : Older(f, e)
  <2> HIDE DEF rest
  <2>1. rows = OldestOf(rest, PageSize)
    BY DEF FirstOf, OldestOf
  <2>2. rest \in SUBSET Event /\ PageSize \in Nat
    BY <1>2
  <2> HIDE DEF rows
  <2> QED
    BY <2>1, <2>2, OldestFirst
<1>4. \A e : e \in rest <=> e \in view /\ Past(e)
  OBVIOUS
<1> HIDE DEF rest, rows
<1>5. pub \subseteq rows /\ pub = rows \cap Fits /\ pub \in SUBSET Event
  BY <1>3 DEF Public
<1> HIDE DEF pub
<1>6. /\ \A i \in DOMAIN pages : pages[i] \cap Fits \subseteq Answered /\ pages[i] # {}
      /\ \A i, j \in DOMAIN pages : i < j =>
            \A e \in pages[i], f \in pages[j] : Older(e, f)
      /\ \A e \in Answered : \E i \in DOMAIN pages : e \in pages[i]
      /\ \A e \in base.seen : (\E i \in DOMAIN pages : e \in pages[i]) \/ Past(e)
  BY <1>1 DEF IInv, SessionAt
\* What was read before is older than the page.
<1>7. ASSUME NEW i \in DOMAIN pages, NEW e \in pages[i], NEW f \in rows
      PROVE  Older(e, f)
  <2>1. i \in 1 .. last /\ pages # <<>> /\ last \in DOMAIN pages
    BY <1>2
  <2>2. \A g \in pages[last] : Older(g, f)
    BY <1>3, <1>4, <2>1 DEF Past
  <2>3. CASE i = last
    BY <1>7, <2>2, <2>3
  <2>4. CASE i < last
    <3>1. PICK g \in pages[last] : TRUE
      BY <1>6, <2>1
    <3>2. Older(e, g) /\ Older(g, f)
      BY <1>6, <2>1, <2>2, <2>4
    <3>3. e \in Event /\ f \in Event /\ g \in Event
      BY <1>2, <1>3, <2>1
    <3> QED
      BY <3>2, <3>3 DEF Older, Newer
  <2> QED
    BY <1>2, <2>1, <2>3, <2>4
<1>8. Lists(listed', Answered \cup pub) /\ Sorted(OlderPairs, listed')
  <2> DEFINE row == InOrder(pub, Older)
  <2>1. Lists(row, pub) /\ Sorted(OlderPairs, row)
    BY <1>5, OldestRow
  <2>2. /\ Lists(listed, Answered) /\ Sorted(OlderPairs, listed)
        /\ Answered \subseteq Event
    BY <1>1, <1>2, ListedSoFar
  <2>3. ASSUME NEW e \in Answered, NEW f \in pub PROVE <<e, f>> \in OlderPairs
    <3>1. Older(e, f)
      BY <1>5, <1>6, <1>7
    <3> QED
      BY <1>5, <2>2, <3>1 DEF OlderPairs
  <2>4. listed' = listed \o row
    BY <1>1
  <2> HIDE DEF row
  <2>5. Lists(listed \o row, Answered \cup pub) /\ Sorted(OlderPairs, listed \o row)
    BY <2>1, <2>2, <2>3, Joined
  <2> QED
    BY <2>4, <2>5
<1>9. Answered' = Answered \cup pub /\ Answered \subseteq Fits
  BY <1>2, <1>8, ListedSoFar DEF Answered, Lists
<1>10. /\ pages' \in Seq(SUBSET Event)
       /\ Len(pages') = last + 1
       /\ DOMAIN pages' = 1 .. last + 1
       /\ pages'[last + 1] = rows
       /\ \A i \in DOMAIN pages : i \in DOMAIN pages' /\ pages'[i] = pages[i]
  BY <1>1, <1>2, <1>3, PageAdded
<1> HIDE DEF last
<1>11. TypeOK'
  <2>1. listed' \in Seq(Fits)
    <3>1. Answered \cup pub \subseteq Fits
      BY <1>5, <1>9
    <3> QED
      BY <1>8, <3>1 DEF Lists
  <2> QED
    BY <1>1, <1>10, <2>1 DEF IInv, TypeOK
<1>12. BaseGood' /\ TotalsGood' /\ IdleClean'
  BY <1>1, TableStays DEF IInv, IdleClean
<1>13. FanOutAt' /\ EventsAt' /\ GapsExplained'
  BY <1>1 DEF FanOutAt, EventsAt, GapsExplained, FanOut, Hourly
<1>14. ListedInOrder'
  BY <1>1, <1>8 DEF ListedInOrder, Sorted, OlderPairs
<1>15. \A i \in DOMAIN pages' :
          \/ i \in DOMAIN pages /\ pages'[i] = pages[i]
          \/ i = last + 1 /\ pages'[i] = rows
  BY <1>2, <1>10
<1>16. \A i \in DOMAIN pages' :
          /\ pages'[i] \cap Fits \subseteq Answered'
          /\ pc' = "page" => pages'[i] # {}
  <2>1. pc' = "page" => rows # {}
    <3> SUFFICES ASSUME pc' = "page", rows = {} PROVE FALSE
      OBVIOUS
    <3>1. Cardinality(rows) = 0
      BY FS_EmptySet
    <3>2. ~(Cardinality(rows) < PageSize)
      BY <1>1 DEF LastPage
    <3> QED
      BY <1>2, <3>1, <3>2
  <2> QED
    BY <1>5, <1>6, <1>9, <1>15, <2>1
<1>17. \A i, j \in DOMAIN pages' : i < j =>
          \A e \in pages'[i], f \in pages'[j] : Older(e, f)
  <2> SUFFICES ASSUME NEW i \in DOMAIN pages', NEW j \in DOMAIN pages', i < j,
                      NEW e \in pages'[i], NEW f \in pages'[j]
               PROVE  Older(e, f)
    OBVIOUS
  <2>1. i \in DOMAIN pages /\ pages'[i] = pages[i]
    BY <1>2, <1>10, <1>15
  <2>2. CASE j \in DOMAIN pages
    BY <1>6, <1>10, <2>1, <2>2
  <2>3. CASE pages'[j] = rows
    BY <1>7, <2>1, <2>3
  <2> QED
    BY <1>15, <2>2, <2>3
<1>18. \A e \in Answered' : \E i \in DOMAIN pages' : e \in pages'[i]
  <2>1. \A e \in pub : e \in pages'[last + 1] /\ last + 1 \in DOMAIN pages'
    BY <1>2, <1>5, <1>10
  <2> QED
    BY <1>6, <1>9, <1>10, <2>1
<1>19. ASSUME NEW e \in base.seen
       PROVE  \/ \E i \in DOMAIN pages' : e \in pages'[i]
              \/ pc' = "page" /\ Past(e)'
  <2>1. CASE \E i \in DOMAIN pages : e \in pages[i]
    BY <1>10, <2>1
  <2>2. CASE e \in rows
    <3>1. last + 1 \in DOMAIN pages' /\ e \in pages'[last + 1]
      BY <1>2, <1>10, <2>2
    <3> QED
      BY <3>1
  <2>3. CASE Past(e) /\ e \notin rows
    <3>1. e \in rest \ rows
      BY <1>2, <1>4, <2>3
    <3>2. Cardinality(rows) = PageSize /\ \A f \in rows : Older(f, e)
      BY <1>3, <3>1
    <3>3. pc' = "page"
      BY <1>1, <1>2, <3>2 DEF LastPage
    <3>4. Past(e)'
      BY <1>10, <3>2 DEF Past, Older, Newer
    <3> QED
      BY <3>3, <3>4
  <2> QED
    BY <1>6, <2>1, <2>2, <2>3
<1>20. SessionAt'
  BY <1>1, <1>16, <1>17, <1>18, <1>19 DEF SessionAt, Older, Newer
<1> QED
  BY <1>11, <1>12, <1>13, <1>14, <1>20 DEF IInv

-----------------------------------------------------------------------------
(* The invariant and what follows from it *)

\* Every step keeps the invariant.
LEMMA NextKeeps == IInv /\ [Next]_vars => IInv'
<1> SUFFICES ASSUME IInv, [Next]_vars PROVE IInv'
  OBVIOUS
<1>1. CASE Environment
  BY <1>1, EnvironmentKeeps
<1>2. ASSUME NEW k \in FanOut, AskFanOut(k) PROVE IInv'
  BY <1>2, AskFanOutKeeps
<1>3. ASSUME NEW k \in Listings, NEW limit \in Limits, AskListing(k, limit) PROVE IInv'
  BY <1>3, AskListingKeeps
<1>4. ASSUME NEW w \in Pending, NEW view \in Views, ReadBucket(w, view) PROVE IInv'
  BY <1>4, ReadBucketKeeps
<1>10. ASSUME NEW d \in Pending, NEW n \in Offered(d), ReadSummary(d, n) PROVE IInv'
  BY <1>10, ReadSummaryKeeps
<1>5. ASSUME NEW w \in Pending, ReadFails(w) PROVE IInv'
  BY <1>5, ReadFailsKeeps
<1>6. CASE Answer
  BY <1>6, AnswerKeeps
<1>7. ASSUME NEW view \in Views, EventsPage(view) PROVE IInv'
  BY <1>7, EventsPageKeeps
<1>8. ASSUME NEW view \in Views, SessionPage(view) PROVE IInv'
  BY <1>8, SessionPageKeeps
<1>9. CASE UNCHANGED vars
  <2>1. UNCHANGED <<clock, stored, totals, pc, kind, base, left, got, total, failed, cursor,
                    listed, pages, fails>>
    BY <1>9 DEF vars, tableVars, fanVars, listVars
  <2>2. TypeOK' /\ BaseGood' /\ TotalsGood' /\ IdleClean' /\ ListedInOrder'
    BY <2>1, TableStays DEF IInv, TypeOK, IdleClean, ListedInOrder
  <2>3. FanOutAt'
    BY <2>1, TableStays DEF IInv, FanOutAt, Work, Back, Pending
  <2>4. SessionAt' /\ EventsAt'
    BY <2>1 DEF IInv, SessionAt, EventsAt, Answered, Past, TiedAtPageEnd, OlderThan
  <2>5. GapsExplained'
    BY <2>1 DEF IInv, GapsExplained, Answered, TiedAtPageEnd, EndsEarly
  <2> QED
    BY <2>2, <2>3, <2>4, <2>5 DEF IInv
<1> QED
  BY <1>1, <1>2, <1>3, <1>4, <1>5, <1>6, <1>7, <1>8, <1>9, <1>10 DEF Next, Request, Step

\* The invariant holds of every behaviour.
LEMMA Invariant == Spec => []IInv
<1>1. Init => IInv
  BY InitInv
<1>2. IInv /\ [Next]_vars => IInv'
  BY NextKeeps
<1> QED
  BY <1>1, <1>2, PTL DEF Spec

\* A fan-out that is answered has, of each bucket whose read did not fail, what
\* its read was sure to find and nothing that was not there at the end.
LEMMA FanOutDone ==
    ASSUME IInv, pc = "done", kind \in FanOut
    PROVE  /\ DOMAIN left = Work(kind, base.clock) /\ DOMAIN got = DOMAIN left
           /\ kind \in Hourly => \A w \in DOMAIN left :
                 /\ got[w] \subseteq Bucket(stored, w)
                 /\ w \notin failed => Bucket(base.seen, w) \subseteq got[w]
           /\ kind \notin Hourly => \A d \in DOMAIN left \ failed :
                 total[d] \in Offered(d) /\ total[d] \in 0 .. DaySize(stored, d)
<1>1. Pending = {}
  BY DEF IInv, FanOutAt
<1>2. \A w \in DOMAIN left : w \notin failed => left[w] = {}
  BY <1>1 DEF Pending
<1>3. ASSUME kind \notin Hourly, NEW d \in DOMAIN left \ failed
      PROVE  total[d] \in Offered(d) /\ total[d] \in 0 .. DaySize(stored, d)
  <2>1. total[d] \in Offered(d) /\ total[d] <= DaySize(stored, d) /\ total[d] \in Nat
    BY <1>2, <1>3 DEF IInv, TypeOK, FanOutAt
  <2>2. DaySize(stored, d) \in Nat
    BY DayGrows DEF IInv, TypeOK
  <2> QED
    BY <2>1, <2>2
<1> QED
  BY <1>2, <1>3 DEF IInv, TypeOK, FanOutAt

\* The sizes of sets of events between one another.
LEMMA Between ==
    ASSUME NEW A, NEW B, NEW C, A \subseteq B, B \subseteq C, C \subseteq Event
    PROVE  /\ Cardinality(B) \in Cardinality(A) .. Cardinality(C)
           /\ Cardinality(B) # None
<1>1. IsFiniteSet(C)
  BY FS_Subset
<1>2. IsFiniteSet(B) /\ Cardinality(B) <= Cardinality(C)
  BY <1>1, FS_Subset
<1>3. IsFiniteSet(A) /\ Cardinality(A) <= Cardinality(B)
  BY <1>2, FS_Subset
<1> QED
  BY <1>1, <1>2, <1>3, FS_CardinalityType DEF None

\* A window is the buckets up to the last, with none left out.
LEMMA BackRange ==
    ASSUME NEW n \in Int PROVE Back(n) = n - Window + 1 .. n
<1>1. \A w \in Back(n) : w \in n - Window + 1 .. n
  BY DEF Back
<1>2. ASSUME NEW w \in n - Window + 1 .. n PROVE w \in Back(n)
  <2>1. n - w \in 0 .. Window - 1 /\ w = n - (n - w)
    OBVIOUS
  <2> QED
    BY <2>1 DEF Back
<1> QED
  BY <1>1, <1>2

\* What the invariant says of an answered timeline, ...
LEMMA TimelineFromInv == IInv => TimelineHonest
<1> DEFINE Right(w, count) ==
              IF w \in failed THEN count = None
              ELSE IF kind \in Hourly
              THEN count \in Size(base.seen, w) .. Size(stored, w)
              ELSE count \in Offered(w) /\ count \in 0 .. DaySize(stored, w)
           last == IF kind \in Hourly THEN base.clock ELSE base.clock \div HoursPerDay
<1> SUFFICES ASSUME IInv, pc = "done", kind \in {"timeline_1h", "timeline_1d"}
             PROVE  /\ {r.ts : r \in Rows} = last - Window + 1 .. last
                    /\ \A r \in Rows : Right(r.ts, r.count)
  BY DEF TimelineHonest
<1> HIDE DEF Right
<1>1. kind \in FanOut /\ base.clock \in Int
  BY DEF FanOut, Hourly, IInv, BaseGood, Hour
<1>2. last \in Int
  BY <1>1, Days
<1>3. DOMAIN left = last - Window + 1 .. last
  BY <1>1, <1>2, FanOutDone, BackRange DEF Work
<1> HIDE DEF last
<1>4. {r.ts : r \in Rows} = DOMAIN left
  <2>1. \A r \in Rows : r.ts \in DOMAIN left
    BY DEF Rows
  <2>2. ASSUME NEW w \in DOMAIN left PROVE \E r \in Rows : r.ts = w
    <3>1. [ts |-> w, count |-> RowCount(w)] \in Rows
      BY DEF Rows
    <3> QED
      BY <3>1
  <2>4. {r.ts : r \in Rows} \subseteq DOMAIN left
    BY <2>1
  <2>5. DOMAIN left \subseteq {r.ts : r \in Rows}
    BY <2>2
  <2> QED
    BY <2>4, <2>5
<1>5. ASSUME NEW w \in DOMAIN left PROVE Right(w, RowCount(w))
  <2>1. CASE w \in failed
    BY <2>1 DEF RowCount, Right
  <2>2. CASE w \notin failed /\ kind \in Hourly
    <3>1. /\ Bucket(base.seen, w) \subseteq got[w]
          /\ got[w] \subseteq Bucket(stored, w)
      BY <1>1, <2>2, FanOutDone
    <3>2. Bucket(stored, w) \subseteq Event
      BY BucketType DEF IInv, TypeOK
    <3>3. Cardinality(got[w]) \in
             Cardinality(Bucket(base.seen, w)) .. Cardinality(Bucket(stored, w))
      BY <3>1, <3>2, Between
    <3> QED
      BY <2>2, <3>3 DEF RowCount, Size, Right
  <2>3. CASE w \notin failed /\ kind \notin Hourly
    <3>1. total[w] \in Offered(w) /\ total[w] \in 0 .. DaySize(stored, w)
      BY <1>1, <2>3, FanOutDone
    <3> QED
      BY <2>3, <3>1 DEF RowCount, Right
  <2> QED
    BY <2>1, <2>2, <2>3
<1>6. \A r \in Rows : \E w \in DOMAIN left : r.ts = w /\ r.count = RowCount(w)
  BY DEF Rows
<1>7. \A r \in Rows : Right(r.ts, r.count)
  BY <1>5, <1>6
<1> QED
  BY <1>3, <1>4, <1>7 DEF last

\* ... of a breakdown ...
LEMMA BreakdownFromInv == IInv => BreakdownLowAtWorst
<1> SUFFICES ASSUME IInv, pc = "done", kind = "breakdown", NEW v \in Shown
             PROVE  LET Sum(table, hours) == Cardinality({e \in table :
                                          ValueOf[e] = v /\ HourOf[e] \in hours})
                        all == base.clock - Window + 1 .. base.clock
                    IN  Breakdown[v] \in
                           Sum(base.seen, all \ failed) .. Sum(stored, all \ failed)
  BY DEF BreakdownLowAtWorst
<1> DEFINE all == base.clock - Window + 1 .. base.clock
           of(table) == {e \in table : ValueOf[e] = v /\ HourOf[e] \in all \ failed}
           read == {e \in UNION {got[w] : w \in Successes} : ValueOf[e] = v}
<1>1. kind \in FanOut /\ kind \in Hourly /\ base.clock \in Int
  BY DEF FanOut, Hourly, IInv, BaseGood, Hour
<1>2. DOMAIN left = all /\ DOMAIN got = all
  BY <1>1, FanOutDone, BackRange DEF Work
<1>3. Successes = all \ failed
  BY <1>2 DEF Successes
<1>4. \A table, w : Bucket(table, w) = {e \in table : HourOf[e] = w}
  BY DEF Bucket
<1>5. \A w \in all \ failed :
         Bucket(base.seen, w) \subseteq got[w] /\ got[w] \subseteq Bucket(stored, w)
  BY <1>1, <1>2, FanOutDone
<1> HIDE DEF all
<1>6. of(base.seen) \subseteq read
  <2> SUFFICES ASSUME NEW e \in base.seen, ValueOf[e] = v, HourOf[e] \in all \ failed
               PROVE  e \in UNION {got[w] : w \in Successes}
    OBVIOUS
  <2>1. e \in got[HourOf[e]]
    BY <1>4, <1>5
  <2> QED
    BY <1>3, <2>1
<1>7. read \subseteq of(stored)
  BY <1>3, <1>4, <1>5
<1>8. of(stored) \subseteq Event
  BY DEF IInv, TypeOK
<1>9. Breakdown[v] = Cardinality(read)
  BY DEF Breakdown
<1> HIDE DEF of, read
<1>10. Breakdown[v] \in Cardinality(of(base.seen)) .. Cardinality(of(stored))
  BY <1>6, <1>7, <1>8, <1>9, Between
<1> QED
  BY <1>10 DEF of, all

\* ... and of a session.
LEMMA SessionFromInv == IInv => SessionWhole
<1> SUFFICES ASSUME IInv, pc = "done", kind = "session",
                    NEW e \in base.seen \cap Fits
             PROVE  e \in Answered
  BY DEF SessionWhole
<1>1. PICK i \in DOMAIN pages : e \in pages[i]
  BY DEF IInv, SessionAt
<1> QED
  BY <1>1 DEF IInv, SessionAt

\* Every behaviour stays within the types of its variables.
THEOREM TypeCorrect == Spec => []TypeOK
<1>1. IInv => TypeOK
  BY DEF IInv
<1> QED
  BY <1>1, Invariant, PTL

\* A timeline has a row for every bucket of its window and a gap exactly for a
\* failed read; an hour lacks nothing that had reached every replica when it was
\* asked for, and a day shows a total that could be read since.
THEOREM TimelineIsHonest == Spec => []TimelineHonest
  BY Invariant, TimelineFromInv, PTL

\* The breakdown is never above what was counted, and lacks of what every
\* replica had at the request only the hours whose read failed.
THEOREM BreakdownErrsLow == Spec => []BreakdownLowAtWorst
  BY Invariant, BreakdownFromInv, PTL

\* A listing repeats nothing and keeps its order, whatever is stored meanwhile.
THEOREM ListingOrdered == Spec => []ListedInOrder
<1>1. IInv => ListedInOrder
  BY DEF IInv
<1> QED
  BY <1>1, Invariant, PTL

\* What a listing of the day leaves out is one of the cases that can be told.
THEOREM GapsAreExplained == Spec => []GapsExplained
<1>1. IInv => GapsExplained
  BY DEF IInv
<1> QED
  BY <1>1, Invariant, PTL

\* A session's answer has every fitting event that had reached every replica
\* when it was asked for.
THEOREM SessionIsWhole == Spec => []SessionWhole
  BY Invariant, SessionFromInv, PTL
=============================================================================
