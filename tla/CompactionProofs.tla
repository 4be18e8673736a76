-------------------------- MODULE CompactionProofs --------------------------
(***************************************************************************)
(* Proofs about Compaction, for any number of keys, levels, writes and     *)
(* snapshots.                                                              *)
(***************************************************************************)
EXTENDS Compaction, NumberFacts, SequenceTheorems

-----------------------------------------------------------------------------
(***************************************************************************)
(* Sequences.                                                              *)
(***************************************************************************)
LEMMA Elements ==
  ASSUME NEW S, NEW q \in Seq(S)
  PROVE  /\ Len(q) \in Nat /\ DOMAIN q = 1..Len(q)
         /\ \A i \in 1..Len(q) : q[i] \in S
         /\ q # <<>> <=> Len(q) # 0
<1>1. Len(q) \in Nat /\ DOMAIN q = 1..Len(q) /\ \A i \in 1..Len(q) : q[i] \in S
  BY LenProperties, ElementOfSeq
<1>2. q = <<>> => Len(q) = 0
  BY EmptySeq, Zenon
<1>3. q # <<>> => Len(q) # 0
  BY EmptySeq
<1> QED
  BY <1>1, <1>2, <1>3

\* What Append gives.
LEMMA Appended ==
  ASSUME NEW S, NEW q \in Seq(S), NEW a \in S
  PROVE  /\ Append(q, a) \in Seq(S) /\ Len(Append(q, a)) = Len(q) + 1
         /\ \A i \in 1..Len(q) : Append(q, a)[i] = q[i]
         /\ Append(q, a)[Len(q) + 1] = a
BY AppendProperties, LenProperties

\* What replacing an element gives.
LEMMA ReplacedAt ==
  ASSUME NEW S, NEW q \in Seq(S), NEW i \in 1..Len(q), NEW a \in S
  PROVE  /\ [q EXCEPT ![i] = a] \in Seq(S) /\ Len([q EXCEPT ![i] = a]) = Len(q)
         /\ \A j \in 1..Len(q) : [q EXCEPT ![i] = a][j] = IF j = i THEN a ELSE q[j]
BY ExceptSeq

-----------------------------------------------------------------------------

(***************************************************************************)
(* Compaction: what is left of a sequence without some elements.           *)
(***************************************************************************)
WithoutTo(w, q, S, T, n) ==
  /\ w \in Seq(T)
  /\ \A i \in 1..Len(w) : \E a \in 1..n : w[i] = q[a] /\ q[a] \notin S
  /\ \A i, j \in 1..Len(w) : i < j => \E a, b \in 1..n : a < b /\ w[i] = q[a] /\ w[j] = q[b]
  /\ \A a \in 1..n : q[a] \notin S => \E i \in 1..Len(w) : w[i] = q[a]

LEMMA WithoutOne ==
  ASSUME NEW T, NEW q \in Seq(T), NEW S, NEW n \in Nat, n + 1 \in 1..Len(q),
         NEW w, WithoutTo(w, q, S, T, n)
  PROVE  WithoutTo(IF q[n + 1] \in S THEN w ELSE Append(w, q[n + 1]), q, S, T, n + 1)
<1>1. CASE q[n + 1] \in S
  <2>1. \A a \in 1..n : a \in 1..(n + 1)
    OBVIOUS
  <2>2. \A a \in 1..(n + 1) : a = n + 1 \/ a \in 1..n
    OBVIOUS
  <2> QED
    BY <1>1, <2>1, <2>2 DEF WithoutTo
<1>2. CASE q[n + 1] \notin S
  <2> DEFINE v == Append(w, q[n + 1])
  <2>1. q[n + 1] \in T
    BY Elements
  <2>2. w \in Seq(T) /\ Len(w) \in Nat
    BY Elements DEF WithoutTo
  <2>3. v \in Seq(T) /\ Len(v) = Len(w) + 1 /\ v[Len(w) + 1] = q[n + 1] /\ \A i \in 1..Len(w) : v[i] = w[i]
    BY <2>1, <2>2, Appended
  <2> HIDE DEF v
  <2>4. \A a \in 1..n : a \in 1..(n + 1) /\ a < n + 1
    OBVIOUS
  <2>5. n + 1 \in 1..(n + 1) /\ \A a \in 1..(n + 1) : a = n + 1 \/ a \in 1..n
    OBVIOUS
  <2>6. \A i \in 1..Len(v) : i = Len(w) + 1 \/ i \in 1..Len(w)
    BY <2>2, <2>3
  <2>7. Len(w) + 1 \in 1..Len(v) /\ \A i \in 1..Len(w) : i \in 1..Len(v)
    BY <2>2, <2>3
  <2>8. \A i \in 1..Len(v) : \E a \in 1..(n + 1) : v[i] = q[a] /\ q[a] \notin S
    <3> SUFFICES ASSUME NEW i \in 1..Len(v) PROVE \E a \in 1..(n + 1) : v[i] = q[a] /\ q[a] \notin S
      OBVIOUS
    <3>1. CASE i = Len(w) + 1
      BY <3>1, <2>3, <2>5, <1>2
    <3>2. CASE i \in 1..Len(w)
      <4>1. PICK a \in 1..n : w[i] = q[a] /\ q[a] \notin S
        BY <3>2 DEF WithoutTo
      <4> QED
        BY <4>1, <3>2, <2>3, <2>4
    <3> QED
      BY <3>1, <3>2, <2>6
  <2>9. ASSUME NEW i \in 1..Len(v), NEW j \in 1..Len(v), i < j
        PROVE  \E a, b \in 1..(n + 1) : a < b /\ v[i] = q[a] /\ v[j] = q[b]
    <3>1. i \in 1..Len(w)
      BY <2>9, <2>2, <2>3
    <3>2. CASE j \in 1..Len(w)
      <4>1. PICK a, b \in 1..n : a < b /\ w[i] = q[a] /\ w[j] = q[b]
        BY <3>1, <3>2, <2>9 DEF WithoutTo
      <4>2. a \in 1..(n + 1) /\ b \in 1..(n + 1)
        BY <2>4
      <4> QED
        BY <4>1, <4>2, <3>1, <3>2, <2>3
    <3>3. CASE j = Len(w) + 1
      <4>1. PICK a \in 1..n : w[i] = q[a]
        BY <3>1 DEF WithoutTo
      <4>2. a \in 1..(n + 1) /\ a < n + 1
        BY <2>4
      <4> QED
        BY <4>1, <4>2, <3>1, <3>3, <2>3, <2>5
    <3> QED
      BY <3>2, <3>3, <2>6
  <2>10. \A a \in 1..(n + 1) : q[a] \notin S => \E i \in 1..Len(v) : v[i] = q[a]
    BY <2>3, <2>5, <2>7 DEF WithoutTo
  <2>11. WithoutTo(v, q, S, T, n + 1)
    BY <2>3, <2>8, <2>9, <2>10 DEF WithoutTo
  <2> QED
    BY <2>11, <1>2 DEF v
<1> QED
  BY <1>1, <1>2

\* Without keeps the order, and what is not taken away.
LEMMA WithoutFacts ==
  ASSUME NEW T, NEW q \in Seq(T), NEW S
  PROVE  WithoutTo(Without(q, S), q, S, T, Len(q))
<1> DEFINE Body(g, n) ==
             IF n = 0 THEN <<>>
             ELSE IF q[n] \in S THEN g[n - 1] ELSE Append(g[n - 1], q[n])
           U == { m \in Nat : \E g : g = [n \in 0..m |-> Body(g, n)] }
<1>1. Len(q) \in Nat
  BY Elements
<1>2. 0 \in U
  <2>1. 0..0 = {0}
    OBVIOUS
  <2>2. [n \in 0..0 |-> <<>>] = [n \in 0..0 |-> Body([k \in 0..0 |-> <<>>], n)]
    BY <2>1
  <2> QED
    BY <2>2
<1>3. ASSUME NEW m \in Nat, m \in U PROVE m + 1 \in U
  <2>1. PICK g : g = [n \in 0..m |-> Body(g, n)]
    BY <1>3
  <2> DEFINE h == [n \in 0..(m + 1) |-> IF n <= m THEN g[n] ELSE Body(g, m + 1)]
  <2>2. ASSUME NEW n \in 0..(m + 1) PROVE h[n] = Body(h, n)
    <3>1. CASE n = 0
      BY <3>1, <2>1
    <3>2. CASE n # 0 /\ n <= m
      <4>1. n \in 0..m /\ n - 1 \in 0..(m + 1) /\ n - 1 <= m
        BY <3>2
      <4>2. h[n] = g[n] /\ h[n - 1] = g[n - 1]
        BY <4>1, <3>2
      <4>3. g[n] = Body(g, n)
        BY <4>1, <2>1
      <4> HIDE DEF h
      <4> QED
        BY <4>2, <4>3, <3>2
    <3>3. CASE n = m + 1
      <4>1. m \in 0..(m + 1) /\ m <= m /\ ~(n <= m) /\ n - 1 = m /\ n # 0
        BY <3>3
      <4>2. h[n] = Body(g, m + 1) /\ h[m] = g[m]
        BY <4>1, <3>3
      <4> HIDE DEF h
      <4> QED
        BY <4>1, <4>2, <3>3
    <3> QED
      BY <3>1, <3>2, <3>3
  <2>3. h = [n \in 0..(m + 1) |-> Body(h, n)]
    BY <2>2
  <2> HIDE DEF h, Body
  <2> QED
    BY <2>3
<1>4. Nat \subseteq U
  <2> HIDE DEF U
  <2> QED
    BY <1>2, <1>3, NaturalInduction
<1> DEFINE Kept == CHOOSE g : g = [n \in 0..Len(q) |-> Body(g, n)]
<1>5. Kept = [n \in 0..Len(q) |-> Body(Kept, n)]
  BY <1>1, <1>4
<1>6. Without(q, S) = Kept[Len(q)]
  BY DEF Without
<1> HIDE DEF Kept
<1> DEFINE V == { m \in Nat : m <= Len(q) => WithoutTo(Kept[m], q, S, T, m) }
<1>7. 0 \in V
  <2>1. Kept[0] = <<>>
    BY <1>1, <1>5
  <2>2. <<>> \in Seq(T) /\ Len(<<>>) = 0
    OBVIOUS
  <2>3. 1..0 = {}
    OBVIOUS
  <2> QED
    BY <2>1, <2>2, <2>3 DEF WithoutTo
<1>8. ASSUME NEW m \in Nat, m \in V PROVE m + 1 \in V
  <2>1. SUFFICES ASSUME m + 1 <= Len(q) PROVE WithoutTo(Kept[m + 1], q, S, T, m + 1)
    OBVIOUS
  <2>2. m + 1 \in 1..Len(q) /\ m + 1 \in 0..Len(q) /\ m <= Len(q) /\ (m + 1) - 1 = m /\ m + 1 # 0
    BY <1>1, <2>1
  <2>3. Kept[m + 1] = Body(Kept, m + 1)
    BY <1>5, <2>2
  <2>4. WithoutTo(Kept[m], q, S, T, m)
    BY <1>8, <2>2
  <2>5. Kept[m + 1] = IF q[m + 1] \in S THEN Kept[m] ELSE Append(Kept[m], q[m + 1])
    BY <2>2, <2>3
  <2> QED
    BY <2>2, <2>4, <2>5, WithoutOne
<1>9. Nat \subseteq V
  <2> HIDE DEF V
  <2> QED
    BY <1>7, <1>8, NaturalInduction
<1> QED
  BY <1>1, <1>6, <1>9

-----------------------------------------------------------------------------
(***************************************************************************)
(* Entries, tables and the ranges of their keys.                           *)
(***************************************************************************)
Entry == [key : Key, seq : Nat, del : BOOLEAN]
FileSet == (SUBSET Entry) \ {{}}

Left(t, a) == \A d \in t : d.key < a
Right(t, b) == \A d \in t : b < d.key
Inside(t, a, b) == \A d \in t : a <= d.key /\ d.key <= b

LEMMA KeyNumbers == Key \subseteq Nat /\ \A k \in Key : 1 <= k /\ k <= MaxKey
BY CompactionAssumption DEF Key

LEMMA EntryFields ==
  ASSUME NEW d \in Entry
  PROVE  d.key \in Key /\ d.seq \in Nat /\ d.del \in BOOLEAN
BY DEF Entry

\* The range of the keys of some tables.
LEMMA Hull ==
  ASSUME NEW S \in SUBSET FileSet, S # {}
  PROVE  /\ Smallest(S) \in Key /\ Largest(S) \in Key /\ Smallest(S) <= Largest(S)
         /\ \A t \in S : Inside(t, Smallest(S), Largest(S))
         /\ \E t \in S : \E d \in t : d.key = Smallest(S)
         /\ \E t \in S : \E d \in t : d.key = Largest(S)
<1> DEFINE K == { e.key : e \in UNION S }
<1>1. K \subseteq Key
  BY EntryFields DEF FileSet
<1>2. K # {}
  <2>1. PICK t \in S : TRUE
    OBVIOUS
  <2>2. PICK d \in t : TRUE
    BY <2>1 DEF FileSet
  <2> QED
    BY <2>1, <2>2
<1>3. Min(K) \in K /\ \A k \in K : Min(K) <= k
  BY <1>1, <1>2, KeyNumbers, MinOfNaturals
<1>4. Max(K) \in K /\ \A k \in K : k <= Max(K)
  <2>1. MaxKey \in Nat
    BY CompactionAssumption
  <2> QED
    BY <1>1, <1>2, <2>1, KeyNumbers, GreatestNatural
<1>5. Smallest(S) = Min(K) /\ Largest(S) = Max(K)
  BY DEF Smallest, Largest
<1>6. \A t \in S : \A d \in t : d.key \in K
  OBVIOUS
<1>7. \A k \in K : \E t \in S : \E d \in t : d.key = k
  OBVIOUS
<1> HIDE DEF K
<1> QED
  BY <1>1, <1>3, <1>4, <1>5, <1>6, <1>7 DEF Inside

LEMMA HullOfOne ==
  ASSUME NEW t \in FileSet
  PROVE  /\ Smallest({t}) \in Key /\ Largest({t}) \in Key /\ Smallest({t}) <= Largest({t})
         /\ Inside(t, Smallest({t}), Largest({t}))
         /\ \E d \in t : d.key = Smallest({t})
         /\ \E d \in t : d.key = Largest({t})
<1>1. {t} \in SUBSET FileSet /\ {t} # {}
  OBVIOUS
<1> QED
  BY <1>1, Hull

LEMMA MeetsIs ==
  ASSUME NEW t \in FileSet, NEW a \in Key, NEW b \in Key
  PROVE  Meets(t, a, b) <=> ~Left(t, a) /\ ~Right(t, b)
<1>1. \A d \in t : d.key \in Nat
  BY EntryFields, KeyNumbers DEF FileSet
<1>2. a \in Nat /\ b \in Nat /\ Smallest({t}) \in Nat /\ Largest({t}) \in Nat
  BY KeyNumbers, HullOfOne
<1>3. Smallest({t}) <= b <=> ~Right(t, b)
  BY <1>1, <1>2, HullOfOne DEF Right, Inside
<1>4. Largest({t}) >= a <=> ~Left(t, a)
  BY <1>1, <1>2, HullOfOne DEF Left, Inside
<1> QED
  BY <1>3, <1>4 DEF Meets

LEMMA InsideIs ==
  ASSUME NEW t \in FileSet, NEW a \in Key, NEW b \in Key
  PROVE  a <= Smallest({t}) /\ Largest({t}) <= b <=> Inside(t, a, b)
<1>1. \A d \in t : d.key \in Nat
  BY EntryFields, KeyNumbers DEF FileSet
<1>2. a \in Nat /\ b \in Nat /\ Smallest({t}) \in Nat /\ Largest({t}) \in Nat
  BY KeyNumbers, HullOfOne
<1> QED
  BY <1>1, <1>2, HullOfOne DEF Inside

\* A range that contains every table it meets.
ClosedRange(S, a, b) == \A t \in S : Left(t, a) \/ Right(t, b) \/ Inside(t, a, b)

LEMMA WidenedIs ==
  ASSUME NEW S \in SUBSET FileSet, NEW lo \in Key, NEW hi \in Key
  PROVE  /\ Widened(S, lo, hi)[1] \in 1..lo /\ Widened(S, lo, hi)[2] \in hi..MaxKey
         /\ ClosedRange(S, Widened(S, lo, hi)[1], Widened(S, lo, hi)[2])
         /\ \A a \in 1..lo, b \in hi..MaxKey :
              ClosedRange(S, a, b) => a <= Widened(S, lo, hi)[1] /\ Widened(S, lo, hi)[2] <= b
<1> DEFINE Closed(r) == \A t \in S : Meets(t, r[1], r[2]) =>
                                  r[1] <= Smallest({t}) /\ Largest({t}) <= r[2]
           around == { r \in (1..lo) \X (hi..MaxKey) : Closed(r) }
           Inmost(r) == \A q \in around : q[1] <= r[1] /\ r[2] <= q[2]
<1>1. lo \in Nat /\ hi \in Nat /\ MaxKey \in Nat /\ 1 <= lo /\ lo <= MaxKey /\ hi <= MaxKey /\ 1 <= hi
  BY KeyNumbers, CompactionAssumption
<1>2. 1..lo \subseteq Key /\ hi..MaxKey \subseteq Key
  BY <1>1 DEF Key
<1>3. ASSUME NEW a \in 1..lo, NEW b \in hi..MaxKey
      PROVE  Closed(<<a, b>>) <=> ClosedRange(S, a, b)
  <2>1. <<a, b>>[1] = a /\ <<a, b>>[2] = b /\ a \in Key /\ b \in Key
    BY <1>2
  <2>2. \A t \in S : /\ Meets(t, a, b) <=> ~Left(t, a) /\ ~Right(t, b)
                     /\ a <= Smallest({t}) /\ Largest({t}) <= b <=> Inside(t, a, b)
    BY <2>1, MeetsIs, InsideIs
  <2> QED
    BY <2>1, <2>2 DEF ClosedRange
<1>4. \A r \in around : r[1] \in 1..lo /\ r[2] \in hi..MaxKey /\ ClosedRange(S, r[1], r[2])
  <2> SUFFICES ASSUME NEW r \in around
               PROVE  r[1] \in 1..lo /\ r[2] \in hi..MaxKey /\ ClosedRange(S, r[1], r[2])
    OBVIOUS
  <2>1. r[1] \in 1..lo /\ r[2] \in hi..MaxKey /\ r = <<r[1], r[2]>>
    OBVIOUS
  <2>2. Closed(<<r[1], r[2]>>)
    BY <2>1
  <2> HIDE DEF Closed
  <2> QED
    BY <2>1, <2>2, <1>3
<1>5. \A a \in 1..lo, b \in hi..MaxKey : ClosedRange(S, a, b) => <<a, b>> \in around
  <2> SUFFICES ASSUME NEW a \in 1..lo, NEW b \in hi..MaxKey, ClosedRange(S, a, b)
               PROVE  <<a, b>> \in around
    OBVIOUS
  <2>1. Closed(<<a, b>>)
    BY <1>3
  <2>2. <<a, b>> \in (1..lo) \X (hi..MaxKey)
    OBVIOUS
  <2> HIDE DEF Closed
  <2> QED
    BY <2>1, <2>2
<1> HIDE DEF around
<1>6. \A t \in S : \A d \in t : d.key \in Key
  BY EntryFields DEF FileSet
<1>7. <<1, MaxKey>> \in around
  <2>1. ClosedRange(S, 1, MaxKey)
    BY <1>6, KeyNumbers DEF ClosedRange, Inside
  <2>2. 1 \in 1..lo /\ MaxKey \in hi..MaxKey
    BY <1>1
  <2> QED
    BY <2>1, <2>2, <1>5
<1>8. \E r \in around : Inmost(r)
  <2> DEFINE A == { r[1] : r \in around }
             B == { r[2] : r \in around }
  <2>1. A \subseteq Nat /\ A # {} /\ \A a \in A : a <= lo
    BY <1>1, <1>4, <1>7
  <2>2. B \subseteq Nat /\ B # {}
    BY <1>1, <1>4, <1>7
  <2>3. PICK a \in A : \A x \in A : x <= a
    <3> HIDE DEF A
    <3> QED
      BY <2>1, <1>1, GreatestNatural
  <2>4. PICK b \in B : \A x \in B : b <= x
    <3> HIDE DEF B
    <3> QED
      BY <2>2, LeastNatural
  <2>5. PICK r \in around : r[1] = a
    OBVIOUS
  <2>6. PICK q \in around : q[2] = b
    OBVIOUS
  <2>7. /\ a \in 1..lo /\ r[2] \in hi..MaxKey /\ ClosedRange(S, a, r[2]) /\ b <= r[2]
        /\ q[1] \in 1..lo /\ b \in hi..MaxKey /\ ClosedRange(S, q[1], b) /\ q[1] <= a
    BY <1>4, <2>3, <2>4, <2>5, <2>6
  <2>8. ClosedRange(S, a, b)
    <3> SUFFICES ASSUME NEW t \in S, ~Left(t, a), ~Right(t, b) PROVE Inside(t, a, b)
      BY DEF ClosedRange
    <3> DEFINE y == r[2]
               z == q[1]
    <3>1. a \in Nat /\ b \in Nat /\ y \in Nat /\ z \in Nat /\ b <= y /\ z <= a
      BY <2>7, <1>1
    <3>2. ClosedRange(S, a, y) /\ ClosedRange(S, z, b)
      BY <2>7
    <3> HIDE DEF y, z
    <3>3. \A d \in t : d.key \in Nat
      BY <1>6, KeyNumbers
    <3>4. ~Right(t, y) /\ ~Left(t, z)
      BY <3>1, <3>3 DEF Left, Right
    <3>5. Inside(t, a, y) /\ Inside(t, z, b)
      BY <3>2, <3>4 DEF ClosedRange
    <3> QED
      BY <3>5 DEF Inside
  <2>9. <<a, b>> \in around /\ <<a, b>>[1] = a /\ <<a, b>>[2] = b
    BY <2>7, <2>8, <1>5
  <2>10. Inmost(<<a, b>>)
    BY <2>3, <2>4, <2>9
  <2> QED
    BY <2>9, <2>10
<1>9. Widened(S, lo, hi) = CHOOSE r \in around : Inmost(r)
  BY DEF Widened, around
<1>10. Widened(S, lo, hi) \in around /\ Inmost(Widened(S, lo, hi))
  <2> HIDE DEF Inmost
  <2> QED
    BY <1>8, <1>9
<1>11. \A a \in 1..lo, b \in hi..MaxKey :
         ClosedRange(S, a, b) => a <= Widened(S, lo, hi)[1] /\ Widened(S, lo, hi)[2] <= b
  <2> SUFFICES ASSUME NEW a \in 1..lo, NEW b \in hi..MaxKey, ClosedRange(S, a, b)
               PROVE  a <= Widened(S, lo, hi)[1] /\ Widened(S, lo, hi)[2] <= b
    OBVIOUS
  <2>1. <<a, b>> \in around /\ <<a, b>>[1] = a /\ <<a, b>>[2] = b
    BY <1>5
  <2> QED
    BY <2>1, <1>10
<1> QED
  BY <1>4, <1>10, <1>11

-----------------------------------------------------------------------------
(***************************************************************************)
(* The tables a compaction takes are connected: a range of keys that none  *)
(* of them meets has all of them on one side.  A flushed table that        *)
(* overlaps none of them is therefore before or after all of them.         *)
(***************************************************************************)
Connected(S) ==
  \A a, b \in Key :
    a <= b /\ (\A t \in S : Left(t, a) \/ Right(t, b)) =>
      (\A t \in S : Left(t, a)) \/ (\A t \in S : Right(t, b))

LEMMA ConnectedOne ==
  ASSUME NEW t
  PROVE  Connected({t})
BY DEF Connected

\* The tables found are those that meet x..y.
Spanned(l, lo, hi, x, y) ==
  /\ x \in Key /\ y \in Key
  /\ GetOverlappingInputs(l, lo, hi) = { t \in Tables(l) : ~Left(t, x) /\ ~Right(t, y) }
  /\ l # 0 => x = lo /\ y = hi
  /\ l = 0 => /\ ClosedRange(Tables(0), x, y)
              /\ \A a \in 1..lo, b \in hi..MaxKey :
                   ClosedRange(Tables(0), a, b) => a <= x /\ y <= b

LEMMA InputsRange ==
  ASSUME NEW l \in Level, Tables(l) \subseteq FileSet, NEW lo \in Key, NEW hi \in Key
  PROVE  \E x \in 1..lo, y \in hi..MaxKey : Spanned(l, lo, hi, x, y)
<1>1. lo \in Nat /\ hi \in Nat /\ MaxKey \in Nat /\ 1 <= lo /\ lo <= MaxKey /\ hi <= MaxKey /\ 1 <= hi
  BY KeyNumbers, CompactionAssumption
<1>2. 1..lo \subseteq Key /\ hi..MaxKey \subseteq Key
  BY <1>1 DEF Key
<1>3. CASE l # 0
  <2>1. GetOverlappingInputs(l, lo, hi) = { t \in Tables(l) : Meets(t, lo, hi) }
    BY <1>3 DEF GetOverlappingInputs
  <2>2. GetOverlappingInputs(l, lo, hi) = { t \in Tables(l) : ~Left(t, lo) /\ ~Right(t, hi) }
    BY <2>1, MeetsIs
  <2>3. lo \in 1..lo /\ hi \in hi..MaxKey
    BY <1>1
  <2> QED
    BY <2>2, <2>3, <1>3 DEF Spanned
<1>4. CASE l = 0
  <2> DEFINE x == Widened(Tables(0), lo, hi)[1]
             y == Widened(Tables(0), lo, hi)[2]
  <2>1. GetOverlappingInputs(l, lo, hi) = { t \in Tables(l) : Meets(t, x, y) }
    BY <1>4 DEF GetOverlappingInputs
  <2>2. /\ x \in 1..lo /\ y \in hi..MaxKey
        /\ ClosedRange(Tables(0), x, y)
        /\ \A a \in 1..lo, b \in hi..MaxKey :
             ClosedRange(Tables(0), a, b) => a <= x /\ y <= b
    BY <1>4, WidenedIs
  <2> HIDE DEF x, y
  <2>3. x \in Key /\ y \in Key
    BY <1>2, <2>2
  <2>4. GetOverlappingInputs(l, lo, hi) = { t \in Tables(l) : ~Left(t, x) /\ ~Right(t, y) }
    BY <2>1, <2>3, MeetsIs
  <2> QED
    BY <2>2, <2>3, <2>4, <1>4 DEF Spanned
<1> QED
  BY <1>3, <1>4

LEMMA ConnectedWithin ==
  ASSUME NEW l \in Level, Tables(l) \subseteq FileSet,
         NEW S \in SUBSET FileSet, S # {}, Connected(S)
  PROVE  Connected(S \cup Within(l, S))
<1> DEFINE lo == Smallest(S)
           hi == Largest(S)
           W == Within(l, S)
<1>1. /\ lo \in Key /\ hi \in Key
      /\ \E t \in S : \E d \in t : d.key = lo
      /\ \E t \in S : \E d \in t : d.key = hi
  BY Hull
<1>2. W = GetOverlappingInputs(l, lo, hi)
  BY DEF Within
<1> HIDE DEF lo, hi, W
<1>3. PICK x \in 1..lo, y \in hi..MaxKey :
           /\ x \in Key /\ y \in Key
           /\ W = { t \in Tables(l) : ~Left(t, x) /\ ~Right(t, y) }
           /\ l # 0 => x = lo /\ y = hi
           /\ l = 0 => /\ ClosedRange(Tables(0), x, y)
                       /\ \A a \in 1..lo, b \in hi..MaxKey :
                            ClosedRange(Tables(0), a, b) => a <= x /\ y <= b
  <2>1. PICK x \in 1..lo, y \in hi..MaxKey : Spanned(l, lo, hi, x, y)
    BY <1>1, InputsRange
  <2> QED
    BY <2>1, <1>2 DEF Spanned
<1>4. \A t \in Tables(l) : t # {} /\ \A d \in t : d.key \in Nat
  BY EntryFields, KeyNumbers DEF FileSet
<1> SUFFICES ASSUME NEW a \in Key, NEW b \in Key, a <= b,
                    \A t \in S \cup W : Left(t, a) \/ Right(t, b)
             PROVE  (\A t \in S \cup W : Left(t, a)) \/ (\A t \in S \cup W : Right(t, b))
  BY DEF Connected, W
<1>5. /\ a \in Nat /\ b \in Nat /\ lo \in Nat /\ hi \in Nat /\ x \in Nat /\ y \in Nat
      /\ MaxKey \in Nat /\ 1 <= a /\ b <= MaxKey /\ lo <= MaxKey /\ 1 <= hi
  BY <1>1, <1>3, KeyNumbers, CompactionAssumption
<1>6. (\A t \in S : Left(t, a)) \/ (\A t \in S : Right(t, b))
  BY DEF Connected
<1>7. CASE \A t \in S : Right(t, b)
  <2>1. b < lo
    BY <1>1, <1>7 DEF Right
  <2>2. b < x
    <3>1. CASE l # 0
      BY <2>1, <3>1, <1>3
    <3>2. CASE l = 0
      <4> SUFFICES ASSUME x <= b PROVE FALSE
        BY <1>5
      <4>1. b + 1 \in 1..lo /\ b + 1 \in Nat
        BY <2>1, <1>5
      <4>2. ASSUME NEW t \in Tables(0) PROVE Left(t, b + 1) \/ Right(t, y) \/ Inside(t, b + 1, y)
        <5>1. t # {} /\ \A d \in t : d.key \in Nat
          BY <1>4, <3>2
        <5>2. CASE Left(t, x)
          BY <5>1, <5>2, <1>5 DEF Left
        <5>3. CASE ~Left(t, x) /\ ~Right(t, y)
          <6>1. Inside(t, x, y) /\ t \in W
            BY <5>3, <3>2, <1>3 DEF ClosedRange
          <6>2. CASE Left(t, a)
            BY <5>1, <6>2, <1>5 DEF Left
          <6>3. CASE Right(t, b)
            BY <5>1, <6>1, <6>3, <1>5 DEF Right, Inside
          <6> QED
            BY <6>1, <6>2, <6>3
        <5> QED
          BY <5>2, <5>3
      <4>3. ClosedRange(Tables(0), b + 1, y)
        BY <4>2 DEF ClosedRange
      <4>4. b + 1 <= x
        BY <4>1, <4>3, <3>2, <1>3
      <4> QED
        BY <4>4, <1>5
    <3> QED
      BY <3>1, <3>2
  <2>3. ASSUME NEW t \in W PROVE Right(t, b)
    <3>1. t \in Tables(l) /\ ~Left(t, x)
      BY <1>3
    <3>2. \A d \in t : d.key \in Nat
      BY <3>1, <1>4
    <3>3. ~Left(t, a)
      BY <3>1, <3>2, <2>2, <1>5 DEF Left
    <3> QED
      BY <3>3
  <2> QED
    BY <1>7, <2>3
<1>8. CASE \A t \in S : Left(t, a)
  <2>1. hi < a
    BY <1>1, <1>8 DEF Left
  <2>2. y < a
    <3>1. CASE l # 0
      BY <2>1, <3>1, <1>3
    <3>2. CASE l = 0
      <4> SUFFICES ASSUME a <= y PROVE FALSE
        BY <1>5
      <4>1. a - 1 \in hi..MaxKey /\ a - 1 \in Nat
        BY <2>1, <1>5
      <4>2. ASSUME NEW t \in Tables(0) PROVE Left(t, x) \/ Right(t, a - 1) \/ Inside(t, x, a - 1)
        <5>1. t # {} /\ \A d \in t : d.key \in Nat
          BY <1>4, <3>2
        <5>2. CASE Right(t, y)
          BY <5>1, <5>2, <1>5 DEF Right
        <5>3. CASE ~Left(t, x) /\ ~Right(t, y)
          <6>1. Inside(t, x, y) /\ t \in W
            BY <5>3, <3>2, <1>3 DEF ClosedRange
          <6>2. CASE Left(t, a)
            BY <5>1, <6>1, <6>2, <1>5 DEF Left, Inside
          <6>3. CASE Right(t, b)
            BY <5>1, <6>3, <1>5 DEF Right
          <6> QED
            BY <6>1, <6>2, <6>3
        <5> QED
          BY <5>2, <5>3
      <4>3. ClosedRange(Tables(0), x, a - 1)
        BY <4>2 DEF ClosedRange
      <4>4. y <= a - 1
        BY <4>1, <4>3, <3>2, <1>3
      <4> QED
        BY <4>4, <1>5
    <3> QED
      BY <3>1, <3>2
  <2>3. ASSUME NEW t \in W PROVE Left(t, a)
    <3>1. t \in Tables(l) /\ ~Right(t, y)
      BY <1>3
    <3>2. \A d \in t : d.key \in Nat
      BY <3>1, <1>4
    <3>3. ~Right(t, b)
      BY <3>1, <3>2, <2>2, <1>5 DEF Right
    <3> QED
      BY <3>3
  <2> QED
    BY <1>8, <2>3
<1> QED
  BY <1>6, <1>7, <1>8

-----------------------------------------------------------------------------
(***************************************************************************)
(* The types of the state, and what a compaction under way has taken.      *)
(***************************************************************************)
FilesType ==
  /\ history \in Seq(Entry) /\ \A n \in 1..Len(history) : history[n].seq = n
  /\ mem \subseteq Range(history)
  /\ level0 \in Seq(FileSet) /\ below \in [1..LastLevel -> SUBSET FileSet]
  /\ \A l \in Level : \A t \in Tables(l) : t \subseteq Range(history)
  /\ snapshots \subseteq 0..Len(history)

Work == [ level : 0..(LastLevel - 1), manual : BOOLEAN, in0 : SUBSET FileSet,
          in1 : SUBSET FileSet, smallest : Nat, deeper : SUBSET FileSet ]

Inputs == compaction.in0 \cup compaction.in1

TaskType ==
  \/ compaction = NoCompaction
  \/ /\ compaction \in Work
     /\ compaction.in0 # {} /\ compaction.in0 \subseteq Tables(compaction.level)
     /\ compaction.in1 \subseteq Tables(compaction.level + 1)
     /\ \A s \in snapshots \cup {LastSequence} : compaction.smallest <= s
     /\ ~compaction.manual => Connected(Inputs)

LEMMA Levels01 ==
  /\ LastLevel \in Nat /\ LastLevel > 0 /\ 0 \in Level
  /\ \A l \in 0..(LastLevel - 1) : /\ l \in Level /\ l + 1 \in Level /\ l + 1 # 0
                                   /\ l + 1 \in 1..LastLevel /\ l \in Nat
  /\ \A l \in 1..LastLevel : l \in Level /\ l # 0 /\ l \in Nat
  /\ \A l \in Level : l # 0 => l \in 1..LastLevel
  /\ \A l \in Level : l \in Nat
BY CompactionAssumption DEF Level

LEMMA NotIdle ==
  /\ compaction = NoCompaction => Idle /\ compaction.manual = FALSE
  /\ compaction \in Work => ~Idle
<1>1. NoCompaction.level = -1 /\ NoCompaction.manual = FALSE
  BY DEF NoCompaction
<1>2. \A c \in Work : c.level # -1
  BY Levels01 DEF Work
<1> QED
  BY <1>1, <1>2 DEF Idle

LEMMA NotIdleNext ==
  /\ compaction' = NoCompaction => Idle' /\ compaction'.manual = FALSE
  /\ compaction' \in Work => ~Idle'
<1>1. NoCompaction.level = -1 /\ NoCompaction.manual = FALSE
  BY DEF NoCompaction
<1>2. \A c \in Work : c.level # -1
  BY Levels01 DEF Work
<1> QED
  BY <1>1, <1>2 DEF Idle

LEMMA TaskFields ==
  ASSUME NEW c \in Work
  PROVE  /\ c.level \in 0..(LastLevel - 1) /\ c.manual \in BOOLEAN
         /\ c.in0 \subseteq FileSet /\ c.in1 \subseteq FileSet
         /\ c.smallest \in Nat /\ c.deeper \subseteq FileSet
BY DEF Work

\* An entry is known by its sequence number.
LEMMA WrittenIs ==
  ASSUME FilesType
  PROVE  /\ LastSequence \in Nat
         /\ \A d \in Range(history) : d \in Entry /\ d.seq \in 1..LastSequence /\ history[d.seq] = d
         /\ \A d, e \in Range(history) : d.seq = e.seq => d = e
<1>1. Len(history) \in Nat /\ DOMAIN history = 1..Len(history) /\ \A i \in 1..Len(history) : history[i] \in Entry
  BY Elements DEF FilesType
<1>2. \A d \in Range(history) : \E n \in 1..Len(history) : d = history[n] /\ d.seq = n
  BY <1>1 DEF Range, FilesType
<1> QED
  BY <1>1, <1>2 DEF LastSequence

LEMMA TablesAre ==
  ASSUME FilesType
  PROVE  /\ Tables(0) = Range(level0) /\ \A l \in 1..LastLevel : Tables(l) = below[l]
         /\ \A l \in Level : Tables(l) \subseteq FileSet
         /\ \A t : t \in Range(level0) <=> \E i \in 1..Len(level0) : t = level0[i]
<1>1. Tables(0) = Range(level0) /\ \A l \in 1..LastLevel : Tables(l) = below[l]
  BY Levels01 DEF Tables
<1>2. DOMAIN level0 = 1..Len(level0) /\ \A i \in 1..Len(level0) : level0[i] \in FileSet
  BY Elements DEF FilesType
<1>3. \A t : t \in Range(level0) <=> \E i \in 1..Len(level0) : t = level0[i]
  BY <1>2 DEF Range
<1>4. \A l \in 1..LastLevel : below[l] \subseteq FileSet
  BY DEF FilesType
<1> QED
  BY <1>1, <1>2, <1>3, <1>4, Levels01

LEMMA TablesFinite ==
  ASSUME FilesType, NEW l \in Level
  PROVE  IsFiniteSet(Tables(l))
<1>1. Len(history) \in Nat /\ DOMAIN history = 1..Len(history)
  BY Elements DEF FilesType
<1>2. IsFiniteSet(1..Len(history))
  BY <1>1, FS_Interval
<1>3. history \in Surjection(1..Len(history), Range(history))
  <2>1. history \in Seq(Entry)
    BY DEF FilesType
  <2>2. history = [n \in 1..Len(history) |-> history[n]]
    BY <2>1, <1>1
  <2>3. history \in [1..Len(history) -> Range(history)]
    BY <2>2, <1>1 DEF Range
  <2>4. \A d \in Range(history) : \E n \in 1..Len(history) : history[n] = d
    BY <1>1 DEF Range
  <2> QED
    BY <2>3, <2>4 DEF Surjection
<1>4. IsFiniteSet(Range(history))
  BY <1>2, <1>3, FS_Surjection
<1>5. IsFiniteSet(SUBSET Range(history))
  BY <1>4, FS_SUBSET
<1>6. Tables(l) \in SUBSET (SUBSET Range(history))
  BY DEF FilesType
<1> QED
  BY <1>5, <1>6, FS_Subset

-----------------------------------------------------------------------------
(***************************************************************************)
(* What SetupOtherInputs takes.                                            *)
(***************************************************************************)
Foreign(t, u) == \A d \in t, e \in u : d.key # e.key

\* The tables of level 0 that are not taken have none of the keys.
Alone(S) == \A u \in Tables(0) \ S : Foreign(u, UNION S)

LEMMA InputsAlone ==
  ASSUME Tables(0) \subseteq FileSet, NEW lo \in Key, NEW hi \in Key
  PROVE  Alone(GetOverlappingInputs(0, lo, hi))
<1> DEFINE W == GetOverlappingInputs(0, lo, hi)
<1>1. 0 \in Level
  BY Levels01
<1>2. PICK x \in 1..lo, y \in hi..MaxKey :
           /\ x \in Key /\ y \in Key
           /\ W = { t \in Tables(0) : ~Left(t, x) /\ ~Right(t, y) }
           /\ ClosedRange(Tables(0), x, y)
  <2>1. PICK x \in 1..lo, y \in hi..MaxKey : Spanned(0, lo, hi, x, y)
    BY <1>1, InputsRange
  <2> QED
    BY <2>1 DEF Spanned
<1> HIDE DEF W
<1>3. \A t \in Tables(0) : \A d \in t : d.key \in Nat
  BY EntryFields, KeyNumbers DEF FileSet
<1>4. ASSUME NEW u \in Tables(0) \ W, NEW t \in W, NEW d \in u, NEW e \in t
      PROVE  d.key # e.key
  <2>1. x <= e.key /\ e.key <= y
    BY <1>2 DEF ClosedRange, Inside
  <2>2. Left(u, x) \/ Right(u, y)
    BY <1>2
  <2>3. d.key \in Nat /\ e.key \in Nat /\ x \in Nat /\ y \in Nat
    BY <1>2, <1>3, KeyNumbers
  <2> QED
    BY <2>1, <2>2, <2>3 DEF Left, Right
<1> QED
  BY <1>4 DEF Alone, Foreign, W

\* The tables of a level that meet the range of some of them contain these.
LEMMA WithinContains ==
  ASSUME NEW l \in Level, Tables(l) \subseteq FileSet,
         NEW S \in SUBSET FileSet, S # {}
  PROVE  Within(l, S) \subseteq Tables(l) /\ S \cap Tables(l) \subseteq Within(l, S)
<1> DEFINE lo == Smallest(S)
           hi == Largest(S)
<1>1. lo \in Key /\ hi \in Key /\ \A t \in S : Inside(t, lo, hi)
  BY Hull
<1>2. Within(l, S) = GetOverlappingInputs(l, lo, hi)
  BY DEF Within
<1> HIDE DEF lo, hi
<1>3. PICK x \in 1..lo, y \in hi..MaxKey :
           /\ x \in Key /\ y \in Key
           /\ Within(l, S) = { t \in Tables(l) : ~Left(t, x) /\ ~Right(t, y) }
  <2>1. PICK x \in 1..lo, y \in hi..MaxKey : Spanned(l, lo, hi, x, y)
    BY <1>1, InputsRange
  <2> QED
    BY <2>1, <1>2 DEF Spanned
<1>4. ASSUME NEW t \in S PROVE ~Left(t, x) /\ ~Right(t, y)
  <2>1. t # {} /\ \A d \in t : d.key \in Nat
    BY EntryFields, KeyNumbers DEF FileSet
  <2>2. lo \in Nat /\ hi \in Nat /\ x \in Nat /\ y \in Nat /\ x <= lo /\ hi <= y
    BY <1>1, <1>3, KeyNumbers
  <2> QED
    BY <2>1, <2>2, <1>1 DEF Left, Right, Inside
<1> QED
  BY <1>3, <1>4

\* A wider range meets no fewer tables.
LEMMA WithinMore ==
  ASSUME NEW l \in 1..LastLevel, Tables(l) \subseteq FileSet,
         NEW S \in SUBSET FileSet, S # {}, NEW R \in SUBSET FileSet, S \subseteq R
  PROVE  Within(l, S) \subseteq Within(l, R)
<1> DEFINE lo == Smallest(S)
           hi == Largest(S)
           a == Smallest(R)
           b == Largest(R)
<1>1. /\ lo \in Key /\ hi \in Key /\ a \in Key /\ b \in Key
      /\ \A t \in R : Inside(t, a, b)
      /\ \E t \in S : \E d \in t : d.key = lo
      /\ \E t \in S : \E d \in t : d.key = hi
  BY Hull
<1>2. Within(l, S) = GetOverlappingInputs(l, lo, hi) /\ Within(l, R) = GetOverlappingInputs(l, a, b)
  BY DEF Within
<1> HIDE DEF lo, hi, a, b
<1>3. /\ Within(l, S) = { t \in Tables(l) : ~Left(t, lo) /\ ~Right(t, hi) }
      /\ Within(l, R) = { t \in Tables(l) : ~Left(t, a) /\ ~Right(t, b) }
  <2>1. l \in Level /\ l # 0
    BY Levels01
  <2>2. PICK x \in 1..lo, y \in hi..MaxKey : Spanned(l, lo, hi, x, y)
    BY <1>1, <2>1, InputsRange
  <2>3. PICK v \in 1..a, w \in b..MaxKey : Spanned(l, a, b, v, w)
    BY <1>1, <2>1, InputsRange
  <2> QED
    BY <2>1, <2>2, <2>3, <1>2 DEF Spanned
<1>4. a <= lo /\ hi <= b
  BY <1>1 DEF Inside
<1>5. ASSUME NEW t \in Tables(l), ~Left(t, lo), ~Right(t, hi) PROVE ~Left(t, a) /\ ~Right(t, b)
  <2>1. \A d \in t : d.key \in Nat
    BY EntryFields, KeyNumbers DEF FileSet
  <2>2. lo \in Nat /\ hi \in Nat /\ a \in Nat /\ b \in Nat
    BY <1>1, KeyNumbers
  <2> QED
    BY <2>1, <2>2, <1>4, <1>5 DEF Left, Right
<1> QED
  BY <1>3, <1>5

LEMMA OthersAre ==
  ASSUME FilesType, NEW l \in 0..(LastLevel - 1),
         NEW in0, in0 \subseteq Tables(l), in0 # {}, l = 0 => Alone(in0),
         NEW ins \in OtherInputs(l, in0)
  PROVE  /\ ins[1] \subseteq Tables(l) /\ ins[1] # {}
         /\ ins[2] \subseteq Tables(l + 1) /\ ins[2] = Within(l + 1, ins[1])
         /\ l = 0 => Alone(ins[1])
         /\ Connected(in0) => Connected(ins[1] \cup ins[2])
<1> DEFINE in1 == Within(l + 1, in0)
           more == Within(l, in0 \cup in1)
<1>1. /\ l \in Level /\ l + 1 \in Level /\ l + 1 \in 1..LastLevel
      /\ Tables(l) \subseteq FileSet /\ Tables(l + 1) \subseteq FileSet
  BY Levels01, TablesAre
<1>2. in0 \in SUBSET FileSet
  BY <1>1
<1>3. in1 \subseteq Tables(l + 1)
  BY <1>1, <1>2, WithinContains
<1>4. in0 \cup in1 \in SUBSET FileSet /\ in0 \cup in1 # {}
  BY <1>1, <1>2, <1>3
<1>5. more \subseteq Tables(l) /\ in0 \subseteq more
  <2> HIDE DEF in1
  <2>1. more \subseteq Tables(l) /\ (in0 \cup in1) \cap Tables(l) \subseteq more
    BY <1>1, <1>4, WithinContains
  <2> HIDE DEF more
  <2> QED
    BY <2>1
<1>6. Connected(in0) => Connected(in0 \cup in1)
  BY <1>1, <1>2, ConnectedWithin
<1>7. Connected(in0) => Connected(more \cup in1)
  <2>1. SUFFICES ASSUME Connected(in0) PROVE Connected(more \cup in1)
    OBVIOUS
  <2>2. Connected(in0 \cup in1)
    BY <2>1, <1>6
  <2> HIDE DEF in1
  <2>3. Connected((in0 \cup in1) \cup more)
    BY <2>2, <1>1, <1>4, ConnectedWithin
  <2> HIDE DEF more
  <2>4. (in0 \cup in1) \cup more = more \cup in1
    BY <1>5
  <2> QED
    BY <2>3, <2>4
<1>8. CASE ins = <<in0, in1>>
  <2>1. ins[1] = in0 /\ ins[2] = in1
    BY <1>8
  <2> QED
    BY <2>1, <1>3, <1>6
<1>9. CASE ins = <<more, in1>> /\ Cardinality(Within(l + 1, more)) = Cardinality(in1)
  <2>1. ins[1] = more /\ ins[2] = in1
    BY <1>9
  <2>2. more \in SUBSET FileSet /\ more # {}
    BY <1>1, <1>5
  <2>3. in1 \subseteq Within(l + 1, more) /\ Within(l + 1, more) \subseteq Tables(l + 1)
    <3> HIDE DEF more
    <3> QED
      BY <1>1, <1>2, <1>5, <2>2, WithinMore, WithinContains
  <2>4. IsFiniteSet(Within(l + 1, more))
    <3>1. IsFiniteSet(Tables(l + 1))
      BY <1>1, TablesFinite
    <3> HIDE DEF more
    <3> QED
      BY <2>3, <3>1, FS_Subset
  <2>5. in1 = Within(l + 1, more)
    <3> HIDE DEF in1, more
    <3> QED
      BY <2>3, <2>4, <1>9, FS_Subset
  <2>6. l = 0 => Alone(more)
    <3>1. SUFFICES ASSUME l = 0 PROVE Alone(more)
      OBVIOUS
    <3> HIDE DEF in1
    <3>2. Smallest(in0 \cup in1) \in Key /\ Largest(in0 \cup in1) \in Key
      BY <1>4, Hull
    <3>3. more = GetOverlappingInputs(0, Smallest(in0 \cup in1), Largest(in0 \cup in1))
      BY <3>1 DEF Within
    <3> HIDE DEF more
    <3> QED
      BY <1>1, <3>1, <3>2, <3>3, InputsAlone
  <2> HIDE DEF in1, more
  <2> QED
    BY <2>1, <2>2, <2>5, <2>6, <1>3, <1>5, <1>7
<1>10. ins = <<in0, in1>> \/ (ins = <<more, in1>> /\ Cardinality(Within(l + 1, more)) = Cardinality(in1))
  BY DEF OtherInputs
<1> QED
  BY <1>8, <1>9, <1>10

-----------------------------------------------------------------------------
(***************************************************************************)
(* What the actions do to the tables.                                      *)
(***************************************************************************)
LEMMA TablesSame ==
  ASSUME level0' = level0, below' = below
  PROVE  \A l : l \in Level => Tables(l)' = Tables(l)
BY DEF Tables

\* What a flush does.  Unless it is to level 0, its table overlaps none of the
\* levels down to its own.
FlushedTo(l, lo, hi) ==
  /\ l \in Level /\ lo \in Key /\ hi \in Key /\ lo <= hi
  /\ mem \in FileSet /\ Inside(mem, lo, hi)
  /\ Tables(l)' = Tables(l) \cup {mem}
  /\ \A k \in Level : k # l => Tables(k)' = Tables(k)
  /\ l = 0 => level0' = Append(level0, mem) /\ below' = below
  /\ l # 0 => /\ level0' = level0 /\ below' = [below EXCEPT ![l] = @ \cup {mem}]
              /\ \A k \in 0..l : \A t \in Tables(k) : Left(t, lo) \/ Right(t, hi)
              /\ ~intruded' => ~compaction.manual
  /\ ~intruded' => ~intruded
  /\ mem' = {} /\ UNCHANGED <<history, snapshots, compaction, cutInside>>

LEMMA FlushIs ==
  ASSUME FilesType, CompactMemTable
  PROVE  \E l, lo, hi : FlushedTo(l, lo, hi)
<1> DEFINE lo == Smallest({mem})
           hi == Largest({mem})
<1>1. mem \in FileSet
  BY WrittenIs DEF FilesType, CompactMemTable, FileSet
<1>2. lo \in Key /\ hi \in Key /\ lo <= hi /\ Inside(mem, lo, hi)
  BY <1>1, HullOfOne
<1>3. PICK l \in PickLevelForMemTableOutput(lo, hi) :
         IF l = 0 THEN level0' = Append(level0, mem) /\ UNCHANGED below
                  ELSE below' = [below EXCEPT ![l] = @ \cup {mem}] /\ UNCHANGED level0
  BY DEF CompactMemTable
<1> HIDE DEF lo, hi
<1>4. l \in 0..MaxMemLevel /\ (l = 0 \/ Free(l, lo, hi))
  BY DEF PickLevelForMemTableOutput
<1>5. l \in Level /\ 0..l \subseteq Level
  BY <1>4, CompactionAssumption DEF Level
<1>6. /\ mem' = {} /\ UNCHANGED <<history, snapshots, compaction, cutInside>>
      /\ intruded' = (intruded \/ (compaction.manual /\ UNCHANGED level0))
  BY DEF CompactMemTable
<1>7. ~intruded' => ~intruded
  BY <1>6
<1>8. CASE l = 0
  <2>1. level0' = Append(level0, mem) /\ below' = below
    BY <1>3, <1>8
  <2>2. Tables(0)' = Tables(0) \cup {mem}
    <3>1. level0 \in Seq(FileSet)
      BY DEF FilesType
    <3>2. level0' \in Seq(FileSet) /\ Len(level0') = Len(level0) + 1
      BY <2>1, <3>1, <1>1, Appended
    <3>3. /\ \A i \in 1..Len(level0) : level0'[i] = level0[i]
          /\ level0'[Len(level0) + 1] = mem
      BY <2>1, <3>1, <1>1, Appended
    <3>4. DOMAIN level0 = 1..Len(level0) /\ DOMAIN level0' = 1..Len(level0') /\ Len(level0) \in Nat
      BY <3>1, <3>2, Elements
    <3>5. \A i \in 1..Len(level0') : i = Len(level0) + 1 \/ i \in 1..Len(level0)
      BY <3>2, <3>4
    <3>6. Len(level0) + 1 \in 1..Len(level0') /\ \A i \in 1..Len(level0) : i \in 1..Len(level0')
      BY <3>2, <3>4
    <3>7. Range(level0') = Range(level0) \cup {mem}
      BY <3>3, <3>4, <3>5, <3>6 DEF Range
    <3> QED
      BY <3>7 DEF Tables
  <2>3. \A k \in Level : k # l => Tables(k)' = Tables(k)
    BY <2>1, <1>8 DEF Tables
  <2> QED
    BY <1>1, <1>2, <1>5, <1>6, <1>7, <1>8, <2>1, <2>2, <2>3 DEF FlushedTo
<1>9. CASE l # 0
  <2>1. level0' = level0 /\ below' = [below EXCEPT ![l] = @ \cup {mem}]
    BY <1>3, <1>9
  <2>2. l \in 1..LastLevel
    BY <1>5, <1>9, Levels01
  <2>3. below \in [1..LastLevel -> SUBSET FileSet]
    BY DEF FilesType
  <2>4. Tables(l)' = Tables(l) \cup {mem}
    BY <2>1, <2>2, <2>3, <1>9 DEF Tables
  <2>5. \A k \in Level : k # l => Tables(k)' = Tables(k)
    BY <2>1, <2>3, Levels01 DEF Tables
  <2>6. ASSUME NEW k \in 0..l, NEW t \in Tables(k) PROVE Left(t, lo) \/ Right(t, hi)
    <3>1. ~Meets(t, lo, hi)
      BY <1>4, <1>9 DEF Free, OverlapInLevel
    <3>2. t \in FileSet
      BY <1>5, TablesAre
    <3> QED
      BY <3>1, <3>2, <1>2, MeetsIs
  <2>7. ~intruded' => ~compaction.manual
    BY <1>6, <2>1
  <2> QED
    BY <1>1, <1>2, <1>5, <1>6, <1>7, <1>9, <2>1, <2>4, <2>5, <2>6, <2>7 DEF FlushedTo
<1> QED
  BY <1>8, <1>9

\* What Replaced does.
ReplacedBy(l, in0, in1, out) ==
  /\ level0' \in Seq(FileSet) /\ below' \in [1..LastLevel -> SUBSET FileSet]
  /\ Tables(l)' = Tables(l) \ in0
  /\ Tables(l + 1)' = (Tables(l + 1) \ in1) \cup out
  /\ \A k \in Level : k # l /\ k # l + 1 => Tables(k)' = Tables(k)
  /\ \A i, j \in 1..Len(level0') : i < j =>
       \E a, b \in 1..Len(level0) : a < b /\ level0'[i] = level0[a] /\ level0'[j] = level0[b]

LEMMA ReplacedIs ==
  ASSUME FilesType, NEW l \in 0..(LastLevel - 1), NEW in0, NEW in1, NEW out \in SUBSET FileSet,
         Replaced(l, in0, in1, out)
  PROVE  ReplacedBy(l, in0, in1, out)
<1> DEFINE next == (below[l + 1] \ in1) \cup out
<1>1. l \in Level /\ l + 1 \in Level /\ l + 1 \in 1..LastLevel /\ l + 1 # 0 /\ l \in Nat /\ l # l + 1
  BY Levels01
<1>2. level0 \in Seq(FileSet) /\ below \in [1..LastLevel -> SUBSET FileSet]
  BY DEF FilesType
<1>3. next \in SUBSET FileSet
  BY <1>1, <1>2
<1>4. CASE l = 0
  <2>1. level0' = Without(level0, in0) /\ below' = [below EXCEPT ![1] = next]
    BY <1>4 DEF Replaced
  <2> HIDE DEF next
  <2>2. WithoutTo(level0', level0, in0, FileSet, Len(level0))
    BY <2>1, <1>2, WithoutFacts
  <2>3. 1 \in 1..LastLevel /\ l + 1 = 1
    BY <1>1, <1>4
  <2>4. below' \in [1..LastLevel -> SUBSET FileSet] /\ below'[1] = next
    BY <2>1, <2>3, <1>2, <1>3
  <2>5. level0' \in Seq(FileSet)
    BY <2>2 DEF WithoutTo
  <2>6. /\ DOMAIN level0 = 1..Len(level0) /\ DOMAIN level0' = 1..Len(level0')
    BY <2>5, <1>2, Elements
  <2>7. Range(level0') = Range(level0) \ in0
    <3>1. ASSUME NEW t \in Range(level0') PROVE t \in Range(level0) \ in0
      <4>1. PICK i \in 1..Len(level0') : t = level0'[i]
        BY <2>6 DEF Range
      <4>2. PICK a \in 1..Len(level0) : level0'[i] = level0[a] /\ level0[a] \notin in0
        BY <2>2 DEF WithoutTo
      <4> QED
        BY <4>1, <4>2, <2>6 DEF Range
    <3>2. ASSUME NEW t \in Range(level0) \ in0 PROVE t \in Range(level0')
      <4>1. PICK a \in 1..Len(level0) : t = level0[a]
        BY <2>6 DEF Range
      <4>2. PICK i \in 1..Len(level0') : level0'[i] = level0[a]
        BY <4>1, <2>2 DEF WithoutTo
      <4> QED
        BY <4>1, <4>2, <2>6 DEF Range
    <3> QED
      BY <3>1, <3>2
  <2>8. Tables(l)' = Tables(l) \ in0
    BY <2>7, <1>4 DEF Tables
  <2>9. Tables(l + 1)' = (Tables(l + 1) \ in1) \cup out
    BY <2>3, <2>4 DEF Tables, next
  <2>10. \A k \in Level : k # l /\ k # l + 1 => Tables(k)' = Tables(k)
    <3> SUFFICES ASSUME NEW k \in Level, k # l, k # l + 1 PROVE Tables(k)' = Tables(k)
      OBVIOUS
    <3>1. k # 0 /\ k # 1 /\ k \in 1..LastLevel
      BY <1>4, Levels01
    <3>2. below'[k] = below[k]
      BY <3>1, <2>1, <1>2
    <3> QED
      BY <3>1, <3>2 DEF Tables
  <2>11. \A i, j \in 1..Len(level0') : i < j =>
           \E a, b \in 1..Len(level0) : a < b /\ level0'[i] = level0[a] /\ level0'[j] = level0[b]
    BY <2>2 DEF WithoutTo
  <2> QED
    BY <2>4, <2>5, <2>8, <2>9, <2>10, <2>11 DEF ReplacedBy
<1>5. CASE l # 0
  <2>1. level0' = level0 /\ below' = [below EXCEPT ![l] = @ \ in0, ![l + 1] = next]
    BY <1>5 DEF Replaced
  <2>2. l \in 1..LastLevel
    BY <1>1, <1>5, Levels01
  <2> HIDE DEF next
  <2>3. /\ below' \in [1..LastLevel -> SUBSET FileSet]
        /\ below'[l] = below[l] \ in0 /\ below'[l + 1] = next
        /\ \A k \in 1..LastLevel : k # l /\ k # l + 1 => below'[k] = below[k]
    BY <2>1, <2>2, <1>1, <1>2, <1>3
  <2>4. Tables(l)' = Tables(l) \ in0
    BY <2>3, <1>5 DEF Tables
  <2>5. Tables(l + 1)' = (Tables(l + 1) \ in1) \cup out
    BY <2>3, <1>1 DEF Tables, next
  <2>6. \A k \in Level : k # l /\ k # l + 1 => Tables(k)' = Tables(k)
    <3> SUFFICES ASSUME NEW k \in Level, k # l, k # l + 1 PROVE Tables(k)' = Tables(k)
      OBVIOUS
    <3>1. CASE k = 0
      BY <3>1, <2>1 DEF Tables
    <3>2. CASE k # 0
      BY <3>2, <2>3, Levels01 DEF Tables
    <3> QED
      BY <3>1, <3>2
  <2> QED
    BY <2>1, <2>3, <2>4, <2>5, <2>6, <1>2 DEF ReplacedBy
<1> QED
  BY <1>4, <1>5

\* What starts a compaction.
TaskTaken(l) ==
  /\ compaction' \in Work /\ compaction'.level = l
  /\ compaction'.in0 # {} /\ compaction'.in0 \subseteq Tables(l)
  /\ compaction'.in1 \subseteq Tables(l + 1)
  /\ compaction'.in1 = Within(l + 1, compaction'.in0)
  /\ l = 0 => Alone(compaction'.in0)
  /\ ~compaction'.manual => Connected(compaction'.in0 \cup compaction'.in1)
  /\ \A s \in snapshots \cup {LastSequence} : compaction'.smallest <= s
  /\ compaction'.deeper = UNION { below[k] : k \in (l + 2)..LastLevel }

LEMMA StartedIs ==
  ASSUME FilesType, NEW l \in 0..(LastLevel - 1), NEW in0 \in SUBSET Tables(l), in0 # {},
         l = 0 => Alone(in0), NEW manual \in BOOLEAN, ~manual => Connected(in0),
         NEW ins \in OtherInputs(l, in0), Started(l, ins, manual)
  PROVE  TaskTaken(l)
<1> DEFINE smallest == IF snapshots = {} THEN LastSequence ELSE Min(snapshots)
           deeper == UNION { below[k] : k \in (l + 2)..LastLevel }
<1>1. compaction' = [ level |-> l, manual |-> manual, in0 |-> ins[1], in1 |-> ins[2],
                      smallest |-> smallest, deeper |-> deeper ]
  BY DEF Started
<1>2. /\ ins[1] \subseteq Tables(l) /\ ins[1] # {}
      /\ ins[2] \subseteq Tables(l + 1) /\ ins[2] = Within(l + 1, ins[1])
      /\ l = 0 => Alone(ins[1])
      /\ Connected(in0) => Connected(ins[1] \cup ins[2])
  BY OthersAre
<1>3. ins[1] \in SUBSET FileSet /\ ins[2] \in SUBSET FileSet
  BY <1>2, TablesAre, Levels01
<1>4. smallest \in Nat /\ \A s \in snapshots \cup {LastSequence} : smallest <= s
  <2>1. LastSequence \in Nat /\ snapshots \subseteq Nat /\ \A s \in snapshots : s <= LastSequence
    BY WrittenIs DEF FilesType, LastSequence
  <2>2. CASE snapshots = {}
    BY <2>1, <2>2
  <2>3. CASE snapshots # {}
    <3>1. Min(snapshots) \in snapshots /\ \A s \in snapshots : Min(snapshots) <= s
      BY <2>1, <2>3, MinOfNaturals
    <3> QED
      BY <2>1, <2>3, <3>1
  <2> QED
    BY <2>2, <2>3
<1>5. deeper \in SUBSET FileSet
  <2>1. (l + 2)..LastLevel \subseteq 1..LastLevel
    BY Levels01
  <2> QED
    BY <2>1 DEF FilesType
<1> HIDE DEF smallest, deeper
<1>6. compaction' \in Work
  BY <1>1, <1>3, <1>4, <1>5 DEF Work
<1>7. /\ compaction'.level = l /\ compaction'.in0 = ins[1] /\ compaction'.in1 = ins[2]
      /\ compaction'.smallest = smallest /\ compaction'.deeper = deeper /\ compaction'.manual = manual
  BY <1>1
<1> QED
  BY <1>2, <1>4, <1>6, <1>7 DEF TaskTaken, deeper

LEMMA TaskStarts ==
  ASSUME FilesType, NEW l \in 0..(LastLevel - 1),
         \/ \E t \in Tables(l) : StartCompaction(l, t)
         \/ \E lo, hi \in Key : CompactRange(l, lo, hi)
  PROVE  TaskTaken(l) /\ UNCHANGED <<history, mem, level0, below, snapshots, cutInside, intruded>>
<1>1. l \in Level /\ Tables(l) \subseteq FileSet
  BY Levels01, TablesAre
<1>2. ASSUME NEW t \in Tables(l), StartCompaction(l, t) PROVE TaskTaken(l)
  <2>1. {t} \in SUBSET FileSet /\ {t} # {} /\ Connected({t})
    BY <1>1, ConnectedOne
  <2>2. /\ Picked(l, t) \in SUBSET Tables(l) /\ Picked(l, t) # {}
        /\ l = 0 => Alone(Picked(l, t))
        /\ Connected(Picked(l, t))
    <3>1. CASE l = 0
      <4>1. Picked(l, t) = Within(0, {t})
        BY <3>1 DEF Picked
      <4>2. Within(0, {t}) \subseteq Tables(0) /\ {t} \cap Tables(0) \subseteq Within(0, {t})
        BY <1>1, <2>1, <3>1, WithinContains
      <4>3. Connected({t} \cup Within(0, {t}))
        BY <1>1, <2>1, <3>1, ConnectedWithin
      <4>4. t \in Within(0, {t})
        BY <4>2, <3>1
      <4>5. {t} \cup Within(0, {t}) = Within(0, {t})
        BY <4>4
      <4>6. Alone(Within(0, {t}))
        <5>1. Smallest({t}) \in Key /\ Largest({t}) \in Key
          BY <2>1, Hull
        <5>2. Within(0, {t}) = GetOverlappingInputs(0, Smallest({t}), Largest({t}))
          BY DEF Within
        <5> QED
          BY <5>1, <5>2, <1>1, <3>1, InputsAlone
      <4> QED
        BY <4>1, <4>2, <4>3, <4>4, <4>5, <4>6, <3>1
    <3>2. CASE l # 0
      <4>1. Picked(l, t) = {t}
        BY <3>2 DEF Picked
      <4> QED
        BY <4>1, <2>1, <3>2
    <3> QED
      BY <3>1, <3>2
  <2>3. PICK ins \in OtherInputs(l, Picked(l, t)) : Started(l, ins, FALSE)
    BY <1>2 DEF StartCompaction
  <2> QED
    BY <2>2, <2>3, StartedIs
<1>3. ASSUME NEW lo \in Key, NEW hi \in Key, CompactRange(l, lo, hi) PROVE TaskTaken(l)
  <2> DEFINE S == GetOverlappingInputs(l, lo, hi)
  <2>1. S \subseteq Tables(l)
    BY DEF GetOverlappingInputs
  <2>2. l = 0 => Alone(S)
    BY <1>1, InputsAlone
  <2>3. PICK in0 \in FirstOf(l, S) : \E ins \in OtherInputs(l, in0) : Started(l, ins, TRUE)
    BY <1>3 DEF CompactRange
  <2> HIDE DEF S
  <2>4. in0 \subseteq S /\ in0 # {} /\ (l = 0 => in0 = S)
    BY <2>3 DEF FirstOf
  <2> QED
    BY <2>1, <2>2, <2>3, <2>4, StartedIs
<1>4. UNCHANGED <<history, mem, level0, below, snapshots, cutInside, intruded>>
  BY DEF StartCompaction, CompactRange
<1> QED
  BY <1>2, <1>3, <1>4

-----------------------------------------------------------------------------
(***************************************************************************)
(* The order of tables.                                                    *)
(***************************************************************************)
AllBefore(t, u) == \A d \in t, e \in u : Before(d, e)
Side(t, u) == AllBefore(t, u) \/ AllBefore(u, t)

LEMMA BeforeOrder ==
  /\ \A d, e, f \in Entry : Before(d, e) /\ Before(e, f) => Before(d, f)
  /\ \A d, e \in Entry : ~(Before(d, e) /\ Before(e, d))
  /\ \A d, e \in Entry : d.key < e.key => Before(d, e)
  /\ \A d, e \in Entry : Before(d, e) => d.key <= e.key
<1>1. \A d \in Entry : d.key \in Nat /\ d.seq \in Nat
  BY EntryFields, KeyNumbers
<1> QED
  BY <1>1 DEF Before

LEMMA BeforeTotal ==
  ASSUME FilesType, NEW d \in Range(history), NEW e \in Range(history), d # e
  PROVE  Before(d, e) \/ Before(e, d)
<1>1. d \in Entry /\ e \in Entry /\ d.seq # e.seq
  BY WrittenIs
<1>2. d.key \in Nat /\ d.seq \in Nat /\ e.key \in Nat /\ e.seq \in Nat
  BY <1>1, EntryFields, KeyNumbers
<1> QED
  BY <1>1, <1>2 DEF Before

\* What is beside a range is on one side of what is in it, and has none of
\* its keys.
LEMMA BesideRange ==
  ASSUME NEW u \in SUBSET Entry, NEW t \in SUBSET Entry, NEW lo \in Key, NEW hi \in Key,
         Inside(t, lo, hi), Left(u, lo) \/ Right(u, hi)
  PROVE  Side(u, t) /\ Side(t, u) /\ Foreign(u, t) /\ Foreign(t, u)
<1>1. (\A d \in u, e \in t : d.key < e.key) \/ (\A d \in u, e \in t : e.key < d.key)
  <2>1. \A d \in Entry : d.key \in Nat
    BY EntryFields, KeyNumbers
  <2>2. lo \in Nat /\ hi \in Nat
    BY KeyNumbers
  <2> QED
    BY <2>1, <2>2 DEF Inside, Left, Right
<1>2. \A d \in u \cup t : d \in Entry /\ d.key \in Nat
  BY EntryFields, KeyNumbers
<1>3. AllBefore(u, t) \/ AllBefore(t, u)
  BY <1>1, <1>2, BeforeOrder DEF AllBefore
<1>4. \A d \in u, e \in t : d.key # e.key
  BY <1>1, <1>2
<1> QED
  BY <1>3, <1>4 DEF Side, Foreign

\* The table that is moved overlaps nothing of the next level.
MovedTo(l, t) ==
  /\ Idle /\ ReplacedBy(l, {t}, {}, {t})
  /\ \A u \in Tables(l + 1) : Side(u, t) /\ Side(t, u) /\ Foreign(u, t) /\ Foreign(t, u)
  /\ l = 0 => Alone({t})
  /\ UNCHANGED <<history, mem, snapshots, compaction, cutInside, intruded>>

LEMMA MoveIs ==
  ASSUME FilesType, NEW l \in 0..(LastLevel - 1), NEW t \in Tables(l), MoveTable(l, t)
  PROVE  MovedTo(l, t)
<1>1. /\ l \in Level /\ l + 1 \in Level /\ l + 1 # 0 /\ t \in FileSet
      /\ Tables(l) \subseteq FileSet /\ Tables(l + 1) \subseteq FileSet
  BY Levels01, TablesAre
<1> DEFINE lo == Smallest({t})
           hi == Largest({t})
<1>2. lo \in Key /\ hi \in Key /\ Inside(t, lo, hi)
  BY <1>1, HullOfOne
<1>3. Picked(l, t) = {t} /\ Within(l + 1, {t}) = {}
  <2>1. Picked(l, t) = {t} /\ Within(l + 1, Picked(l, t)) = {}
    BY DEF MoveTable
  <2> QED
    BY <2>1
<1>4. GetOverlappingInputs(l + 1, lo, hi) = {}
  BY <1>3 DEF Within
<1>5. l = 0 => Within(0, {t}) = {t} /\ Within(0, {t}) = GetOverlappingInputs(0, lo, hi)
  BY <1>3 DEF Picked, Within
<1> HIDE DEF lo, hi
<1>6. ASSUME NEW u \in Tables(l + 1)
      PROVE  Side(u, t) /\ Side(t, u) /\ Foreign(u, t) /\ Foreign(t, u)
  <2>1. PICK x \in 1..lo, y \in hi..MaxKey : Spanned(l + 1, lo, hi, x, y)
    BY <1>1, <1>2, InputsRange
  <2>2. GetOverlappingInputs(l + 1, lo, hi) = { v \in Tables(l + 1) : ~Left(v, lo) /\ ~Right(v, hi) }
    BY <2>1, <1>1 DEF Spanned
  <2>3. Left(u, lo) \/ Right(u, hi)
    BY <2>2, <1>4
  <2>4. u \in SUBSET Entry /\ t \in SUBSET Entry
    BY <1>1 DEF FileSet
  <2> QED
    BY <2>3, <2>4, <1>2, BesideRange
<1>7. l = 0 => Alone({t})
  <2>1. SUFFICES ASSUME l = 0 PROVE Alone({t})
    OBVIOUS
  <2>2. Alone(GetOverlappingInputs(0, lo, hi))
    BY <2>1, <1>1, <1>2, InputsAlone
  <2> QED
    BY <2>1, <2>2, <1>5
<1>8. ReplacedBy(l, {t}, {}, {t})
  <2>1. {t} \in SUBSET FileSet /\ Replaced(l, {t}, {}, {t})
    BY <1>1 DEF MoveTable
  <2> QED
    BY <2>1, ReplacedIs
<1> QED
  BY <1>6, <1>7, <1>8 DEF MovedTo, MoveTable

\* The outputs of a compaction follow each other.
LEMMA OutputsAre ==
  ASSUME FilesType, NEW S \in SUBSET Range(history), NEW out \in Outputs(S)
  PROVE  /\ out \in SUBSET FileSet /\ UNION out = S
         /\ \A t, u \in out : t # u => Side(t, u)
<1> DEFINE TableOf(e, cuts) == { d \in S : \A c \in cuts : Before(c, d) <=> Before(c, e) }
           ends == { e \in S : \E d \in S : Before(e, d) }
<1>1. PICK cuts \in SUBSET ends : out = { TableOf(e, cuts) : e \in S }
  BY DEF Outputs
<1>2. cuts \subseteq S /\ S \subseteq Entry
  BY WrittenIs
<1> HIDE DEF ends
<1>3. \A e \in S : e \in TableOf(e, cuts) /\ TableOf(e, cuts) \subseteq S
  OBVIOUS
<1>4. \A t \in out : \E e \in S : t = TableOf(e, cuts)
  BY <1>1
<1>5. out \in SUBSET FileSet
  <2> SUFFICES ASSUME NEW t \in out PROVE t \in FileSet
    OBVIOUS
  <2>1. PICK e \in S : t = TableOf(e, cuts)
    BY <1>4
  <2>2. e \in t /\ t \subseteq S
    BY <2>1
  <2> QED
    BY <2>2, <1>2 DEF FileSet
<1>6. UNION out = S
  <2>1. \A e \in S : e \in UNION out
    BY <1>1, <1>3
  <2>2. \A t \in out : t \subseteq S
    BY <1>3, <1>4
  <2> QED
    BY <2>1, <2>2
<1>7. ASSUME NEW t \in out, NEW u \in out, t # u PROVE Side(t, u)
  <2>1. PICK e \in S : t = TableOf(e, cuts)
    BY <1>4
  <2>2. PICK f \in S : u = TableOf(f, cuts)
    BY <1>4
  <2>3. PICK c \in cuts : ~(Before(c, e) <=> Before(c, f))
    BY <2>1, <2>2, <1>7
  <2>4. /\ \A d \in t : d \in S /\ (Before(c, d) <=> Before(c, e))
        /\ \A d \in u : d \in S /\ (Before(c, d) <=> Before(c, f))
    BY <2>1, <2>2
  <2> HIDE DEF TableOf
  <2>5. ASSUME NEW d \in S, NEW b \in S, Before(c, d), ~Before(c, b) PROVE Before(b, d)
    <3>1. c \in Range(history) /\ b \in Range(history)
      BY <1>2
    <3>2. b = c \/ Before(b, c)
      BY <3>1, <2>5, BeforeTotal
    <3>3. c \in Entry /\ b \in Entry /\ d \in Entry
      BY <1>2
    <3> QED
      BY <3>2, <3>3, <2>5, BeforeOrder
  <2>6. CASE Before(c, e)
    <3>1. AllBefore(u, t)
      BY <2>3, <2>4, <2>5, <2>6 DEF AllBefore
    <3> QED
      BY <3>1 DEF Side
  <2>7. CASE Before(c, f)
    <3>1. AllBefore(t, u)
      BY <2>3, <2>4, <2>5, <2>7 DEF AllBefore
    <3> QED
      BY <3>1 DEF Side
  <2> QED
    BY <2>3, <2>6, <2>7
<1> QED
  BY <1>5, <1>6, <1>7

Merged == UNION Inputs

\* What the end of a compaction does.
InstalledAs(l, out) ==
  /\ compaction \in Work /\ compaction.level = l /\ l \in 0..(LastLevel - 1)
  /\ Merged \subseteq Range(history)
  /\ out \in SUBSET FileSet /\ UNION out = Merged \ Dropped(Merged)
  /\ \A t, u \in out : t # u => Side(t, u)
  /\ ReplacedBy(l, compaction.in0, compaction.in1, out)
  /\ ~cutInside' => ~cutInside /\ \A t, u \in out : t # u => Foreign(t, u)
  /\ compaction' = NoCompaction
  /\ UNCHANGED <<history, mem, snapshots, intruded>>

LEMMA InstallIs ==
  ASSUME FilesType, TaskType, InstallCompactionResults
  PROVE  \E l, out : InstalledAs(l, out)
<1> DEFINE l == compaction.level
<1>1. ~Idle
  BY DEF InstallCompactionResults
<1>2. /\ compaction \in Work
      /\ compaction.in0 \subseteq Tables(l) /\ compaction.in1 \subseteq Tables(l + 1)
  BY <1>1, NotIdle DEF TaskType
<1>3. l \in 0..(LastLevel - 1)
  BY <1>2, TaskFields
<1>4. Merged = UNION (compaction.in0 \cup compaction.in1)
  BY DEF Merged, Inputs
<1>5. Merged \subseteq Range(history)
  <2>1. \A t \in compaction.in0 \cup compaction.in1 : t \subseteq Range(history)
    BY <1>2, <1>3, Levels01 DEF FilesType
  <2> HIDE DEF l
  <2> QED
    BY <2>1, <1>4
<1>6. PICK out \in Outputs(Merged \ Dropped(Merged)) :
        /\ Replaced(l, compaction.in0, compaction.in1, out)
        /\ cutInside' = (cutInside \/ ~KeysWhole(out))
  BY <1>4 DEF InstallCompactionResults
<1>7. Merged \ Dropped(Merged) \in SUBSET Range(history)
  BY <1>5
<1>8. /\ out \in SUBSET FileSet /\ UNION out = Merged \ Dropped(Merged)
      /\ \A t, u \in out : t # u => Side(t, u)
  BY <1>7, OutputsAre
<1>9. ReplacedBy(l, compaction.in0, compaction.in1, out)
  BY <1>3, <1>6, <1>8, ReplacedIs
<1>10. ~cutInside' => ~cutInside /\ \A t, u \in out : t # u => Foreign(t, u)
  BY <1>6 DEF KeysWhole, Foreign
<1>11. compaction' = NoCompaction /\ UNCHANGED <<history, mem, snapshots, intruded>>
  BY DEF InstallCompactionResults
<1>12. InstalledAs(l, out)
  BY <1>2, <1>3, <1>5, <1>8, <1>9, <1>10, <1>11 DEF InstalledAs
<1> QED
  BY <1>12

-----------------------------------------------------------------------------
(***************************************************************************)
(* Levels without overlaps.  The outputs of a compaction fit between the   *)
(* tables of their level that are not merged with them.                    *)
(***************************************************************************)
DisjointInv ==
  ~intruded =>
    /\ \A l \in 1..LastLevel : \A t, u \in Tables(l) : t # u => Side(t, u)
    /\ ~Idle => \A u \in Tables(compaction.level + 1) \ compaction.in1 : Side(u, Merged)

DisjointCore == FilesType /\ TaskType /\ DisjointInv

LEMMA SideSwap == \A t, u : Side(t, u) <=> Side(u, t)
BY DEF Side

LEMMA SidePart ==
  ASSUME NEW t, NEW u, NEW v, Side(t, u), v \subseteq u
  PROVE  Side(t, v) /\ Side(v, t)
BY DEF Side, AllBefore

LEMMA DisjointStart == Init => DisjointCore
<1> SUFFICES ASSUME Init PROVE DisjointCore
  OBVIOUS
<1>1. /\ history = <<>> /\ mem = {} /\ level0 = <<>> /\ below = [l \in 1..LastLevel |-> {}]
      /\ snapshots = {} /\ compaction = NoCompaction /\ cutInside = FALSE /\ intruded = FALSE
  BY DEF Init
<1>2. history \in Seq(Entry) /\ Len(history) = 0 /\ level0 \in Seq(FileSet) /\ Len(level0) = 0
  BY <1>1
<1>3. 1..Len(history) = {} /\ Range(level0) = {}
  <2>1. DOMAIN level0 = 1..0
    BY <1>2, Elements
  <2> QED
    BY <2>1, <1>2 DEF Range
<1>4. \A l \in Level : Tables(l) = {}
  BY <1>1, <1>3, Levels01 DEF Tables
<1>5. FilesType
  <2>1. below \in [1..LastLevel -> SUBSET FileSet]
    BY <1>1
  <2> QED
    BY <2>1, <1>1, <1>2, <1>3, <1>4 DEF FilesType
<1>6. TaskType
  BY <1>1 DEF TaskType
<1>7. DisjointInv
  BY <1>1, <1>4, Levels01, NotIdle DEF DisjointInv
<1> QED
  BY <1>5, <1>6, <1>7 DEF DisjointCore

LEMMA WriteIs ==
  ASSUME FilesType, NEW k \in Key, NEW del \in BOOLEAN, Write(k, del)
  PROVE  \E e \in Entry :
           /\ e.key = k /\ e.seq = LastSequence + 1 /\ LastSequence' = LastSequence + 1
           /\ history' \in Seq(Entry) /\ \A n \in 1..Len(history') : history'[n].seq = n
           /\ Range(history') = Range(history) \cup {e} /\ mem' = mem \cup {e}
           /\ UNCHANGED <<level0, below, snapshots, compaction, cutInside, intruded>>
<1> DEFINE e == [key |-> k, seq |-> LastSequence + 1, del |-> del]
<1>1. history' = Append(history, e) /\ mem' = mem \cup {e}
      /\ UNCHANGED <<level0, below, snapshots, compaction, cutInside, intruded>>
  BY DEF Write
<1>2. history \in Seq(Entry) /\ Len(history) \in Nat /\ LastSequence = Len(history)
      /\ DOMAIN history = 1..Len(history)
  BY Elements DEF FilesType, LastSequence
<1>3. e \in Entry /\ e.key = k /\ e.seq = Len(history) + 1
  BY <1>2 DEF Entry
<1> HIDE DEF e
<1>4. /\ history' \in Seq(Entry) /\ Len(history') = Len(history) + 1
      /\ \A n \in 1..Len(history) : history'[n] = history[n]
      /\ history'[Len(history) + 1] = e
  BY <1>1, <1>2, <1>3, Appended
<1>5. DOMAIN history' = 1..Len(history')
  BY <1>4, Elements
<1>6. \A n \in 1..Len(history') : n = Len(history) + 1 \/ n \in 1..Len(history)
  BY <1>2, <1>4
<1>7. Len(history) + 1 \in 1..Len(history') /\ \A n \in 1..Len(history) : n \in 1..Len(history')
  BY <1>2, <1>4
<1>8. Range(history') = Range(history) \cup {e}
  BY <1>2, <1>4, <1>5, <1>6, <1>7 DEF Range
<1>9. \A n \in 1..Len(history') : history'[n].seq = n
  BY <1>3, <1>4, <1>6 DEF FilesType
<1>10. LastSequence' = LastSequence + 1
  BY <1>2, <1>4 DEF LastSequence
<1> QED
  BY <1>1, <1>2, <1>3, <1>4, <1>8, <1>9, <1>10

LEMMA DisjointWrite ==
  ASSUME DisjointCore, NEW k \in Key, NEW del \in BOOLEAN, Write(k, del)
  PROVE  DisjointCore'
<1>1. FilesType /\ TaskType /\ DisjointInv
  BY DEF DisjointCore
<1>2. PICK e \in Entry :
           /\ e.key = k /\ e.seq = LastSequence + 1 /\ LastSequence' = LastSequence + 1
           /\ history' \in Seq(Entry) /\ \A n \in 1..Len(history') : history'[n].seq = n
           /\ Range(history') = Range(history) \cup {e} /\ mem' = mem \cup {e}
           /\ UNCHANGED <<level0, below, snapshots, compaction, cutInside, intruded>>
  BY <1>1, WriteIs
<1>3. Len(history) \in Nat /\ Len(history') = Len(history) + 1
  BY <1>1, <1>2, WrittenIs DEF LastSequence
<1>4. \A l \in Level : Tables(l)' = Tables(l)
  BY <1>2, TablesSame
<1>5. FilesType'
  <2>1. mem' \subseteq Range(history')
    BY <1>1, <1>2 DEF FilesType
  <2>2. \A l \in Level : \A t \in Tables(l)' : t \subseteq Range(history')
    BY <1>1, <1>2, <1>4 DEF FilesType
  <2>3. snapshots \subseteq 0..Len(history')
    BY <1>1, <1>3 DEF FilesType
  <2> QED
    BY <1>1, <1>2, <2>1, <2>2, <2>3 DEF FilesType
<1>6. TaskType'
  <2>1. CASE compaction = NoCompaction
    BY <2>1, <1>2 DEF TaskType
  <2>2. CASE compaction # NoCompaction
    <3>1. /\ compaction \in Work
          /\ compaction.in0 # {} /\ compaction.in0 \subseteq Tables(compaction.level)
          /\ compaction.in1 \subseteq Tables(compaction.level + 1)
          /\ \A s \in snapshots \cup {LastSequence} : compaction.smallest <= s
          /\ ~compaction.manual => Connected(Inputs)
      BY <2>2, <1>1 DEF TaskType
    <3>2. compaction.smallest \in Nat /\ LastSequence \in Nat
      BY <3>1, <1>1, TaskFields, WrittenIs
    <3>3. \A s \in snapshots \cup {LastSequence'} : compaction.smallest <= s
      <4>1. \A s \in snapshots : compaction.smallest <= s
        BY <3>1
      <4>2. compaction.smallest <= LastSequence
        BY <3>1
      <4>3. compaction.smallest <= LastSequence'
        BY <4>2, <3>2, <1>2
      <4> QED
        BY <4>1, <4>3
    <3>4. Inputs' = Inputs /\ Tables(compaction.level)' = Tables(compaction.level)
          /\ Tables(compaction.level + 1)' = Tables(compaction.level + 1)
      BY <1>2 DEF Inputs, Tables
    <3>5. compaction' = compaction /\ snapshots' = snapshots
      BY <1>2
    <3> QED
      BY <3>1, <3>3, <3>4, <3>5 DEF TaskType
  <2> QED
    BY <2>1, <2>2
<1>7. DisjointInv'
  BY <1>1, <1>2 DEF DisjointInv, Tables, Idle, Merged, Inputs
<1> QED
  BY <1>5, <1>6, <1>7 DEF DisjointCore

LEMMA DisjointSnapshot ==
  ASSUME DisjointCore,
         UNCHANGED <<history, mem, level0, below, compaction, cutInside, intruded>>,
         snapshots' \subseteq snapshots \cup {LastSequence}
  PROVE  DisjointCore'
<1>1. FilesType /\ TaskType /\ DisjointInv
  BY DEF DisjointCore
<1>2. LastSequence \in Nat /\ LastSequence = Len(history) /\ LastSequence' = LastSequence
  BY <1>1, WrittenIs DEF LastSequence
<1>3. FilesType'
  <2>1. snapshots' \subseteq 0..Len(history)
    BY <1>1, <1>2 DEF FilesType
  <2> QED
    BY <1>1, <2>1 DEF FilesType, Tables
<1>4. TaskType'
  <2>1. \A s \in snapshots' \cup {LastSequence'} : s \in snapshots \cup {LastSequence}
    BY <1>2
  <2> QED
    BY <1>1, <2>1 DEF TaskType, Tables, Inputs
<1>5. DisjointInv'
  BY <1>1 DEF DisjointInv, Tables, Idle, Merged, Inputs
<1> QED
  BY <1>3, <1>4, <1>5 DEF DisjointCore

LEMMA DisjointTask ==
  ASSUME DisjointCore, NEW l \in 0..(LastLevel - 1),
         TaskTaken(l), UNCHANGED <<history, mem, level0, below, snapshots, cutInside, intruded>>
  PROVE  DisjointCore'
<1>1. FilesType /\ TaskType /\ DisjointInv
  BY DEF DisjointCore
<1>2. \A k : Tables(k)' = Tables(k)
  BY DEF Tables
<1>3. FilesType'
  BY <1>1 DEF FilesType, Tables
<1> DEFINE c == compaction'
<1>4. /\ c \in Work /\ c.level = l /\ c.in0 # {} /\ c.in0 \subseteq Tables(l)
      /\ c.in1 \subseteq Tables(l + 1) /\ c.in1 = Within(l + 1, c.in0)
      /\ ~c.manual => Connected(c.in0 \cup c.in1)
      /\ \A s \in snapshots \cup {LastSequence} : c.smallest <= s
  BY DEF TaskTaken
<1>5. compaction' = c
  OBVIOUS
<1> HIDE DEF c
<1>6. \A k : k = c.level => Tables(k)' = Tables(l) /\ Tables(k + 1)' = Tables(l + 1)
  BY <1>2, <1>4
<1>7. TaskType'
  <2>1. LastSequence' = LastSequence /\ snapshots' = snapshots
    BY DEF LastSequence
  <2>2. Inputs' = c.in0 \cup c.in1
    BY <1>5 DEF Inputs
  <2>3. Tables(compaction.level)' = Tables(l) /\ Tables(compaction.level + 1)' = Tables(l + 1)
    BY <1>4, <1>5 DEF Tables
  <2> QED
    BY <1>4, <1>5, <2>1, <2>2, <2>3 DEF TaskType
<1>8. DisjointInv'
  <2>1. SUFFICES ASSUME ~intruded'
                 PROVE  /\ \A m \in 1..LastLevel : \A t, u \in Tables(m)' : t # u => Side(t, u)
                        /\ \A u \in Tables(l + 1) \ c.in1 : Side(u, UNION (c.in0 \cup c.in1))
    <3>1. Merged' = UNION (c.in0 \cup c.in1)
      BY <1>5 DEF Merged, Inputs
    <3>2. Tables(compaction.level + 1)' = Tables(l + 1)
      BY <1>4, <1>5 DEF Tables
    <3> QED
      BY <3>1, <3>2, <1>5 DEF DisjointInv
  <2>2. \A m \in 1..LastLevel : \A t, u \in Tables(m) : t # u => Side(t, u)
    BY <1>1, <2>1 DEF DisjointInv
  <2>3. ASSUME NEW u \in Tables(l + 1) \ c.in1 PROVE Side(u, UNION (c.in0 \cup c.in1))
    <3>1. /\ l + 1 \in 1..LastLevel /\ l + 1 \in Level /\ l + 1 # 0 /\ l \in Level
          /\ Tables(l + 1) \subseteq FileSet /\ Tables(l) \subseteq FileSet
      BY <1>1, Levels01, TablesAre
    <3> DEFINE lo == Smallest(c.in0)
               hi == Largest(c.in0)
    <3>2. c.in0 \in SUBSET FileSet /\ c.in0 # {}
      BY <1>4, <3>1
    <3>3. /\ lo \in Key /\ hi \in Key /\ lo <= hi
          /\ \A t \in c.in0 : Inside(t, lo, hi)
      BY <3>2, Hull
    <3>4. c.in1 = GetOverlappingInputs(l + 1, lo, hi)
      BY <1>4 DEF Within
    <3> HIDE DEF lo, hi
    <3>5. PICK x \in 1..lo, y \in hi..MaxKey : Spanned(l + 1, lo, hi, x, y)
      BY <3>1, <3>3, InputsRange
    <3>6. c.in1 = { v \in Tables(l + 1) : ~Left(v, lo) /\ ~Right(v, hi) }
      BY <3>4, <3>5, <3>1 DEF Spanned
    <3>7. Left(u, lo) \/ Right(u, hi)
      BY <3>6
    <3>8. \A t \in c.in1 : Side(u, t)
      BY <2>2, <3>1, <3>6, <2>3
    <3>9. u \in SUBSET Entry /\ \A t \in c.in0 \cup c.in1 : t \in SUBSET Entry
      BY <3>1, <3>2, <3>6 DEF FileSet
    <3>10. \A d \in u : d \in Entry /\ d.key \in Nat
      BY <3>9, EntryFields, KeyNumbers
    <3>11. lo \in Nat /\ hi \in Nat
      BY <3>3, KeyNumbers
    <3>12. CASE Left(u, lo)
      <4>1. ASSUME NEW t \in c.in0 \cup c.in1, NEW d \in u, NEW e \in t PROVE Before(d, e)
        <5>1. e \in Entry /\ e.key \in Nat
          BY <3>9, EntryFields, KeyNumbers
        <5>2. CASE t \in c.in0
          <6>1. lo <= e.key
            BY <3>3, <5>2 DEF Inside
          <6>2. d.key < e.key
            BY <6>1, <5>1, <3>10, <3>11, <3>12 DEF Left
          <6> QED
            BY <6>2, <5>1, <3>10, BeforeOrder
        <5>3. CASE t \in c.in1
          <6>1. PICK f \in t : ~(f.key < lo)
            BY <5>3, <3>6 DEF Left
          <6>2. f \in Entry /\ f.key \in Nat
            BY <6>1, <3>9, EntryFields, KeyNumbers
          <6>3. ~AllBefore(t, u)
            <7>1. d.key < f.key
              BY <6>1, <6>2, <3>10, <3>11, <3>12 DEF Left
            <7>2. Before(d, f) /\ ~Before(f, d)
              BY <7>1, <6>2, <3>10, BeforeOrder
            <7> QED
              BY <7>2 DEF AllBefore
          <6> QED
            BY <6>3, <3>8, <5>3 DEF Side, AllBefore
        <5> QED
          BY <5>2, <5>3
      <4>2. AllBefore(u, UNION (c.in0 \cup c.in1))
        BY <4>1 DEF AllBefore
      <4> QED
        BY <4>2 DEF Side
    <3>13. CASE Right(u, hi)
      <4>1. ASSUME NEW t \in c.in0 \cup c.in1, NEW d \in u, NEW e \in t PROVE Before(e, d)
        <5>1. e \in Entry /\ e.key \in Nat
          BY <3>9, EntryFields, KeyNumbers
        <5>2. CASE t \in c.in0
          <6>1. e.key <= hi
            BY <3>3, <5>2 DEF Inside
          <6>2. e.key < d.key
            BY <6>1, <5>1, <3>10, <3>11, <3>13 DEF Right
          <6> QED
            BY <6>2, <5>1, <3>10, BeforeOrder
        <5>3. CASE t \in c.in1
          <6>1. PICK f \in t : ~(hi < f.key)
            BY <5>3, <3>6 DEF Right
          <6>2. f \in Entry /\ f.key \in Nat
            BY <6>1, <3>9, EntryFields, KeyNumbers
          <6>3. ~AllBefore(u, t)
            <7>1. f.key < d.key
              BY <6>1, <6>2, <3>10, <3>11, <3>13 DEF Right
            <7>2. Before(f, d) /\ ~Before(d, f)
              BY <7>1, <6>2, <3>10, BeforeOrder
            <7> QED
              BY <7>2 DEF AllBefore
          <6> QED
            BY <6>3, <3>8, <5>3 DEF Side, AllBefore
        <5> QED
          BY <5>2, <5>3
      <4>2. AllBefore(UNION (c.in0 \cup c.in1), u)
        BY <4>1 DEF AllBefore
      <4> QED
        BY <4>2 DEF Side
    <3> QED
      BY <3>7, <3>12, <3>13
  <2> QED
    BY <1>2, <2>2, <2>3
<1> QED
  BY <1>3, <1>7, <1>8 DEF DisjointCore

LEMMA DisjointMove ==
  ASSUME DisjointCore, NEW l \in 0..(LastLevel - 1), NEW t \in Tables(l), MovedTo(l, t)
  PROVE  DisjointCore'
<1>1. FilesType /\ TaskType /\ DisjointInv
  BY DEF DisjointCore
<1>2. l \in Level /\ l + 1 \in Level /\ l + 1 \in 1..LastLevel
  BY Levels01
<1>3. /\ level0' \in Seq(FileSet) /\ below' \in [1..LastLevel -> SUBSET FileSet]
      /\ Tables(l)' = Tables(l) \ {t} /\ Tables(l + 1)' = Tables(l + 1) \cup {t}
      /\ \A k \in Level : k # l /\ k # l + 1 => Tables(k)' = Tables(k)
      /\ UNCHANGED <<history, mem, snapshots, compaction, cutInside, intruded>>
      /\ \A u \in Tables(l + 1) : Side(u, t) /\ Side(t, u)
  BY DEF MovedTo, ReplacedBy
<1>4. \A k \in Level : \A u \in Tables(k)' : u \in Tables(k) \/ (k = l + 1 /\ u = t)
  BY <1>2, <1>3
<1>5. Idle /\ compaction = NoCompaction /\ Idle'
  <2>1. Idle
    BY DEF MovedTo
  <2> QED
    BY <2>1, <1>3 DEF Idle
<1>6. FilesType'
  <2>1. t \subseteq Range(history)
    BY <1>1, <1>2 DEF FilesType
  <2>2. \A k \in Level : \A u \in Tables(k)' : u \subseteq Range(history)
    BY <1>1, <1>4, <2>1 DEF FilesType
  <2> QED
    BY <1>1, <1>3, <2>2 DEF FilesType
<1>7. TaskType'
  BY <1>3, <1>5 DEF TaskType
<1>8. DisjointInv'
  <2>1. SUFFICES ASSUME ~intruded', NEW m \in 1..LastLevel, NEW u \in Tables(m)', NEW v \in Tables(m)', u # v
                 PROVE  Side(u, v)
    BY <1>5 DEF DisjointInv
  <2>2. m \in Level
    BY Levels01
  <2>3. u \in Tables(m) /\ v \in Tables(m) => Side(u, v)
    BY <1>1, <1>3, <2>1 DEF DisjointInv
  <2> QED
    BY <1>3, <1>4, <2>1, <2>2, <2>3
<1> QED
  BY <1>6, <1>7, <1>8 DEF DisjointCore

\* A table that overlaps none of the inputs is on one side of all of them.
LEMMA BesideInputs ==
  ASSUME NEW S \in SUBSET FileSet, Connected(S), NEW u \in SUBSET Entry,
         NEW lo \in Key, NEW hi \in Key, lo <= hi, Inside(u, lo, hi),
         \A t \in S : Left(t, lo) \/ Right(t, hi)
  PROVE  Side(u, UNION S)
<1>1. (\A t \in S : Left(t, lo)) \/ (\A t \in S : Right(t, hi))
  BY DEF Connected
<1>2. Left(UNION S, lo) \/ Right(UNION S, hi)
  BY <1>1 DEF Left, Right
<1>3. UNION S \in SUBSET Entry
  BY DEF FileSet
<1> QED
  BY <1>2, <1>3, BesideRange

LEMMA DisjointFlush ==
  ASSUME DisjointCore, NEW l, NEW lo, NEW hi, FlushedTo(l, lo, hi)
  PROVE  DisjointCore'
<1>1. FilesType /\ TaskType /\ DisjointInv
  BY DEF DisjointCore
<1>2. /\ l \in Level /\ lo \in Key /\ hi \in Key /\ lo <= hi
      /\ mem \in FileSet /\ mem \in SUBSET Entry /\ Inside(mem, lo, hi)
      /\ Tables(l)' = Tables(l) \cup {mem}
      /\ \A k \in Level : k # l => Tables(k)' = Tables(k)
      /\ l # 0 => \A k \in 0..l : \A t \in Tables(k) : Left(t, lo) \/ Right(t, hi)
      /\ ~intruded' => ~intruded /\ (l # 0 => ~compaction.manual)
      /\ mem' = {} /\ UNCHANGED <<history, snapshots, compaction, cutInside>>
  BY DEF FlushedTo, FileSet
<1>3. \A k \in Level : \A u \in Tables(k)' : u \in Tables(k) \/ (k = l /\ u = mem)
  BY <1>2
<1>4. \A k \in Level : Tables(k) \subseteq Tables(k)'
  BY <1>2
<1>5. FilesType'
  <2>1. mem \subseteq Range(history)
    BY <1>1 DEF FilesType
  <2>2. \A k \in Level : \A u \in Tables(k)' : u \subseteq Range(history)
    BY <1>1, <1>3, <2>1 DEF FilesType
  <2>3. level0' \in Seq(FileSet) /\ below' \in [1..LastLevel -> SUBSET FileSet]
    <3>1. level0 \in Seq(FileSet) /\ below \in [1..LastLevel -> SUBSET FileSet]
      BY <1>1 DEF FilesType
    <3>2. CASE l = 0
      BY <3>1, <3>2, <1>2, Appended DEF FlushedTo
    <3>3. CASE l # 0
      BY <3>1, <3>3, <1>2, Levels01 DEF FlushedTo
    <3> QED
      BY <3>2, <3>3
  <2> QED
    BY <1>1, <1>2, <2>2, <2>3 DEF FilesType
<1>6. TaskType'
  <2>1. CASE compaction = NoCompaction
    BY <2>1, <1>2 DEF TaskType
  <2>2. CASE compaction # NoCompaction
    <3>1. /\ compaction \in Work
          /\ compaction.in0 # {} /\ compaction.in0 \subseteq Tables(compaction.level)
          /\ compaction.in1 \subseteq Tables(compaction.level + 1)
          /\ \A s \in snapshots \cup {LastSequence} : compaction.smallest <= s
          /\ ~compaction.manual => Connected(Inputs)
      BY <2>2, <1>1 DEF TaskType
    <3>2. compaction.level \in Level /\ compaction.level + 1 \in Level
      BY <3>1, TaskFields, Levels01
    <3>3. \A m : m = compaction.level => Tables(m) \subseteq Tables(m)' /\ Tables(m + 1) \subseteq Tables(m + 1)'
      BY <3>2, <1>4
    <3>4. Tables(compaction.level) \subseteq Tables(compaction.level)'
          /\ Tables(compaction.level + 1) \subseteq Tables(compaction.level + 1)'
      BY <3>3, <1>2 DEF Tables
    <3>5. Inputs' = Inputs /\ LastSequence' = LastSequence /\ compaction' = compaction /\ snapshots' = snapshots
      BY <1>2 DEF Inputs, LastSequence
    <3> QED
      BY <3>1, <3>4, <3>5 DEF TaskType
  <2> QED
    BY <2>1, <2>2
<1>7. DisjointInv'
  <2> SUFFICES ASSUME ~intruded'
               PROVE  /\ \A m \in 1..LastLevel : \A t, u \in Tables(m)' : t # u => Side(t, u)
                      /\ ~Idle' => \A u \in Tables(compaction.level + 1)' \ compaction'.in1 : Side(u, Merged')
    BY DEF DisjointInv
  <2>1. ~intruded /\ (l # 0 => ~compaction.manual)
    BY <1>2
  <2>2. \A m \in 1..LastLevel : \A t, u \in Tables(m) : t # u => Side(t, u)
    BY <1>1, <2>1 DEF DisjointInv
  <2>3. ASSUME l # 0, NEW u \in Tables(l) PROVE Side(u, mem) /\ Side(mem, u)
    <3>1. l \in 0..l
      BY <1>2, Levels01
    <3>2. Left(u, lo) \/ Right(u, hi)
      BY <2>3, <3>1, <1>2
    <3>3. u \in SUBSET Entry
      BY <1>1, <1>2, TablesAre DEF FileSet
    <3> QED
      BY <3>2, <3>3, <1>2, BesideRange
  <2>4. \A m \in 1..LastLevel : \A t, u \in Tables(m)' : t # u => Side(t, u)
    <3> SUFFICES ASSUME NEW m \in 1..LastLevel, NEW t \in Tables(m)', NEW u \in Tables(m)', t # u
                 PROVE  Side(t, u)
      OBVIOUS
    <3>1. m \in Level /\ m # 0
      BY Levels01
    <3>2. (t \in Tables(m) \/ (m = l /\ t = mem)) /\ (u \in Tables(m) \/ (m = l /\ u = mem))
      BY <3>1, <1>3
    <3> QED
      BY <3>1, <3>2, <2>2, <2>3
  <2>5. ~Idle' => \A u \in Tables(compaction.level + 1)' \ compaction'.in1 : Side(u, Merged')
    <3> SUFFICES ASSUME ~Idle', NEW u \in Tables(compaction.level + 1)' \ compaction'.in1
                 PROVE  Side(u, Merged')
      OBVIOUS
    <3>1. Merged' = Merged /\ compaction' = compaction /\ ~Idle
      BY <1>2 DEF Merged, Inputs, Idle
    <3>2. /\ compaction \in Work
          /\ compaction.in0 \subseteq Tables(compaction.level)
          /\ compaction.in1 \subseteq Tables(compaction.level + 1)
          /\ ~compaction.manual => Connected(Inputs)
      BY <3>1, <1>1, NotIdle DEF TaskType
    <3>3. PICK n \in 0..(LastLevel - 1) : n = compaction.level
      BY <3>2, TaskFields
    <3>4. n \in Level /\ n + 1 \in Level /\ n + 1 # 0 /\ n \in Nat
      BY Levels01
    <3>5. u \in Tables(n + 1)' \ compaction.in1
      <4>1. \A k : k = compaction.level + 1 => Tables(k)' = Tables(compaction.level + 1)'
        BY <3>1 DEF Tables
      <4> QED
        BY <3>1, <3>3, <4>1
    <3>6. CASE u \in Tables(n + 1)
      BY <3>1, <3>3, <3>5, <3>6, <1>1, <2>1 DEF DisjointInv
    <3>7. CASE u = mem /\ l = n + 1
      <4>1. Connected(Inputs)
        BY <3>2, <3>4, <3>7, <2>1
      <4>2. Inputs \in SUBSET FileSet
        BY <3>2, TaskFields DEF Inputs
      <4>3. n \in 0..l /\ n + 1 \in 0..l
        BY <3>4, <3>7
      <4>4. \A t \in Inputs : Left(t, lo) \/ Right(t, hi)
        BY <4>3, <3>2, <3>3, <3>4, <3>7, <1>2 DEF Inputs
      <4> QED
        BY <4>1, <4>2, <4>4, <3>1, <3>7, <1>2, BesideInputs DEF Merged
    <3> QED
      BY <3>4, <3>5, <3>6, <3>7, <1>3
  <2> QED
    BY <2>4, <2>5
<1> QED
  BY <1>5, <1>6, <1>7 DEF DisjointCore

LEMMA DisjointInstall ==
  ASSUME DisjointCore, NEW l, NEW out, InstalledAs(l, out)
  PROVE  DisjointCore'
<1>1. FilesType /\ TaskType /\ DisjointInv
  BY DEF DisjointCore
<1>2. /\ compaction \in Work /\ compaction.level = l /\ l \in 0..(LastLevel - 1)
      /\ out \in SUBSET FileSet /\ UNION out \subseteq Merged /\ Merged \subseteq Range(history)
      /\ \A t, u \in out : t # u => Side(t, u)
      /\ compaction' = NoCompaction
      /\ UNCHANGED <<history, mem, snapshots, intruded>>
  BY DEF InstalledAs
<1>3. /\ level0' \in Seq(FileSet) /\ below' \in [1..LastLevel -> SUBSET FileSet]
      /\ Tables(l)' = Tables(l) \ compaction.in0
      /\ Tables(l + 1)' = (Tables(l + 1) \ compaction.in1) \cup out
      /\ \A k \in Level : k # l /\ k # l + 1 => Tables(k)' = Tables(k)
  BY DEF InstalledAs, ReplacedBy
<1>4. l \in Level /\ l + 1 \in Level /\ l + 1 \in 1..LastLevel
  BY <1>2, Levels01
<1>5. \A k \in Level : \A u \in Tables(k)' :
        \/ u \in Tables(k) /\ (k = l + 1 => u \notin compaction.in1)
        \/ k = l + 1 /\ u \in out
  <2> SUFFICES ASSUME NEW k \in Level, NEW u \in Tables(k)'
               PROVE  \/ u \in Tables(k) /\ (k = l + 1 => u \notin compaction.in1)
                      \/ k = l + 1 /\ u \in out
    OBVIOUS
  <2>1. l # l + 1
    BY <1>2, Levels01
  <2> QED
    BY <1>3, <2>1
<1>6. FilesType'
  <2>1. \A u \in out : u \subseteq Range(history)
    BY <1>2
  <2>2. \A k \in Level : \A u \in Tables(k)' : u \subseteq Range(history)
    BY <1>1, <1>5, <2>1 DEF FilesType
  <2> QED
    BY <1>1, <1>2, <1>3, <2>2 DEF FilesType
<1>7. TaskType'
  BY <1>2 DEF TaskType
<1>8. DisjointInv'
  <2>1. Idle'
    BY <1>2, NotIdleNext
  <2>2. SUFFICES ASSUME ~intruded', NEW m \in 1..LastLevel, NEW t \in Tables(m)', NEW u \in Tables(m)', t # u
                 PROVE  Side(t, u)
    BY <2>1 DEF DisjointInv
  <2>3. \A v, w \in Tables(m) : v # w => Side(v, w)
    BY <1>1, <1>2, <2>2 DEF DisjointInv
  <2>4. ASSUME NEW v \in Tables(l + 1) \ compaction.in1, NEW w \in out PROVE Side(v, w) /\ Side(w, v)
    <3>1. Side(v, Merged)
      BY <1>1, <1>2, <2>2, NotIdle DEF DisjointInv
    <3>2. w \subseteq Merged
      BY <1>2
    <3> QED
      BY <3>1, <3>2, SidePart
  <2>5. m \in Level
    BY Levels01
  <2>6. \/ t \in Tables(m) /\ (m = l + 1 => t \notin compaction.in1)
        \/ m = l + 1 /\ t \in out
    BY <1>5, <2>5
  <2>7. \/ u \in Tables(m) /\ (m = l + 1 => u \notin compaction.in1)
        \/ m = l + 1 /\ u \in out
    BY <1>5, <2>5
  <2> QED
    BY <1>2, <2>2, <2>3, <2>4, <2>6, <2>7
<1> QED
  BY <1>6, <1>7, <1>8 DEF DisjointCore

-----------------------------------------------------------------------------
(***************************************************************************)
(* The age of entries.  What is flushed later is newer; of two entries of  *)
(* one key the newer is on the higher level; and as long as every key of a *)
(* compaction's output is in one table, no two tables of a level but the   *)
(* first share a key.                                                      *)
(***************************************************************************)
Older(t, u) == \A d \in t, e \in u : d.seq < e.seq
Newer(t, u) == \A d \in t, e \in u : d.key = e.key => e.seq < d.seq

AgeInv ==
  /\ \A l \in Level : \A t \in Tables(l) : Older(t, mem)
  /\ \A i, j \in 1..Len(level0) : i < j => Older(level0[i], level0[j])

LevelsOrdered == \A l, m \in Level : l < m => \A t \in Tables(l), u \in Tables(m) : Newer(t, u)
KeysApart == \A l \in 1..LastLevel : \A t, u \in Tables(l) : t # u => Foreign(t, u)

\* What a compaction under way may rely on.
TaskOrdered ==
  ~Idle =>
    /\ compaction.level = 0 =>
         \A u \in Tables(0) \ compaction.in0 : Foreign(u, UNION compaction.in0) \/ Older(Merged, u)
    /\ \A u \in Tables(compaction.level + 1) \ compaction.in1 : Foreign(u, UNION compaction.in0)
    /\ \A j \in (compaction.level + 2)..LastLevel :
         \A u \in Tables(j) \ compaction.deeper : Foreign(u, Merged)

OrderInv == ~intruded /\ ~cutInside => LevelsOrdered /\ KeysApart /\ TaskOrdered

LEMMA ForeignSwap == \A t, u : Foreign(t, u) <=> Foreign(u, t)
BY DEF Foreign

LEMMA NewerFrom == \A t, u : Foreign(t, u) \/ Foreign(u, t) \/ Older(u, t) => Newer(t, u)
BY DEF Foreign, Older, Newer

LEMMA AgeStart == Init => AgeInv /\ OrderInv
<1> SUFFICES ASSUME Init PROVE AgeInv /\ OrderInv
  OBVIOUS
<1>1. level0 = <<>> /\ below = [l \in 1..LastLevel |-> {}] /\ compaction = NoCompaction
  BY DEF Init
<1>2. level0 \in Seq(FileSet) /\ Len(level0) = 0
  BY <1>1
<1>3. 1..Len(level0) = {} /\ Range(level0) = {}
  <2>1. DOMAIN level0 = 1..0
    BY <1>2, Elements
  <2> QED
    BY <2>1, <1>2 DEF Range
<1>4. \A l \in Level : Tables(l) = {}
  BY <1>1, <1>3, Levels01 DEF Tables
<1>5. Idle
  BY <1>1, NotIdle
<1> QED
  BY <1>3, <1>4, <1>5, Levels01 DEF AgeInv, OrderInv, LevelsOrdered, KeysApart, TaskOrdered

LEMMA AgeWrite ==
  ASSUME FilesType, AgeInv, NEW k \in Key, NEW del \in BOOLEAN, Write(k, del)
  PROVE  AgeInv'
<1>1. PICK e \in Entry :
           /\ e.key = k /\ e.seq = LastSequence + 1 /\ LastSequence' = LastSequence + 1
           /\ history' \in Seq(Entry) /\ \A n \in 1..Len(history') : history'[n].seq = n
           /\ Range(history') = Range(history) \cup {e} /\ mem' = mem \cup {e}
           /\ UNCHANGED <<level0, below, snapshots, compaction, cutInside, intruded>>
  BY WriteIs
<1>2. LastSequence \in Nat /\ \A d \in Range(history) : d.seq \in 1..LastSequence
  BY WrittenIs
<1>3. \A d \in Range(history) : d.seq < e.seq
  BY <1>1, <1>2
<1>4. \A l \in Level : \A t \in Tables(l) : Older(t, mem')
  BY <1>1, <1>3 DEF AgeInv, FilesType, Older
<1>5. \A l \in Level : Tables(l)' = Tables(l)
  BY <1>1, TablesSame
<1> QED
  BY <1>1, <1>4, <1>5 DEF AgeInv

LEMMA AgeFlush ==
  ASSUME FilesType, AgeInv, NEW l, NEW lo, NEW hi, FlushedTo(l, lo, hi)
  PROVE  AgeInv'
<1>1. mem' = {} /\ l \in Level /\ mem \in FileSet
  BY DEF FlushedTo
<1>2. \A t : Older(t, mem')
  BY <1>1 DEF Older
<1>3. \A i, j \in 1..Len(level0') : i < j => Older(level0'[i], level0'[j])
  <2>1. CASE l # 0
    BY <2>1 DEF FlushedTo, AgeInv
  <2>2. CASE l = 0
    <3>1. level0' = Append(level0, mem) /\ level0 \in Seq(FileSet)
      BY <2>2 DEF FlushedTo, FilesType
    <3>2. /\ Len(level0) \in Nat /\ Len(level0') = Len(level0) + 1
          /\ \A i \in 1..Len(level0) : level0'[i] = level0[i]
          /\ level0'[Len(level0) + 1] = mem
      BY <3>1, <1>1, Appended, Elements
    <3>3. \A i \in 1..Len(level0) : Older(level0[i], mem)
      BY <2>2, <1>1, TablesAre DEF AgeInv
    <3> SUFFICES ASSUME NEW i \in 1..Len(level0'), NEW j \in 1..Len(level0'), i < j
                 PROVE  Older(level0'[i], level0'[j])
      OBVIOUS
    <3>4. i \in 1..Len(level0) /\ (j = Len(level0) + 1 \/ j \in 1..Len(level0))
      BY <3>2
    <3> QED
      BY <3>2, <3>3, <3>4 DEF AgeInv
  <2> QED
    BY <2>1, <2>2
<1> QED
  BY <1>2, <1>3 DEF AgeInv

\* What replaces tables holds only what was there.
LEMMA AgeReplace ==
  ASSUME FilesType, AgeInv, NEW l \in 0..(LastLevel - 1), NEW in0, NEW in1, NEW out,
         ReplacedBy(l, in0, in1, out), mem' = mem,
         \A t \in out : \A d \in t : \E m \in Level : \E u \in Tables(m) : d \in u
  PROVE  AgeInv'
<1>1. \A m \in Level : \A u \in Tables(m)' : u \in Tables(m) \/ u \in out
  BY DEF ReplacedBy
<1>2. \A t \in out : Older(t, mem)
  BY DEF Older, AgeInv
<1>3. \A m \in Level : \A u \in Tables(m)' : Older(u, mem)
  BY <1>1, <1>2 DEF AgeInv
<1>4. \A i, j \in 1..Len(level0') : i < j => Older(level0'[i], level0'[j])
  <2> SUFFICES ASSUME NEW i \in 1..Len(level0'), NEW j \in 1..Len(level0'), i < j
               PROVE  Older(level0'[i], level0'[j])
    OBVIOUS
  <2>1. PICK a, b \in 1..Len(level0) : a < b /\ level0'[i] = level0[a] /\ level0'[j] = level0[b]
    BY DEF ReplacedBy
  <2> QED
    BY <2>1 DEF AgeInv
<1> QED
  BY <1>3, <1>4 DEF AgeInv

LEMMA OrderQuiet ==
  ASSUME OrderInv, UNCHANGED <<level0, below, compaction, cutInside, intruded>>
  PROVE  OrderInv'
BY DEF OrderInv, LevelsOrdered, KeysApart, TaskOrdered, Tables, Merged, Inputs, Idle

LEMMA OrderTask ==
  ASSUME FilesType, OrderInv, NEW l \in 0..(LastLevel - 1),
         TaskTaken(l), UNCHANGED <<history, mem, level0, below, snapshots, cutInside, intruded>>
  PROVE  OrderInv'
<1>1. SUFFICES ASSUME ~intruded, ~cutInside PROVE (LevelsOrdered /\ KeysApart /\ TaskOrdered)'
  BY DEF OrderInv
<1>2. (LevelsOrdered /\ KeysApart)'
  BY <1>1 DEF OrderInv, LevelsOrdered, KeysApart, Tables
<1> DEFINE c == compaction'
<1>3. /\ c \in Work /\ c.level = l /\ c.in0 # {} /\ c.in0 \subseteq Tables(l)
      /\ c.in1 \subseteq Tables(l + 1) /\ c.in1 = Within(l + 1, c.in0)
      /\ l = 0 => Alone(c.in0)
      /\ c.deeper = UNION { below[k] : k \in (l + 2)..LastLevel }
  BY DEF TaskTaken
<1>4. compaction' = c
  OBVIOUS
<1> HIDE DEF c
<1>5. /\ l \in Level /\ l \in Nat /\ l + 1 \in Level /\ l + 1 # 0
      /\ Tables(l) \subseteq FileSet /\ Tables(l + 1) \subseteq FileSet
  BY Levels01, TablesAre
<1>6. l = 0 => \A u \in Tables(0) \ c.in0 : Foreign(u, UNION c.in0)
  BY <1>3 DEF Alone
<1>7. ASSUME NEW u \in Tables(l + 1) \ c.in1 PROVE Foreign(u, UNION c.in0)
  <2> DEFINE lo == Smallest(c.in0)
             hi == Largest(c.in0)
  <2>1. c.in0 \in SUBSET FileSet /\ c.in0 # {}
    BY <1>3, <1>5
  <2>2. lo \in Key /\ hi \in Key /\ \A t \in c.in0 : Inside(t, lo, hi)
    BY <2>1, Hull
  <2>3. c.in1 = GetOverlappingInputs(l + 1, lo, hi)
    BY <1>3 DEF Within
  <2> HIDE DEF lo, hi
  <2>4. PICK x \in 1..lo, y \in hi..MaxKey : Spanned(l + 1, lo, hi, x, y)
    BY <1>5, <2>2, InputsRange
  <2>5. Left(u, lo) \/ Right(u, hi)
    BY <2>3, <2>4, <1>5, <1>7 DEF Spanned
  <2>6. u \in SUBSET Entry /\ UNION c.in0 \in SUBSET Entry /\ Inside(UNION c.in0, lo, hi)
    BY <1>5, <2>1, <2>2 DEF FileSet, Inside
  <2> QED
    BY <2>2, <2>5, <2>6, BesideRange
<1>8. ASSUME NEW j \in (l + 2)..LastLevel PROVE Tables(j) \ c.deeper = {}
  <2>1. j \in 1..LastLevel
    BY <1>5, <1>8
  <2>2. Tables(j) = below[j]
    BY <2>1, TablesAre
  <2> QED
    BY <2>2, <1>3
<1>9. TaskOrdered'
  <2>1. compaction'.level = l
    BY <1>3, <1>4
  <2>2. \A k : Tables(k)' = Tables(k)
    BY DEF Tables
  <2>3. \A k : k = compaction'.level + 1 => Tables(k)' = Tables(l + 1)
    BY <2>1, <2>2
  <2>4. Tables(compaction.level + 1)' = Tables(l + 1)
    BY <2>3 DEF Tables
  <2> QED
    BY <1>4, <1>6, <1>7, <1>8, <2>1, <2>2, <2>4 DEF TaskOrdered
<1> QED
  BY <1>2, <1>9

LEMMA OrderMove ==
  ASSUME DisjointCore, OrderInv, NEW l \in 0..(LastLevel - 1), NEW t \in Tables(l), MovedTo(l, t)
  PROVE  OrderInv'
<1>1. l \in Level /\ l + 1 \in Level /\ l \in Nat
  BY Levels01
<1>2. /\ Tables(l)' = Tables(l) \ {t} /\ Tables(l + 1)' = Tables(l + 1) \cup {t}
      /\ \A k \in Level : k # l /\ k # l + 1 => Tables(k)' = Tables(k)
      /\ UNCHANGED <<history, mem, snapshots, compaction, cutInside, intruded>>
      /\ \A u \in Tables(l + 1) : Foreign(u, t) /\ Foreign(t, u)
      /\ l = 0 => Alone({t})
  BY DEF MovedTo, ReplacedBy
<1>3. Idle'
  BY <1>2 DEF MovedTo, Idle
<1>4. \A k \in Level : \A u \in Tables(k)' :
        (u \in Tables(k) /\ (k = l => u # t)) \/ (k = l + 1 /\ u = t)
  <2> SUFFICES ASSUME NEW k \in Level, NEW u \in Tables(k)'
               PROVE  (u \in Tables(k) /\ (k = l => u # t)) \/ (k = l + 1 /\ u = t)
    OBVIOUS
  <2>1. l # l + 1
    BY <1>1
  <2> QED
    BY <1>2, <2>1
<1> SUFFICES ASSUME ~intruded, ~cutInside PROVE (LevelsOrdered /\ KeysApart)'
  BY <1>2, <1>3 DEF OrderInv, TaskOrdered
<1>5. LevelsOrdered /\ KeysApart
  BY DEF OrderInv
<1>6. ASSUME NEW u \in Tables(l), u # t PROVE Foreign(u, t)
  <2>1. CASE l = 0
    <3>1. Foreign(u, UNION {t})
      BY <2>1, <1>2, <1>6 DEF Alone
    <3>2. UNION {t} = t
      OBVIOUS
    <3> QED
      BY <3>1, <3>2
  <2>2. CASE l # 0
    BY <2>2, <1>1, <1>5, <1>6, Levels01 DEF KeysApart
  <2> QED
    BY <2>1, <2>2
<1>7. LevelsOrdered'
  <2> SUFFICES ASSUME NEW k \in Level, NEW m \in Level, k < m, NEW u \in Tables(k)', NEW v \in Tables(m)'
               PROVE  Newer(u, v)
    BY DEF LevelsOrdered
  <2>1. k \in Nat /\ m \in Nat
    BY Levels01
  <2>2. CASE u \in Tables(k) /\ v \in Tables(m)
    BY <2>2, <1>5 DEF LevelsOrdered
  <2>3. CASE k = l + 1 /\ u = t /\ v \in Tables(m)
    <3>1. l < m
      BY <2>1, <2>3, <1>1
    <3> QED
      BY <2>3, <3>1, <1>1, <1>5 DEF LevelsOrdered
  <2>4. CASE m = l + 1 /\ v = t /\ u \in Tables(k) /\ (k = l => u # t)
    <3>1. k < l \/ k = l
      BY <2>1, <2>4, <1>1
    <3>2. CASE k < l
      BY <2>4, <3>2, <1>1, <1>5 DEF LevelsOrdered
    <3>3. CASE k = l
      BY <2>4, <3>3, <1>6, NewerFrom
    <3> QED
      BY <3>1, <3>2, <3>3
  <2> QED
    BY <2>1, <2>2, <2>3, <2>4, <1>4
<1>8. KeysApart'
  <2> SUFFICES ASSUME NEW m \in 1..LastLevel, NEW u \in Tables(m)', NEW v \in Tables(m)', u # v
               PROVE  Foreign(u, v)
    BY DEF KeysApart
  <2>1. m \in Level
    BY Levels01
  <2> QED
    BY <2>1, <1>2, <1>4, <1>5 DEF KeysApart
<1> QED
  BY <1>7, <1>8

LEMMA OrderFlush ==
  ASSUME DisjointCore, AgeInv, OrderInv, NEW l, NEW lo, NEW hi, FlushedTo(l, lo, hi)
  PROVE  OrderInv'
<1>1. FilesType /\ TaskType
  BY DEF DisjointCore
<1>2. /\ l \in Level /\ lo \in Key /\ hi \in Key /\ lo <= hi
      /\ mem \in FileSet /\ mem \in SUBSET Entry /\ Inside(mem, lo, hi)
      /\ Tables(l)' = Tables(l) \cup {mem}
      /\ \A k \in Level : k # l => Tables(k)' = Tables(k)
      /\ l # 0 => \A k \in 0..l : \A t \in Tables(k) : Left(t, lo) \/ Right(t, hi)
      /\ ~intruded' => ~intruded
      /\ mem' = {} /\ UNCHANGED <<history, snapshots, compaction, cutInside>>
  BY DEF FlushedTo, FileSet
<1>3. \A k \in Level : \A u \in Tables(k)' : u \in Tables(k) \/ (k = l /\ u = mem)
  BY <1>2
<1> SUFFICES ASSUME ~intruded', ~cutInside' PROVE (LevelsOrdered /\ KeysApart /\ TaskOrdered)'
  BY DEF OrderInv
<1>4. LevelsOrdered /\ KeysApart /\ TaskOrdered
  BY <1>2 DEF OrderInv
<1>5. ASSUME l # 0, NEW k \in Level, k <= l, NEW u \in Tables(k)
      PROVE  Foreign(u, mem) /\ Foreign(mem, u)
  <2>1. k \in 0..l
    BY <1>5, <1>2, Levels01
  <2>2. Left(u, lo) \/ Right(u, hi)
    BY <1>5, <2>1, <1>2
  <2>3. u \in SUBSET Entry
    BY <1>1, <1>5, TablesAre DEF FileSet
  <2> QED
    BY <2>2, <2>3, <1>2, BesideRange
<1>6. \A k \in Level : \A u \in Tables(k) : Older(u, mem) /\ Newer(mem, u)
  BY NewerFrom DEF AgeInv
<1>7. LevelsOrdered'
  <2> SUFFICES ASSUME NEW k \in Level, NEW m \in Level, k < m, NEW u \in Tables(k)', NEW v \in Tables(m)'
               PROVE  Newer(u, v)
    BY DEF LevelsOrdered
  <2>1. k \in Nat /\ m \in Nat /\ l \in Nat
    BY <1>2, Levels01
  <2>2. CASE u \in Tables(k) /\ v \in Tables(m)
    BY <2>2, <1>4 DEF LevelsOrdered
  <2>3. CASE u = mem /\ v \in Tables(m)
    BY <2>3, <1>6
  <2>4. CASE m = l /\ v = mem /\ u \in Tables(k)
    <3>1. l # 0 /\ k <= l
      BY <2>1, <2>4
    <3> QED
      BY <2>4, <3>1, <1>5, NewerFrom
  <2> QED
    BY <2>1, <2>2, <2>3, <2>4, <1>3
<1>8. KeysApart'
  <2> SUFFICES ASSUME NEW m \in 1..LastLevel, NEW u \in Tables(m)', NEW v \in Tables(m)', u # v
               PROVE  Foreign(u, v)
    BY DEF KeysApart
  <2>1. m \in Level /\ m # 0 /\ m <= m
    BY Levels01
  <2> QED
    BY <2>1, <1>3, <1>4, <1>5 DEF KeysApart
<1>9. TaskOrdered'
  <2> SUFFICES ASSUME ~Idle' PROVE TaskOrdered'
    BY DEF TaskOrdered
  <2>1. compaction' = compaction /\ ~Idle /\ Merged' = Merged
    BY <1>2 DEF Idle, Merged, Inputs
  <2>2. /\ compaction \in Work
        /\ compaction.in0 \subseteq Tables(compaction.level)
        /\ compaction.in1 \subseteq Tables(compaction.level + 1)
    BY <2>1, <1>1, NotIdle DEF TaskType
  <2>3. PICK n \in 0..(LastLevel - 1) : n = compaction.level
    BY <2>2, TaskFields
  <2>4. n \in Level /\ n + 1 \in Level /\ n \in Nat /\ n + 1 # 0
    BY Levels01
  <2>5. /\ n = 0 => \A u \in Tables(0) \ compaction.in0 : Foreign(u, UNION compaction.in0) \/ Older(Merged, u)
        /\ \A u \in Tables(n + 1) \ compaction.in1 : Foreign(u, UNION compaction.in0)
        /\ \A j \in (n + 2)..LastLevel :
             \A u \in Tables(j) \ compaction.deeper : Foreign(u, Merged)
    BY <1>4, <2>1, <2>3 DEF TaskOrdered
  <2>6. Older(Merged, mem)
    <3>1. \A t \in compaction.in0 \cup compaction.in1 : Older(t, mem)
      BY <2>2, <2>3, <2>4 DEF AgeInv
    <3> QED
      BY <3>1 DEF Older, Merged, Inputs
  <2>7. n = 0 => \A u \in Tables(0)' \ compaction.in0 : Foreign(u, UNION compaction.in0) \/ Older(Merged, u)
    BY <2>4, <2>5, <2>6, <1>3
  <2>8. \A u \in Tables(n + 1)' \ compaction.in1 : Foreign(u, UNION compaction.in0)
    <3> SUFFICES ASSUME NEW u \in Tables(n + 1)' \ compaction.in1 PROVE Foreign(u, UNION compaction.in0)
      OBVIOUS
    <3>1. CASE u \in Tables(n + 1)
      BY <3>1, <2>5
    <3>2. CASE u = mem /\ l = n + 1
      <4>1. l # 0 /\ n <= l
        BY <3>2, <2>4
      <4>2. \A t \in compaction.in0 : Foreign(mem, t)
        BY <4>1, <2>2, <2>3, <2>4, <1>5
      <4> QED
        BY <4>2, <3>2 DEF Foreign
    <3> QED
      BY <3>1, <3>2, <2>4, <1>3
  <2>9. \A j \in (n + 2)..LastLevel : \A u \in Tables(j)' \ compaction.deeper : Foreign(u, Merged)
    <3> SUFFICES ASSUME NEW j \in (n + 2)..LastLevel, NEW u \in Tables(j)' \ compaction.deeper
                 PROVE  Foreign(u, Merged)
      OBVIOUS
    <3>1. j \in Level /\ j # 0 /\ n <= j /\ n + 1 <= j
      BY <2>4, Levels01 DEF Level
    <3>2. CASE u \in Tables(j)
      BY <3>2, <2>5
    <3>3. CASE u = mem /\ l = j
      <4>1. \A t \in compaction.in0 \cup compaction.in1 : Foreign(mem, t)
        BY <3>1, <3>3, <2>2, <2>3, <2>4, <1>5
      <4> QED
        BY <4>1, <3>3 DEF Foreign, Merged, Inputs
    <3> QED
      BY <3>1, <3>2, <3>3, <1>3
  <2>10. Tables(compaction.level + 1)' = Tables(n + 1)'
    BY <2>1, <2>3 DEF Tables
  <2> QED
    BY <2>1, <2>3, <2>7, <2>8, <2>9, <2>10 DEF TaskOrdered
<1> QED
  BY <1>7, <1>8, <1>9

\* What is above the outputs of a compaction is newer.
LEMMA AboveMerged ==
  ASSUME DisjointCore, OrderInv, ~Idle, ~intruded, ~cutInside,
         NEW l, l = compaction.level, NEW d, NEW e \in Merged, d.key = e.key,
         \/ \E k \in Level : k < l /\ \E u \in Tables(k) : d \in u
         \/ \E u \in Tables(l) \ compaction.in0 : d \in u
  PROVE  e.seq < d.seq
<1>1. /\ compaction \in Work
      /\ compaction.in0 \subseteq Tables(l)
      /\ compaction.in1 \subseteq Tables(l + 1)
  BY NotIdle DEF DisjointCore, TaskType
<1>2. LevelsOrdered /\ KeysApart /\ TaskOrdered
  BY DEF OrderInv
<1>3. /\ l \in 0..(LastLevel - 1) /\ l \in Level /\ l \in Nat /\ l + 1 \in Level
  BY <1>1, TaskFields, Levels01
<1>4. PICK t \in compaction.in0 \cup compaction.in1 : e \in t
  BY DEF Merged, Inputs
<1>5. CASE \E k \in Level : k < l /\ \E u \in Tables(k) : d \in u
  <2>0. PICK k \in Level : k < l /\ \E u \in Tables(k) : d \in u
    BY <1>5
  <2>1. PICK u \in Tables(k) : d \in u
    BY <2>0
  <2>2. k < l + 1
    BY <2>0, <1>3, Levels01
  <2>3. Newer(u, t)
    <3>1. l + 1 \in Level /\ t \in Tables(l) \cup Tables(l + 1)
      BY <1>1, <1>3
    <3> QED
      BY <2>0, <2>2, <3>1, <1>2, <1>3 DEF LevelsOrdered
  <2> QED
    BY <2>1, <2>3, <1>4 DEF Newer
<1>6. CASE \E u \in Tables(l) \ compaction.in0 : d \in u
  <2>1. PICK u \in Tables(l) \ compaction.in0 : d \in u
    BY <1>6
  <2>2. CASE t \in compaction.in1
    <3>1. Newer(u, t)
      BY <2>1, <2>2, <1>1, <1>2, <1>3 DEF LevelsOrdered
    <3> QED
      BY <2>1, <3>1, <1>4 DEF Newer
  <2>3. CASE t \in compaction.in0 /\ l # 0
    <3>1. Foreign(u, t)
      BY <2>1, <2>3, <1>1, <1>2, <1>3, Levels01 DEF KeysApart
    <3> QED
      BY <2>1, <3>1, <1>4 DEF Foreign
  <2>4. CASE t \in compaction.in0 /\ l = 0
    <3>1. Foreign(u, UNION compaction.in0) \/ Older(Merged, u)
      BY <2>1, <2>4, <1>2 DEF TaskOrdered
    <3> QED
      BY <2>1, <2>4, <3>1, <1>4 DEF Foreign, Older
  <2> QED
    BY <2>2, <2>3, <2>4, <1>4
<1> QED
  BY <1>5, <1>6

\* Beside them there is none of their keys.
LEMMA BesideMerged ==
  ASSUME DisjointCore, OrderInv, ~Idle, ~intruded, ~cutInside,
         NEW l, l = compaction.level, NEW u \in Tables(l + 1) \ compaction.in1
  PROVE  Foreign(u, Merged)
<1>1. /\ compaction \in Work /\ compaction.in1 \subseteq Tables(l + 1)
  BY NotIdle DEF DisjointCore, TaskType
<1>2. KeysApart /\ TaskOrdered
  BY DEF OrderInv
<1>3. l + 1 \in 1..LastLevel
  BY <1>1, TaskFields, Levels01
<1>4. \A t \in compaction.in1 : Foreign(u, t)
  BY <1>1, <1>2, <1>3 DEF KeysApart
<1>5. Foreign(u, UNION compaction.in0)
  BY <1>2 DEF TaskOrdered
<1> QED
  BY <1>4, <1>5 DEF Foreign, Merged, Inputs

LEMMA OrderInstall ==
  ASSUME DisjointCore, OrderInv, NEW l, NEW out, InstalledAs(l, out)
  PROVE  OrderInv'
<1>1. /\ compaction \in Work /\ compaction.level = l /\ l \in 0..(LastLevel - 1)
      /\ UNION out \subseteq Merged
      /\ ~cutInside' => ~cutInside /\ \A t, u \in out : t # u => Foreign(t, u)
      /\ compaction' = NoCompaction
      /\ UNCHANGED <<history, mem, snapshots, intruded>>
  BY DEF InstalledAs
<1>2. /\ Tables(l)' = Tables(l) \ compaction.in0
      /\ Tables(l + 1)' = (Tables(l + 1) \ compaction.in1) \cup out
      /\ \A k \in Level : k # l /\ k # l + 1 => Tables(k)' = Tables(k)
  BY DEF InstalledAs, ReplacedBy
<1>3. l \in Level /\ l + 1 \in Level /\ l \in Nat
  BY <1>1, Levels01
<1>4. ~Idle /\ Idle'
  BY <1>1, NotIdle, NotIdleNext
<1>5. compaction.in0 \subseteq Tables(l) /\ compaction.in1 \subseteq Tables(l + 1)
  BY <1>1, <1>4, NotIdle DEF DisjointCore, TaskType
<1>6. \A k \in Level : \A u \in Tables(k)' :
        \/ u \in Tables(k) /\ (k = l + 1 => u \notin compaction.in1) /\ (k = l => u \notin compaction.in0)
        \/ k = l + 1 /\ u \in out
  <2> SUFFICES ASSUME NEW k \in Level, NEW u \in Tables(k)'
        PROVE \/ u \in Tables(k) /\ (k = l + 1 => u \notin compaction.in1) /\ (k = l => u \notin compaction.in0)
              \/ k = l + 1 /\ u \in out
    OBVIOUS
  <2>1. l # l + 1
    BY <1>3
  <2> QED
    BY <1>2, <2>1
<1> SUFFICES ASSUME ~intruded', ~cutInside' PROVE (LevelsOrdered /\ KeysApart)'
  BY <1>4 DEF OrderInv, TaskOrdered
<1>7. ~intruded /\ ~cutInside /\ \A t, u \in out : t # u => Foreign(t, u)
  BY <1>1
<1>8. LevelsOrdered /\ KeysApart
  BY <1>7 DEF OrderInv
<1>9. LevelsOrdered'
  <2> SUFFICES ASSUME NEW k \in Level, NEW m \in Level, k < m, NEW u \in Tables(k)', NEW v \in Tables(m)'
               PROVE  Newer(u, v)
    BY DEF LevelsOrdered
  <2>1. k \in Nat /\ m \in Nat
    BY Levels01
  <2>2. CASE u \in Tables(k) /\ v \in Tables(m)
    BY <2>2, <1>8 DEF LevelsOrdered
  <2>3. CASE k = l + 1 /\ u \in out /\ v \in Tables(m)
    <3> SUFFICES ASSUME NEW d \in u, NEW e \in v, d.key = e.key PROVE e.seq < d.seq
      BY DEF Newer
    <3>1. PICK t \in compaction.in0 \cup compaction.in1 : d \in t
      BY <2>3, <1>1 DEF Merged, Inputs
    <3>2. l < m /\ l + 1 < m
      BY <2>1, <2>3, <1>3
    <3>3. Newer(t, v)
      BY <2>3, <3>1, <3>2, <1>3, <1>5, <1>8 DEF LevelsOrdered
    <3> QED
      BY <3>1, <3>3 DEF Newer
  <2>4. CASE m = l + 1 /\ v \in out /\ u \in Tables(k) /\ (k = l => u \notin compaction.in0)
    <3> SUFFICES ASSUME NEW d \in u, NEW e \in v, d.key = e.key PROVE e.seq < d.seq
      BY DEF Newer
    <3>1. e \in Merged
      BY <2>4, <1>1
    <3>2. k < l \/ k = l
      BY <2>1, <2>4, <1>3
    <3>3. \/ \E i \in Level : i < l /\ \E t \in Tables(i) : d \in t
          \/ \E t \in Tables(l) \ compaction.in0 : d \in t
      BY <2>4, <3>2
    <3> QED
      BY <3>1, <3>3, <1>1, <1>4, <1>7, AboveMerged
  <2> QED
    BY <2>1, <2>2, <2>3, <2>4, <1>3, <1>6
<1>10. KeysApart'
  <2> SUFFICES ASSUME NEW m \in 1..LastLevel, NEW u \in Tables(m)', NEW v \in Tables(m)', u # v
               PROVE  Foreign(u, v)
    BY DEF KeysApart
  <2>1. m \in Level
    BY Levels01
  <2>2. u \in Tables(m) /\ v \in Tables(m) => Foreign(u, v)
    BY <1>8 DEF KeysApart
  <2>3. ASSUME NEW x \in Tables(l + 1) \ compaction.in1, NEW y \in out PROVE Foreign(x, y) /\ Foreign(y, x)
    <3>1. Foreign(x, Merged)
      BY <1>1, <1>4, <1>7, BesideMerged
    <3>2. y \subseteq Merged
      BY <1>1
    <3> QED
      BY <3>1, <3>2 DEF Foreign
  <2>4. /\ \/ u \in Tables(m) /\ (m = l + 1 => u \notin compaction.in1)
           \/ m = l + 1 /\ u \in out
        /\ \/ v \in Tables(m) /\ (m = l + 1 => v \notin compaction.in1)
           \/ m = l + 1 /\ v \in out
    BY <1>6, <2>1
  <2> QED
    BY <1>7, <2>2, <2>3, <2>4
<1> QED
  BY <1>9, <1>10

-----------------------------------------------------------------------------
(***************************************************************************)
(* What is stored answers every read like all that was ever written.       *)
(***************************************************************************)
Stored == mem \cup UNION { UNION Tables(l) : l \in Level }
Seen(S, k, s) == { e \in S : e.key = k /\ e.seq <= s }

Complete ==
  ~intruded /\ ~cutInside =>
    \A k \in Key : \A s \in snapshots \cup {LastSequence} :
      Result(Newest(Stored, k, s)) = Result(Newest(Range(history), k, s))

LEMMA StoredIs ==
  \A d : d \in Stored <=> d \in mem \/ \E l \in Level : \E t \in Tables(l) : d \in t
BY DEF Stored

LEMMA StoredWritten ==
  ASSUME FilesType
  PROVE  Stored \subseteq Range(history)
BY StoredIs DEF FilesType

LEMMA NewestSame ==
  ASSUME NEW S, NEW T, NEW k, NEW j, NEW r, NEW s, Seen(S, k, r) = Seen(T, j, s)
  PROVE  Newest(S, k, r) = Newest(T, j, s)
<1> DEFINE Of(W) == IF W = {} THEN Absent ELSE CHOOSE e \in W : \A d \in W : d.seq <= e.seq
<1>1. Newest(S, k, r) = Of(Seen(S, k, r))
  BY DEF Newest, Seen
<1>2. Newest(T, j, s) = Of(Seen(T, j, s))
  BY DEF Newest, Seen
<1> HIDE DEF Of
<1> QED
  BY <1>1, <1>2

LEMMA NewestIs ==
  ASSUME NEW S \in SUBSET Entry, NEW k, NEW s \in Nat
  PROVE  /\ Seen(S, k, s) = {} => Newest(S, k, s) = Absent
         /\ Seen(S, k, s) # {} => /\ Newest(S, k, s) \in Seen(S, k, s)
                                  /\ \A d \in Seen(S, k, s) : d.seq <= Newest(S, k, s).seq
<1> DEFINE W == Seen(S, k, s)
           T == { e.seq : e \in W }
           Top(e) == \A d \in W : d.seq <= e.seq
<1>1. Newest(S, k, s) = IF W = {} THEN Absent ELSE CHOOSE e \in W : Top(e)
  BY DEF Newest, Seen
<1>2. \A e \in W : e \in Entry /\ e.seq \in Nat /\ e.seq <= s
  BY EntryFields DEF Seen
<1> HIDE DEF W
<1>3. CASE W # {}
  <2>1. T \subseteq Nat /\ T # {} /\ \A y \in T : y <= s
    BY <1>2, <1>3
  <2>2. Max(T) \in T /\ \A y \in T : y <= Max(T)
    <3> HIDE DEF T
    <3> QED
      BY <2>1, GreatestNatural
  <2>3. PICK e \in W : e.seq = Max(T)
    BY <2>2
  <2>4. \A d \in W : d.seq <= e.seq
    BY <2>2, <2>3
  <2>5. \E f \in W : Top(f)
    BY <2>4
  <2> HIDE DEF Top
  <2>6. Newest(S, k, s) \in W /\ Top(Newest(S, k, s))
    BY <1>1, <1>3, <2>5
  <2> USE DEF Top
  <2> QED
    BY <1>3, <2>6 DEF W
<1> QED
  BY <1>1, <1>3 DEF W

LEMMA NewestOnly ==
  ASSUME NEW S \in SUBSET Entry, NEW k, NEW s \in Nat, NEW e \in Seen(S, k, s),
         \A d \in Seen(S, k, s) : d # e => d.seq < e.seq
  PROVE  Newest(S, k, s) = e
<1> DEFINE n == Newest(S, k, s)
<1>1. n \in Seen(S, k, s) /\ e.seq <= n.seq
  BY NewestIs
<1>2. n.seq \in Nat /\ e.seq \in Nat
  BY <1>1, EntryFields DEF Seen
<1> HIDE DEF n
<1>3. n = e
  BY <1>1, <1>2
<1> QED
  BY <1>3 DEF n

LEMMA CompleteStart == Init => Complete
<1> SUFFICES ASSUME Init PROVE Complete
  OBVIOUS
<1>1. history = <<>> /\ mem = {} /\ level0 = <<>> /\ below = [l \in 1..LastLevel |-> {}]
  BY DEF Init
<1>2. FilesType
  BY DisjointStart DEF DisjointCore
<1>3. Range(history) = {}
  <2>1. Len(history) = 0
    BY <1>1
  <2>2. LastSequence = 0 /\ 1..0 = {}
    BY <2>1 DEF LastSequence
  <2> QED
    BY <2>2, <1>2, WrittenIs
<1>4. Stored = Range(history)
  BY <1>2, <1>3, StoredWritten
<1> QED
  BY <1>4 DEF Complete

LEMMA CompleteWrite ==
  ASSUME DisjointCore, Complete, NEW k \in Key, NEW del \in BOOLEAN, Write(k, del)
  PROVE  Complete'
<1>1. FilesType
  BY DEF DisjointCore
<1>2. PICK e \in Entry :
           /\ e.key = k /\ e.seq = LastSequence + 1 /\ LastSequence' = LastSequence + 1
           /\ history' \in Seq(Entry) /\ \A n \in 1..Len(history') : history'[n].seq = n
           /\ Range(history') = Range(history) \cup {e} /\ mem' = mem \cup {e}
           /\ UNCHANGED <<level0, below, snapshots, compaction, cutInside, intruded>>
  BY <1>1, WriteIs
<1> DEFINE last == LastSequence
           H == Range(history)
           K == Stored
<1>3. \A l \in Level : Tables(l)' = Tables(l)
  BY <1>2, TablesSame
<1>4. Stored' = K \cup {e}
  BY <1>2, <1>3 DEF Stored
<1>5. Range(history)' = H \cup {e}
  BY <1>2
<1>6. K \subseteq H /\ last \in Nat /\ \A d \in H : d \in Entry /\ d.seq \in Nat /\ d.seq <= last
  BY <1>1, StoredWritten, WrittenIs
<1>7. snapshots \subseteq Nat /\ \A s \in snapshots : s <= last
  BY <1>1 DEF FilesType, LastSequence
<1>8. e.key = k /\ e.seq = last + 1 /\ LastSequence' = last + 1
  BY <1>2
<1>9. SUFFICES ASSUME ~intruded, ~cutInside, NEW j \in Key, NEW s \in snapshots \cup {last + 1}
               PROVE  Result(Newest(K \cup {e}, j, s)) = Result(Newest(H \cup {e}, j, s))
  BY <1>2, <1>4, <1>5, <1>8 DEF Complete
<1>10. \A r \in snapshots \cup {last} : Result(Newest(K, j, r)) = Result(Newest(H, j, r))
  BY <1>9 DEF Complete
<1> HIDE DEF last, H, K
<1>11. CASE s \in snapshots
  <2>1. ~(e.seq <= s)
    BY <1>6, <1>7, <1>8, <1>11
  <2>2. Seen(K \cup {e}, j, s) = Seen(K, j, s) /\ Seen(H \cup {e}, j, s) = Seen(H, j, s)
    BY <2>1 DEF Seen
  <2>3. Newest(K \cup {e}, j, s) = Newest(K, j, s) /\ Newest(H \cup {e}, j, s) = Newest(H, j, s)
    BY <2>2, NewestSame
  <2> QED
    BY <2>3, <1>10, <1>11
<1>12. CASE s = last + 1 /\ j # k
  <2>1. \A d \in H : d.seq <= s /\ d.seq <= last
    BY <1>6, <1>12
  <2>2. Seen(K \cup {e}, j, s) = Seen(K, j, last) /\ Seen(H \cup {e}, j, s) = Seen(H, j, last)
    BY <2>1, <1>6, <1>8, <1>12 DEF Seen
  <2>3. Newest(K \cup {e}, j, s) = Newest(K, j, last) /\ Newest(H \cup {e}, j, s) = Newest(H, j, last)
    BY <2>2, NewestSame
  <2> QED
    BY <2>3, <1>10
<1>13. CASE s = last + 1 /\ j = k
  <2>1. s \in Nat /\ e.seq <= s /\ K \cup {e} \in SUBSET Entry /\ H \cup {e} \in SUBSET Entry
    BY <1>6, <1>8, <1>13
  <2>2. e \in Seen(K \cup {e}, j, s) /\ e \in Seen(H \cup {e}, j, s)
    BY <2>1, <1>8, <1>13 DEF Seen
  <2>3. \A d \in H : d.seq < e.seq
    BY <1>6, <1>8
  <2>4. Newest(K \cup {e}, j, s) = e
    <3>1. \A d \in Seen(K \cup {e}, j, s) : d # e => d.seq < e.seq
      BY <2>3, <1>6 DEF Seen
    <3> QED
      BY <2>1, <2>2, <3>1, NewestOnly
  <2>5. Newest(H \cup {e}, j, s) = e
    <3>1. \A d \in Seen(H \cup {e}, j, s) : d # e => d.seq < e.seq
      BY <2>3 DEF Seen
    <3> QED
      BY <2>1, <2>2, <3>1, NewestOnly
  <2> QED
    BY <2>4, <2>5
<1> QED
  BY <1>9, <1>11, <1>12, <1>13

\* Steps that store the same as before.
LEMMA CompleteSame ==
  ASSUME Complete, Stored' = Stored, history' = history, cutInside' = cutInside,
         ~intruded' => ~intruded, snapshots' \subseteq snapshots \cup {LastSequence}
  PROVE  Complete'
<1>1. LastSequence' = LastSequence /\ Range(history)' = Range(history)
  BY DEF LastSequence
<1>2. \A s \in snapshots' \cup {LastSequence'} : s \in snapshots \cup {LastSequence}
  BY <1>1
<1> QED
  BY <1>1, <1>2 DEF Complete

LEMMA StoredFlush ==
  ASSUME NEW l, NEW lo, NEW hi, FlushedTo(l, lo, hi)
  PROVE  Stored' = Stored
<1>1. /\ l \in Level /\ mem' = {} /\ Tables(l)' = Tables(l) \cup {mem}
      /\ \A k \in Level : k # l => Tables(k)' = Tables(k)
  BY DEF FlushedTo
<1>2. \A d : d \in Stored' <=> d \in mem' \/ \E k \in Level : \E t \in Tables(k)' : d \in t
  BY DEF Stored
<1>3. ASSUME NEW d \in Stored PROVE d \in Stored'
  BY <1>1, <1>2, <1>3, StoredIs
<1>4. ASSUME NEW d \in Stored' PROVE d \in Stored
  BY <1>1, <1>2, <1>4, StoredIs
<1> QED
  BY <1>3, <1>4

LEMMA StoredMove ==
  ASSUME NEW l \in 0..(LastLevel - 1), NEW t \in Tables(l), MovedTo(l, t)
  PROVE  Stored' = Stored
<1>1. /\ mem' = mem /\ Tables(l)' = Tables(l) \ {t} /\ Tables(l + 1)' = Tables(l + 1) \cup {t}
      /\ \A k \in Level : k # l /\ k # l + 1 => Tables(k)' = Tables(k)
  BY DEF MovedTo, ReplacedBy
<1>2. \A d : d \in Stored' <=> d \in mem' \/ \E k \in Level : \E u \in Tables(k)' : d \in u
  BY DEF Stored
<1>3. l \in Level /\ l + 1 \in Level
  BY Levels01
<1>4. ASSUME NEW k \in Level, NEW u \in Tables(k) PROVE \E m \in Level : u \in Tables(m)'
  BY <1>1, <1>3
<1>5. ASSUME NEW k \in Level, NEW u \in Tables(k)' PROVE \E m \in Level : u \in Tables(m)
  <2>1. k = l \/ k = l + 1 \/ (k # l /\ k # l + 1)
    OBVIOUS
  <2>2. u \in Tables(k) \/ u = t
    BY <1>1, <2>1
  <2> QED
    BY <2>2, <1>3
<1>6. ASSUME NEW d \in Stored PROVE d \in Stored'
  <2>1. CASE d \in mem
    BY <2>1, <1>1, <1>2
  <2>2. ASSUME NEW k \in Level, NEW u \in Tables(k), d \in u PROVE d \in Stored'
    BY <2>2, <1>2, <1>4
  <2> QED
    BY <2>1, <2>2, <1>6, StoredIs
<1>7. ASSUME NEW d \in Stored' PROVE d \in Stored
  <2>1. CASE d \in mem
    BY <2>1, StoredIs
  <2>2. ASSUME NEW k \in Level, NEW u \in Tables(k)', d \in u PROVE d \in Stored
    BY <2>2, <1>5, StoredIs
  <2> QED
    BY <2>1, <2>2, <1>1, <1>2, <1>7
<1> QED
  BY <1>6, <1>7

\* Where an entry is after a compaction.
LEMMA StoredInstall ==
  ASSUME DisjointCore, NEW l, NEW out, InstalledAs(l, out)
  PROVE  /\ Merged \subseteq Stored /\ Stored' \subseteq Stored
         /\ Stored \ Dropped(Merged) \subseteq Stored'
         /\ \A d \in Stored' :
              \/ d \in mem
              \/ d \in Merged \ Dropped(Merged)
              \/ \E k \in Level : \E u \in Tables(k) :
                   d \in u /\ (k = l => u \notin compaction.in0) /\ (k = l + 1 => u \notin compaction.in1)
<1>1. /\ compaction \in Work /\ compaction.level = l /\ l \in 0..(LastLevel - 1)
      /\ UNION out = Merged \ Dropped(Merged) /\ mem' = mem
  BY DEF InstalledAs
<1>2. /\ Tables(l)' = Tables(l) \ compaction.in0
      /\ Tables(l + 1)' = (Tables(l + 1) \ compaction.in1) \cup out
      /\ \A k \in Level : k # l /\ k # l + 1 => Tables(k)' = Tables(k)
  BY DEF InstalledAs, ReplacedBy
<1>3. l \in Level /\ l + 1 \in Level /\ l # l + 1
  BY <1>1, Levels01
<1>4. compaction.in0 \subseteq Tables(l) /\ compaction.in1 \subseteq Tables(l + 1)
  BY <1>1, NotIdle DEF DisjointCore, TaskType
<1>5. \A d : d \in Stored' <=> d \in mem' \/ \E k \in Level : \E u \in Tables(k)' : d \in u
  BY DEF Stored
<1>6. Merged \subseteq Stored
  <2> SUFFICES ASSUME NEW d \in Merged PROVE d \in Stored
    OBVIOUS
  <2>1. PICK t \in compaction.in0 \cup compaction.in1 : d \in t
    BY DEF Merged, Inputs
  <2> QED
    BY <2>1, <1>3, <1>4, StoredIs
<1>7. ASSUME NEW d \in Stored'
      PROVE  \/ d \in mem
             \/ d \in Merged \ Dropped(Merged)
             \/ \E k \in Level : \E u \in Tables(k) :
                  d \in u /\ (k = l => u \notin compaction.in0) /\ (k = l + 1 => u \notin compaction.in1)
  <2>1. CASE d \in mem
    BY <2>1
  <2>2. ASSUME NEW k \in Level, NEW u \in Tables(k)', d \in u
        PROVE  \/ d \in Merged \ Dropped(Merged)
               \/ d \in u /\ u \in Tables(k) /\ (k = l => u \notin compaction.in0) /\ (k = l + 1 => u \notin compaction.in1)
    <3>1. CASE k = l
      BY <3>1, <2>2, <1>2, <1>3
    <3>2. CASE k = l + 1
      <4>1. u \in out => d \in Merged \ Dropped(Merged)
        BY <2>2, <1>1
      <4> QED
        BY <4>1, <3>2, <2>2, <1>2, <1>3
    <3>3. CASE k # l /\ k # l + 1
      BY <3>3, <2>2, <1>2
    <3> QED
      BY <3>1, <3>2, <3>3
  <2> QED
    BY <2>1, <2>2, <1>1, <1>5, <1>7
<1>8. Stored' \subseteq Stored
  BY <1>6, <1>7, StoredIs
<1>9. ASSUME NEW d \in Stored \ Dropped(Merged) PROVE d \in Stored'
  <2>1. CASE d \in mem
    BY <2>1, <1>1, <1>5
  <2>2. CASE d \in Merged
    <3>1. PICK u \in out : d \in u
      BY <2>2, <1>1, <1>9
    <3> QED
      BY <3>1, <1>2, <1>3, <1>5
  <2>3. ASSUME NEW k \in Level, NEW u \in Tables(k), d \in u, d \notin Merged PROVE d \in Stored'
    <3>1. u \notin compaction.in0 /\ u \notin compaction.in1
      BY <2>3 DEF Merged, Inputs
    <3>2. u \in Tables(k)'
      BY <3>1, <1>2, <1>3
    <3> QED
      BY <3>2, <2>3, <1>5
  <2> QED
    BY <2>1, <2>2, <2>3, <1>9, StoredIs
<1> QED
  BY <1>6, <1>7, <1>8, <1>9

\* A deletion is dropped only if nothing is left of what it deletes.
LEMMA NothingLeft ==
  ASSUME DisjointCore, AgeInv, OrderInv, ~intruded, ~cutInside,
         NEW l, NEW out, InstalledAs(l, out),
         NEW n \in Merged, n.seq <= compaction.smallest, IsBaseLevelForKey(n.key),
         NEW m \in Stored', m.key = n.key, m.seq < n.seq
  PROVE  FALSE
<1>1. /\ compaction \in Work /\ compaction.level = l /\ l \in 0..(LastLevel - 1)
      /\ Merged \subseteq Range(history) /\ ~Idle
  BY NotIdle DEF InstalledAs
<1>2. FilesType
  BY DEF DisjointCore
<1>3. /\ l \in Level /\ l \in Nat /\ l + 1 \in Level
      /\ compaction.in0 \subseteq Tables(l) /\ compaction.in1 \subseteq Tables(l + 1)
  BY <1>1, Levels01, NotIdle DEF DisjointCore, TaskType
<1>4. m \in Entry /\ n \in Entry /\ m.seq \in Nat /\ n.seq \in Nat /\ m.key \in Key
  <2>1. m \in Stored
    BY StoredInstall
  <2>2. m \in Entry /\ n \in Entry
    BY <2>1, <1>1, <1>2, StoredWritten, WrittenIs
  <2> QED
    BY <2>2, EntryFields
<1>5. ~(n.seq < m.seq)
  BY <1>4
<1>6. CASE m \in mem
  <2>1. PICK t \in compaction.in0 \cup compaction.in1 : n \in t
    BY DEF Merged, Inputs
  <2>2. Older(t, mem)
    BY <2>1, <1>3 DEF AgeInv
  <2> QED
    BY <2>1, <2>2, <1>5, <1>6 DEF Older
<1>7. CASE m \in Merged \ Dropped(Merged)
  <2>1. n.seq > m.seq
    BY <1>4
  <2>2. m \in Dropped(Merged)
    BY <2>1, <1>7 DEF Dropped
  <2> QED
    BY <2>2, <1>7
<1>8. ASSUME NEW k \in Level, NEW u \in Tables(k), m \in u, k = l => u \notin compaction.in0,
             k = l + 1 => u \notin compaction.in1
      PROVE  FALSE
  <2>1. k \in Nat
    BY Levels01
  <2>2. CASE k < l \/ k = l
    <3>1. \/ \E i \in Level : i < l /\ \E t \in Tables(i) : m \in t
          \/ \E t \in Tables(l) \ compaction.in0 : m \in t
      BY <2>2, <1>8
    <3> QED
      BY <3>1, <1>1, <1>5, AboveMerged
  <2>3. CASE k = l + 1
    <3>1. Foreign(u, Merged)
      BY <2>3, <1>1, <1>8, BesideMerged
    <3> QED
      BY <3>1, <1>8 DEF Foreign
  <2>4. CASE l + 2 <= k
    <3>1. k \in (compaction.level + 2)..LastLevel
      BY <2>1, <2>4, <1>1, <1>3 DEF Level
    <3>2. CASE u \in compaction.deeper
      <4>1. u \in FileSet
        BY <1>2, TablesAre
      <4>2. ~Meets(u, m.key, m.key)
        BY <3>2 DEF IsBaseLevelForKey
      <4>3. Left(u, m.key) \/ Right(u, m.key)
        BY <4>1, <4>2, <1>4, MeetsIs
      <4>4. m.key \in Nat
        BY <1>4, KeyNumbers
      <4> QED
        BY <4>3, <4>4, <1>8 DEF Left, Right
    <3>3. CASE u \notin compaction.deeper
      <4>1. Foreign(u, Merged)
        BY <3>1, <3>3, <1>1 DEF OrderInv, TaskOrdered
      <4> QED
        BY <4>1, <1>8 DEF Foreign
    <3> QED
      BY <3>2, <3>3
  <2> QED
    BY <2>1, <2>2, <2>3, <2>4, <1>3
<1> QED
  BY <1>6, <1>7, <1>8, StoredInstall

LEMMA CompleteInstall ==
  ASSUME DisjointCore, AgeInv, OrderInv, Complete, NEW l, NEW out, InstalledAs(l, out)
  PROVE  Complete'
<1>1. /\ compaction \in Work /\ compaction.level = l /\ Merged \subseteq Range(history)
      /\ UNCHANGED <<history, mem, snapshots, intruded>> /\ (~cutInside' => ~cutInside)
  BY DEF InstalledAs
<1>2. FilesType /\ TaskType
  BY DEF DisjointCore
<1>3. LastSequence' = LastSequence /\ Range(history)' = Range(history)
  BY <1>1 DEF LastSequence
<1>4. SUFFICES ASSUME ~intruded, ~cutInside, NEW k \in Key, NEW s \in snapshots \cup {LastSequence}
               PROVE  Result(Newest(Stored', k, s)) = Result(Newest(Stored, k, s))
  <2> SUFFICES ASSUME ~intruded', ~cutInside', NEW k \in Key, NEW s \in snapshots' \cup {LastSequence'}
               PROVE  Result(Newest(Stored', k, s)) = Result(Newest(Range(history)', k, s))
    BY DEF Complete
  <2>1. ~intruded /\ ~cutInside /\ s \in snapshots \cup {LastSequence}
    BY <1>1, <1>3
  <2>2. Result(Newest(Stored', k, s)) = Result(Newest(Stored, k, s))
    BY <2>1, <1>4
  <2> QED
    BY <2>1, <2>2, <1>3 DEF Complete
<1> DEFINE W == Seen(Stored, k, s)
           V == Seen(Stored', k, s)
           n == Newest(Stored, k, s)
           S == Stored'
<1>5. /\ Merged \subseteq Stored /\ S \subseteq Stored /\ Stored \ Dropped(Merged) \subseteq S
  BY StoredInstall
<1>6. Stored \in SUBSET Entry /\ S \in SUBSET Entry /\ s \in Nat
  <2>1. Stored \subseteq Entry
    BY <1>2, StoredWritten, WrittenIs
  <2>2. s \in Nat
    BY <1>2, WrittenIs DEF FilesType
  <2> QED
    BY <2>1, <2>2, <1>5
<1>7. V \subseteq W
  BY <1>5 DEF Seen
<1>8. Result(Absent) = 0
  BY DEF Result, Absent
<1>9. CASE W = {}
  <2>1. V = W
    BY <1>7, <1>9
  <2> QED
    BY <2>1, NewestSame
<1>10. CASE W # {}
  <2>1. n \in W /\ \A d \in W : d.seq <= n.seq
    BY <1>6, <1>10, NewestIs
  <2>2. \A d \in W : d \in Range(history) /\ d.seq \in Nat /\ d.key = k /\ d.seq <= s
    <3>1. \A d \in W : d \in Range(history) /\ d.key = k /\ d.seq <= s
      BY <1>2, StoredWritten DEF Seen
    <3> QED
      BY <3>1, <1>2, WrittenIs, EntryFields
  <2>3. \A d \in W : d # n => d.seq < n.seq
    BY <2>1, <2>2, <1>2, WrittenIs
  <2> HIDE DEF n
  <2>4. CASE n \in S
    <3>1. n \in V
      BY <2>1, <2>4 DEF Seen
    <3>2. Newest(S, k, s) = n
      BY <3>1, <2>3, <1>6, <1>7, NewestOnly
    <3> QED
      BY <3>2 DEF n
  <2>5. CASE n \notin S
    <3>1. n \in Stored
      BY <2>1 DEF Seen
    <3>2. n \in Dropped(Merged)
      BY <2>5, <3>1, <1>5
    <3>3. n \in Merged
      BY <3>2 DEF Dropped
    <3>4. ~Idle /\ compaction.smallest \in Nat /\ compaction.smallest <= s
      BY <1>1, <1>2, <1>4, NotIdle, TaskFields DEF TaskType
    <3>5. ~\E m \in Merged : m.key = n.key /\ m.seq > n.seq /\ m.seq <= compaction.smallest
      <4> SUFFICES ASSUME NEW m \in Merged, m.key = n.key, m.seq > n.seq, m.seq <= compaction.smallest
                   PROVE  FALSE
        OBVIOUS
      <4>1. m.seq \in Nat /\ n.seq \in Nat /\ m.key = k
        BY <2>1, <2>2, <1>1, <1>2, WrittenIs, EntryFields
      <4>2. m.seq <= s
        BY <4>1, <3>4, <1>6
      <4>3. m \in W
        BY <4>1, <4>2, <1>5 DEF Seen
      <4> QED
        BY <4>1, <4>3, <2>1
    <3>6. n.del /\ n.seq <= compaction.smallest /\ IsBaseLevelForKey(n.key)
      BY <3>2, <3>5 DEF Dropped
    <3>7. V = {}
      <4> SUFFICES ASSUME NEW m \in V PROVE FALSE
        OBVIOUS
      <4>1. m \in S /\ m \in W /\ m # n
        BY <2>5, <1>7 DEF Seen
      <4>2. m.key = n.key /\ m.seq < n.seq
        BY <4>1, <2>1, <2>2, <2>3
      <4> QED
        BY <4>1, <4>2, <3>3, <3>6, <1>4, NothingLeft
    <3>8. Newest(S, k, s) = Absent
      BY <3>7, <1>6, NewestIs
    <3>9. Result(n) = 0
      BY <3>6 DEF Result
    <3> QED
      BY <3>8, <3>9, <1>8 DEF n
  <2> QED
    BY <2>4, <2>5
<1> QED
  BY <1>9, <1>10

-----------------------------------------------------------------------------
(***************************************************************************)
(* Reading: the places searched hold all that is stored of a key, the      *)
(* newer entries first.                                                    *)
(***************************************************************************)
FirstEntry(t) == CHOOSE e \in t : \A d \in t : ~Before(d, e)

LEMMA FirstIs ==
  ASSUME FilesType, NEW l \in Level, NEW t \in Tables(l)
  PROVE  FirstEntry(t) \in t /\ \A d \in t : ~Before(d, FirstEntry(t))
<1>1. t \subseteq Entry /\ t # {} /\ t \subseteq Range(history)
  BY TablesAre DEF FileSet, FilesType
<1>2. \A d \in t : d.key \in Nat /\ d.seq \in Nat /\ d.seq <= LastSequence
  <2>1. \A d \in t : d.key \in Nat /\ d.seq \in Nat
    BY <1>1, EntryFields, KeyNumbers
  <2>2. \A d \in t : d.seq \in 1..LastSequence
    BY <1>1, WrittenIs
  <2> QED
    BY <2>1, <2>2
<1>3. LastSequence \in Nat
  BY WrittenIs
<1> DEFINE K == { d.key : d \in t }
<1>4. PICK a \in K : \A x \in K : a <= x
  <2>1. K \subseteq Nat /\ K # {}
    BY <1>1, <1>2
  <2> HIDE DEF K
  <2> QED
    BY <2>1, LeastNatural
<1> DEFINE Q == { d.seq : d \in { f \in t : f.key = a } }
<1>5. PICK b \in Q : \A x \in Q : x <= b
  <2>1. PICK f \in t : f.key = a
    OBVIOUS
  <2>2. Q \subseteq Nat /\ Q # {} /\ \A x \in Q : x <= LastSequence
    BY <1>2, <2>1
  <2> HIDE DEF Q
  <2> QED
    BY <2>2, <1>3, GreatestNatural
<1>6. PICK e \in t : e.key = a /\ e.seq = b
  OBVIOUS
<1>7. ASSUME NEW d \in t PROVE ~Before(d, e)
  <2>1. a <= d.key /\ (d.key = a => d.seq <= b)
    BY <1>4, <1>5
  <2> QED
    BY <2>1, <1>2, <1>6 DEF Before
<1> QED
  BY <1>6, <1>7 DEF FirstEntry

\* The table of a level that has an entry of the key is the one looked into.
LEMMA FileFound ==
  ASSUME DisjointCore, ~intruded, KeysApart, NEW l \in 1..LastLevel, NEW t \in Tables(l),
         NEW e \in t, NEW s, e.seq <= s
  PROVE  t \in FindFile(l, e.key, s)
<1> DEFINE k == e.key
           Reaches(v) == \E d \in v : d.key > k \/ (d.key = k /\ d.seq <= s)
           cands == { v \in below[l] : Reaches(v) }
<1>1. FindFile(l, k, s) = { v \in cands : \A u \in cands \ {v} : Before(FirstEntry(v), FirstEntry(u)) }
  BY DEF FindFile, FirstEntry
<1>2. FilesType /\ DisjointInv /\ l \in Level /\ Tables(l) = below[l]
  BY Levels01, TablesAre DEF DisjointCore
<1>3. t \in cands
  BY <1>2
<1>4. ASSUME NEW u \in cands \ {t} PROVE Before(FirstEntry(t), FirstEntry(u))
  <2>1. u \in Tables(l) /\ u # t
    BY <1>2
  <2>2. FirstEntry(t) \in t /\ FirstEntry(u) \in u
    BY <1>2, <2>1, FirstIs
  <2>3. Side(t, u) /\ Foreign(t, u)
    BY <1>2, <2>1 DEF DisjointInv, KeysApart
  <2>4. ~AllBefore(u, t)
    <3>1. PICK f \in u : f.key > k \/ (f.key = k /\ f.seq <= s)
      OBVIOUS
    <3>2. f.key # k
      BY <2>3, <3>1 DEF Foreign
    <3>3. f \in Entry /\ e \in Entry
      BY <1>2, <2>1, TablesAre DEF FileSet
    <3>4. f.key \in Nat /\ k \in Nat
      BY <3>3, EntryFields, KeyNumbers
    <3>5. ~Before(f, e)
      BY <3>1, <3>2, <3>4 DEF Before
    <3> QED
      BY <3>1, <3>5 DEF AllBefore
  <2> QED
    BY <2>2, <2>3, <2>4 DEF Side, AllBefore
<1> QED
  BY <1>1, <1>3, <1>4

\* Three sequences, one after the other.
LEMMA ConcatThree ==
  ASSUME NEW T, NEW a \in Seq(T), NEW b \in Seq(T), NEW c \in Seq(T)
  PROVE  /\ DOMAIN ((a \o b) \o c) = 1..((Len(a) + Len(b)) + Len(c))
         /\ \A i \in 1..((Len(a) + Len(b)) + Len(c)) :
              ((a \o b) \o c)[i] =
                IF i <= Len(a) + Len(b) THEN IF i <= Len(a) THEN a[i] ELSE b[i - Len(a)]
                ELSE c[i - (Len(a) + Len(b))]
<1>1. /\ a \o b \in Seq(T) /\ Len(a \o b) = Len(a) + Len(b)
      /\ \A i \in 1..(Len(a) + Len(b)) :
           (a \o b)[i] = IF i <= Len(a) THEN a[i] ELSE b[i - Len(a)]
  BY ConcatProperties
<1>2. PICK d : d = a \o b
  OBVIOUS
<1>3. d \in Seq(T)
  BY <1>1, <1>2
<1>4. /\ d \o c \in Seq(T) /\ Len(d \o c) = Len(d) + Len(c)
      /\ \A i \in 1..(Len(d) + Len(c)) : (d \o c)[i] = IF i <= Len(d) THEN d[i] ELSE c[i - Len(d)]
  BY <1>3, ConcatProperties
<1>5. PICK e : e = d \o c
  OBVIOUS
<1>6. Len(d) = Len(a) + Len(b) /\ Len(a) \in Nat /\ Len(b) \in Nat /\ Len(c) \in Nat
  BY <1>1, <1>2, Elements
<1>7. DOMAIN e = 1..((Len(a) + Len(b)) + Len(c))
  BY <1>4, <1>5, <1>6, Elements
<1>8. ASSUME NEW i \in 1..((Len(a) + Len(b)) + Len(c))
      PROVE  e[i] = IF i <= Len(a) + Len(b) THEN IF i <= Len(a) THEN a[i] ELSE b[i - Len(a)]
                    ELSE c[i - (Len(a) + Len(b))]
  <2>1. e[i] = IF i <= Len(a) + Len(b) THEN d[i] ELSE c[i - (Len(a) + Len(b))]
    BY <1>4, <1>5, <1>6
  <2>2. i <= Len(a) + Len(b) => d[i] = IF i <= Len(a) THEN a[i] ELSE b[i - Len(a)]
    BY <1>1, <1>2, <1>6
  <2> QED
    BY <2>1, <2>2
<1> QED
  BY <1>2, <1>5, <1>7, <1>8

LEMMA SearchedAt ==
  ASSUME FilesType, NEW k, NEW s
  PROVE  /\ DOMAIN Searched(k, s) = 1..(1 + Len(level0) + LastLevel)
         /\ Len(level0) \in Nat
         /\ Searched(k, s)[1] = mem
         /\ \A i \in 1..Len(level0) : Searched(k, s)[Len(level0) - i + 2] = level0[i]
         /\ \A l \in 1..LastLevel : Searched(k, s)[1 + Len(level0) + l] = UNION FindFile(l, k, s)
<1> DEFINE T == SUBSET Entry
           A == <<mem>>
           B == Reverse(level0)
           C == [l \in 1..LastLevel |-> UNION FindFile(l, k, s)]
           z == Len(level0)
<1>1. LastLevel \in Nat
  BY Levels01
<1>2. A \in Seq(T) /\ Len(A) = 1 /\ A[1] = mem
  <2>1. mem \in T
    BY WrittenIs DEF FilesType
  <2> QED
    BY <2>1
<1>3. z \in Nat /\ \A i \in 1..z : level0[i] \in T
  <2>1. level0 \in Seq(FileSet)
    BY DEF FilesType
  <2>2. Len(level0) \in Nat /\ \A i \in 1..Len(level0) : level0[i] \in FileSet
    BY <2>1, Elements
  <2> QED
    BY <2>2 DEF FileSet
<1>4. B \in Seq(T) /\ Len(B) = z /\ \A i \in 1..z : B[i] = level0[(z - i) + 1]
  <2>1. B = [i \in 1..z |-> level0[(z - i) + 1]]
    BY DEF Reverse
  <2>2. \A i \in 1..z : (z - i) + 1 \in 1..z
    BY <1>3
  <2> HIDE DEF B, z, T
  <2>3. B \in [1..z -> T]
    BY <2>1, <2>2, <1>3
  <2> QED
    BY <2>1, <2>3, <1>3
<1>5. C \in Seq(T) /\ Len(C) = LastLevel /\ \A l \in 1..LastLevel : C[l] = UNION FindFile(l, k, s)
  <2>1. ASSUME NEW l \in 1..LastLevel PROVE UNION FindFile(l, k, s) \in T
    <3>1. FindFile(l, k, s) \subseteq below[l]
      BY DEF FindFile
    <3>2. below[l] \subseteq FileSet
      BY DEF FilesType
    <3> QED
      BY <3>1, <3>2 DEF FileSet
  <2>2. C \in [1..LastLevel -> T]
    BY <2>1
  <2> HIDE DEF T
  <2> QED
    BY <2>2, <1>1
<1>6. Searched(k, s) = (A \o B) \o C
  BY DEF Searched
<1> HIDE DEF T, A, B, C, z
<1> DEFINE E == (A \o B) \o C
<1>11. /\ DOMAIN E = 1..(1 + z + LastLevel)
       /\ \A i \in 1..(1 + z + LastLevel) :
            E[i] = IF i <= 1 THEN A[i] ELSE IF i <= 1 + z THEN B[i - 1] ELSE C[i - (1 + z)]
  <2>1. A \in Seq(T) /\ B \in Seq(T) /\ C \in Seq(T)
    BY <1>2, <1>4, <1>5
  <2>2. /\ DOMAIN E = 1..((Len(A) + Len(B)) + Len(C))
        /\ \A i \in 1..((Len(A) + Len(B)) + Len(C)) :
             E[i] = IF i <= Len(A) + Len(B) THEN IF i <= Len(A) THEN A[i] ELSE B[i - Len(A)]
                    ELSE C[i - (Len(A) + Len(B))]
    BY <2>1, ConcatThree
  <2> HIDE DEF E
  <2>3. Len(A) = 1 /\ Len(B) = z /\ Len(C) = LastLevel
    BY <1>2, <1>4, <1>5
  <2>4. /\ DOMAIN E = 1..((1 + z) + LastLevel)
        /\ \A i \in 1..((1 + z) + LastLevel) :
             E[i] = IF i <= 1 + z THEN IF i <= 1 THEN A[i] ELSE B[i - 1] ELSE C[i - (1 + z)]
    BY <2>2, <2>3
  <2> QED
    BY <2>4, <1>1, <1>3
<1> HIDE DEF E
<1>12. Searched(k, s) = E
  BY <1>6 DEF E
<1>13. E[1] = mem
  <2>1. 1 \in 1..(1 + z + LastLevel) /\ 1 <= 1
    BY <1>1, <1>3
  <2> QED
    BY <2>1, <1>2, <1>11
<1>14. ASSUME NEW i \in 1..z PROVE E[z - i + 2] = level0[i]
  <2> DEFINE n == z - i + 2
  <2>1. n \in 1..(1 + z + LastLevel) /\ n <= 1 + z /\ ~(n <= 1)
        /\ n - 1 \in 1..z /\ (z - (n - 1)) + 1 = i
    BY <1>1, <1>3
  <2> HIDE DEF n
  <2>2. E[n] = B[n - 1]
    BY <2>1, <1>11
  <2>3. B[n - 1] = level0[(z - (n - 1)) + 1]
    BY <2>1, <1>4
  <2>4. E[n] = level0[i]
    BY <2>1, <2>2, <2>3
  <2> QED
    BY <2>4 DEF n
<1>15. ASSUME NEW l \in 1..LastLevel PROVE E[1 + z + l] = UNION FindFile(l, k, s)
  <2> DEFINE n == 1 + z + l
  <2>1. n \in 1..(1 + z + LastLevel) /\ ~(n <= 1) /\ ~(n <= 1 + z) /\ n - (1 + z) = l
    BY <1>1, <1>3
  <2> HIDE DEF n
  <2>2. E[n] = C[l]
    BY <2>1, <1>11
  <2> QED
    BY <2>2, <1>5 DEF n
<1> QED
  BY <1>3, <1>11, <1>12, <1>13, <1>14, <1>15 DEF z

\* Which place is which.
LEMMA PlaceIs ==
  ASSUME FilesType, NEW k, NEW s, NEW n \in DOMAIN Searched(k, s)
  PROVE  \/ n = 1 /\ Searched(k, s)[n] = mem
         \/ \E i \in 1..Len(level0) : n = Len(level0) - i + 2 /\ Searched(k, s)[n] = level0[i]
         \/ \E l \in 1..LastLevel : n = 1 + Len(level0) + l /\ Searched(k, s)[n] = UNION FindFile(l, k, s)
<1> DEFINE z == Len(level0)
<1>1. n \in 1..(1 + z + LastLevel) /\ z \in Nat /\ LastLevel \in Nat
  BY SearchedAt, Levels01
<1> HIDE DEF z
<1>2. n = 1 \/ (z - n + 2 \in 1..z /\ n = z - (z - n + 2) + 2)
      \/ (n - (1 + z) \in 1..LastLevel /\ n = 1 + z + (n - (1 + z)))
  BY <1>1
<1>3. CASE n = 1
  BY <1>3, SearchedAt
<1>4. CASE z - n + 2 \in 1..z /\ n = z - (z - n + 2) + 2
  <2> DEFINE i == z - n + 2
  <2>1. i \in 1..z /\ n = z - i + 2
    BY <1>4
  <2> HIDE DEF i
  <2>2. Searched(k, s)[n] = level0[i]
    BY <2>1, SearchedAt DEF z
  <2> QED
    BY <2>1, <2>2 DEF z
<1>5. CASE n - (1 + z) \in 1..LastLevel /\ n = 1 + z + (n - (1 + z))
  <2> DEFINE l == n - (1 + z)
  <2>1. l \in 1..LastLevel /\ n = 1 + z + l
    BY <1>5
  <2> HIDE DEF l
  <2>2. Searched(k, s)[n] = UNION FindFile(l, k, s)
    BY <2>1, SearchedAt DEF z
  <2> QED
    BY <2>1, <2>2 DEF z
<1> QED
  BY <1>2, <1>3, <1>4, <1>5

LEMMA PlaceStored ==
  ASSUME FilesType, NEW k, NEW s, NEW n \in DOMAIN Searched(k, s)
  PROVE  Searched(k, s)[n] \subseteq Stored
<1>1. CASE Searched(k, s)[n] = mem
  BY <1>1 DEF Stored
<1>2. ASSUME NEW i \in 1..Len(level0), Searched(k, s)[n] = level0[i] PROVE Searched(k, s)[n] \subseteq Stored
  <2>1. level0[i] \in Tables(0) /\ 0 \in Level
    BY TablesAre, Levels01
  <2> QED
    BY <1>2, <2>1, StoredIs
<1>3. ASSUME NEW l \in 1..LastLevel, Searched(k, s)[n] = UNION FindFile(l, k, s)
      PROVE  Searched(k, s)[n] \subseteq Stored
  <2>1. FindFile(l, k, s) \subseteq Tables(l) /\ l \in Level
    BY TablesAre, Levels01 DEF FindFile
  <2> QED
    BY <1>3, <2>1, StoredIs
<1> QED
  BY <1>1, <1>2, <1>3, PlaceIs

LEMMA PlaceFound ==
  ASSUME DisjointCore, ~intruded, KeysApart, NEW k, NEW s, NEW e \in Seen(Stored, k, s)
  PROVE  \E n \in DOMAIN Searched(k, s) : e \in Searched(k, s)[n]
<1>1. FilesType /\ e \in Stored /\ e.key = k /\ e.seq <= s
  BY DEF DisjointCore, Seen
<1>2. /\ DOMAIN Searched(k, s) = 1..(1 + Len(level0) + LastLevel)
      /\ Len(level0) \in Nat /\ LastLevel \in Nat
      /\ Searched(k, s)[1] = mem
      /\ \A i \in 1..Len(level0) : Searched(k, s)[Len(level0) - i + 2] = level0[i]
      /\ \A l \in 1..LastLevel : Searched(k, s)[1 + Len(level0) + l] = UNION FindFile(l, k, s)
  BY <1>1, SearchedAt, Levels01
<1>3. CASE e \in mem
  <2>1. 1 \in DOMAIN Searched(k, s)
    BY <1>2
  <2> QED
    BY <1>2, <1>3, <2>1
<1>4. ASSUME NEW t \in Tables(0), e \in t
      PROVE  \E n \in DOMAIN Searched(k, s) : e \in Searched(k, s)[n]
  <2>1. PICK i \in 1..Len(level0) : t = level0[i]
    BY <1>1, TablesAre
  <2>2. Len(level0) - i + 2 \in DOMAIN Searched(k, s)
    <3> DEFINE z == Len(level0)
    <3>1. z \in Nat /\ i \in 1..z
      BY <1>2
    <3> HIDE DEF z
    <3>2. z - i + 2 \in 1..(1 + z + LastLevel)
      BY <3>1, <1>2
    <3> QED
      BY <3>2, <1>2 DEF z
  <2>3. Searched(k, s)[Len(level0) - i + 2] = level0[i]
    BY <1>2
  <2> QED
    BY <1>4, <2>1, <2>2, <2>3
<1>5. ASSUME NEW l \in 1..LastLevel, NEW t \in Tables(l), e \in t
      PROVE  \E n \in DOMAIN Searched(k, s) : e \in Searched(k, s)[n]
  <2>1. t \in FindFile(l, k, s)
    BY <1>1, <1>5, FileFound
  <2>2. 1 + Len(level0) + l \in DOMAIN Searched(k, s)
    <3> DEFINE z == Len(level0)
    <3>1. z \in Nat
      BY <1>2
    <3> HIDE DEF z
    <3>2. 1 + z + l \in 1..(1 + z + LastLevel)
      BY <3>1, <1>2
    <3> QED
      BY <3>2, <1>2 DEF z
  <2>3. Searched(k, s)[1 + Len(level0) + l] = UNION FindFile(l, k, s)
    BY <1>2
  <2>4. e \in UNION FindFile(l, k, s)
    BY <1>5, <2>1
  <2> QED
    BY <2>2, <2>3, <2>4
<1> QED
  BY <1>1, <1>3, <1>4, <1>5, StoredIs, Levels01

\* A place that is searched later has older entries of a key.
LEMMA PlacesNewer ==
  ASSUME FilesType, AgeInv, LevelsOrdered, NEW k, NEW s,
         NEW n \in DOMAIN Searched(k, s), NEW m \in DOMAIN Searched(k, s), n < m,
         NEW d \in Searched(k, s)[n], NEW e \in Searched(k, s)[m], d.key = e.key
  PROVE  e.seq < d.seq
<1> DEFINE z == Len(level0)
           P == Searched(k, s)
<1>1. z \in Nat /\ LastLevel \in Nat /\ n \in Nat /\ m \in Nat
  BY SearchedAt, Levels01
<1>2. \A l \in 1..LastLevel : FindFile(l, k, s) \subseteq Tables(l) /\ l \in Level
  BY TablesAre, Levels01 DEF FindFile
<1>3. 0 \in Level /\ \A i \in 1..z : level0[i] \in Tables(0)
  BY TablesAre, Levels01
<1>4. \/ n = 1 /\ P[n] = mem
      \/ \E i \in 1..z : n = z - i + 2 /\ P[n] = level0[i]
      \/ \E l \in 1..LastLevel : n = 1 + z + l /\ P[n] = UNION FindFile(l, k, s)
  BY PlaceIs
<1>5. \/ m = 1 /\ P[m] = mem
      \/ \E i \in 1..z : m = z - i + 2 /\ P[m] = level0[i]
      \/ \E l \in 1..LastLevel : m = 1 + z + l /\ P[m] = UNION FindFile(l, k, s)
  BY PlaceIs
<1>6. d \in P[n] /\ e \in P[m]
  OBVIOUS
<1> HIDE DEF z, P
<1>7. CASE n = 1 /\ P[n] = mem
  <2>1. m # 1
    BY <1>7
  <2>2. \E l \in Level : \E t \in Tables(l) : e \in t
    <3>1. ASSUME NEW l \in 1..LastLevel, P[m] = UNION FindFile(l, k, s)
          PROVE  \E j \in Level : \E t \in Tables(j) : e \in t
      BY <1>2, <1>6, <3>1
    <3> QED
      BY <2>1, <3>1, <1>3, <1>5, <1>6
  <2> QED
    BY <1>6, <1>7, <2>2 DEF AgeInv, Older
<1>8. ASSUME NEW i \in 1..z, n = z - i + 2, P[n] = level0[i] PROVE e.seq < d.seq
  <2>1. m # 1
    BY <1>1, <1>8
  <2>2. ASSUME NEW j \in 1..z, m = z - j + 2, P[m] = level0[j] PROVE e.seq < d.seq
    <3>1. j < i
      BY <1>1, <1>8, <2>2
    <3> QED
      BY <1>6, <1>8, <2>2, <3>1 DEF AgeInv, Older, z
  <2>3. ASSUME NEW l \in 1..LastLevel, P[m] = UNION FindFile(l, k, s) PROVE e.seq < d.seq
    <3>1. PICK t \in Tables(l) : e \in t
      BY <1>2, <1>6, <2>3
    <3>2. 0 < l /\ l \in Level
      BY <1>2
    <3> QED
      BY <1>3, <1>6, <1>8, <3>1, <3>2 DEF LevelsOrdered, Newer
  <2> QED
    BY <1>5, <2>1, <2>2, <2>3
<1>9. ASSUME NEW l \in 1..LastLevel, n = 1 + z + l, P[n] = UNION FindFile(l, k, s) PROVE e.seq < d.seq
  <2>1. m # 1 /\ \A j \in 1..z : m # z - j + 2
    BY <1>1, <1>9
  <2>2. PICK j \in 1..LastLevel : m = 1 + z + j /\ P[m] = UNION FindFile(j, k, s)
    BY <1>5, <2>1
  <2>3. l < j
    BY <1>1, <1>9, <2>2
  <2>4. PICK t \in Tables(l) : d \in t
    BY <1>2, <1>6, <1>9
  <2>5. PICK u \in Tables(j) : e \in u
    BY <1>2, <1>6, <2>2
  <2> QED
    BY <1>2, <2>3, <2>4, <2>5 DEF LevelsOrdered, Newer
<1> QED
  BY <1>4, <1>7, <1>8, <1>9

\* The first place that has an entry of the key has the newest one.
LEMMA GetFirst ==
  ASSUME DisjointCore, AgeInv, OrderInv, ~intruded, ~cutInside, NEW k \in Key, NEW s \in Nat
  PROVE  Get(k, s) = Newest(Stored, k, s)
<1> DEFINE P == Searched(k, s)
           found == { n \in DOMAIN P : Newest(P[n], k, s) # Absent }
<1>1. FilesType /\ LevelsOrdered /\ KeysApart
  BY DEF DisjointCore, OrderInv
<1>2. Stored \subseteq Range(history) /\ Stored \subseteq Entry
  BY <1>1, StoredWritten, WrittenIs
<1>3. \A n \in DOMAIN P : P[n] \subseteq Stored
  BY <1>1, PlaceStored
<1>4. Get(k, s) = IF found = {} THEN Absent ELSE Newest(P[Min(found)], k, s)
  BY DEF Get
<1>5. DOMAIN P \subseteq Nat
  <2>1. DOMAIN P = 1..(1 + Len(level0) + LastLevel)
    BY <1>1, SearchedAt
  <2> HIDE DEF P
  <2> QED
    BY <2>1
<1>6. \A e \in Seen(Stored, k, s) : \E n \in DOMAIN P : e \in P[n]
  BY <1>1, PlaceFound
<1>7. \A n, m \in DOMAIN P : n < m => \A d \in P[n], e \in P[m] : d.key = e.key => e.seq < d.seq
  BY <1>1, PlacesNewer
<1> HIDE DEF P
<1>8. \A n \in DOMAIN P : n \in found <=> Seen(P[n], k, s) # {}
  <2> SUFFICES ASSUME NEW n \in DOMAIN P PROVE n \in found <=> Seen(P[n], k, s) # {}
    OBVIOUS
  <2>1. P[n] \in SUBSET Entry
    BY <1>2, <1>3
  <2>2. CASE Seen(P[n], k, s) = {}
    BY <2>1, <2>2, NewestIs
  <2>3. CASE Seen(P[n], k, s) # {}
    <3>1. Newest(P[n], k, s) \in Seen(P[n], k, s)
      BY <2>1, <2>3, NewestIs
    <3>2. Newest(P[n], k, s).key = k
      BY <3>1 DEF Seen
    <3>3. Absent.key = 0 /\ k # 0
      BY KeyNumbers DEF Absent
    <3> QED
      BY <2>3, <3>2, <3>3
  <2> QED
    BY <2>2, <2>3
<1>9. CASE found = {}
  <2>1. Seen(Stored, k, s) = {}
    <3> SUFFICES ASSUME NEW e \in Seen(Stored, k, s) PROVE FALSE
      OBVIOUS
    <3>1. PICK n \in DOMAIN P : e \in P[n]
      BY <1>6
    <3>2. e \in Seen(P[n], k, s)
      BY <3>1 DEF Seen
    <3> HIDE DEF found
    <3> QED
      BY <3>2, <1>8, <1>9
  <2>2. Newest(Stored, k, s) = Absent
    BY <1>2, <2>1, NewestIs
  <2> QED
    BY <1>4, <1>9, <2>2
<1>10. CASE found # {}
  <2>1. found \subseteq DOMAIN P
    OBVIOUS
  <2> HIDE DEF found
  <2>2. PICK n : n = Min(found)
    OBVIOUS
  <2>3. n \in found /\ \A m \in found : n <= m
    BY <1>5, <1>10, <2>1, <2>2, MinOfNaturals
  <2>4. PICK d : d = Newest(P[n], k, s)
    OBVIOUS
  <2>5. n \in DOMAIN P /\ P[n] \in SUBSET Entry /\ P[n] \subseteq Stored /\ Seen(P[n], k, s) # {}
    BY <1>2, <1>3, <1>8, <2>1, <2>3
  <2>6. d \in Seen(P[n], k, s) /\ \A e \in Seen(P[n], k, s) : e.seq <= d.seq
    BY <2>4, <2>5, NewestIs
  <2>7. d \in Seen(Stored, k, s)
    BY <2>5, <2>6 DEF Seen
  <2>8. ASSUME NEW e \in Seen(Stored, k, s), e # d PROVE e.seq < d.seq
    <3>1. PICK m \in DOMAIN P : e \in P[m]
      BY <1>6
    <3>2. e \in Seen(P[m], k, s)
      BY <3>1 DEF Seen
    <3>3. n <= m /\ n \in Nat /\ m \in Nat
      BY <1>5, <1>8, <2>3, <2>5, <3>2
    <3>4. d \in Stored /\ e \in Stored /\ d.key = k /\ e.key = k
      BY <2>7 DEF Seen
    <3>5. CASE n = m
      <4>1. e.seq <= d.seq
        BY <2>6, <3>2, <3>5
      <4>2. e.seq # d.seq
        BY <1>1, <1>2, <2>8, <3>4, WrittenIs
      <4>3. e.seq \in Nat /\ d.seq \in Nat
        BY <1>2, <3>4, EntryFields
      <4> QED
        BY <4>1, <4>2, <4>3
    <3>6. CASE n < m
      <4>1. d \in P[n]
        BY <2>6 DEF Seen
      <4> QED
        BY <1>7, <2>5, <3>1, <3>4, <3>6, <4>1
    <3> QED
      BY <3>3, <3>5, <3>6
  <2>9. Newest(Stored, k, s) = d
    BY <1>2, <2>7, <2>8, NewestOnly
  <2> QED
    BY <1>4, <1>10, <2>2, <2>4, <2>9
<1> QED
  BY <1>9, <1>10

-----------------------------------------------------------------------------
(***************************************************************************)
(* The invariant of the levels, and what follows from it.                  *)
(***************************************************************************)
CompactionInv == DisjointCore /\ AgeInv /\ OrderInv /\ Complete

LEMMA CompactionStart == Init => CompactionInv
BY DisjointStart, AgeStart, CompleteStart DEF CompactionInv

\* Steps that leave the tables and the memtable alone.
LEMMA AgeSame ==
  ASSUME AgeInv, UNCHANGED <<mem, level0, below>>
  PROVE  AgeInv'
BY DEF AgeInv, Tables, Older

LEMMA StoredSame ==
  ASSUME UNCHANGED <<mem, level0, below>>
  PROVE  Stored' = Stored
BY DEF Stored, Tables

LEMMA CompactionWrite ==
  ASSUME CompactionInv, NEW k \in Key, NEW del \in BOOLEAN, Write(k, del)
  PROVE  CompactionInv'
<1>1. DisjointCore /\ AgeInv /\ OrderInv /\ Complete /\ FilesType
  BY DEF CompactionInv, DisjointCore
<1>2. UNCHANGED <<level0, below, compaction, cutInside, intruded>>
  BY DEF Write
<1> QED
  BY <1>1, <1>2, DisjointWrite, AgeWrite, OrderQuiet, CompleteWrite DEF CompactionInv

LEMMA CompactionSnapshot ==
  ASSUME CompactionInv,
         UNCHANGED <<history, mem, level0, below, compaction, cutInside, intruded>>,
         snapshots' \subseteq snapshots \cup {LastSequence}
  PROVE  CompactionInv'
<1>1. DisjointCore /\ AgeInv /\ OrderInv /\ Complete
  BY DEF CompactionInv
<1>2. DisjointCore'
  BY <1>1, DisjointSnapshot
<1>3. AgeInv' /\ OrderInv'
  BY <1>1, AgeSame, OrderQuiet
<1>4. Complete'
  BY <1>1, StoredSame, CompleteSame
<1> QED
  BY <1>2, <1>3, <1>4 DEF CompactionInv

LEMMA CompactionFlush ==
  ASSUME CompactionInv, CompactMemTable
  PROVE  CompactionInv'
<1>1. DisjointCore /\ AgeInv /\ OrderInv /\ Complete /\ FilesType
  BY DEF CompactionInv, DisjointCore
<1>2. PICK l, lo, hi : FlushedTo(l, lo, hi)
  BY <1>1, FlushIs
<1>3. DisjointCore' /\ AgeInv' /\ OrderInv'
  BY <1>1, <1>2, DisjointFlush, AgeFlush, OrderFlush
<1>4. Complete'
  <2>1. Stored' = Stored
    BY <1>2, StoredFlush
  <2>2. history' = history /\ cutInside' = cutInside /\ (~intruded' => ~intruded)
        /\ snapshots' \subseteq snapshots \cup {LastSequence}
    BY <1>2 DEF FlushedTo
  <2> QED
    BY <1>1, <2>1, <2>2, CompleteSame
<1> QED
  BY <1>3, <1>4 DEF CompactionInv

LEMMA CompactionTask ==
  ASSUME CompactionInv, NEW l \in 0..(LastLevel - 1),
         \/ \E t \in Tables(l) : StartCompaction(l, t)
         \/ \E lo, hi \in Key : CompactRange(l, lo, hi)
  PROVE  CompactionInv'
<1>1. DisjointCore /\ AgeInv /\ OrderInv /\ Complete /\ FilesType
  BY DEF CompactionInv, DisjointCore
<1>2. TaskTaken(l) /\ UNCHANGED <<history, mem, level0, below, snapshots, cutInside, intruded>>
  BY <1>1, TaskStarts
<1>3. DisjointCore' /\ OrderInv'
  BY <1>1, <1>2, DisjointTask, OrderTask
<1>4. AgeInv'
  BY <1>1, <1>2, AgeSame
<1>5. Complete'
  BY <1>1, <1>2, StoredSame, CompleteSame
<1> QED
  BY <1>3, <1>4, <1>5 DEF CompactionInv

LEMMA CompactionMove ==
  ASSUME CompactionInv, NEW l \in 0..(LastLevel - 1), NEW t \in Tables(l), MoveTable(l, t)
  PROVE  CompactionInv'
<1>1. DisjointCore /\ AgeInv /\ OrderInv /\ Complete /\ FilesType
  BY DEF CompactionInv, DisjointCore
<1>2. MovedTo(l, t)
  BY <1>1, MoveIs
<1>3. DisjointCore' /\ OrderInv'
  BY <1>1, <1>2, DisjointMove, OrderMove
<1>4. AgeInv'
  <2>1. ReplacedBy(l, {t}, {}, {t}) /\ mem' = mem
    BY <1>2 DEF MovedTo
  <2>2. l \in Level
    BY Levels01
  <2>3. \A u \in {t} : \A d \in u : \E m \in Level : \E v \in Tables(m) : d \in v
    BY <2>2
  <2> QED
    BY <1>1, <2>1, <2>3, AgeReplace
<1>5. Complete'
  <2>1. Stored' = Stored
    BY <1>2, StoredMove
  <2>2. UNCHANGED <<history, snapshots, cutInside, intruded>>
    BY <1>2 DEF MovedTo
  <2> QED
    BY <1>1, <2>1, <2>2, CompleteSame
<1> QED
  BY <1>3, <1>4, <1>5 DEF CompactionInv

LEMMA CompactionInstall ==
  ASSUME CompactionInv, InstallCompactionResults
  PROVE  CompactionInv'
<1>1. DisjointCore /\ AgeInv /\ OrderInv /\ Complete /\ FilesType /\ TaskType
  BY DEF CompactionInv, DisjointCore
<1>2. PICK l, out : InstalledAs(l, out)
  BY <1>1, InstallIs
<1>3. DisjointCore' /\ OrderInv' /\ Complete'
  BY <1>1, <1>2, DisjointInstall, OrderInstall, CompleteInstall
<1>4. AgeInv'
  <2>1. /\ ReplacedBy(l, compaction.in0, compaction.in1, out) /\ mem' = mem
        /\ l \in 0..(LastLevel - 1) /\ compaction \in Work /\ compaction.level = l
        /\ UNION out = Merged \ Dropped(Merged)
    BY <1>2 DEF InstalledAs
  <2>2. compaction.in0 \subseteq Tables(l) /\ compaction.in1 \subseteq Tables(l + 1)
    BY <1>1, <2>1, NotIdle DEF TaskType, Idle
  <2>3. l \in Level /\ l + 1 \in Level
    BY <2>1, Levels01
  <2>4. ASSUME NEW t \in out, NEW d \in t
        PROVE  \E m \in Level : \E u \in Tables(m) : d \in u
    <3>1. d \in Merged
      BY <2>1
    <3>2. PICK u \in compaction.in0 \cup compaction.in1 : d \in u
      BY <3>1 DEF Merged, Inputs
    <3> QED
      BY <2>2, <2>3, <3>2
  <2> QED
    BY <1>1, <2>1, <2>4, AgeReplace
<1> QED
  BY <1>3, <1>4 DEF CompactionInv

\* Every step keeps the invariant.
LEMMA CompactionStep == CompactionInv /\ [Next]_vars => CompactionInv'
<1> SUFFICES ASSUME CompactionInv, [Next]_vars PROVE CompactionInv'
  OBVIOUS
<1>1. ASSUME NEW k \in Key, NEW del \in BOOLEAN, Write(k, del) PROVE CompactionInv'
  BY <1>1, CompactionWrite
<1>2. CASE GetSnapshot
  <2>1. UNCHANGED <<history, mem, level0, below, compaction, cutInside, intruded>>
        /\ snapshots' \subseteq snapshots \cup {LastSequence}
    BY <1>2 DEF GetSnapshot
  <2> QED
    BY <2>1, CompactionSnapshot
<1>3. ASSUME NEW s \in snapshots, ReleaseSnapshot(s) PROVE CompactionInv'
  <2>1. UNCHANGED <<history, mem, level0, below, compaction, cutInside, intruded>>
        /\ snapshots' \subseteq snapshots \cup {LastSequence}
    BY <1>3 DEF ReleaseSnapshot
  <2> QED
    BY <2>1, CompactionSnapshot
<1>4. CASE CompactMemTable
  BY <1>4, CompactionFlush
<1>5. ASSUME NEW l \in 0..(LastLevel - 1), NEW lo \in Key, NEW hi \in Key, CompactRange(l, lo, hi)
      PROVE  CompactionInv'
  BY <1>5, CompactionTask
<1>6. ASSUME NEW l \in 0..(LastLevel - 1), NEW t \in Tables(l), MoveTable(l, t)
      PROVE  CompactionInv'
  BY <1>6, CompactionMove
<1>7. ASSUME NEW l \in 0..(LastLevel - 1), NEW t \in Tables(l), StartCompaction(l, t)
      PROVE  CompactionInv'
  BY <1>7, CompactionTask
<1>8. CASE InstallCompactionResults
  BY <1>8, CompactionInstall
<1>9. CASE UNCHANGED vars
  <2>1. UNCHANGED <<history, mem, level0, below, compaction, cutInside, intruded>>
        /\ snapshots' \subseteq snapshots \cup {LastSequence}
    BY <1>9 DEF vars
  <2> QED
    BY <2>1, CompactionSnapshot
<1> QED
  BY <1>1, <1>2, <1>3, <1>4, <1>5, <1>6, <1>7, <1>8, <1>9 DEF Next

LEMMA InvType == CompactionInv => TypeOK
<1> SUFFICES ASSUME CompactionInv PROVE TypeOK
  OBVIOUS
<1>1. FilesType /\ TaskType
  BY DEF CompactionInv, DisjointCore
<1>2. \A n \in DOMAIN history : history[n].seq = n /\ history[n].key \in Key
  <2>1. history \in Seq(Entry)
    BY <1>1 DEF FilesType
  <2>2. DOMAIN history = 1..Len(history) /\ \A n \in 1..Len(history) : history[n] \in Entry
    BY <2>1, Elements
  <2> QED
    BY <1>1, <2>2, EntryFields DEF FilesType
<1>3. snapshots \subseteq 0..LastSequence
  BY <1>1 DEF FilesType, LastSequence
<1>4. \A l \in Level : \A t \in Tables(l) : t # {} /\ t \subseteq Range(history)
  BY <1>1, TablesAre DEF FilesType, FileSet
<1>5. ~Idle => /\ compaction.in0 \subseteq Tables(compaction.level)
               /\ compaction.in1 \subseteq Tables(compaction.level + 1)
  BY <1>1, NotIdle DEF TaskType, Idle
<1> QED
  BY <1>2, <1>3, <1>4, <1>5 DEF TypeOK

LEMMA InvDisjoint == CompactionInv => LevelsDisjoint
<1> SUFFICES ASSUME CompactionInv, ~intruded, NEW l \in 1..LastLevel,
                    NEW t \in below[l], NEW u \in below[l], t # u
             PROVE  (\A d \in t, e \in u : Before(d, e)) \/ (\A d \in t, e \in u : Before(e, d))
  BY DEF LevelsDisjoint
<1>1. FilesType /\ DisjointInv
  BY DEF CompactionInv, DisjointCore
<1>2. t \in Tables(l) /\ u \in Tables(l)
  BY <1>1, TablesAre
<1>3. Side(t, u)
  BY <1>1, <1>2 DEF DisjointInv
<1> QED
  BY <1>3 DEF Side, AllBefore

LEMMA InvReads == CompactionInv => ReadsRight
<1> SUFFICES ASSUME CompactionInv, ~cutInside, ~intruded,
                    NEW k \in Key, NEW s \in snapshots \cup {LastSequence}
             PROVE  Result(Get(k, s)) = Result(Newest(Range(history), k, s))
  BY DEF ReadsRight, FindsNewest
<1>1. DisjointCore /\ AgeInv /\ OrderInv /\ Complete /\ FilesType
  BY DEF CompactionInv, DisjointCore
<1>2. s \in Nat
  BY <1>1, WrittenIs DEF FilesType
<1>3. Get(k, s) = Newest(Stored, k, s)
  BY <1>1, <1>2, GetFirst
<1>4. Result(Newest(Stored, k, s)) = Result(Newest(Range(history), k, s))
  BY <1>1 DEF Complete
<1> QED
  BY <1>3, <1>4

\* The tables of every level but the first follow each other without overlap,
\* unless a flush came into the gap of a range compaction, and what a
\* compaction under way has taken is still there.
THEOREM LevelsTheorem == Spec => [](TypeOK /\ LevelsDisjoint)
<1>1. CompactionInv => TypeOK /\ LevelsDisjoint
  BY InvType, InvDisjoint
<1> QED
  BY <1>1, CompactionStart, CompactionStep, PTL DEF Spec

\* Every read finds the newest entry its snapshot sees, as long as no
\* compaction cut inside a key and no flush came into such a gap.
THEOREM ReadsTheorem == Spec => []ReadsRight
<1>1. CompactionInv => ReadsRight
  BY InvReads
<1> QED
  BY <1>1, CompactionStart, CompactionStep, PTL DEF Spec
=============================================================================
