----------------------------- MODULE LoopProofs -----------------------------
(***************************************************************************)
(* Proofs about the parts whose operations are loops, the log format and   *)
(* the iterators, each by itself, as MCParts checks them.                  *)
(***************************************************************************)
EXTENDS Parts, NumberFacts, SequenceTheorems

-----------------------------------------------------------------------------
(***************************************************************************)
(* The format of the log.                                                  *)
(***************************************************************************)
\* A function defined by recursion exists: what x is defined by, next[x], is
\* of a smaller rank.
Ranked(D, V, top, rank, stop, next, base, step) ==
  /\ top \in Nat /\ rank \in [D -> 0..top] /\ stop \in SUBSET D
  /\ next \in [D -> D] /\ base \in [D -> V] /\ step \in [D \X V -> V]
  /\ \A x \in D \ stop : rank[next[x]] < rank[x]

LEMMA RecursionExists ==
  ASSUME NEW D, NEW V, NEW top, NEW rank, NEW stop, NEW next, NEW base, NEW step,
         Ranked(D, V, top, rank, stop, next, base, step)
  PROVE  \E f \in [D -> V] : \A x \in D : f[x] = IF x \in stop THEN base[x] ELSE step[<<x, f[next[x]]>>]
<1> USE DEF Ranked
<1> DEFINE S == { k \in Nat : \E f \in [D -> V] : \A x \in D : rank[x] < k =>
                    f[x] = IF x \in stop THEN base[x] ELSE step[<<x, f[next[x]]>>] }
<1>1. 0 \in S
  <2>1. \A x \in D : ~ (rank[x] < 0)
    OBVIOUS
  <2> QED
    BY <2>1
<1>2. ASSUME NEW k \in Nat, k \in S PROVE k + 1 \in S
  <2>1. PICK f \in [D -> V] : \A x \in D : rank[x] < k =>
                    f[x] = IF x \in stop THEN base[x] ELSE step[<<x, f[next[x]]>>]
    BY <1>2
  <2>2. PICK g : g = [x \in D |-> IF x \in stop THEN base[x] ELSE step[<<x, f[next[x]]>>]]
    OBVIOUS
  <2>3. g \in [D -> V]
    BY <2>2
  <2>4. \A x \in D : rank[x] < k => g[x] = f[x]
    BY <2>1, <2>2
  <2>5. ASSUME NEW x \in D, rank[x] < k + 1
        PROVE  g[x] = IF x \in stop THEN base[x] ELSE step[<<x, g[next[x]]>>]
    <3>1. CASE x \in stop
      BY <2>2, <3>1
    <3>2. CASE x \notin stop
      <4>1. rank[x] \in Int /\ rank[next[x]] \in Int /\ next[x] \in D /\ rank[next[x]] < rank[x]
        BY <3>2
      <4>2. g[next[x]] = f[next[x]]
        BY <4>1, <2>4, <2>5
      <4> QED
        BY <2>2, <3>2, <4>2
    <3> QED
      BY <3>1, <3>2
  <2> QED
    BY <2>3, <2>5
<1>3. Nat \subseteq S
  <2> HIDE DEF S
  <2> QED
    BY <1>1, <1>2, NaturalInduction
<1>4. PICK f \in [D -> V] : \A x \in D : rank[x] < top + 1 =>
                    f[x] = IF x \in stop THEN base[x] ELSE step[<<x, f[next[x]]>>]
  <2>1. top + 1 \in S
    <3> HIDE DEF S
    <3> QED
      BY <1>3
  <2> HIDE DEF Ranked
  <2> QED
    BY <2>1, Zenon
<1>5. \A x \in D : rank[x] < top + 1
  OBVIOUS
<1> QED
  BY <1>4, <1>5

\* The end of the block a byte after p is in.
NextEnd(p) == (p \div BlockSize + 1) * BlockSize
Boundary(p) == p % BlockSize = 0

LEMMA BlockFacts ==
  ASSUME NEW p \in Nat
  PROVE  /\ NextEnd(p) \in Nat /\ p < NextEnd(p) /\ NextEnd(p) <= p + BlockSize /\ Boundary(NextEnd(p))
         /\ Boundary(p) => NextEnd(p) = p + BlockSize
         /\ \A q \in Nat : p < q /\ Boundary(q) => NextEnd(p) <= q
         /\ \A q \in Nat : p <= q /\ q < NextEnd(p) => NextEnd(q) = NextEnd(p)
<1>0. BlockSize \in Nat /\ BlockSize > 0
  BY LogAssumption
<1>1. PICK k, m : k = p \div BlockSize /\ m = p % BlockSize
  OBVIOUS
<1>2. k \in Nat /\ m \in 0..(BlockSize - 1) /\ p = BlockSize * k + m
  BY <1>0, <1>1
<1>3. NextEnd(p) = (k + 1) * BlockSize
  BY <1>1 DEF NextEnd
<1>4. (k + 1) * BlockSize = BlockSize * k + BlockSize /\ BlockSize * k \in Nat
  BY <1>0, <1>2
<1>5. ((k + 1) * BlockSize) % BlockSize = 0
  BY <1>0, <1>2
<1>6. ASSUME NEW q \in Nat, p < q, Boundary(q) PROVE NextEnd(p) <= q
  <2>1. PICK j : j = q \div BlockSize
    OBVIOUS
  <2>2. j \in Nat /\ q = BlockSize * j
    BY <1>0, <1>6, <2>1 DEF Boundary
  <2>3. k < j
    <3>1. SUFFICES ASSUME j <= k PROVE FALSE
      BY <1>2, <2>2
    <3>2. BlockSize * j <= BlockSize * k
      BY <1>0, <1>2, <2>2, <3>1
    <3> QED
      BY <1>2, <1>4, <2>2, <1>6, <3>2
  <2>4. (k + 1) * BlockSize <= BlockSize * j
    BY <1>0, <1>2, <2>2, <2>3
  <2> QED
    BY <1>3, <2>2, <2>4
<1>7. ASSUME NEW q \in Nat, p <= q, q < NextEnd(p) PROVE NextEnd(q) = NextEnd(p)
  <2>1. q - BlockSize * k \in 0..(BlockSize - 1) /\ q = BlockSize * k + (q - BlockSize * k)
    BY <1>0, <1>2, <1>3, <1>4, <1>7
  <2>2. q \div BlockSize = k
    BY <1>0, <1>2, <2>1
  <2> QED
    BY <1>3, <2>2 DEF NextEnd
<1>8. Boundary(p) => m = 0
  BY <1>1 DEF Boundary
<1> QED
  BY <1>0, <1>2, <1>3, <1>4, <1>5, <1>6, <1>7, <1>8 DEF Boundary

\* A boundary that is near is the end of the block.
LEMMA NearBoundary ==
  ASSUME NEW p \in Nat, NEW q \in Nat, p < q, q <= p + BlockSize, Boundary(q)
  PROVE  q = NextEnd(p)
<1>1. NextEnd(p) \in Nat /\ p < NextEnd(p) /\ NextEnd(p) <= q
  BY BlockFacts
<1>2. Boundary(NextEnd(p)) /\ NextEnd(NextEnd(p)) = NextEnd(p) + BlockSize
  BY <1>1, BlockFacts
<1>3. NextEnd(p) < q => NextEnd(p) + BlockSize <= q
  BY <1>1, <1>2, BlockFacts
<1>4. BlockSize \in Nat
  BY LogAssumption
<1> QED
  BY <1>1, <1>3, <1>4

\* A block's offset, which may be that of its end.
LEMMA OffsetIs ==
  ASSUME NEW p \in Nat, NEW off \in 0..BlockSize, off <= p, Boundary(p - off)
  PROVE  /\ off < BlockSize => NextEnd(p) = p + BlockSize - off
         /\ Boundary(p + BlockSize - off)
<1>0. BlockSize \in Nat /\ BlockSize > 0
  BY LogAssumption
<1>1. PICK q \in Nat : q = p - off
  BY <1>0
<1>2. NextEnd(q) = q + BlockSize /\ Boundary(q + BlockSize)
  BY <1>1, BlockFacts
<1>3. off < BlockSize => q <= p /\ p < NextEnd(q)
  BY <1>0, <1>1, <1>2
<1>4. off < BlockSize => NextEnd(p) = NextEnd(q)
  BY <1>3, BlockFacts
<1> QED
  BY <1>0, <1>1, <1>2, <1>4

FragType == {"full", "first", "middle", "last"}
Byte == [frag : Nat, at : Nat]
Fragment == [record : Nat, type : FragType, len : Nat]

\* Where the fragment f ends.
EndOf(frs, pos, f) == IF f = 0 THEN 0 ELSE pos[f] + HeaderSize + frs[f].len

\* The bytes are those of the fragments: f begins after pos[f] bytes, and all
\* of it is there, unless it is the torn one.  Up to that one, fragments stay
\* in their block, and between two of them is less than a header, at the end of
\* a block; and as long as there is none the writer knows its place in the block.
Laid(bytes, frs, off, pos, torn) ==
  /\ bytes \in Seq(Byte) /\ frs \in Seq(Fragment) /\ off \in 0..BlockSize
  /\ torn \in 0..Len(frs) /\ pos \in [1..Len(frs) -> Nat]
  /\ \A q \in 1..Len(bytes) :
       \/ bytes[q] = Log!Zero
       \/ \E f \in 1..Len(frs), i \in Nat : i # 0 /\ q = pos[f] + i /\ bytes[q] = [frag |-> f, at |-> i]
  /\ \A f \in 1..Len(frs) \ {torn} :
       /\ EndOf(frs, pos, f) <= Len(bytes)
       /\ \A i \in 1..(HeaderSize + frs[f].len) : bytes[pos[f] + i] = [frag |-> f, at |-> i]
  /\ torn # 0 => \A q \in 1..Len(bytes) : bytes[q] # [frag |-> torn, at |-> HeaderSize + frs[torn].len]
  /\ \A f, g \in 1..Len(frs) \ {torn} : f < g => EndOf(frs, pos, f) <= pos[g]
  /\ \A f \in 1..Len(frs) : torn = 0 \/ f < torn =>
       /\ EndOf(frs, pos, f) <= NextEnd(pos[f])
       /\ \/ pos[f] = EndOf(frs, pos, f - 1)
          \/ /\ Boundary(pos[f]) /\ EndOf(frs, pos, f - 1) < pos[f]
             /\ pos[f] < EndOf(frs, pos, f - 1) + HeaderSize
  /\ torn = 0 =>
       EndOf(frs, pos, Len(frs)) = Len(bytes) /\ off <= Len(bytes) /\ Boundary(Len(bytes) - off)

\* A fragment that the writer cuts at an offset of a block.
Cut(x, off) ==
  /\ x \in [trailer : Nat, type : FragType, len : Nat, offset : Nat]
  /\ x.trailer = Log!Trailer(off)
  /\ x.offset = (IF BlockSize - off < HeaderSize THEN 0 ELSE off) + HeaderSize + x.len
  /\ x.offset <= BlockSize

FragmentOf(x, r) == [record |-> r, type |-> x.type, len |-> x.len]

Joins(c, s, t) == c = s \o t

LEMMA Concat ==
  ASSUME NEW S, NEW s \in Seq(S), NEW t \in Seq(S), NEW c, Joins(c, s, t)
  PROVE  /\ c \in Seq(S) /\ Len(c) = Len(s) + Len(t) /\ Len(s) \in Nat /\ Len(t) \in Nat
         /\ \A i \in 1..Len(s) : c[i] = s[i] /\ i \in 1..Len(c)
         /\ \A i \in 1..Len(t) : c[Len(s) + i] = t[i] /\ Len(s) + i \in 1..Len(c)
         /\ \A q \in 1..Len(c) : q \in 1..Len(s) \/ \E i \in 1..Len(t) : q = Len(s) + i
<1>1. PICK m, n : m = Len(s) /\ n = Len(t)
  OBVIOUS
<1> USE DEF Joins
<1>2. m \in Nat /\ n \in Nat /\ c \in Seq(S) /\ Len(c) = m + n
  BY <1>1
<1>3. \A i \in 1..m : c[i] = s[i] /\ i \in 1..(m + n)
  <2>1. \A i \in 1..m : c[i] = s[i]
    BY <1>1, <1>2
  <2> QED
    BY <1>2, <2>1
<1>4. \A i \in 1..n : c[m + i] = t[i] /\ m + i \in 1..(m + n)
  <2>1. ASSUME NEW i \in 1..n PROVE (s \o t)[m + i] = t[i]
    BY <1>1, <1>2
  <2> QED
    BY <1>1, <1>2, <2>1
<1>5. \A q \in 1..(m + n) : q \in 1..m \/ \E i \in 1..n : q = m + i
  <2>1. ASSUME NEW q \in 1..(m + n), q \notin 1..m PROVE \E i \in 1..n : q = m + i
    <3>1. q - m \in 1..n /\ q = m + (q - m)
      BY <1>2, <2>1
    <3> QED
      BY <3>1
  <2> QED
    BY <2>1
<1> QED
  BY ONLY <1>1, <1>2, <1>3, <1>4, <1>5

\* c is made of the bytes s and then the bytes t.
Joined(c, s, t) ==
  /\ c \in Seq(Byte) /\ Len(c) = Len(s) + Len(t)
  /\ \A i \in 1..Len(s) : c[i] = s[i]
  /\ \A i \in 1..Len(t) : c[Len(s) + i] = t[i]

LEMMA BytesJoin ==
  ASSUME NEW s \in Seq(Byte), NEW t \in Seq(Byte), NEW c, Joins(c, s, t)
  PROVE  Joined(c, s, t)
<1>1. c \in Seq(Byte) /\ Len(c) = Len(s) + Len(t)
  BY Concat
<1>2. \A i \in 1..Len(s) : c[i] = s[i]
  BY Concat
<1>3. \A i \in 1..Len(t) : c[Len(s) + i] = t[i]
  BY Concat
<1> QED
  BY <1>1, <1>2, <1>3 DEF Joined

LEMMA BytesAre ==
  ASSUME NEW x, x.trailer \in Nat, x.len \in Nat, NEW n \in Nat
  PROVE  /\ Log!Bytes(x, n) \in Seq(Byte) /\ Len(Log!Bytes(x, n)) = x.trailer + HeaderSize + x.len
         /\ \A q \in 1..x.trailer : Log!Bytes(x, n)[q] = Log!Zero
         /\ \A i \in 1..(HeaderSize + x.len) : Log!Bytes(x, n)[x.trailer + i] = [frag |-> n, at |-> i]
<1>0. HeaderSize \in Nat
  BY LogAssumption
<1>1. PICK a, w : a = x.trailer /\ w = HeaderSize + x.len
  OBVIOUS
<1>2. a \in Nat /\ w \in Nat /\ a + HeaderSize + x.len = a + w
  BY <1>0, <1>1
<1>3. PICK z, d : z = [i \in 1..a |-> Log!Zero] /\ d = [i \in 1..w |-> [frag |-> n, at |-> i]]
  OBVIOUS
<1>4. z \in Seq(Byte) /\ Len(z) = a /\ \A q \in 1..a : z[q] = Log!Zero
  <2>1. Log!Zero \in Byte
    BY DEF Log!Zero, Byte
  <2> QED
    BY <1>2, <1>3, <2>1
<1>5. d \in Seq(Byte) /\ Len(d) = w /\ \A i \in 1..w : d[i] = [frag |-> n, at |-> i]
  <2>1. \A i \in 1..w : [frag |-> n, at |-> i] \in Byte
    BY <1>2 DEF Byte
  <2> QED
    BY <1>2, <1>3, <2>1
<1>6. PICK b : b = Log!Bytes(x, n)
  OBVIOUS
<1>7. Joins(b, z, d)
  BY <1>1, <1>3, <1>6 DEF Log!Bytes, Joins
<1>8. /\ b \in Seq(Byte) /\ Len(b) = a + w /\ \A q \in 1..a : b[q] = z[q]
      /\ \A i \in 1..w : b[a + i] = d[i]
  <2>1. z \in Seq(Byte) /\ d \in Seq(Byte) /\ Len(z) = a /\ Len(d) = w
    BY <1>4, <1>5
  <2>2. /\ b \in Seq(Byte) /\ Len(b) = Len(z) + Len(d)
        /\ \A i \in 1..Len(z) : b[i] = z[i]
        /\ \A i \in 1..Len(d) : b[Len(z) + i] = d[i]
    <3>1. Joined(b, z, d)
      BY <1>7, <2>1, BytesJoin
    <3> QED
      BY <3>1 DEF Joined
  <2> QED
    BY <2>1, <2>2
<1> QED
  BY <1>1, <1>2, <1>4, <1>5, <1>6, <1>8

\* The facts of a layout, one by one.
LEMMA LaidIs ==
  ASSUME NEW bytes, NEW frs, NEW off, NEW pos, NEW torn, Laid(bytes, frs, off, pos, torn)
  PROVE  /\ Len(bytes) \in Nat /\ Len(frs) \in Nat /\ torn \in Nat /\ off \in Nat
         /\ bytes \in Seq(Byte) /\ frs \in Seq(Fragment)
         /\ \A f \in 1..Len(frs) : pos[f] \in Nat /\ frs[f].len \in Nat /\ frs[f] \in Fragment
         /\ \A f \in 0..Len(frs) : EndOf(frs, pos, f) \in Nat
         /\ EndOf(frs, pos, 0) = 0 /\ \A f \in 1..Len(frs) : EndOf(frs, pos, f) = pos[f] + (HeaderSize + frs[f].len)
<1>1. frs \in Seq(Fragment) /\ bytes \in Seq(Byte) /\ pos \in [1..Len(frs) -> Nat] /\ torn \in 0..Len(frs)
      /\ off \in 0..BlockSize
  BY DEF Laid
<1>2. HeaderSize \in Nat /\ BlockSize \in Nat
  BY LogAssumption
<1>3. Len(frs) \in Nat /\ Len(bytes) \in Nat /\ \A f \in 1..Len(frs) : frs[f] \in Fragment
  BY <1>1
<1>4. \A f \in 1..Len(frs) : pos[f] \in Nat /\ frs[f].len \in Nat
  BY <1>1, <1>3 DEF Fragment
<1>5. \A f \in 1..Len(frs) : EndOf(frs, pos, f) = pos[f] + (HeaderSize + frs[f].len)
  BY <1>2, <1>3, <1>4 DEF EndOf
<1>6. EndOf(frs, pos, 0) = 0
  BY DEF EndOf
<1>7. \A f \in 0..Len(frs) : EndOf(frs, pos, f) \in Nat
  <2>1. ASSUME NEW f \in 0..Len(frs), f # 0 PROVE EndOf(frs, pos, f) \in Nat
    <3>1. f \in 1..Len(frs)
      BY <1>3, <2>1
    <3> QED
      BY <1>2, <1>4, <1>5, <3>1
  <2> QED
    BY <1>6, <2>1
<1> QED
  BY <1>1, <1>2, <1>3, <1>4, <1>5, <1>6, <1>7

LEMMA LaidStart == Laid(<<>>, <<>>, 0, [f \in 1..0 |-> 0], 0)
<1>1. PICK e : e = <<>>
  OBVIOUS
<1>2. e \in Seq(Byte) /\ e \in Seq(Fragment) /\ Len(e) = 0
  BY <1>1
<1>3. PICK p : p = [f \in 1..0 |-> 0]
  OBVIOUS
<1>4. p \in [1..Len(e) -> Nat] /\ 1..Len(e) = {}
  BY <1>2, <1>3
<1>5. BlockSize \in Nat /\ Boundary(0) /\ 0 \in 0..BlockSize
  BY LogAssumption DEF Boundary
<1>6. Laid(e, e, 0, p, 0)
  BY <1>2, <1>4, <1>5 DEF Laid, EndOf
<1> QED
  BY <1>1, <1>3, <1>6

\* Where the writer puts a fragment.
LEMMA CutPlace ==
  ASSUME NEW bytes, NEW frs, NEW off, NEW pos, NEW torn, Laid(bytes, frs, off, pos, torn),
         NEW x, Cut(x, off)
  PROVE  /\ x.trailer \in Nat /\ x.trailer < HeaderSize /\ x.len \in Nat /\ x.offset \in 0..BlockSize
         /\ torn = 0 =>
              LET p == Len(bytes) + x.trailer
              IN  /\ p + (HeaderSize + x.len) <= NextEnd(p)
                  /\ x.trailer = 0 \/ Boundary(p)
                  /\ x.offset <= p + (HeaderSize + x.len) /\ Boundary(p + (HeaderSize + x.len) - x.offset)
<1>1. HeaderSize \in Nat /\ HeaderSize > 0 /\ BlockSize \in Nat /\ BlockSize > HeaderSize /\ off \in 0..BlockSize
  BY LogAssumption DEF Laid
<1>2. x.trailer \in Nat /\ x.len \in Nat /\ x.offset \in Nat /\ x.offset <= BlockSize
  BY DEF Cut
<1>3. x.trailer = IF BlockSize - off < HeaderSize THEN BlockSize - off ELSE 0
  BY DEF Cut, Log!Trailer
<1>4. x.offset = (IF BlockSize - off < HeaderSize THEN 0 ELSE off) + HeaderSize + x.len
  BY DEF Cut
<1>5. PICK n, p, w, t, o : /\ n = Len(bytes) /\ t = x.trailer /\ p = n + t /\ w = HeaderSize + x.len /\ o = x.offset
  OBVIOUS
<1>6. n \in Nat /\ p \in Nat /\ w \in Nat /\ o \in Nat /\ w > 0
  <2>1. Len(bytes) \in Nat
    BY LaidIs
  <2> QED
    BY <1>1, <1>2, <1>5, <2>1
<1>7. ASSUME torn = 0
      PROVE  p + w <= NextEnd(p) /\ (t = 0 \/ Boundary(p)) /\ o <= p + w /\ Boundary(p + w - o)
  <2>1. off <= n /\ Boundary(n - off)
    BY <1>5, <1>7 DEF Laid
  <2>2. (off < BlockSize => NextEnd(n) = n + BlockSize - off) /\ Boundary(n + BlockSize - off)
    BY <1>1, <1>6, <2>1, OffsetIs
  <2>3. CASE BlockSize - off < HeaderSize
    <3>1. t = BlockSize - off /\ o = w /\ p = n + BlockSize - off
      BY <1>1, <1>2, <1>3, <1>4, <1>5, <1>6, <2>3
    <3>2. Boundary(p) /\ NextEnd(p) = p + BlockSize
      BY <1>6, <2>2, <3>1, BlockFacts
    <3>3. PICK u : u = p + w - o
      OBVIOUS
    <3>4. u = p /\ o <= p + w
      BY <1>6, <3>1, <3>3
    <3>5. p + w <= NextEnd(p)
      BY <1>1, <1>2, <1>5, <1>6, <3>1, <3>2
    <3> QED
      BY <3>2, <3>3, <3>4, <3>5
  <2>4. CASE ~ (BlockSize - off < HeaderSize)
    <3>1. t = 0 /\ o = off + w /\ p = n
      BY <1>1, <1>2, <1>3, <1>4, <1>5, <1>6, <2>4
    <3>2. off < BlockSize /\ NextEnd(p) = p + BlockSize - off
      BY <1>1, <2>2, <2>4, <3>1
    <3>3. PICK u, v : u = p + w - o /\ v = n - off
      OBVIOUS
    <3>4. u = v /\ o <= p + w
      BY <1>1, <1>6, <2>1, <3>1, <3>3
    <3>5. p + w <= NextEnd(p)
      BY <1>1, <1>2, <1>5, <1>6, <3>1, <3>2
    <3>6. Boundary(u)
      BY <2>1, <3>3, <3>4
    <3> QED
      BY <3>1, <3>3, <3>4, <3>5, <3>6
  <2> QED
    BY <2>3, <2>4
<1>8. x.trailer < HeaderSize /\ x.offset \in 0..BlockSize
  BY <1>1, <1>2, <1>3
<1> QED
  BY <1>2, <1>5, <1>7, <1>8

\* One more fragment: all of its bytes are written, or the append fails.
Longer(bytes, frs, x, c, f2, torn, torn2) ==
  /\ c \in Seq(Byte) /\ f2 \in Seq(Fragment)
  /\ Len(f2) = Len(frs) + 1 /\ (\A f \in 1..Len(frs) : f2[f] = frs[f]) /\ f2[Len(frs) + 1].len = x.len
  /\ Len(bytes) <= Len(c) /\ Len(c) <= Len(bytes) + x.trailer + (HeaderSize + x.len)
  /\ \A q \in 1..Len(bytes) : c[q] = bytes[q]
  /\ \A q \in 1..Len(c) :
       \/ q \in 1..Len(bytes) \/ c[q] = Log!Zero
       \/ \E i \in 1..(HeaderSize + x.len) : q = Len(bytes) + x.trailer + i /\ c[q] = [frag |-> Len(frs) + 1, at |-> i]
  /\ \/ /\ torn2 = torn /\ Len(c) = Len(bytes) + x.trailer + (HeaderSize + x.len)
        /\ \A i \in 1..(HeaderSize + x.len) : c[Len(bytes) + x.trailer + i] = [frag |-> Len(frs) + 1, at |-> i]
     \/ /\ torn = 0 /\ torn2 = Len(frs) + 1
        /\ Len(c) < Len(bytes) + x.trailer + (HeaderSize + x.len)

LEMMA LaidMore ==
  ASSUME NEW bytes, NEW frs, NEW off, NEW pos, NEW torn, Laid(bytes, frs, off, pos, torn),
         NEW x, Cut(x, off), NEW c, NEW f2, NEW torn2, Longer(bytes, frs, x, c, f2, torn, torn2)
  PROVE  \E pos2 : /\ Laid(c, f2, x.offset, pos2, torn2)
                   /\ \A f \in 1..Len(frs) : pos2[f] = pos[f]
                   /\ torn2 = torn => EndOf(f2, pos2, Len(f2)) = Len(c)
<1> USE DEF Longer
<1>1. PICK n, l, w, p : n = Len(frs) /\ l = Len(bytes) /\ w = HeaderSize + x.len /\ p = Len(bytes) + x.trailer
  OBVIOUS
<1>2. /\ x.trailer \in Nat /\ x.trailer < HeaderSize /\ x.len \in Nat /\ x.offset \in 0..BlockSize
      /\ torn = 0 =>
              /\ p + w <= NextEnd(p)
              /\ x.trailer = 0 \/ Boundary(p)
              /\ x.offset <= p + w /\ Boundary(p + w - x.offset)
  BY <1>1, CutPlace
<1>3. n \in Nat /\ l \in Nat /\ p \in Nat /\ w \in Nat /\ w > 0 /\ l <= p /\ p < l + HeaderSize /\ HeaderSize \in Nat
  <2>1. n \in Nat /\ l \in Nat
    BY <1>1, LaidIs
  <2>2. PICK t, k : t = x.trailer /\ k = x.len
    OBVIOUS
  <2>3. t \in Nat /\ k \in Nat /\ t < HeaderSize /\ HeaderSize \in Nat /\ HeaderSize > 0 /\ p = l + t /\ w = HeaderSize + k
    BY <1>1, <1>2, <2>2, LogAssumption
  <2> QED
    BY ONLY <2>1, <2>3
<1>4. PICK pos2 : pos2 = [f \in 1..(n + 1) |-> IF f <= n THEN pos[f] ELSE p]
  OBVIOUS
<1>5. torn \in 0..n /\ torn2 \in 0..(n + 1) /\ (torn2 = torn \/ (torn = 0 /\ torn2 = n + 1))
  <2>1. torn \in 0..n
    BY <1>1 DEF Laid
  <2>2. torn2 = torn \/ (torn = 0 /\ torn2 = n + 1)
    BY <1>1
  <2> QED
    BY ONLY <1>3, <2>1, <2>2
<1>6. /\ \A f \in 1..n : pos2[f] = pos[f] /\ f2[f] = frs[f] /\ f \in 1..(n + 1)
      /\ pos2[n + 1] = p /\ f2[n + 1].len = x.len /\ n + 1 \in 1..(n + 1)
  <2>1. \A f \in 1..n : f2[f] = frs[f] /\ f \in 1..(n + 1)
    BY <1>1, <1>3
  <2>2. \A f \in 1..n : pos2[f] = pos[f]
    BY <1>3, <1>4
  <2>3. f2[n + 1].len = x.len
    BY <1>1
  <2>4. pos2[n + 1] = p /\ n + 1 \in 1..(n + 1)
    BY <1>3, <1>4
  <2> QED
    BY ONLY <2>1, <2>2, <2>3, <2>4
<1>7. /\ \A f \in 0..n : EndOf(f2, pos2, f) = EndOf(frs, pos, f)
      /\ EndOf(f2, pos2, n + 1) = p + w
  <2>1. ASSUME NEW f \in 0..n PROVE EndOf(f2, pos2, f) = EndOf(frs, pos, f)
    <3>1. f # 0 => f \in 1..n
      BY <1>3
    <3> QED
      BY <1>6, <3>1 DEF EndOf
  <2>2. EndOf(f2, pos2, n + 1) = p + w
    <3> HIDE DEF Longer
    <3>1. EndOf(f2, pos2, n + 1) = pos2[n + 1] + HeaderSize + f2[n + 1].len
      BY <1>3 DEF EndOf
    <3>2. PICK k : k = x.len
      OBVIOUS
    <3>3. k \in Nat /\ w = HeaderSize + k /\ pos2[n + 1] = p /\ f2[n + 1].len = k
      BY <1>1, <1>2, <1>6, <3>2
    <3>4. EndOf(f2, pos2, n + 1) = p + HeaderSize + k
      BY <3>1, <3>3
    <3> QED
      BY <1>3, <3>3, <3>4
  <2> QED
    BY <2>1, <2>2
<1>8. /\ \A f \in 1..n : pos[f] \in Nat /\ frs[f].len \in Nat /\ EndOf(frs, pos, f) = pos[f] + (HeaderSize + frs[f].len)
      /\ \A f \in 0..n : EndOf(frs, pos, f) \in Nat
  BY <1>1, LaidIs
<1>9. pos2 \in [1..(n + 1) -> Nat]
  BY <1>3, <1>4, <1>8
<1>10. ASSUME NEW q \in 1..Len(c)
       PROVE  \/ c[q] = Log!Zero
              \/ \E f \in 1..(n + 1), i \in Nat : i # 0 /\ q = pos2[f] + i /\ c[q] = [frag |-> f, at |-> i]
  <2>1. CASE q \in 1..l
    <3>1. \/ bytes[q] = Log!Zero
          \/ \E f \in 1..n, i \in Nat : i # 0 /\ q = pos[f] + i /\ bytes[q] = [frag |-> f, at |-> i]
      BY <1>1, <2>1 DEF Laid
    <3>2. c[q] = bytes[q]
      BY <1>1, <2>1
    <3> QED
      BY <1>6, <3>1, <3>2
  <2>2. ASSUME NEW i \in 1..w, q = p + i, c[q] = [frag |-> n + 1, at |-> i]
        PROVE  \E f \in 1..(n + 1), j \in Nat : j # 0 /\ q = pos2[f] + j /\ c[q] = [frag |-> f, at |-> j]
    <3>1. i \in Nat /\ i # 0
      BY <1>3, <2>2
    <3> QED
      BY <1>6, <2>2, <3>1
  <2>3. q \in 1..l \/ c[q] = Log!Zero \/ \E i \in 1..w : q = p + i /\ c[q] = [frag |-> n + 1, at |-> i]
    BY <1>1
  <2> QED
    BY <2>1, <2>2, <2>3
<1>11. ASSUME NEW f \in 1..n, f # torn
       PROVE  /\ EndOf(frs, pos, f) <= l
              /\ \A i \in 1..(HeaderSize + frs[f].len) : c[pos[f] + i] = [frag |-> f, at |-> i]
  <2>1. /\ EndOf(frs, pos, f) <= l
        /\ \A i \in 1..(HeaderSize + frs[f].len) : bytes[pos[f] + i] = [frag |-> f, at |-> i]
    BY <1>1, <1>11 DEF Laid
  <2>2. ASSUME NEW i \in 1..(HeaderSize + frs[f].len) PROVE pos[f] + i \in 1..l
    <3>1. pos[f] \in Nat /\ frs[f].len \in Nat /\ EndOf(frs, pos, f) = pos[f] + (HeaderSize + frs[f].len)
      BY <1>8
    <3>2. PICK a, b : a = pos[f] /\ b = HeaderSize + frs[f].len
      OBVIOUS
    <3>3. a \in Nat /\ b \in Nat /\ i \in 1..b /\ a + b <= l
      <4> HIDE DEF Longer
      <4>1. EndOf(frs, pos, f) = a + b /\ i \in 1..b
        BY <2>2, <3>1, <3>2
      <4>2. a \in Nat /\ b \in Nat
        BY <1>3, <3>1, <3>2
      <4> QED
        BY <2>1, <4>1, <4>2
    <3>4. a + i \in 1..l
      BY ONLY <1>3, <3>3
    <3> QED
      BY <3>2, <3>4
  <2>3. \A i \in 1..(HeaderSize + frs[f].len) : c[pos[f] + i] = bytes[pos[f] + i]
    BY <1>1, <2>2
  <2> QED
    BY <2>1, <2>3
<1>12. ASSUME NEW f \in 1..(n + 1), f # torn2
       PROVE  /\ EndOf(f2, pos2, f) <= Len(c)
              /\ \A i \in 1..(HeaderSize + f2[f].len) : c[pos2[f] + i] = [frag |-> f, at |-> i]
  <2>1. CASE f \in 1..n
    <3>1. f # torn
      BY <1>3, <1>5, <1>12, <2>1
    <3>2. /\ EndOf(frs, pos, f) <= l /\ f2[f] = frs[f] /\ pos2[f] = pos[f] /\ f \in 0..n
          /\ \A i \in 1..(HeaderSize + frs[f].len) : c[pos[f] + i] = [frag |-> f, at |-> i]
      BY <1>6, <1>11, <2>1, <3>1
    <3>3. EndOf(f2, pos2, f) <= Len(c)
      BY <1>1, <1>3, <1>7, <1>8, <3>2
    <3> QED
      BY <3>2, <3>3
  <2>2. CASE f = n + 1
    <3>1. torn2 = torn /\ Len(c) = p + w
      BY <1>1, <1>2, <1>3, <1>5, <1>12, <2>2
    <3>2. \A i \in 1..w : c[p + i] = [frag |-> n + 1, at |-> i]
      BY <1>1, <1>3, <1>5, <3>1
    <3> QED
      BY <1>1, <1>3, <1>6, <1>7, <2>2, <3>1, <3>2
  <2> QED
    BY <1>3, <2>1, <2>2
<1>13. ASSUME torn2 # 0, NEW q \in 1..Len(c), c[q] = [frag |-> torn2, at |-> HeaderSize + f2[torn2].len]
       PROVE  FALSE
  <2>1. CASE torn2 = torn
    <3>1. torn # 0 /\ torn \in 1..n /\ f2[torn] = frs[torn]
      BY <1>3, <1>5, <1>6, <1>13, <2>1
    <3>2. q \in 1..l => bytes[q] # c[q]
      BY <1>1, <1>13, <2>1, <3>1 DEF Laid
    <3>3. q \notin 1..l
      BY <1>1, <3>2
    <3>4. c[q] = Log!Zero \/ \E i \in 1..w : c[q] = [frag |-> n + 1, at |-> i]
      BY <1>1, <3>3
    <3>5. c[q].frag = torn
      BY <1>13, <2>1
    <3>6. c[q].frag = 0 \/ c[q].frag = n + 1
      <4>1. c[q] = Log!Zero => c[q].frag = 0
        BY DEF Log!Zero
      <4>2. ASSUME NEW i \in 1..w, c[q] = [frag |-> n + 1, at |-> i] PROVE c[q].frag = n + 1
        BY <4>2
      <4> QED
        BY <3>4, <4>1, <4>2
    <3>7. torn \in Nat /\ torn # 0 /\ torn <= n
      BY <1>3, <3>1
    <3>8. PICK v : v = c[q].frag
      OBVIOUS
    <3>9. v = torn /\ (v = 0 \/ v = n + 1)
      BY <3>5, <3>6, <3>8
    <3> QED
      BY <1>3, <3>7, <3>9
  <2>2. CASE torn = 0 /\ torn2 = n + 1 /\ torn2 # torn
    <3>1. Len(c) < p + w
      BY <1>1, <1>2, <1>3, <2>2
    <3>2. c[q] = [frag |-> n + 1, at |-> w]
      BY <1>1, <1>6, <1>13, <2>2
    <3>3. PICK f \in 1..(n + 1), i \in Nat : i # 0 /\ q = pos2[f] + i /\ c[q] = [frag |-> f, at |-> i]
      <4>1. c[q] # Log!Zero
        BY <1>3, <3>2 DEF Log!Zero
      <4> QED
        BY <1>10, <4>1
    <3>4. f = n + 1 /\ i = w
      BY <3>2, <3>3
    <3> QED
      BY <1>3, <1>6, <3>1, <3>3, <3>4
  <2> QED
    BY <1>5, <2>1, <2>2
<1>14. ASSUME NEW f \in 1..(n + 1), NEW g \in 1..(n + 1), f # torn2, g # torn2, f < g
       PROVE  EndOf(f2, pos2, f) <= pos2[g]
  <2>1. f \in 1..n /\ f \in 0..n /\ f # torn
    BY <1>3, <1>5, <1>14
  <2>2. CASE g \in 1..n
    <3>1. g # torn
      BY <1>3, <1>5, <1>14, <2>2
    <3>2. EndOf(frs, pos, f) <= pos[g]
      BY <1>1, <1>14, <2>1, <2>2, <3>1 DEF Laid
    <3> QED
      BY <1>6, <1>7, <2>1, <2>2, <3>2
  <2>3. CASE g = n + 1
    <3>1. EndOf(frs, pos, f) <= l
      BY <1>11, <2>1
    <3> QED
      BY <1>3, <1>6, <1>7, <1>8, <2>1, <2>3, <3>1
  <2> QED
    BY <1>3, <2>2, <2>3
<1>15. ASSUME NEW f \in 1..(n + 1), torn2 = 0 \/ f < torn2
       PROVE  /\ EndOf(f2, pos2, f) <= NextEnd(pos2[f])
              /\ \/ pos2[f] = EndOf(f2, pos2, f - 1)
                 \/ /\ Boundary(pos2[f]) /\ EndOf(f2, pos2, f - 1) < pos2[f]
                    /\ pos2[f] < EndOf(f2, pos2, f - 1) + HeaderSize
  <2>1. CASE f \in 1..n
    <3>1. torn = 0 \/ f < torn
      BY <1>3, <1>5, <1>15, <2>1
    <3>2. /\ EndOf(frs, pos, f) <= NextEnd(pos[f])
          /\ \/ pos[f] = EndOf(frs, pos, f - 1)
             \/ /\ Boundary(pos[f]) /\ EndOf(frs, pos, f - 1) < pos[f]
                /\ pos[f] < EndOf(frs, pos, f - 1) + HeaderSize
      BY <1>1, <2>1, <3>1 DEF Laid
    <3>3. f \in 0..n /\ f - 1 \in 0..n
      BY <1>3, <2>1
    <3>4. EndOf(f2, pos2, f) = EndOf(frs, pos, f) /\ EndOf(f2, pos2, f - 1) = EndOf(frs, pos, f - 1) /\ pos2[f] = pos[f]
      BY <1>6, <1>7, <2>1, <3>3
    <3> QED
      BY <3>2, <3>4
  <2>2. CASE f = n + 1
    <3>1. torn = 0 /\ f - 1 = n /\ n \in 0..n
      BY <1>3, <1>5, <1>15, <2>2
    <3>2. EndOf(f2, pos2, f - 1) = l
      BY <1>1, <1>7, <3>1 DEF Laid
    <3>3. EndOf(f2, pos2, f) = p + w /\ pos2[f] = p
      BY <1>6, <1>7, <2>2
    <3>4. p + w <= NextEnd(p) /\ (p = l \/ Boundary(p))
      BY <1>1, <1>2, <1>3, <3>1
    <3> QED
      BY <1>3, <3>2, <3>3, <3>4
  <2> QED
    BY <1>3, <2>1, <2>2
<1>16. torn2 = torn => EndOf(f2, pos2, n + 1) = Len(c)
  <2>1. SUFFICES ASSUME torn2 = torn PROVE EndOf(f2, pos2, n + 1) = Len(c)
    OBVIOUS
  <2>2. ~ (torn = 0 /\ torn2 = n + 1)
    BY <1>3, <2>1
  <2>3. Len(c) = Len(bytes) + x.trailer + (HeaderSize + x.len)
    BY <1>1, <2>2
  <2>4. Len(bytes) + x.trailer + (HeaderSize + x.len) = p + w
    BY <1>1
  <2> QED
    BY <1>7, <2>3, <2>4
<1>17. ASSUME torn2 = 0
       PROVE  EndOf(f2, pos2, n + 1) = Len(c) /\ x.offset <= Len(c) /\ Boundary(Len(c) - x.offset)
  <2>1. torn = 0 /\ torn2 = torn
    BY <1>3, <1>5, <1>17
  <2>2. PICK a, b : a = Len(c) /\ b = p + w
    OBVIOUS
  <2>3. Len(c) = Len(bytes) + x.trailer + (HeaderSize + x.len)
    BY <1>3, <1>5, <1>17, <2>1
  <2>4. a = b
    <3>1. PICK t : t = x.trailer
      OBVIOUS
    <3>2. a = l + t + w /\ b = p + w /\ p = l + t
      BY <1>1, <2>2, <2>3, <3>1
    <3>3. t \in Nat
      BY <1>2, <3>1
    <3> QED
      BY ONLY <1>3, <3>2, <3>3
  <2>5. EndOf(f2, pos2, n + 1) = b /\ x.offset <= b /\ Boundary(b - x.offset)
    <3>1. EndOf(f2, pos2, n + 1) = b
      BY <1>7, <2>2
    <3>2. x.offset <= p + w /\ Boundary(p + w - x.offset)
      BY <1>2, <1>17, <2>1
    <3>3. PICK o, u, v : o = x.offset /\ u = p + w - x.offset /\ v = b - x.offset
      OBVIOUS
    <3>4. u = v /\ o <= b
      BY <1>2, <1>3, <2>2, <3>2, <3>3
    <3>5. Boundary(u)
      BY <3>2, <3>3
    <3> QED
      BY <3>1, <3>3, <3>4, <3>5
  <2> QED
    BY <2>2, <2>4, <2>5
<1>18. Len(f2) = n + 1
  BY <1>1
<1>19. Laid(c, f2, x.offset, pos2, torn2)
  <2>1. c \in Seq(Byte) /\ f2 \in Seq(Fragment)
    OBVIOUS
  <2> HIDE DEF Longer
  <2>2. PICK h, o : h = n + 1 /\ o = x.offset
    OBVIOUS
  <2>3. Len(f2) = h /\ o \in 0..BlockSize /\ torn2 \in 0..h /\ pos2 \in [1..h -> Nat]
    BY <1>2, <1>5, <1>9, <1>18, <2>2
  <2>4. \A q \in 1..Len(c) :
          \/ c[q] = Log!Zero
          \/ \E f \in 1..h, i \in Nat : i # 0 /\ q = pos2[f] + i /\ c[q] = [frag |-> f, at |-> i]
    BY <1>10, <2>2
  <2>5. \A f \in 1..h \ {torn2} :
          /\ EndOf(f2, pos2, f) <= Len(c)
          /\ \A i \in 1..(HeaderSize + f2[f].len) : c[pos2[f] + i] = [frag |-> f, at |-> i]
    BY <1>12, <2>2
  <2>6. torn2 # 0 => \A q \in 1..Len(c) : c[q] # [frag |-> torn2, at |-> HeaderSize + f2[torn2].len]
    BY <1>13
  <2>7. \A f, g \in 1..h \ {torn2} : f < g => EndOf(f2, pos2, f) <= pos2[g]
    BY <1>14, <2>2
  <2>8. \A f \in 1..h : torn2 = 0 \/ f < torn2 =>
          /\ EndOf(f2, pos2, f) <= NextEnd(pos2[f])
          /\ \/ pos2[f] = EndOf(f2, pos2, f - 1)
             \/ /\ Boundary(pos2[f]) /\ EndOf(f2, pos2, f - 1) < pos2[f]
                /\ pos2[f] < EndOf(f2, pos2, f - 1) + HeaderSize
    BY <1>15, <2>2
  <2>9. torn2 = 0 => EndOf(f2, pos2, h) = Len(c) /\ o <= Len(c) /\ Boundary(Len(c) - o)
    BY <1>17, <2>2
  <2>10. Laid(c, f2, o, pos2, torn2)
    BY <2>1, <2>3, <2>4, <2>5, <2>6, <2>7, <2>8, <2>9, Zenon DEF Laid
  <2> QED
    BY <2>2, <2>10
<1> QED
  BY <1>1, <1>6, <1>16, <1>18, <1>19

\* The state of the loop of AddRecord.
LoopState(size) == [left : 0..size, at : 0..BlockSize, begin : BOOLEAN]
LoopNext(s) == [left |-> s.left - Log!Piece(s).len, at |-> Log!Piece(s).offset, begin |-> FALSE]

Chunk == [trailer : Nat, type : FragType, len : Nat, offset : Nat]

LEMMA PieceIs ==
  ASSUME NEW size \in Nat, NEW s \in LoopState(size), NEW x, x = Log!Piece(s)
  PROVE  /\ x \in Chunk /\ Cut(x, s.at) /\ x.len <= s.left
         /\ x.type \in {"full", "first"} <=> s.begin
         /\ x.type \in {"full", "last"} <=> x.len = s.left
         /\ x.len # s.left =>
              /\ LoopNext(s) \in LoopState(size) /\ x.offset = BlockSize
              /\ s.at = BlockSize => x.len > 0
<1>1. HeaderSize \in Nat /\ HeaderSize > 0 /\ BlockSize \in Nat /\ BlockSize > HeaderSize
  BY LogAssumption
<1>2. PICK left, at, begin : left = s.left /\ at = s.at /\ begin = s.begin
  OBVIOUS
<1>3. left \in 0..size /\ at \in 0..BlockSize /\ begin \in BOOLEAN
  BY <1>2 DEF LoopState
<1>4. PICK start : start = IF BlockSize - at < HeaderSize THEN 0 ELSE at
  OBVIOUS
<1>5. start \in Nat /\ start + HeaderSize <= BlockSize
  BY <1>1, <1>3, <1>4
<1>6. PICK room : room = BlockSize - start - HeaderSize
  OBVIOUS
<1>7. room \in Nat /\ start + HeaderSize + room = BlockSize
  BY <1>1, <1>5, <1>6
<1>8. PICK len : len = IF left < room THEN left ELSE room
  OBVIOUS
<1>9. len \in Nat /\ len <= left /\ len <= room /\ (len # left => len = room)
  BY <1>3, <1>7, <1>8
<1>10. PICK type : type = IF begin /\ len = left THEN "full" ELSE IF begin THEN "first"
                          ELSE IF len = left THEN "last" ELSE "middle"
  OBVIOUS
<1>11. /\ type \in FragType /\ (type \in {"full", "first"} <=> begin)
       /\ type \in {"full", "last"} <=> len = left
  BY <1>3, <1>10 DEF FragType
<1>12. PICK trailer : trailer = Log!Trailer(at)
  OBVIOUS
<1>13. trailer \in Nat
  BY <1>1, <1>3, <1>12 DEF Log!Trailer
<1>14. x = [trailer |-> trailer, type |-> type, len |-> len, offset |-> start + HeaderSize + len]
  BY <1>2, <1>4, <1>6, <1>8, <1>10, <1>12 DEF Log!Piece, Log!Lesser
<1>15. x.trailer = trailer /\ x.type = type /\ x.len = len /\ x.offset = start + HeaderSize + len
  BY <1>14
<1>16. x \in Chunk /\ x.offset <= BlockSize
  BY <1>1, <1>5, <1>7, <1>9, <1>11, <1>13, <1>14 DEF Chunk
<1>17. Cut(x, s.at)
  BY <1>2, <1>4, <1>12, <1>15, <1>16 DEF Cut, Chunk
<1>18. ASSUME len # left
       PROVE  LoopNext(s) \in LoopState(size) /\ x.offset = BlockSize /\ (s.at = BlockSize => x.len > 0)
  <2>1. x.offset = BlockSize
    BY <1>7, <1>9, <1>15, <1>18
  <2>2. left - len \in 0..size
    BY <1>3, <1>9
  <2>3. LoopNext(s) = [left |-> left - len, at |-> BlockSize, begin |-> FALSE]
    BY <1>2, <1>15, <2>1 DEF LoopNext
  <2>4. LoopNext(s) \in LoopState(size)
    BY <1>1, <2>2, <2>3 DEF LoopState
  <2>5. s.at = BlockSize => start = 0
    BY <1>1, <1>2, <1>4
  <2>6. s.at = BlockSize => len > 0
    BY <1>1, <1>6, <1>9, <1>18, <2>5
  <2> QED
    BY <1>15, <2>1, <2>4, <2>6
<1> QED
  BY <1>2, <1>9, <1>11, <1>15, <1>16, <1>17, <1>18

\* What AddRecord cuts from an offset of a block on: each fragment where the
\* one before it ends, and only the ends are marked as such.
Pieces(fs, off, begin) ==
  /\ fs \in Seq(Chunk) /\ Len(fs) # 0
  /\ \A i \in 1..Len(fs) : /\ Cut(fs[i], IF i = 1 THEN off ELSE fs[i - 1].offset)
                           /\ fs[i].type \in {"full", "first"} <=> i = 1 /\ begin
                           /\ fs[i].type \in {"full", "last"} <=> i = Len(fs)

LEMMA OnePiece ==
  ASSUME NEW x \in Chunk, NEW off, NEW begin \in BOOLEAN, Cut(x, off),
         x.type \in {"full", "first"} <=> begin, x.type \in {"full", "last"}
  PROVE  Pieces(<<x>>, off, begin)
<1>1. PICK fs : fs = <<x>>
  OBVIOUS
<1>2. fs \in Seq(Chunk) /\ Len(fs) = 1 /\ fs[1] = x
  BY <1>1
<1>3. \A i \in 1..1 : i = 1
  OBVIOUS
<1>4. Pieces(fs, off, begin)
  BY <1>2, <1>3 DEF Pieces
<1> QED
  BY <1>1, <1>4

LEMMA MorePieces ==
  ASSUME NEW x \in Chunk, NEW off, NEW begin \in BOOLEAN, Cut(x, off),
         x.type \in {"full", "first"} <=> begin, x.type \notin {"full", "last"},
         NEW gs, Pieces(gs, x.offset, FALSE)
  PROVE  Pieces(<<x>> \o gs, off, begin)
<1>1. PICK fs, s : fs = s \o gs /\ s = <<x>>
  OBVIOUS
<1>2. s \in Seq(Chunk) /\ Len(s) = 1 /\ s[1] = x /\ gs \in Seq(Chunk) /\ Len(gs) # 0 /\ Joins(fs, s, gs)
  BY <1>1 DEF Pieces, Joins
<1>0. s \in Seq(Chunk) /\ gs \in Seq(Chunk) /\ Joins(fs, s, gs)
  BY <1>2
<1>3. PICK n : n = Len(gs)
  OBVIOUS
<1>4. n \in Nat /\ n # 0
  BY <1>2, <1>3
<1>5. fs \in Seq(Chunk)
  BY <1>0, Concat
<1>6. Len(fs) = n + 1
  <2>1. Len(fs) = Len(s) + Len(gs)
    BY <1>0, Concat
  <2> QED
    BY <1>2, <1>3, <1>4, <2>1
<1>7. fs[1] = x
  <2>1. \A i \in 1..Len(s) : fs[i] = s[i]
    BY <1>0, Concat
  <2> QED
    BY <1>2, <2>1
<1>8. \A i \in 1..n : fs[1 + i] = gs[i]
  <2>1. \A i \in 1..Len(gs) : fs[Len(s) + i] = gs[i]
    BY <1>0, Concat
  <2> QED
    BY <1>2, <1>3, <2>1
<1>9. ASSUME NEW i \in 1..(n + 1)
      PROVE  /\ Cut(fs[i], IF i = 1 THEN off ELSE fs[i - 1].offset)
             /\ fs[i].type \in {"full", "first"} <=> i = 1 /\ begin
             /\ fs[i].type \in {"full", "last"} <=> i = n + 1
  <2>1. CASE i = 1
    BY <1>4, <1>7, <2>1
  <2>2. CASE i # 1
    <3>1. PICK j : j = i - 1
      OBVIOUS
    <3>2. j \in 1..n /\ i = 1 + j
      BY <1>4, <2>2, <3>1
    <3>3. fs[i] = gs[j]
      BY <1>8, <3>2
    <3>4. /\ Cut(gs[j], IF j = 1 THEN x.offset ELSE gs[j - 1].offset)
          /\ gs[j].type \notin {"full", "first"}
          /\ gs[j].type \in {"full", "last"} <=> j = n
      BY <1>3, <3>2 DEF Pieces
    <3>5. fs[j].offset = IF j = 1 THEN x.offset ELSE gs[j - 1].offset
      <4>1. CASE j = 1
        BY <1>7, <4>1
      <4>2. CASE j # 1
        <5>1. j - 1 \in 1..n /\ 1 + (j - 1) = j
          BY <1>4, <3>2, <4>2
        <5>2. fs[1 + (j - 1)] = gs[j - 1]
          BY <1>8, <5>1
        <5> QED
          BY <4>2, <5>1, <5>2
      <4> QED
        BY <4>1, <4>2
    <3>6. Cut(gs[j], fs[j].offset)
      BY <3>4, <3>5
    <3>7. j = n <=> i = n + 1
      BY <1>4, <3>2
    <3> QED
      BY <2>2, <3>1, <3>3, <3>4, <3>6, <3>7
  <2> QED
    BY <2>1, <2>2
<1>10. Pieces(fs, off, begin)
  BY <1>5, <1>6, <1>4, <1>9 DEF Pieces
<1> QED
  BY <1>1, <1>10

LEMMA FragmentedIs ==
  ASSUME NEW size \in Nat, NEW off \in 0..BlockSize
  PROVE  Pieces(Log!Fragmented(size, off), off, TRUE)
<1> DEFINE D == LoopState(size)
           V == Seq(Chunk)
           Body(g, s) == IF Log!Piece(s).len = s.left THEN <<Log!Piece(s)>>
                         ELSE <<Log!Piece(s)>> \o
                              g[[left |-> s.left - Log!Piece(s).len, at |-> Log!Piece(s).offset, begin |-> FALSE]]
           f == CHOOSE g : g = [s \in D |-> Body(g, s)]
           rank == [s \in D |-> IF s.at = BlockSize THEN 2 * s.left ELSE 2 * s.left + 1]
           stop == { s \in D : Log!Piece(s).len = s.left }
           next == [s \in D |-> IF s \in stop THEN s ELSE LoopNext(s)]
           base == [s \in D |-> <<Log!Piece(s)>>]
           step == [y \in D \X V |-> <<Log!Piece(y[1])>> \o y[2]]
<1>1. ASSUME NEW s \in D PROVE s.left \in 0..size /\ s.at \in 0..BlockSize /\ s.begin \in BOOLEAN /\ Log!Piece(s) \in Chunk
  <2>1. s.left \in 0..size /\ s.at \in 0..BlockSize /\ s.begin \in BOOLEAN
    BY DEF LoopState
  <2> QED
    BY <2>1, PieceIs
<1>2. ASSUME NEW s \in D \ stop
      PROVE  LoopNext(s) \in D /\ rank[LoopNext(s)] < rank[s]
  <2>1. PICK x : x = Log!Piece(s)
    OBVIOUS
  <2>2. /\ x \in Chunk /\ x.len <= s.left /\ x.len # s.left
        /\ LoopNext(s) \in LoopState(size) /\ x.offset = BlockSize /\ (s.at = BlockSize => x.len > 0)
    BY <2>1, PieceIs
  <2>3. PICK a, b : a = s.left /\ b = x.len
    OBVIOUS
  <2>4. a \in Nat /\ b \in Nat /\ b < a /\ (s.at = BlockSize => b > 0)
    BY <1>1, <2>2, <2>3 DEF Chunk
  <2>5. LoopNext(s).left = a - b /\ LoopNext(s).at = BlockSize
    BY <2>1, <2>2, <2>3 DEF LoopNext
  <2>6. rank[LoopNext(s)] = 2 * (a - b)
    BY <2>2, <2>5
  <2>7. rank[s] = IF s.at = BlockSize THEN 2 * a ELSE 2 * a + 1
    BY <2>3
  <2>8. 2 * (a - b) < (IF s.at = BlockSize THEN 2 * a ELSE 2 * a + 1)
    BY <2>4
  <2> QED
    BY <2>2, <2>6, <2>7, <2>8
<1>3. rank \in [D -> 0..(2 * size + 1)]
  <2>1. \A s \in D : (IF s.at = BlockSize THEN 2 * s.left ELSE 2 * s.left + 1) \in 0..(2 * size + 1)
    BY <1>1
  <2> QED
    BY <2>1
<1>4. next \in [D -> D] /\ stop \in SUBSET D /\ base \in [D -> V] /\ \A x \in D \ stop : rank[next[x]] < rank[x]
  <2>0. stop \in SUBSET D
    <3> HIDE DEF D
    <3> QED
      OBVIOUS
  <2>1. next \in [D -> D] /\ \A x \in D \ stop : rank[next[x]] < rank[x]
    <3> HIDE DEF rank, stop, D
    <3>1. ASSUME NEW x \in D PROVE next[x] = (IF x \in stop THEN x ELSE LoopNext(x)) /\ next[x] \in D
      BY <1>2
    <3>2. next = [x \in D |-> next[x]]
      OBVIOUS
    <3> HIDE DEF next
    <3> QED
      BY <1>2, <3>1, <3>2
  <2>2. base \in [D -> V]
    <3> HIDE DEF D
    <3> QED
      BY <1>1
  <2> QED
    BY <2>0, <2>1, <2>2
<1>5. step \in [D \X V -> V]
  <2>1. ASSUME NEW s \in D, NEW v \in V PROVE <<Log!Piece(s)>> \o v \in V
    BY <1>1
  <2> HIDE DEF D, V
  <2> QED
    BY <2>1
<1>6. 2 * size + 1 \in Nat
  OBVIOUS
<1>7. \E g : g = [s \in D |-> Body(g, s)]
  <2> HIDE DEF D, V, rank, stop, next, base, step
  <2>1. PICK g \in [D -> V] : \A s \in D : g[s] = IF s \in stop THEN base[s] ELSE step[<<s, g[next[s]]>>]
    <3>1. Ranked(D, V, 2 * size + 1, rank, stop, next, base, step)
      BY <1>3, <1>4, <1>5, <1>6 DEF Ranked
    <3> HIDE DEF Body
    <3> QED
      BY <3>1, RecursionExists
  <2>2. ASSUME NEW s \in D PROVE g[s] = Body(g, s)
    <3>1. s \in stop => g[s] = <<Log!Piece(s)>> /\ Log!Piece(s).len = s.left
      BY <2>1 DEF base, stop
    <3>2. ASSUME s \notin stop
          PROVE  g[s] = <<Log!Piece(s)>> \o g[LoopNext(s)] /\ Log!Piece(s).len # s.left
      <4>1. next[s] = LoopNext(s) /\ LoopNext(s) \in D /\ Log!Piece(s).len # s.left
        BY <1>2, <3>2 DEF next, stop
      <4>2. g[LoopNext(s)] \in V
        BY <2>1, <4>1
      <4>3. step[<<s, g[LoopNext(s)]>>] = <<Log!Piece(s)>> \o g[LoopNext(s)]
        BY <4>2 DEF step
      <4> QED
        BY <2>1, <3>2, <4>1, <4>3
    <3> QED
      BY <3>1, <3>2 DEF LoopNext
  <2>3. g = [s \in D |-> g[s]]
    BY <2>1
  <2>4. g = [s \in D |-> Body(g, s)]
    <3> HIDE DEF Body
    <3> QED
      BY <2>2, <2>3
  <2> QED
    BY <2>4
<1>8. f = [s \in D |-> Body(f, s)]
  <2> HIDE DEF Body, D
  <2> QED
    BY <1>7
<1>9. PICK begin : begin = [left |-> size, at |-> off, begin |-> TRUE]
  OBVIOUS
<1>10. Log!Fragmented(size, off) = f[begin]
  BY <1>9 DEF Log!Fragmented, LoopState
<1>11. begin \in D /\ begin.at = off /\ begin.begin = TRUE
  BY <1>9 DEF LoopState
<1> HIDE DEF f
<1> DEFINE T == { k \in Nat : \A s \in D : rank[s] < k => Pieces(f[s], s.at, s.begin) }
<1>12. 0 \in T
  <2>1. \A s \in D : rank[s] \in Nat
    <3> HIDE DEF D, rank
    <3> QED
      BY <1>3
  <2> HIDE DEF D, rank
  <2> QED
    BY <2>1
<1>13. ASSUME NEW k \in Nat, k \in T PROVE k + 1 \in T
  <2>1. SUFFICES ASSUME NEW s \in D, rank[s] < k + 1 PROVE Pieces(f[s], s.at, s.begin)
    BY <1>13
  <2>2. PICK x : x = Log!Piece(s)
    OBVIOUS
  <2>3. /\ x \in Chunk /\ Cut(x, s.at) /\ s.begin \in BOOLEAN
        /\ x.type \in {"full", "first"} <=> s.begin
        /\ x.type \in {"full", "last"} <=> x.len = s.left
    BY <1>1, <2>2, PieceIs
  <2>4. f[s] = Body(f, s)
    <3> HIDE DEF Body, D
    <3> QED
      BY <1>8
  <2>5. CASE x.len = s.left
    <3>1. f[s] = <<x>>
      BY <2>2, <2>4, <2>5
    <3> QED
      BY <2>3, <2>5, <3>1, OnePiece
  <2>6. CASE x.len # s.left
    <3>1. s \in D \ stop
      BY <2>2, <2>6
    <3>2. LoopNext(s) \in D /\ rank[LoopNext(s)] < rank[s] /\ rank[s] \in Nat /\ rank[LoopNext(s)] \in Nat
      <4> HIDE DEF D, rank, stop
      <4> QED
        BY <1>2, <1>3, <3>1
    <3>3. Pieces(f[LoopNext(s)], LoopNext(s).at, LoopNext(s).begin)
      <4> HIDE DEF D, rank
      <4> QED
        BY <1>13, <2>1, <3>2
    <3>4. LoopNext(s).at = x.offset /\ LoopNext(s).begin = FALSE
      BY <2>2 DEF LoopNext
    <3>5. PICK gs : gs = f[LoopNext(s)]
      OBVIOUS
    <3>6. f[s] = <<x>> \o gs
      BY <2>2, <2>4, <2>6, <3>5 DEF LoopNext
    <3>7. Pieces(gs, x.offset, FALSE)
      BY <3>3, <3>4, <3>5
    <3>8. Pieces(<<x>> \o gs, s.at, s.begin)
      BY <2>3, <2>6, <3>7, MorePieces
    <3> QED
      BY <3>6, <3>8
  <2> QED
    BY <2>5, <2>6
<1>14. Nat \subseteq T
  <2> HIDE DEF T
  <2> QED
    BY <1>12, <1>13, NaturalInduction
<1>15. Pieces(f[begin], begin.at, begin.begin)
  <2>1. rank[begin] \in Nat /\ rank[begin] < rank[begin] + 1
    <3> HIDE DEF D, rank
    <3> QED
      BY <1>3, <1>11
  <2> HIDE DEF D, rank
  <2> QED
    BY <1>11, <1>14, <2>1
<1> QED
  BY <1>10, <1>11, <1>15

\* The bytes of the first fragments of fs.
RunOf(u, fs) ==
  /\ u \in [0..Len(fs) -> Seq(Byte)] /\ u[0] = <<>>
  /\ \A i \in 1..Len(fs) : u[i] = u[i - 1] \o Log!Bytes(fs[i], Len(fFragments) + i)

LEMMA ChunkBytes ==
  ASSUME NEW fs \in Seq(Chunk), NEW i \in 1..Len(fs), Len(fFragments) \in Nat
  PROVE  Log!Bytes(fs[i], Len(fFragments) + i) \in Seq(Byte) /\ fs[i] \in Chunk
<1>1. fs[i] \in Chunk /\ i \in Nat
  OBVIOUS
<1>2. fs[i].trailer \in Nat /\ fs[i].len \in Nat /\ Len(fFragments) + i \in Nat
  <2>1. PICK x : x = fs[i]
    OBVIOUS
  <2>2. x.trailer \in Nat /\ x.len \in Nat
    BY <1>1, <2>1 DEF Chunk
  <2>3. Len(fFragments) + i \in Nat
    BY <1>1
  <2> QED
    BY <2>1, <2>2, <2>3
<1> QED
  BY <1>1, <1>2, BytesAre

LEMMA AllBytesAre ==
  ASSUME NEW fs \in Seq(Chunk), Len(fFragments) \in Nat
  PROVE  \E u : RunOf(u, fs) /\ Log!AllBytes(fs) = u[Len(fs)]
<1> DEFINE top == Len(fs)
           D == 0..top
           V == Seq(Byte)
           Body(g, i) == IF i = 0 THEN <<>> ELSE g[i - 1] \o Log!Bytes(fs[i], Len(fFragments) + i)
           f == CHOOSE g : g = [i \in D |-> Body(g, i)]
           rank == [i \in D |-> i]
           next == [i \in D |-> IF i = 0 THEN 0 ELSE i - 1]
           base == [i \in D |-> <<>>]
           step == [y \in D \X V |-> IF y[1] = 0 THEN <<>> ELSE y[2] \o Log!Bytes(fs[y[1]], Len(fFragments) + y[1])]
<1>1. top \in Nat
  OBVIOUS
<1>2. rank \in [D -> 0..top] /\ {0} \in SUBSET D /\ base \in [D -> V]
  <2>1. 0 \in D /\ <<>> \in V
    BY <1>1
  <2> HIDE DEF V, top
  <2> QED
    BY <1>1, <2>1
<1>3. next \in [D -> D] /\ \A i \in D \ {0} : rank[next[i]] < rank[i]
  <2>1. \A i \in D : (IF i = 0 THEN 0 ELSE i - 1) \in D
    BY <1>1
  <2>2. \A i \in D \ {0} : i - 1 \in D /\ i - 1 < i
    BY <1>1
  <2> HIDE DEF D
  <2> QED
    BY <2>1, <2>2
<1>4. ASSUME NEW i \in D, i # 0, NEW v \in V PROVE v \o Log!Bytes(fs[i], Len(fFragments) + i) \in V
  <2>1. PICK t : t = Log!Bytes(fs[i], Len(fFragments) + i)
    OBVIOUS
  <2>2. t \in Seq(Byte)
    BY <1>4, <2>1, ChunkBytes
  <2> QED
    BY <2>1, <2>2
<1>5. step \in [D \X V -> V]
  <2>1. <<>> \in V
    OBVIOUS
  <2> HIDE DEF D, V
  <2> QED
    BY <1>4, <2>1
<1>6. \E g \in [D -> V] : g = [i \in D |-> Body(g, i)]
  <2> HIDE DEF D, V, rank, next, base, step, top
  <2>1. Ranked(D, V, top, rank, {0}, next, base, step)
    BY <1>1, <1>2, <1>3, <1>5 DEF Ranked
  <2>2. PICK g \in [D -> V] : \A i \in D : g[i] = IF i \in {0} THEN base[i] ELSE step[<<i, g[next[i]]>>]
    <3> HIDE DEF Body
    <3> QED
      BY <2>1, RecursionExists
  <2>3. ASSUME NEW i \in D PROVE g[i] = Body(g, i)
    <3>1. CASE i = 0
      BY <2>2, <3>1 DEF base
    <3>2. CASE i # 0
      <4>1. next[i] = i - 1 /\ next[i] \in D
        BY <1>3, <3>2 DEF next
      <4>2. g[next[i]] \in V
        BY <2>2, <4>1
      <4>3. step[<<i, g[next[i]]>>] = g[next[i]] \o Log!Bytes(fs[i], Len(fFragments) + i)
        BY <3>2, <4>2 DEF step
      <4> QED
        BY <2>2, <3>2, <4>1, <4>3
    <3> QED
      BY <3>1, <3>2
  <2>4. g = [i \in D |-> g[i]]
    BY <2>2
  <2>5. g = [i \in D |-> Body(g, i)]
    <3> HIDE DEF Body
    <3> QED
      BY <2>3, <2>4
  <2> QED
    BY <2>5
<1>7. f = [i \in D |-> Body(f, i)]
  <2> HIDE DEF Body, D
  <2> QED
    BY <1>6
<1>8. Log!AllBytes(fs) = f[top]
  BY DEF Log!AllBytes
<1> HIDE DEF f
<1>9. \A i \in D : f[i] = Body(f, i)
  <2> HIDE DEF Body, D
  <2> QED
    BY <1>7
<1>10. \A i \in D : f[i] \in V
  <2> DEFINE T == { k \in Nat : k \in D => f[k] \in V }
  <2>1. 0 \in T
    <3>1. 0 \in D /\ Body(f, 0) = <<>>
      BY <1>1
    <3>2. f[0] = <<>>
      <4> HIDE DEF Body, D
      <4> QED
        BY <1>9, <3>1
    <3>3. <<>> \in V
      OBVIOUS
    <3> QED
      BY <3>2, <3>3
  <2>2. ASSUME NEW k \in Nat, k \in T PROVE k + 1 \in T
    <3>1. SUFFICES ASSUME k + 1 \in D PROVE f[k + 1] \in V
      BY <2>2
    <3>2. k \in D /\ (k + 1) - 1 = k /\ k + 1 # 0
      BY <1>1, <3>1
    <3>3. f[k] \in V
      BY <2>2, <3>2
    <3>4. f[k + 1] = f[k] \o Log!Bytes(fs[k + 1], Len(fFragments) + (k + 1))
      BY <1>9, <3>1, <3>2
    <3> QED
      BY <1>4, <3>1, <3>2, <3>3, <3>4
  <2>3. Nat \subseteq T
    <3> HIDE DEF T
    <3> QED
      BY <2>1, <2>2, NaturalInduction
  <2> QED
    BY <1>1, <2>3
<1>11. f \in [D -> V]
  <2> HIDE DEF Body, D, V
  <2> QED
    BY <1>7, <1>10
<1>12. \A i \in 1..top : f[i] = f[i - 1] \o Log!Bytes(fs[i], Len(fFragments) + i)
  <2>1. \A i \in 1..top : i \in D /\ i # 0
    BY <1>1
  <2> QED
    BY <1>9, <2>1
<1>13. f[0] = <<>>
  BY <1>1, <1>9
<1> QED
  BY <1>8, <1>11, <1>12, <1>13 DEF RunOf

\* What some fragments' bytes are does not depend on those after them.
LEMMA PrefixBytes ==
  ASSUME NEW fs \in Seq(Chunk), Len(fFragments) \in Nat, NEW u, RunOf(u, fs), NEW k \in 0..Len(fs)
  PROVE  Log!AllBytes(SubSeq(fs, 1, k)) = u[k]
<1>1. PICK gs : gs = SubSeq(fs, 1, k)
  OBVIOUS
<1>2. gs \in Seq(Chunk) /\ Len(gs) = k /\ \A i \in 1..k : gs[i] = fs[i]
  BY <1>1
<1>3. PICK v : RunOf(v, gs) /\ Log!AllBytes(gs) = v[k]
  <2>1. \E v : RunOf(v, gs) /\ Log!AllBytes(gs) = v[Len(gs)]
    BY <1>2, AllBytesAre
  <2> QED
    BY <1>2, <2>1
<1> DEFINE T == { i \in Nat : i <= k => v[i] = u[i] }
<1>4. 0 \in T
  BY <1>3 DEF RunOf
<1>5. ASSUME NEW i \in Nat, i \in T PROVE i + 1 \in T
  <2>1. SUFFICES ASSUME i + 1 <= k PROVE v[i + 1] = u[i + 1]
    BY <1>5
  <2>2. v[i] = u[i] /\ i + 1 \in 1..k /\ i + 1 \in 1..Len(fs) /\ (i + 1) - 1 = i
    BY <1>5, <2>1
  <2>3. v[i + 1] = v[(i + 1) - 1] \o Log!Bytes(gs[i + 1], Len(fFragments) + (i + 1))
    BY <1>2, <1>3, <2>2 DEF RunOf
  <2>4. u[i + 1] = u[(i + 1) - 1] \o Log!Bytes(fs[i + 1], Len(fFragments) + (i + 1))
    BY <2>2 DEF RunOf
  <2>5. gs[i + 1] = fs[i + 1]
    BY <1>2, <2>2
  <2> QED
    BY <2>2, <2>3, <2>4, <2>5
<1>6. Nat \subseteq T
  <2> HIDE DEF T
  <2> QED
    BY <1>4, <1>5, NaturalInduction
<1> QED
  BY <1>1, <1>3, <1>6

\* The bytes c are d and then as much as there is of t.
Reaches(c, d, t) ==
  /\ c \in Seq(Byte) /\ d \in Seq(Byte) /\ Len(d) <= Len(c) /\ \A q \in 1..Len(d) : c[q] = d[q]
  /\ \A i \in 1..(Len(c) - Len(d)) : c[Len(d) + i] = t[i]

\* All of the bytes are there, or fewer: then the next fragment is the torn one.
AllThere(c, d, t, frs, torn, torn2) ==
  \/ torn2 = torn /\ Len(c) = Len(d) + Len(t)
  \/ torn = 0 /\ torn2 = Len(frs) + 1 /\ Len(c) < Len(d) + Len(t)

NextBytes(t, x, frs) == t = Log!Bytes(x, Len(frs) + 1)

\* The fragments f2 are frs and one of the length of x.
Follows(f2, frs, x) ==
  /\ f2 \in Seq(Fragment) /\ Len(f2) = Len(frs) + 1 /\ \A f \in 1..Len(frs) : f2[f] = frs[f]
  /\ f2[Len(frs) + 1].len = x.len

LEMMA LaidGrown ==
  ASSUME NEW d, NEW frs, NEW off, NEW pos, NEW torn, Laid(d, frs, off, pos, torn),
         NEW x \in Chunk, Cut(x, off), NEW t, NextBytes(t, x, frs),
         NEW c, Reaches(c, d, t), NEW f2, Follows(f2, frs, x), NEW torn2,
         AllThere(c, d, t, frs, torn, torn2)
  PROVE  \E pos2 : /\ Laid(c, f2, x.offset, pos2, torn2)
                   /\ \A f \in 1..Len(frs) : pos2[f] = pos[f]
                   /\ torn2 = torn => EndOf(f2, pos2, Len(f2)) = Len(c)
<1> USE DEF Reaches, Follows, AllThere, NextBytes
<1>1. PICK n, l, a, w, e : /\ n = Len(frs) /\ l = Len(d) /\ a = x.trailer /\ w = HeaderSize + x.len /\ e = Len(c)
  OBVIOUS
<1>2. HeaderSize \in Nat /\ x.len \in Nat /\ a \in Nat /\ w \in Nat
  <2>1. HeaderSize \in Nat
    BY LogAssumption
  <2>2. x.len \in Nat /\ x.trailer \in Nat
    BY DEF Chunk
  <2> QED
    BY <1>1, <2>1, <2>2
<1>3. n \in Nat /\ l \in Nat /\ e \in Nat
  <2>1. n \in Nat /\ l \in Nat
    BY <1>1, LaidIs
  <2>2. c \in Seq(Byte)
    OBVIOUS
  <2>3. Len(c) \in Nat
    BY ONLY <2>2
  <2> QED
    BY <1>1, <2>1, <2>3
<1>4. /\ Len(t) = a + w
      /\ \A q \in 1..a : t[q] = Log!Zero
      /\ \A i \in 1..w : t[a + i] = [frag |-> n + 1, at |-> i]
  <2>0. x.trailer \in Nat /\ x.len \in Nat /\ n + 1 \in Nat
    BY <1>1, <1>2, <1>3
  <2>1. PICK s : s = Log!Bytes(x, n + 1)
    OBVIOUS
  <2>2. Len(s) = x.trailer + HeaderSize + x.len
    BY <2>0, <2>1, BytesAre
  <2>3. \A q \in 1..x.trailer : s[q] = Log!Zero
    BY <2>0, <2>1, BytesAre
  <2>4. \A i \in 1..(HeaderSize + x.len) : s[x.trailer + i] = [frag |-> n + 1, at |-> i]
    BY <2>0, <2>1, BytesAre
  <2>5. s = t
    BY <1>1, <2>1
  <2>6. x.trailer + HeaderSize + x.len = a + w
    <3>1. PICK k : k = x.len
      OBVIOUS
    <3>2. k \in Nat /\ w = HeaderSize + k /\ a = x.trailer
      BY <1>1, <1>2, <3>1
    <3> QED
      BY <1>2, <3>1, <3>2
  <2> QED
    BY <1>1, <2>2, <2>3, <2>4, <2>5, <2>6
<1>5. l <= e /\ e <= l + a + w /\ \A i \in 1..(e - l) : c[l + i] = t[i]
  <2>1. l <= e /\ \A i \in 1..(e - l) : c[l + i] = t[i]
    BY <1>1
  <2>2. PICK m : m = Len(t)
    OBVIOUS
  <2>3. m = a + w /\ (e = l + m \/ e < l + m)
    BY <1>1, <1>4, <2>2
  <2>4. e <= l + a + w
    <3> HIDE DEF Reaches, Follows, AllThere, NextBytes
    <3> QED
      BY <1>2, <1>3, <2>3
  <2> QED
    BY <2>1, <2>4
<1>6. ASSUME NEW q \in 1..e
      PROVE  \/ q \in 1..l
             \/ c[q] = Log!Zero
             \/ \E i \in 1..w : q = l + a + i /\ c[q] = [frag |-> n + 1, at |-> i]
  <2>1. CASE q <= l
    BY <1>3, <2>1
  <2>2. CASE l < q /\ q <= l + a
    <3>1. PICK i : i = q - l
      OBVIOUS
    <3>2. i \in 1..a /\ i \in 1..(e - l) /\ q = l + i
      BY <1>2, <1>3, <2>2, <3>1
    <3> QED
      BY <1>4, <1>5, <3>2
  <2>3. CASE l + a < q
    <3>1. PICK i : i = q - l - a
      OBVIOUS
    <3>2. i \in 1..w /\ a + i \in 1..(e - l) /\ q = l + (a + i) /\ q = l + a + i
      BY <1>2, <1>3, <1>5, <2>3, <3>1
    <3>3. c[q] = t[a + i]
      BY <1>5, <3>2
    <3> QED
      BY <1>4, <3>2, <3>3
  <2> QED
    BY <1>2, <1>3, <2>1, <2>2, <2>3
<1>7. ASSUME e = l + a + w, NEW i \in 1..w PROVE c[l + a + i] = [frag |-> n + 1, at |-> i]
  <2>1. a + i \in 1..(e - l) /\ l + (a + i) = l + a + i
    BY <1>2, <1>3, <1>7
  <2>2. c[l + (a + i)] = t[a + i]
    BY <1>5, <2>1
  <2> QED
    BY <1>4, <2>1, <2>2
<1>8. \/ torn2 = torn /\ e = l + a + w
      \/ torn = 0 /\ torn2 = n + 1 /\ e < l + a + w
  <2>1. PICK j : j = Len(t)
    OBVIOUS
  <2>2. j = a + w
    BY <1>4, <2>1
  <2>3. \/ torn2 = torn /\ e = l + j
        \/ torn = 0 /\ torn2 = n + 1 /\ e < l + j
    BY <1>1, <2>1
  <2> QED
    BY <1>2, <1>3, <2>2, <2>3
<1>9. l + a + w = Len(d) + x.trailer + (HeaderSize + x.len)
  BY <1>1
<1>10. /\ Len(d) <= Len(c) /\ Len(c) <= Len(d) + x.trailer + (HeaderSize + x.len)
       /\ \A q \in 1..Len(c) : q \in 1..Len(d) \/ c[q] = Log!Zero
                              \/ \E i \in 1..(HeaderSize + x.len) : q = Len(d) + x.trailer + i /\ c[q] = [frag |-> Len(frs) + 1, at |-> i]
  BY <1>1, <1>5, <1>6
<1>11. \/ /\ torn2 = torn /\ Len(c) = Len(d) + x.trailer + (HeaderSize + x.len)
          /\ \A i \in 1..(HeaderSize + x.len) : c[Len(d) + x.trailer + i] = [frag |-> Len(frs) + 1, at |-> i]
       \/ /\ torn = 0 /\ torn2 = Len(frs) + 1
          /\ Len(c) < Len(d) + x.trailer + (HeaderSize + x.len)
  BY <1>1, <1>7, <1>8
<1>12. Longer(d, frs, x, c, f2, torn, torn2)
  BY <1>10, <1>11 DEF Longer
<1> QED
  BY <1>12, LaidMore

\* What is there when a part of some bytes is appended.
Partly(w, v) == w \in Seq(Byte) /\ Len(w) <= Len(v) /\ \A i \in 1..Len(w) : w[i] = v[i]

LEMMA GrownBytes ==
  ASSUME NEW b \in Seq(Byte), NEW s \in Seq(Byte), NEW t \in Seq(Byte), NEW v, Joins(v, s, t),
         NEW w, Partly(w, v), Len(s) <= Len(w), NEW c, Joins(c, b, w), NEW d, Joins(d, b, s)
  PROVE  /\ Reaches(c, d, t)
         /\ Len(c) - Len(d) = Len(w) - Len(s) /\ Len(v) = Len(s) + Len(t)
<1> USE DEF Partly, Reaches
<1>1. PICK m, k, j, n : m = Len(b) /\ k = Len(s) /\ j = Len(t) /\ n = Len(w)
  OBVIOUS
<1>2. m \in Nat /\ k \in Nat /\ j \in Nat /\ n \in Nat
  BY <1>1
<1>3. Len(v) = k + j /\ k <= n /\ n <= k + j
  <2>1. Len(v) = Len(s) + Len(t)
    BY Concat
  <2> QED
    BY <1>1, <2>1
<1>4. /\ \A i \in 1..k : v[i] = s[i]
      /\ \A i \in 1..j : v[k + i] = t[i]
  <2>1. \A i \in 1..Len(s) : v[i] = s[i]
    BY Concat
  <2>2. \A i \in 1..Len(t) : v[Len(s) + i] = t[i]
    BY Concat
  <2> QED
    BY <1>1, <2>1, <2>2
<1>5. c \in Seq(Byte) /\ Len(c) = m + n /\ (\A i \in 1..m : c[i] = b[i]) /\ (\A i \in 1..n : c[m + i] = w[i])
  <2>1. c \in Seq(Byte)
    BY Concat
  <2>2. Len(c) = Len(b) + Len(w)
    BY Concat
  <2>3. \A i \in 1..Len(b) : c[i] = b[i]
    BY Concat
  <2>4. \A i \in 1..Len(w) : c[Len(b) + i] = w[i]
    BY Concat
  <2> QED
    BY <1>1, <2>1, <2>2, <2>3, <2>4
<1>6. d \in Seq(Byte) /\ Len(d) = m + k /\ (\A i \in 1..m : d[i] = b[i]) /\ (\A i \in 1..k : d[m + i] = s[i])
  <2>1. d \in Seq(Byte)
    BY Concat
  <2>2. Len(d) = Len(b) + Len(s)
    BY Concat
  <2>3. \A i \in 1..Len(b) : d[i] = b[i]
    BY Concat
  <2>4. \A i \in 1..Len(s) : d[Len(b) + i] = s[i]
    BY Concat
  <2> QED
    BY <1>1, <2>1, <2>2, <2>3, <2>4
<1>7. \A i \in 1..n : w[i] = v[i]
  BY <1>1
<1>8. ASSUME NEW q \in 1..(m + k) PROVE c[q] = d[q]
  <2>1. CASE q <= m
    BY <1>2, <1>5, <1>6, <2>1
  <2>2. CASE q > m
    <3>1. PICK i : i = q - m
      OBVIOUS
    <3>2. i \in 1..k /\ i \in 1..n /\ q = m + i
      BY <1>2, <1>3, <2>2, <3>1
    <3> QED
      BY <1>4, <1>5, <1>6, <1>7, <3>2
  <2> QED
    BY <1>2, <2>1, <2>2
<1>9. ASSUME NEW i \in 1..(n - k) PROVE c[(m + k) + i] = t[i]
  <2>1. k + i \in 1..n /\ i \in 1..j /\ (m + k) + i = m + (k + i)
    BY <1>2, <1>3
  <2>2. c[m + (k + i)] = w[k + i] /\ w[k + i] = v[k + i] /\ v[k + i] = t[i]
    BY <1>4, <1>5, <1>7, <2>1
  <2> QED
    BY <2>1, <2>2
<1>10. Len(c) - Len(d) = n - k /\ Len(d) <= Len(c)
  BY <1>2, <1>3, <1>5, <1>6
<1>11. \A q \in 1..Len(d) : c[q] = d[q]
  BY <1>6, <1>8
<1>12. \A i \in 1..(Len(c) - Len(d)) : c[Len(d) + i] = t[i]
  BY <1>6, <1>9, <1>10
<1> QED
  BY <1>1, <1>3, <1>5, <1>6, <1>10, <1>11, <1>12

\* The fragments g are frs and those of the first k pieces of record r.
Emits(g, frs, fs, k, r) ==
  /\ g \in Seq(Fragment) /\ Len(g) = Len(frs) + k /\ \A f \in 1..Len(frs) : g[f] = frs[f]
  /\ \A i \in 1..k : g[Len(frs) + i] = FragmentOf(fs[i], r)

\* w is all of v, or less: then the piece after the first k is the torn one.
Written(w, v, torn, torn2, k) ==
  \/ torn2 = torn /\ Len(w) = Len(v)
  \/ torn = 0 /\ torn2 = Len(fFragments) + (k + 1) /\ Len(w) < Len(v)

\* Where a piece starts.
PieceOff(fs, off, k) == IF k = 0 THEN off ELSE fs[k].offset

\* Of the piece after the first k, at least what is before it is written.
PieceWritten(fs, u, r, k, j, d0, g0, w, d, g) ==
  /\ Pieces(fs, fBlockOffset, TRUE) /\ RunOf(u, fs) /\ r \in Nat
  /\ k \in 0..Len(fs) /\ k < Len(fs) /\ j = k + 1
  /\ Joins(d0, fFile, u[k]) /\ Emits(g0, fFragments, fs, k, r)
  /\ Partly(w, u[j]) /\ Len(u[k]) <= Len(w)
  /\ Joins(d, fFile, w) /\ Emits(g, fFragments, fs, j, r)

\* The file is laid out by positions that are the old ones up to fragment n.
Extends(d, g, off, p, torn, torn2, n) ==
  \E p2 : /\ Laid(d, g, off, p2, torn2)
          /\ \A f \in 1..n : p2[f] = p[f]
          /\ torn2 = torn => EndOf(g, p2, Len(g)) = Len(d)

LEMMA RunStep ==
  ASSUME Len(fFragments) \in Nat, fFile \in Seq(Byte),
         NEW fs, NEW u, NEW r, NEW k, NEW j, NEW d0, NEW g0, NEW w, NEW d, NEW g,
         PieceWritten(fs, u, r, k, j, d0, g0, w, d, g),
         NEW p, NEW torn, Laid(d0, g0, PieceOff(fs, fBlockOffset, k), p, torn),
         NEW torn2, Written(w, u[j], torn, torn2, k)
  PROVE  Extends(d, g, fs[j].offset, p, torn, torn2, Len(fFragments) + k)
<1> USE DEF PieceWritten
<1>1. PICK n, x, t, s, v : /\ n = Len(fFragments) /\ x = fs[k + 1] /\ t = Log!Bytes(x, n + (k + 1))
                           /\ s = u[k] /\ v = u[k + 1]
  OBVIOUS
<1>2. fs \in Seq(Chunk) /\ k + 1 \in 1..Len(fs) /\ k \in Nat /\ n \in Nat /\ k + 1 \in 0..Len(fs) /\ (k + 1) - 1 = k
  BY <1>1 DEF Pieces
<1>3. x \in Chunk /\ t \in Seq(Byte)
  BY <1>1, <1>2, ChunkBytes
<1>4. s \in Seq(Byte) /\ v \in Seq(Byte) /\ Joins(v, s, t)
  <2>1. u[k + 1] = u[(k + 1) - 1] \o Log!Bytes(fs[k + 1], Len(fFragments) + (k + 1))
    BY <1>2 DEF RunOf
  <2>2. u[k] \in Seq(Byte) /\ u[k + 1] \in Seq(Byte)
    BY <1>2 DEF RunOf
  <2> QED
    BY <1>1, <1>2, <2>1, <2>2 DEF Joins
<1>5. Len(s) <= Len(w) /\ Partly(w, v) /\ Joins(d0, fFile, s)
  BY <1>1
<1>6. Reaches(d, d0, t) /\ Len(d) - Len(d0) = Len(w) - Len(s) /\ Len(v) = Len(s) + Len(t)
  BY <1>3, <1>4, <1>5, GrownBytes
<1>7. d \in Seq(Byte) /\ d0 \in Seq(Byte) /\ w \in Seq(Byte)
  BY <1>5, <1>6 DEF Reaches, Partly
<1>12. Len(g0) = n + k /\ Len(g) = n + (k + 1) /\ g0 \in Seq(Fragment) /\ g \in Seq(Fragment)
  BY <1>1 DEF Emits
<1>13. t = Log!Bytes(x, Len(g0) + 1)
  <2>1. n + (k + 1) = Len(g0) + 1
    BY <1>2, <1>12
  <2> QED
    BY <1>1, <2>1
<1>14. Cut(x, PieceOff(fs, fBlockOffset, k))
  <2>1. Cut(fs[k + 1], IF k + 1 = 1 THEN fBlockOffset ELSE fs[(k + 1) - 1].offset)
    BY <1>2 DEF Pieces
  <2>2. k + 1 = 1 <=> k = 0
    BY <1>2
  <2> QED
    BY <1>1, <1>2, <2>1, <2>2 DEF PieceOff
<1>15. Len(g) = Len(g0) + 1 /\ \A f \in 1..Len(g0) : g[f] = g0[f]
  <2>1. ASSUME NEW f \in 1..(n + k) PROVE g[f] = g0[f]
    <3>1. CASE f <= n
      BY <1>1, <1>2, <3>1 DEF Emits
    <3>2. CASE f > n
      <4>1. PICK i : i = f - n
        OBVIOUS
      <4>2. i \in 1..k /\ i \in 1..(k + 1) /\ f = n + i
        BY <1>2, <3>2, <4>1
      <4> QED
        BY <1>1, <4>2 DEF Emits
    <3> QED
      BY <1>2, <3>1, <3>2
  <2> QED
    BY <1>2, <1>12, <2>1
<1>16. g[Len(g0) + 1].len = x.len
  <2>1. g[n + (k + 1)] = FragmentOf(x, r)
    BY <1>1, <1>2 DEF Emits
  <2>2. Len(g0) + 1 = n + (k + 1)
    BY <1>2, <1>12
  <2>3. g[Len(g0) + 1] = FragmentOf(x, r)
    BY <2>1, <2>2
  <2>4. FragmentOf(x, r).len = x.len
    BY DEF FragmentOf
  <2> QED
    BY <2>3, <2>4
<1>17. \/ torn2 = torn /\ Len(d) = Len(d0) + Len(t)
       \/ torn = 0 /\ torn2 = Len(g0) + 1 /\ Len(d) < Len(d0) + Len(t)
  <2>1. PICK a, b, c, e, i, m : a = Len(d) /\ b = Len(d0) /\ c = Len(w) /\ e = Len(s) /\ i = Len(v) /\ m = Len(t)
    OBVIOUS
  <2>2. a \in Nat /\ b \in Nat /\ c \in Nat /\ e \in Nat /\ i \in Nat /\ m \in Nat
    <3> HIDE DEF PieceWritten
    <3>1. a \in Nat /\ b \in Nat /\ c \in Nat
      BY <1>7, <2>1
    <3>2. e \in Nat /\ i \in Nat /\ m \in Nat
      BY <1>3, <1>4, <2>1
    <3> QED
      BY <3>1, <3>2
  <2>3. a - b = c - e /\ i = e + m
    BY <1>6, <2>1
  <2>4. (torn2 = torn /\ c = i) \/ (torn = 0 /\ torn2 = n + (k + 1) /\ c < i)
    BY <1>1, <2>1 DEF Written
  <2>5. (torn2 = torn /\ a = b + m) \/ (torn = 0 /\ torn2 = n + (k + 1) /\ a < b + m)
    BY <2>2, <2>3, <2>4
  <2>6. n + (k + 1) = Len(g0) + 1
    BY <1>2, <1>12
  <2> QED
    BY <2>1, <2>5, <2>6
<1>18. PICK off : off = PieceOff(fs, fBlockOffset, k)
  OBVIOUS
<1>19. Laid(d0, g0, off, p, torn) /\ Cut(x, off)
  BY <1>14, <1>18
<1>20. \E pos2 : /\ Laid(d, g, x.offset, pos2, torn2)
                 /\ \A f \in 1..Len(g0) : pos2[f] = p[f]
                 /\ torn2 = torn => EndOf(g, pos2, Len(g)) = Len(d)
  <2>1. Follows(g, g0, x)
    BY <1>12, <1>15, <1>16 DEF Follows
  <2>2. AllThere(d, d0, t, g0, torn, torn2) /\ NextBytes(t, x, g0)
    BY <1>13, <1>17 DEF AllThere, NextBytes
  <2> QED
    BY <1>3, <1>6, <1>19, <2>1, <2>2, LaidGrown
<1> QED
  BY <1>1, <1>12, <1>20 DEF Extends

\* The file and the fragments once the first k pieces of record r are written.
RunLaid(fs, u, r, k, pos, torn) ==
  \A d, g : Joins(d, fFile, u[k]) /\ Emits(g, fFragments, fs, k, r) =>
    \E p2 : /\ Laid(d, g, PieceOff(fs, fBlockOffset, k), p2, torn)
            /\ \A f \in 1..Len(fFragments) : p2[f] = pos[f]
            /\ k # 0 => EndOf(g, p2, Len(g)) = Len(d)

LEMMA EmitsLess ==
  ASSUME NEW frs \in Seq(Fragment), NEW fs, NEW r, NEW j \in Nat, NEW i, i = j + 1,
         NEW g, Emits(g, frs, fs, i, r)
  PROVE  Emits(SubSeq(g, 1, Len(frs) + j), frs, fs, j, r)
<1>1. PICK n, g0 : n = Len(frs) /\ g0 = SubSeq(g, 1, n + j)
  OBVIOUS
<1>2. g \in Seq(Fragment) /\ Len(g) = n + (j + 1) /\ (\A f \in 1..n : g[f] = frs[f])
      /\ (\A h \in 1..(j + 1) : g[n + h] = FragmentOf(fs[h], r)) /\ n \in Nat
  BY <1>1 DEF Emits
<1>3. g0 \in Seq(Fragment) /\ Len(g0) = n + j /\ \A f \in 1..(n + j) : g0[f] = g[f]
  BY <1>1, <1>2
<1>4. \A f \in 1..n : g0[f] = frs[f]
  <2>1. \A f \in 1..n : f \in 1..(n + j)
    BY <1>2
  <2> QED
    BY <1>2, <1>3, <2>1
<1>5. \A h \in 1..j : g0[n + h] = FragmentOf(fs[h], r)
  <2>1. \A h \in 1..j : h \in 1..(j + 1) /\ n + h \in 1..(n + j)
    BY <1>2
  <2> QED
    BY <1>2, <1>3, <2>1
<1> QED
  BY <1>1, <1>3, <1>4, <1>5 DEF Emits

LEMMA LaidRun ==
  ASSUME NEW pos, NEW torn, Laid(fFile, fFragments, fBlockOffset, pos, torn),
         NEW fs, Pieces(fs, fBlockOffset, TRUE), NEW u, RunOf(u, fs), NEW r \in Nat, NEW k \in 0..Len(fs)
  PROVE  RunLaid(fs, u, r, k, pos, torn)
<1> DEFINE P(j) == j <= Len(fs) => RunLaid(fs, u, r, j, pos, torn)
           T == { j \in Nat : P(j) }
<1>1. /\ fFile \in Seq(Byte) /\ fFragments \in Seq(Fragment) /\ Len(fFragments) \in Nat
      /\ fs \in Seq(Chunk) /\ Len(fs) \in Nat
  BY LaidIs DEF Pieces
<1>2. 0 \in T
  <2>1. SUFFICES ASSUME NEW d, NEW g, Joins(d, fFile, u[0]), Emits(g, fFragments, fs, 0, r)
                 PROVE  /\ Laid(d, g, fBlockOffset, pos, torn)
                        /\ \A f \in 1..Len(fFragments) : pos[f] = pos[f]
    BY DEF RunLaid, PieceOff
  <2>2. d = fFile
    <3>1. u[0] = <<>>
      BY DEF RunOf
    <3>2. d = fFile \o <<>>
      BY <2>1, <3>1 DEF Joins
    <3> QED
      BY <1>1, <3>2
  <2>3. g = fFragments
    <3>1. g \in Seq(Fragment) /\ Len(g) = Len(fFragments) /\ \A f \in 1..Len(g) : g[f] = fFragments[f]
      BY <1>1, <2>1 DEF Emits
    <3> QED
      BY <1>1, <3>1, SeqEqual
  <2> QED
    BY <2>2, <2>3
<1>3. ASSUME NEW j \in Nat, j \in T PROVE j + 1 \in T
  <2>1. SUFFICES ASSUME j + 1 <= Len(fs), NEW d, NEW g,
                        Joins(d, fFile, u[j + 1]), Emits(g, fFragments, fs, j + 1, r)
                 PROVE  \E p2 : /\ Laid(d, g, fs[j + 1].offset, p2, torn)
                                /\ \A f \in 1..Len(fFragments) : p2[f] = pos[f]
                                /\ EndOf(g, p2, Len(g)) = Len(d)
    BY <1>3 DEF RunLaid, PieceOff
  <2>2. j \in 0..Len(fs) /\ j < Len(fs) /\ RunLaid(fs, u, r, j, pos, torn)
    BY <1>1, <1>3, <2>1
  <2>3. j + 1 \in 0..Len(fs) /\ j + 1 \in 1..Len(fs) /\ (j + 1) - 1 = j
    BY <1>1, <2>2
  <2>4. u[j] \in Seq(Byte) /\ u[j + 1] \in Seq(Byte)
    BY <2>2, <2>3 DEF RunOf
  <2>5. PICK n, d0, g0, torn2 : /\ torn2 = torn /\ n = Len(fFragments) /\ d0 = fFile \o u[j] /\ g0 = SubSeq(g, 1, n + j)
    OBVIOUS
  <2>6. Emits(g0, fFragments, fs, j, r)
    <3>1. PICK i : i = j + 1
      OBVIOUS
    <3> QED
      BY <1>1, <2>1, <2>5, <3>1, EmitsLess
  <2>7. Joins(d0, fFile, u[j])
    BY <2>5 DEF Joins
  <2>8. PICK p : /\ Laid(d0, g0, PieceOff(fs, fBlockOffset, j), p, torn)
                 /\ \A f \in 1..n : p[f] = pos[f]
    BY <2>2, <2>5, <2>6, <2>7 DEF RunLaid
  <2>9. Partly(u[j + 1], u[j + 1]) /\ Len(u[j]) <= Len(u[j + 1]) /\ Written(u[j + 1], u[j + 1], torn, torn2, j)
    <3>1. PICK t, s, v : t = Log!Bytes(fs[j + 1], n + (j + 1)) /\ s = u[j] /\ v = u[j + 1]
      OBVIOUS
    <3>2. t \in Seq(Byte)
      BY <1>1, <2>3, <2>5, <3>1, ChunkBytes
    <3>3. v = s \o t
      <4>1. u[j + 1] = u[(j + 1) - 1] \o Log!Bytes(fs[j + 1], Len(fFragments) + (j + 1))
        BY <2>3 DEF RunOf
      <4> QED
        BY <2>3, <2>5, <3>1, <4>1
    <3>4. s \in Seq(Byte) /\ v \in Seq(Byte)
      BY <2>4, <3>1
    <3>5. Len(s) \in Nat /\ Len(t) \in Nat /\ Len(v) = Len(s) + Len(t)
      BY <3>2, <3>3, <3>4
    <3>6. Partly(v, v) /\ Len(s) <= Len(v)
      BY <3>4, <3>5 DEF Partly
    <3> QED
      BY <2>5, <3>1, <3>6 DEF Written
  <2>10. \E p2 : /\ Laid(d, g, fs[j + 1].offset, p2, torn)
                 /\ \A f \in 1..(n + j) : p2[f] = p[f]
                 /\ EndOf(g, p2, Len(g)) = Len(d)
    <3>1. PICK i : i = j + 1
      OBVIOUS
    <3>2. Joins(d0, fFile, u[j]) /\ Emits(g0, fFragments, fs, j, r) /\ Laid(d0, g0, PieceOff(fs, fBlockOffset, j), p, torn)
      BY <2>6, <2>7, <2>8
    <3>3. Joins(d, fFile, u[i]) /\ Emits(g, fFragments, fs, i, r)
      BY <2>1, <3>1
    <3>4. Partly(u[i], u[i]) /\ Len(u[j]) <= Len(u[i]) /\ Written(u[i], u[i], torn, torn2, j)
      BY <2>9, <3>1
    <3>5. Len(fFragments) \in Nat /\ fFile \in Seq(Byte) /\ j \in 0..Len(fs) /\ j < Len(fs)
      BY <1>1, <2>2
    <3>7. PieceWritten(fs, u, r, j, i, d0, g0, u[i], d, g)
      BY <3>1, <3>2, <3>3, <3>4, <3>5 DEF PieceWritten
    <3>6. Extends(d, g, fs[i].offset, p, torn, torn2, Len(fFragments) + j)
      BY ONLY <3>2, <3>4, <3>5, <3>7, RunStep
    <3> QED
      BY <2>5, <3>1, <3>6 DEF Extends
  <2>11. \A f \in 1..n : f \in 1..(n + j)
    BY <1>1, <2>5
  <2> QED
    BY <2>5, <2>8, <2>10, <2>11
<1>4. Nat \subseteq T
  <2> HIDE DEF T
  <2> QED
    BY <1>2, <1>3, NaturalInduction
<1> QED
  BY <1>1, <1>4

\* The last fragment of its record, as far as it is written.
LastOf(frs, f) == f = Len(frs) \/ frs[f + 1].record # frs[f].record

\* Records follow one another, and only their ends are marked as such: where
\* nothing failed, both of them.
Recorded(frs, ends, broken) ==
  /\ frs \in Seq(Fragment) /\ ends \in Seq(Nat) /\ broken \in 0..Len(ends)
  /\ \A f \in 1..Len(frs) : frs[f].record \in 1..Len(ends)
  /\ \A f, g \in 1..Len(frs) : f <= g => frs[f].record <= frs[g].record
  /\ \A f \in 1..Len(frs) : frs[f].type \in {"full", "first"} <=> (f = 1 \/ frs[f - 1].record # frs[f].record)
  /\ \A f \in 1..Len(frs) : frs[f].type \in {"full", "last"} => LastOf(frs, f)
  /\ \A f \in 1..Len(frs) : LastOf(frs, f) /\ frs[f].record # broken => frs[f].type \in {"full", "last"}
  /\ \A r \in 1..Len(ends) : \E f \in 1..Len(frs) : frs[f].record = r

\* Where a record ends in the file; and the torn fragment is the last one of
\* the record whose append failed.
Ended(frs, ends, broken, pos, torn) ==
  /\ (torn = 0) <=> (broken = 0)
  /\ torn # 0 => torn \in 1..Len(frs) /\ frs[torn].record = broken /\ LastOf(frs, torn) /\ ends[broken] = 0
  /\ \A f \in 1..Len(frs) : LastOf(frs, f) /\ frs[f].record # broken =>
       ends[frs[f].record] = EndOf(frs, pos, f)

\* A record is added, or k of its pieces and the append fails.
OneRecord(frs, ends, broken, torn, fs, k, g, ends2, broken2, torn2) ==
  /\ k \in 1..Len(fs) /\ \E off : Pieces(fs, off, TRUE)
  /\ Emits(g, frs, fs, k, Len(ends) + 1)
  /\ ends2 \in Seq(Nat) /\ Len(ends2) = Len(ends) + 1 /\ \A r \in 1..Len(ends) : ends2[r] = ends[r]
  /\ \/ k = Len(fs) /\ broken2 = broken /\ torn2 = torn
     \/ broken = 0 /\ broken2 = Len(ends) + 1 /\ torn2 = Len(frs) + k /\ ends2[Len(ends) + 1] = 0

LEMMA RecordedMore ==
  ASSUME NEW frs, NEW ends, NEW broken, Recorded(frs, ends, broken), NEW torn,
         NEW fs, NEW k, NEW g, NEW ends2, NEW broken2, NEW torn2,
         OneRecord(frs, ends, broken, torn, fs, k, g, ends2, broken2, torn2)
  PROVE  Recorded(g, ends2, broken2)
<1> USE DEF OneRecord
<1>1. PICK n, m, r : n = Len(frs) /\ m = Len(ends) /\ r = m + 1
  OBVIOUS
<1>2. /\ n \in Nat /\ m \in Nat /\ k \in Nat /\ k # 0 /\ fs \in Seq(Chunk) /\ Len(fs) \in Nat /\ k <= Len(fs)
      /\ frs \in Seq(Fragment) /\ ends \in Seq(Nat)
  BY <1>1 DEF Recorded, Pieces
<1>3. /\ g \in Seq(Fragment) /\ Len(g) = n + k /\ \A f \in 1..n : g[f] = frs[f]
      /\ \A i \in 1..k : g[n + i] = FragmentOf(fs[i], r)
      /\ ends2 \in Seq(Nat) /\ Len(ends2) = m + 1
  BY <1>1 DEF Emits
<1>4. \A i \in 1..k : /\ g[n + i].record = r /\ g[n + i].type = fs[i].type
                      /\ fs[i].type \in {"full", "first"} <=> i = 1
                      /\ fs[i].type \in {"full", "last"} <=> i = Len(fs)
  <2>1. ASSUME NEW i \in 1..k PROVE g[n + i].record = r /\ g[n + i].type = fs[i].type
    <3>1. g[n + i] = FragmentOf(fs[i], r)
      BY <1>3
    <3>2. FragmentOf(fs[i], r).record = r /\ FragmentOf(fs[i], r).type = fs[i].type
      BY DEF FragmentOf
    <3> QED
      BY <3>1, <3>2
  <2>2. \A i \in 1..k : i \in 1..Len(fs)
    BY <1>2
  <2> QED
    BY <2>1, <2>2 DEF Pieces
<1>5. /\ \A f \in 1..n : frs[f].record \in 1..m
      /\ \A f, h \in 1..n : f <= h => frs[f].record <= frs[h].record
      /\ \A f \in 1..n : frs[f].type \in {"full", "first"} <=> (f = 1 \/ frs[f - 1].record # frs[f].record)
      /\ \A f \in 1..n : frs[f].type \in {"full", "last"} => LastOf(frs, f)
      /\ \A f \in 1..n : LastOf(frs, f) /\ frs[f].record # broken => frs[f].type \in {"full", "last"}
      /\ \A s \in 1..m : \E f \in 1..n : frs[f].record = s
      /\ broken \in 0..m
  BY <1>1 DEF Recorded
<1>6. \A f \in 1..(n + k) : f \in 1..n \/ \E i \in 1..k : f = n + i
  <2>1. ASSUME NEW f \in 1..(n + k), f \notin 1..n PROVE f - n \in 1..k /\ f = n + (f - n)
    BY <1>2, <2>1
  <2> QED
    BY <2>1
<1>7. \A f \in 1..n : g[f] = frs[f] /\ g[f].record \in 1..m /\ g[f].record # r
  BY <1>1, <1>2, <1>3, <1>5
<1>8. broken2 \in 0..(m + 1) /\ (broken2 = broken \/ (broken = 0 /\ broken2 = r))
      /\ (broken2 # r => k = Len(fs) /\ broken2 = broken)
  BY <1>1, <1>2, <1>5
<1>9. \A f \in 1..n : LastOf(g, f) <=> LastOf(frs, f)
  <2>1. ASSUME NEW f \in 1..n PROVE LastOf(g, f) <=> LastOf(frs, f)
    <3>1. CASE f = n
      <4>1. g[n + 1].record = r /\ g[f].record # r
        BY <1>2, <1>4, <1>7
      <4> QED
        BY <1>1, <1>2, <1>3, <3>1, <4>1 DEF LastOf
    <3>2. CASE f # n
      <4>1. f + 1 \in 1..n /\ f # n + k
        BY <1>2, <3>2
      <4>2. g[f + 1] = frs[f + 1] /\ g[f] = frs[f]
        BY <1>7, <4>1
      <4> QED
        BY <1>1, <1>3, <3>2, <4>1, <4>2 DEF LastOf
    <3> QED
      BY <3>1, <3>2
  <2> QED
    BY <2>1
<1>10. \A i \in 1..k : LastOf(g, n + i) <=> i = k
  <2>1. ASSUME NEW i \in 1..k PROVE LastOf(g, n + i) <=> i = k
    <3>1. CASE i = k
      BY <1>3, <3>1 DEF LastOf
    <3>2. CASE i # k
      <4>1. i + 1 \in 1..k /\ (n + i) + 1 = n + (i + 1) /\ n + i # n + k
        BY <1>2, <3>2
      <4>2. g[n + (i + 1)].record = r /\ g[n + i].record = r
        BY <1>4, <4>1
      <4> QED
        BY <1>3, <3>2, <4>1, <4>2 DEF LastOf
    <3> QED
      BY <3>1, <3>2
  <2> QED
    BY <2>1
<1>11. ASSUME NEW f \in 1..(n + k) PROVE g[f].record \in 1..(m + 1)
  <2>1. CASE f \in 1..n
    BY <1>2, <1>7, <2>1
  <2>2. ASSUME NEW i \in 1..k, f = n + i PROVE g[f].record \in 1..(m + 1)
    <3>1. g[f].record = r
      BY <1>4, <2>2
    <3>2. r \in 1..(m + 1)
      BY <1>1, <1>2
    <3> QED
      BY <3>1, <3>2
  <2> QED
    BY <1>6, <2>1, <2>2
<1>12. ASSUME NEW f \in 1..(n + k), NEW h \in 1..(n + k), f <= h PROVE g[f].record <= g[h].record
  <2>1. CASE h \in 1..n
    <3>1. f \in 1..n
      BY <1>2, <1>12, <2>1
    <3> QED
      BY <1>5, <1>7, <1>12, <2>1, <3>1
  <2>2. ASSUME NEW i \in 1..k, h = n + i PROVE g[f].record <= g[h].record
    <3>1. g[h].record = r
      BY <1>4, <2>2
    <3>2. PICK a : a = g[f].record
      OBVIOUS
    <3>3. a \in 1..(m + 1)
      BY <1>11, <3>2
    <3> QED
      BY <1>1, <1>2, <3>1, <3>2, <3>3
  <2> QED
    BY <1>6, <2>1, <2>2
<1>13. ASSUME NEW f \in 1..(n + k)
       PROVE  g[f].type \in {"full", "first"} <=> (f = 1 \/ g[f - 1].record # g[f].record)
  <2>1. CASE f \in 1..n
    <3>1. f # 1 => f - 1 \in 1..n
      BY <1>2, <2>1
    <3> QED
      BY <1>5, <1>7, <2>1, <3>1
  <2>2. ASSUME NEW i \in 1..k, f = n + i
        PROVE  g[f].type \in {"full", "first"} <=> (f = 1 \/ g[f - 1].record # g[f].record)
    <3>1. g[f].record = r /\ (g[f].type \in {"full", "first"} <=> i = 1)
      BY <1>4, <2>2
    <3>2. CASE i = 1
      <4>1. f # 1 => f - 1 \in 1..n
        BY <1>2, <2>2, <3>2
      <4> QED
        BY <1>7, <3>1, <3>2, <4>1
    <3>3. CASE i # 1
      <4>1. i - 1 \in 1..k /\ f - 1 = n + (i - 1) /\ f # 1
        BY <1>2, <2>2, <3>3
      <4>2. g[n + (i - 1)].record = r
        BY <1>4, <4>1
      <4> QED
        BY <3>1, <3>3, <4>1, <4>2
    <3> QED
      BY <3>2, <3>3
  <2> QED
    BY <1>6, <2>1, <2>2
<1>14. ASSUME NEW f \in 1..(n + k)
       PROVE  /\ g[f].type \in {"full", "last"} => LastOf(g, f)
              /\ LastOf(g, f) /\ g[f].record # broken2 => g[f].type \in {"full", "last"}
  <2>1. CASE f \in 1..n
    <3>1. LastOf(g, f) <=> LastOf(frs, f)
      BY <1>9, <2>1
    <3>2. g[f] = frs[f] /\ frs[f].record # 0 /\ frs[f].record # r
      BY <1>5, <1>7, <2>1
    <3>3. frs[f].record # broken2 => frs[f].record # broken
      BY <1>8, <3>2
    <3> QED
      BY <1>5, <2>1, <3>1, <3>2, <3>3
  <2>2. ASSUME NEW i \in 1..k, f = n + i
        PROVE  /\ g[f].type \in {"full", "last"} => LastOf(g, f)
               /\ LastOf(g, f) /\ g[f].record # broken2 => g[f].type \in {"full", "last"}
    <3>1. g[f].record = r /\ (g[f].type \in {"full", "last"} <=> i = Len(fs))
      BY <1>4, <2>2
    <3>2. LastOf(g, f) <=> i = k
      BY <1>10, <2>2
    <3>3. i = Len(fs) => i = k
      BY <1>2
    <3>4. r # broken2 => k = Len(fs)
      BY <1>8
    <3> QED
      BY <3>1, <3>2, <3>3, <3>4
  <2> QED
    BY <1>6, <2>1, <2>2
<1>15. ASSUME NEW s \in 1..(m + 1) PROVE \E f \in 1..(n + k) : g[f].record = s
  <2>1. CASE s \in 1..m
    <3>1. PICK f \in 1..n : frs[f].record = s
      BY <1>5, <2>1
    <3>2. f \in 1..(n + k) /\ g[f] = frs[f]
      BY <1>2, <1>7, <3>1
    <3> QED
      BY <3>1, <3>2
  <2>2. CASE s = r
    <3>1. 1 \in 1..k /\ n + 1 \in 1..(n + k)
      BY <1>2
    <3> QED
      BY <1>4, <2>2, <3>1
  <2> QED
    BY <1>1, <1>2, <2>1, <2>2
<1> QED
  BY <1>3, <1>8, <1>11, <1>12, <1>13, <1>14, <1>15 DEF Recorded

LEMMA EndedMore ==
  ASSUME NEW frs, NEW ends, NEW broken, Recorded(frs, ends, broken), NEW torn, NEW pos,
         Ended(frs, ends, broken, pos, torn),
         NEW fs, NEW k, NEW g, NEW ends2, NEW broken2, NEW torn2,
         OneRecord(frs, ends, broken, torn, fs, k, g, ends2, broken2, torn2),
         NEW pos2, \A f \in 1..Len(frs) : pos2[f] = pos[f],
         broken2 = broken => ends2[Len(ends) + 1] = EndOf(g, pos2, Len(g))
  PROVE  Ended(g, ends2, broken2, pos2, torn2)
<1> USE DEF OneRecord
<1>1. PICK n, m, r : n = Len(frs) /\ m = Len(ends) /\ r = m + 1
  OBVIOUS
<1>2. /\ n \in Nat /\ m \in Nat /\ k \in Nat /\ k # 0
      /\ frs \in Seq(Fragment) /\ ends \in Seq(Nat) /\ broken \in 0..m
  BY <1>1 DEF Recorded, Pieces
<1>3. /\ g \in Seq(Fragment) /\ Len(g) = n + k /\ \A f \in 1..n : g[f] = frs[f]
      /\ \A i \in 1..k : g[n + i] = FragmentOf(fs[i], r)
      /\ ends2 \in Seq(Nat) /\ Len(ends2) = m + 1
  BY <1>1 DEF Emits
<1>4. \A i \in 1..k : g[n + i].record = r
  <2>1. ASSUME NEW i \in 1..k PROVE g[n + i].record = r
    <3>1. g[n + i] = FragmentOf(fs[i], r)
      BY <1>3
    <3>2. FragmentOf(fs[i], r).record = r
      BY DEF FragmentOf
    <3> QED
      BY <3>1, <3>2
  <2> QED
    BY <2>1
<1>5. /\ \A f \in 1..n : frs[f].record \in 1..m
      /\ (torn = 0) <=> (broken = 0)
      /\ torn # 0 => torn \in 1..n /\ frs[torn].record = broken /\ LastOf(frs, torn) /\ ends[broken] = 0
      /\ \A f \in 1..n : LastOf(frs, f) /\ frs[f].record # broken => ends[frs[f].record] = EndOf(frs, pos, f)
  BY <1>1 DEF Recorded, Ended
<1>6. \A f \in 1..(n + k) : f \in 1..n \/ \E i \in 1..k : f = n + i
  <2>1. ASSUME NEW f \in 1..(n + k), f \notin 1..n PROVE f - n \in 1..k /\ f = n + (f - n)
    BY <1>2, <2>1
  <2> QED
    BY <2>1
<1>7. \A f \in 1..n : /\ g[f] = frs[f] /\ g[f].record \in 1..m /\ g[f].record # r /\ EndOf(g, pos2, f) = EndOf(frs, pos, f)
                      /\ f \in 1..(n + k)
  <2>1. ASSUME NEW f \in 1..n PROVE EndOf(g, pos2, f) = EndOf(frs, pos, f)
    BY <1>1, <1>3 DEF EndOf
  <2> QED
    BY <1>1, <1>2, <1>3, <1>5, <2>1
<1>8. \A s \in 1..m : ends2[s] = ends[s]
  BY <1>1
<1>9. \A f \in 1..n : LastOf(g, f) <=> LastOf(frs, f)
  <2>1. ASSUME NEW f \in 1..n PROVE LastOf(g, f) <=> LastOf(frs, f)
    <3>1. CASE f = n
      <4>1. g[n + 1].record = r /\ g[f].record # r
        BY <1>2, <1>4, <1>7
      <4> QED
        BY <1>1, <1>2, <1>3, <3>1, <4>1 DEF LastOf
    <3>2. CASE f # n
      <4>1. f + 1 \in 1..n /\ f # n + k
        BY <1>2, <3>2
      <4>2. g[f + 1] = frs[f + 1] /\ g[f] = frs[f]
        BY <1>7, <4>1
      <4> QED
        BY <1>1, <1>3, <3>2, <4>1, <4>2 DEF LastOf
    <3> QED
      BY <3>1, <3>2
  <2> QED
    BY <2>1
<1>10. ASSUME NEW f \in 1..n, LastOf(g, f), frs[f].record # broken
       PROVE  ends2[g[f].record] = EndOf(g, pos2, f)
  BY <1>5, <1>7, <1>8, <1>9, <1>10
<1>11. ASSUME NEW i \in 1..k, LastOf(g, n + i) PROVE i = k
  <2>1. SUFFICES ASSUME i # k PROVE FALSE
    OBVIOUS
  <2>2. i + 1 \in 1..k /\ (n + i) + 1 = n + (i + 1) /\ n + i # n + k
    BY <1>2, <2>1
  <2>3. g[n + (i + 1)].record = r /\ g[n + i].record = r
    BY <1>4, <2>2
  <2> QED
    BY <1>3, <1>11, <2>2, <2>3 DEF LastOf
<1>12. CASE broken2 = broken /\ torn2 = torn
  <2>1. torn # 0 => torn \in 1..(n + k) /\ g[torn].record = broken /\ LastOf(g, torn) /\ ends2[broken] = 0
    <3>1. ASSUME torn # 0 PROVE torn \in 1..n /\ broken \in 1..m
      BY <1>2, <1>5, <3>1
    <3> QED
      BY <1>5, <1>7, <1>8, <1>9, <3>1
  <2>2. ASSUME NEW f \in 1..(n + k), LastOf(g, f), g[f].record # broken
        PROVE  ends2[g[f].record] = EndOf(g, pos2, f)
    <3>1. CASE f \in 1..n
      BY <1>7, <1>10, <2>2, <3>1
    <3>2. ASSUME NEW i \in 1..k, f = n + i PROVE ends2[g[f].record] = EndOf(g, pos2, f)
      <4>1. i = k /\ g[f].record = r
        BY <1>4, <1>11, <2>2, <3>2
      <4>2. ends2[r] = EndOf(g, pos2, n + k)
        BY <1>1, <1>3, <1>12
      <4> QED
        BY <3>2, <4>1, <4>2
    <3> QED
      BY <1>6, <3>1, <3>2
  <2> QED
    BY <1>3, <1>5, <1>12, <2>1, <2>2 DEF Ended
<1>13. CASE broken = 0 /\ broken2 = r /\ torn2 = n + k /\ ends2[r] = 0
  <2>1. k \in 1..k /\ n + k \in 1..(n + k) /\ n + k # 0 /\ r # 0
    BY <1>1, <1>2
  <2>2. g[n + k].record = r
    BY <1>4, <2>1
  <2>3. LastOf(g, n + k)
    BY <1>3 DEF LastOf
  <2>4. ASSUME NEW f \in 1..(n + k), LastOf(g, f), g[f].record # r
        PROVE  ends2[g[f].record] = EndOf(g, pos2, f)
    <3>1. f \in 1..n
      BY <1>4, <1>6, <2>4
    <3>2. frs[f].record # broken
      BY <1>5, <1>13, <3>1
    <3> QED
      BY <1>10, <2>4, <3>1, <3>2
  <2> QED
    BY <1>3, <1>13, <2>1, <2>2, <2>3, <2>4 DEF Ended
<1> QED
  BY <1>1, <1>12, <1>13

LogGood(pos, torn) ==
  /\ Laid(fFile, fFragments, fBlockOffset, pos, torn)
  /\ Recorded(fFragments, fEnds, fFailed) /\ Ended(fFragments, fEnds, fFailed, pos, torn)

LogInv == \E pos, torn : LogGood(pos, torn)

LEMMA LogStart == Log!Init => LogInv
<1> SUFFICES ASSUME Log!Init PROVE LogInv
  OBVIOUS
<1>1. fFile = <<>> /\ fBlockOffset = 0 /\ fFragments = <<>> /\ fEnds = <<>> /\ fFailed = 0
  BY DEF Log!Init, Log!NoRecord
<1>2. PICK pos : pos = [f \in 1..0 |-> 0]
  OBVIOUS
<1>3. Laid(fFile, fFragments, fBlockOffset, pos, 0)
  BY <1>1, <1>2, LaidStart
<1>4. Len(fFragments) = 0 /\ Len(fEnds) = 0 /\ fFragments \in Seq(Fragment) /\ fEnds \in Seq(Nat)
  BY <1>1
<1>5. 1..0 = {} /\ 0 \in 0..0
  OBVIOUS
<1>6. Recorded(fFragments, fEnds, fFailed)
  BY <1>1, <1>4, <1>5 DEF Recorded
<1>7. Ended(fFragments, fEnds, fFailed, pos, 0)
  BY <1>1, <1>4, <1>5 DEF Ended
<1> QED
  BY <1>3, <1>6, <1>7 DEF LogInv, LogGood

\* What EmitPhysicalRecord adds for the first k pieces of a record.
LEMMA EmittedIs ==
  ASSUME NEW fs \in Seq(Chunk), NEW k \in 0..Len(fs), NEW some, some = SubSeq(fs, 1, k),
         fFragments \in Seq(Fragment), fEnds \in Seq(Nat), Log!Emitted(some)
  PROVE  Emits(fFragments', fFragments, fs, k, Len(fEnds) + 1)
<1>1. some \in Seq(Chunk) /\ Len(some) = k /\ k \in Nat /\ \A i \in 1..k : some[i] = fs[i]
  OBVIOUS
<1>2. PICK r : r = Len(fEnds) + 1
  OBVIOUS
<1>3. PICK t : t = [i \in DOMAIN some |-> [record |-> r, type |-> some[i].type, len |-> some[i].len]]
  OBVIOUS
<1>4. r \in Nat /\ DOMAIN some = 1..k
  BY <1>1, <1>2
<1>5. \A i \in 1..k : t[i] = FragmentOf(fs[i], r) /\ FragmentOf(fs[i], r) \in Fragment
  <2>1. ASSUME NEW i \in 1..k PROVE t[i] = FragmentOf(fs[i], r)
    BY <1>1, <1>3, <1>4 DEF FragmentOf
  <2>2. ASSUME NEW i \in 1..k PROVE FragmentOf(fs[i], r) \in Fragment
    <3>1. some[i] \in Chunk
      BY <1>1
    <3>2. fs[i].type \in FragType /\ fs[i].len \in Nat
      BY <1>1, <3>1 DEF Chunk
    <3> QED
      BY <1>4, <3>2 DEF FragmentOf, Fragment
  <2> QED
    BY <2>1, <2>2
<1>6. t \in Seq(Fragment) /\ Len(t) = k
  <2>1. \A i \in 1..k : t[i] \in Fragment
    BY <1>5
  <2>2. t = [i \in 1..k |-> t[i]]
    BY <1>3, <1>4
  <2>3. t \in [1..k -> Fragment]
    BY <2>1, <2>2
  <2>4. k \in Nat
    BY <1>1
  <2> QED
    BY ONLY <2>3, <2>4
<1>7. PICK g : g = fFragments'
  OBVIOUS
<1>8. Joins(g, fFragments, t)
  BY <1>2, <1>3, <1>7 DEF Log!Emitted, Joins
<1>9. g \in Seq(Fragment)
  BY <1>6, <1>8, Concat
<1>10. Len(g) = Len(fFragments) + Len(t)
  BY <1>6, <1>8, Concat
<1>11. \A f \in 1..Len(fFragments) : g[f] = fFragments[f]
  BY <1>6, <1>8, Concat
<1>12. \A i \in 1..Len(t) : g[Len(fFragments) + i] = t[i]
  <2>1. t \in Seq(Fragment) /\ fFragments \in Seq(Fragment)
    BY <1>6
  <2> QED
    BY ONLY <1>8, <2>1, Concat
<1>13. Emits(g, fFragments, fs, k, r)
  BY <1>5, <1>6, <1>9, <1>10, <1>11, <1>12 DEF Emits
<1> QED
  BY <1>2, <1>7, <1>13

LEMMA LogAdds ==
  ASSUME LogInv, NEW size \in 0..MaxSize, Log!AddRecord(size)
  PROVE  LogInv'
<1>1. PICK pos, torn : LogGood(pos, torn)
  BY DEF LogInv
<1>2. PICK fs : fs = Log!Fragmented(size, fBlockOffset)
  OBVIOUS
<1>3. fBlockOffset \in 0..BlockSize /\ fFragments \in Seq(Fragment) /\ fEnds \in Seq(Nat) /\ fFile \in Seq(Byte)
      /\ Len(fFragments) \in Nat /\ size \in Nat
  BY <1>1, LogAssumption DEF LogGood, Laid, Recorded
<1>4. Pieces(fs, fBlockOffset, TRUE)
  BY <1>2, <1>3, FragmentedIs
<1>5. fs \in Seq(Chunk) /\ Len(fs) \in Nat /\ Len(fs) # 0
  BY <1>4 DEF Pieces
<1>6. PICK u : RunOf(u, fs) /\ Log!AllBytes(fs) = u[Len(fs)]
  BY <1>3, <1>5, AllBytesAre
<1>7. PICK k, r : k = Len(fs) /\ r = Len(fEnds) + 1
  OBVIOUS
<1>8. k \in 0..Len(fs) /\ k \in 1..Len(fs) /\ k # 0 /\ r \in Nat /\ u[k] \in Seq(Byte)
  BY <1>3, <1>5, <1>6, <1>7 DEF RunOf
<1>9. PICK d, g, off, e, b : d = fFile' /\ g = fFragments' /\ off = fBlockOffset' /\ e = fEnds' /\ b = fFailed'
  OBVIOUS
<1>10. /\ d = fFile \o Log!AllBytes(fs) /\ off = fs[Len(fs)].offset
       /\ e = Append(fEnds, Len(d)) /\ b = fFailed /\ Log!Emitted(fs)
  BY <1>2, <1>9 DEF Log!AddRecord, Log!Emitted
<1>11. Joins(d, fFile, u[k])
  BY <1>6, <1>7, <1>10 DEF Joins
<1>12. Emits(g, fFragments, fs, k, r)
  <2>1. fs = SubSeq(fs, 1, k)
    BY <1>5, <1>7, SubSeqFull
  <2> QED
    BY <1>3, <1>5, <1>7, <1>8, <1>9, <1>10, <2>1, EmittedIs
<1>13. RunLaid(fs, u, r, k, pos, torn)
  BY <1>1, <1>4, <1>6, <1>8, LaidRun DEF LogGood
<1>14. PICK p2 : /\ Laid(d, g, off, p2, torn) /\ \A f \in 1..Len(fFragments) : p2[f] = pos[f]
                 /\ EndOf(g, p2, Len(g)) = Len(d)
  <2>1. PieceOff(fs, fBlockOffset, k) = off
    BY <1>7, <1>8, <1>10 DEF PieceOff
  <2> QED
    BY <1>8, <1>11, <1>12, <1>13, <2>1 DEF RunLaid
<1>15. Len(d) \in Nat
  BY <1>14, LaidIs
<1>16. e \in Seq(Nat) /\ Len(e) = Len(fEnds) + 1 /\ (\A s \in 1..Len(fEnds) : e[s] = fEnds[s]) /\ e[Len(fEnds) + 1] = Len(d)
  BY <1>3, <1>10, <1>15
<1>17. OneRecord(fFragments, fEnds, fFailed, torn, fs, k, g, e, b, torn)
  BY <1>4, <1>7, <1>8, <1>10, <1>12, <1>16 DEF OneRecord
<1>18. Recorded(g, e, b)
  BY <1>1, <1>17, RecordedMore DEF LogGood
<1>19. Ended(g, e, b, p2, torn)
  BY <1>1, <1>14, <1>16, <1>17, EndedMore DEF LogGood
<1>20. LogGood(p2, torn)'
  BY <1>9, <1>14, <1>18, <1>19 DEF LogGood
<1> QED
  BY <1>20 DEF LogInv

LEMMA LogFails ==
  ASSUME LogInv, NEW size \in 0..MaxSize, Log!AddRecordFails(size)
  PROVE  LogInv'
<1>1. PICK pos, torn : LogGood(pos, torn)
  BY DEF LogInv
<1>2. PICK fs : fs = Log!Fragmented(size, fBlockOffset)
  OBVIOUS
<1>3. fBlockOffset \in 0..BlockSize /\ fFragments \in Seq(Fragment) /\ fEnds \in Seq(Nat) /\ fFile \in Seq(Byte)
      /\ Len(fFragments) \in Nat /\ size \in Nat
  BY <1>1, LogAssumption DEF LogGood, Laid, Recorded
<1>4. Pieces(fs, fBlockOffset, TRUE)
  BY <1>2, <1>3, FragmentedIs
<1>5. fs \in Seq(Chunk) /\ Len(fs) \in Nat /\ DOMAIN fs = 1..Len(fs)
  BY <1>4 DEF Pieces
<1>6. PICK u : RunOf(u, fs)
  BY <1>3, <1>5, AllBytesAre
<1>piece. PICK i \in 1..Len(fs) :
         \E n \in Len(Log!AllBytes(SubSeq(fs, 1, i - 1)))..(Len(Log!AllBytes(SubSeq(fs, 1, i))) - 1) :
           /\ fFile' = fFile \o SubSeq(Log!AllBytes(SubSeq(fs, 1, i)), 1, n)
           /\ Log!Emitted(SubSeq(fs, 1, i))
  BY <1>2, <1>5 DEF Log!AddRecordFails
<1>7. PICK n \in Len(Log!AllBytes(SubSeq(fs, 1, i - 1)))..(Len(Log!AllBytes(SubSeq(fs, 1, i))) - 1) :
        /\ fFile' = fFile \o SubSeq(Log!AllBytes(SubSeq(fs, 1, i)), 1, n)
        /\ Log!Emitted(SubSeq(fs, 1, i))
  BY <1>piece
<1>8. fFailed = 0 /\ fEnds' = Append(fEnds, 0) /\ fFailed' = Len(fEnds')
  BY DEF Log!AddRecordFails, Log!NoRecord, Log!Lost
<1>9. PICK k, r, w : k = i - 1 /\ r = Len(fEnds) + 1 /\ w = SubSeq(u[i], 1, n)
  OBVIOUS
<1>10. k \in 0..Len(fs) /\ k < Len(fs) /\ i = k + 1 /\ r \in Nat /\ i \in 0..Len(fs) /\ k \in Nat
  BY <1>3, <1>5, <1>9
<1>11. Log!AllBytes(SubSeq(fs, 1, i)) = u[i] /\ Log!AllBytes(SubSeq(fs, 1, k)) = u[k]
  BY <1>3, <1>5, <1>6, <1>10, PrefixBytes
<1>12. u[i] \in Seq(Byte) /\ u[k] \in Seq(Byte) /\ n \in Len(u[k])..(Len(u[i]) - 1)
  BY <1>6, <1>7, <1>9, <1>10, <1>11 DEF RunOf
<1>13. Partly(w, u[i]) /\ Len(u[k]) <= Len(w) /\ Len(w) < Len(u[i])
  <2>1. PICK v, m : v = u[i] /\ m = Len(u[k])
    OBVIOUS
  <2>2. v \in Seq(Byte) /\ m \in Nat /\ n \in m..(Len(v) - 1) /\ w = SubSeq(v, 1, n)
    BY <1>9, <1>12, <2>1
  <2>3. w \in Seq(Byte) /\ Len(w) = n /\ \A j \in 1..n : w[j] = v[j]
    BY <2>2
  <2>4. Len(v) \in Nat /\ n \in Nat /\ m <= n /\ n < Len(v) /\ n <= Len(v)
    BY <2>2
  <2>5. Partly(w, v)
    BY <2>3, <2>4 DEF Partly
  <2>6. m <= Len(w) /\ Len(w) < Len(v)
    BY <2>3, <2>4
  <2> QED
    BY <2>1, <2>5, <2>6
<1>14. PICK d, g, off, e, b : d = fFile' /\ g = fFragments' /\ off = fBlockOffset' /\ e = fEnds' /\ b = fFailed'
  OBVIOUS
<1>15. Joins(d, fFile, w) /\ off = fs[i].offset
  <2>1. PICK some : some = SubSeq(fs, 1, i)
    OBVIOUS
  <2>2. Len(some) = i /\ some[i] = fs[i]
    BY <1>5, <2>1
  <2>3. off = some[Len(some)].offset
    BY <1>7, <1>14, <2>1 DEF Log!Emitted
  <2> QED
    BY <1>7, <1>9, <1>11, <1>14, <2>2, <2>3 DEF Joins
<1>16. Emits(g, fFragments, fs, i, r)
  <2>1. PICK some : some = SubSeq(fs, 1, i)
    OBVIOUS
  <2>2. Log!Emitted(some)
    BY <1>7, <2>1
  <2> QED
    BY <1>3, <1>5, <1>9, <1>10, <1>14, <2>1, <2>2, EmittedIs
<1>17. PICK d0, g0 : d0 = fFile \o u[k] /\ g0 = SubSeq(g, 1, Len(fFragments) + k)
  OBVIOUS
<1>18. Joins(d0, fFile, u[k]) /\ Emits(g0, fFragments, fs, k, r)
  BY <1>3, <1>10, <1>16, <1>17, EmitsLess DEF Joins
<1>19. RunLaid(fs, u, r, k, pos, torn)
  BY <1>1, <1>4, <1>6, <1>10, LaidRun DEF LogGood
<1>20. PICK p : Laid(d0, g0, PieceOff(fs, fBlockOffset, k), p, torn) /\ \A f \in 1..Len(fFragments) : p[f] = pos[f]
  BY <1>18, <1>19 DEF RunLaid
<1>21. PICK torn2 : torn2 = Len(fFragments) + (k + 1)
  OBVIOUS
<1>22. torn = 0
  BY <1>1, <1>8 DEF LogGood, Ended
<1>23. PieceWritten(fs, u, r, k, i, d0, g0, w, d, g) /\ Written(w, u[i], torn, torn2, k)
  BY <1>4, <1>6, <1>10, <1>13, <1>15, <1>16, <1>18, <1>21, <1>22 DEF PieceWritten, Written
<1>24. Extends(d, g, fs[i].offset, p, torn, torn2, Len(fFragments) + k)
  BY <1>3, <1>20, <1>23, RunStep
<1>25. PICK p2 : Laid(d, g, off, p2, torn2) /\ \A f \in 1..Len(fFragments) : p2[f] = pos[f]
  <2>1. \A f \in 1..Len(fFragments) : f \in 1..(Len(fFragments) + k)
    BY <1>3, <1>10
  <2> QED
    BY <1>15, <1>20, <1>24, <2>1 DEF Extends
<1>26. e \in Seq(Nat) /\ Len(e) = Len(fEnds) + 1 /\ (\A s \in 1..Len(fEnds) : e[s] = fEnds[s]) /\ e[Len(fEnds) + 1] = 0
       /\ b = Len(fEnds) + 1
  BY <1>3, <1>8, <1>14
<1>27. OneRecord(fFragments, fEnds, fFailed, torn, fs, i, g, e, b, torn2)
  <2>1. torn2 = Len(fFragments) + i
    BY <1>10, <1>21
  <2> QED
    BY <1>4, <1>8, <1>9, <1>16, <1>26, <2>1 DEF OneRecord
<1>28. Recorded(g, e, b)
  BY <1>1, <1>27, RecordedMore DEF LogGood
<1>29. Ended(g, e, b, p2, torn2)
  <2>1. b # fFailed
    BY <1>3, <1>8, <1>26
  <2> QED
    BY <1>1, <1>25, <1>27, <2>1, EndedMore DEF LogGood
<1>30. LogGood(p2, torn2)'
  BY <1>14, <1>25, <1>28, <1>29 DEF LogGood
<1> QED
  BY <1>30 DEF LogInv

LEMMA LogStep == LogInv /\ [Log!Next]_Log!vars => LogInv'
<1> SUFFICES ASSUME LogInv, [Log!Next]_Log!vars PROVE LogInv'
  OBVIOUS
<1>1. CASE UNCHANGED Log!vars
  BY <1>1 DEF LogInv, LogGood, Log!vars
<1>2. CASE Log!Next
  BY <1>2, LogAdds, LogFails DEF Log!Next
<1> QED
  BY <1>1, <1>2

\* Where fragment f ends.
FragEnd(pos, f) == EndOf(fFragments, pos, f)

LEMMA Places ==
  ASSUME NEW pos, NEW torn, LogGood(pos, torn)
  PROVE  /\ Len(fFile) \in Nat /\ Len(fFragments) \in Nat /\ torn \in Nat
         /\ \A f \in 1..Len(fFragments) :
              /\ pos[f] \in Nat /\ fFragments[f].len \in Nat /\ FragEnd(pos, f) \in Nat
              /\ FragEnd(pos, f) = pos[f] + HeaderSize + fFragments[f].len /\ pos[f] + HeaderSize <= FragEnd(pos, f)
         /\ \A f, g \in 1..Len(fFragments) : f # torn /\ g # torn /\ f < g => FragEnd(pos, f) <= pos[g]
         /\ FragEnd(pos, 0) = 0 /\ HeaderSize \in Nat /\ HeaderSize > 0
<1>1. Laid(fFile, fFragments, fBlockOffset, pos, torn)
  BY DEF LogGood
<1>2. HeaderSize \in Nat /\ HeaderSize > 0
  BY LogAssumption
<1>3. /\ Len(fFile) \in Nat /\ Len(fFragments) \in Nat /\ torn \in Nat
      /\ \A f \in 1..Len(fFragments) : pos[f] \in Nat /\ fFragments[f].len \in Nat
      /\ \A f \in 1..Len(fFragments) : EndOf(fFragments, pos, f) = pos[f] + (HeaderSize + fFragments[f].len)
      /\ EndOf(fFragments, pos, 0) = 0
  BY <1>1, LaidIs
<1>4. ASSUME NEW f \in 1..Len(fFragments)
      PROVE  /\ FragEnd(pos, f) \in Nat
             /\ FragEnd(pos, f) = pos[f] + HeaderSize + fFragments[f].len /\ pos[f] + HeaderSize <= FragEnd(pos, f)
  <2>1. PICK a, l, e : a = pos[f] /\ l = fFragments[f].len /\ e = FragEnd(pos, f)
    OBVIOUS
  <2>2. a \in Nat /\ l \in Nat /\ e = a + (HeaderSize + l)
    BY <1>3, <2>1 DEF FragEnd
  <2>3. e \in Nat /\ e = a + HeaderSize + l /\ a + HeaderSize <= e
    BY <1>2, <2>2
  <2> QED
    BY <2>1, <2>3
<1>5. \A f, g \in 1..Len(fFragments) : f # torn /\ g # torn /\ f < g => FragEnd(pos, f) <= pos[g]
  BY <1>1 DEF Laid, FragEnd
<1> QED
  BY <1>2, <1>3, <1>4, <1>5 DEF FragEnd

\* What the reader sees at p of the first n bytes.
BlockEndOf(n, p) == Log!Lesser(n, NextEnd(p))
FragAt(p) == fFile[p + 1].frag
WholeAt(n, p, f) ==
  /\ p + HeaderSize + fFragments[f].len <= BlockEndOf(n, p)
  /\ \A i \in 1..(HeaderSize + fFragments[f].len) : fFile[p + i] = [frag |-> f, at |-> i]
Taken(n, p) == BlockEndOf(n, p) - p >= HeaderSize /\ FragAt(p) # 0 /\ WholeAt(n, p, FragAt(p))
AtEnd(n, p) == BlockEndOf(n, p) = n /\ n % BlockSize # 0

LEMMA BlockEndIs ==
  ASSUME NEW n \in Nat, NEW p \in 0..n, p # n
  PROVE  /\ BlockEndOf(n, p) \in 0..n /\ p < BlockEndOf(n, p) /\ BlockEndOf(n, p) <= NextEnd(p)
         /\ BlockEndOf(n, p) = n \/ BlockEndOf(n, p) = NextEnd(p)
         /\ AtEnd(n, p) \/ Boundary(BlockEndOf(n, p))
<1>1. NextEnd(p) \in Nat /\ p < NextEnd(p) /\ Boundary(NextEnd(p))
  BY BlockFacts
<1>2. PICK b : b = BlockEndOf(n, p)
  OBVIOUS
<1>3. b = IF n < NextEnd(p) THEN n ELSE NextEnd(p)
  BY <1>2 DEF BlockEndOf, Log!Lesser
<1>4. b \in 0..n /\ p < b /\ b <= NextEnd(p) /\ (b = n \/ b = NextEnd(p))
  BY <1>1, <1>3
<1>5. (b = n /\ n % BlockSize # 0) \/ Boundary(b)
  BY <1>1, <1>4 DEF Boundary
<1> QED
  BY <1>2, <1>4, <1>5 DEF AtEnd

\* A fragment the reader takes is all there, and starts where the reader is.
LEMMA TakenIs ==
  ASSUME NEW pos, NEW torn, LogGood(pos, torn), NEW n \in 0..Len(fFile), NEW p \in 0..n, p # n, Taken(n, p),
         NEW f, f = FragAt(p)
  PROVE  /\ f \in 1..Len(fFragments) /\ f # torn /\ pos[f] = p
         /\ p + HeaderSize + fFragments[f].len = FragEnd(pos, f)
         /\ FragEnd(pos, f) \in 0..n /\ p < FragEnd(pos, f) /\ p + HeaderSize <= FragEnd(pos, f)
<1>1. PICK N, m : N = Len(fFragments) /\ m = Len(fFile)
  OBVIOUS
<1>2. N \in Nat /\ m \in Nat /\ HeaderSize \in Nat /\ HeaderSize > 0 /\ n \in Nat /\ p \in Nat /\ n <= m
  BY <1>1, Places
<1>3. p + 1 \in 1..m
  BY <1>2
<1>4. PICK l : l = fFragments[f].len
  OBVIOUS
<1>5. f # 0 /\ p + HeaderSize + l <= BlockEndOf(n, p) /\ \A i \in 1..(HeaderSize + l) : fFile[p + i] = [frag |-> f, at |-> i]
  BY <1>4 DEF Taken, WholeAt
<1>6. PICK x : x = fFile[p + 1]
  OBVIOUS
<1>7. x.frag = f
  BY <1>6 DEF FragAt
<1>8. PICK g \in 1..N, i \in Nat : i # 0 /\ p + 1 = pos[g] + i /\ x = [frag |-> g, at |-> i]
  <2>1. x # Log!Zero
    BY <1>5, <1>7 DEF Log!Zero
  <2>2. \/ fFile[p + 1] = Log!Zero
        \/ \E g \in 1..N, i \in Nat : i # 0 /\ p + 1 = pos[g] + i /\ fFile[p + 1] = [frag |-> g, at |-> i]
    <3>1. Laid(fFile, fFragments, fBlockOffset, pos, torn)
      BY DEF LogGood
    <3>2. PICK q : q = p + 1
      OBVIOUS
    <3>3. q \in 1..Len(fFile)
      BY <1>1, <1>3, <3>2
    <3>4. \/ fFile[q] = Log!Zero
          \/ \E g \in 1..N, i \in Nat : i # 0 /\ q = pos[g] + i /\ fFile[q] = [frag |-> g, at |-> i]
      BY <1>1, <3>1, <3>3 DEF Laid
    <3> QED
      BY <3>2, <3>4
  <2> QED
    BY <1>6, <2>1, <2>2
<1>9. g = f
  BY <1>7, <1>8
<1>10. f \in 1..N /\ l \in Nat /\ pos[f] \in Nat /\ FragEnd(pos, f) \in Nat
       /\ FragEnd(pos, f) = pos[f] + HeaderSize + l /\ pos[f] + HeaderSize <= FragEnd(pos, f)
  BY <1>1, <1>4, <1>8, <1>9, Places
<1>11. i = 1 /\ pos[f] = p
  <2>1. 1 \in 1..(HeaderSize + l)
    BY <1>2, <1>10
  <2>2. x = [frag |-> f, at |-> 1]
    BY <1>5, <1>6, <2>1
  <2>3. i = 1
    BY <1>8, <2>2
  <2> QED
    BY <1>2, <1>8, <1>9, <1>10, <2>3
<1>12. BlockEndOf(n, p) \in 0..n
  BY <1>2, BlockEndIs
<1>13. p + HeaderSize + l <= n
  <2>1. PICK b : b = BlockEndOf(n, p)
    OBVIOUS
  <2>2. b \in 0..n /\ p + HeaderSize + l <= b
    BY <1>5, <1>12, <2>1
  <2> QED
    BY <1>2, <1>10, <2>2
<1>14. f # torn
  <2>1. SUFFICES ASSUME f = torn PROVE FALSE
    OBVIOUS
  <2>2. PICK w, q : w = HeaderSize + l /\ q = p + w
    OBVIOUS
  <2>3. w \in 1..w /\ q \in 1..m
    BY <1>2, <1>10, <1>13, <2>2
  <2>4. fFile[q] = [frag |-> f, at |-> w]
    BY <1>5, <2>2, <2>3
  <2>5. fFile[q] # [frag |-> torn, at |-> HeaderSize + fFragments[torn].len]
    BY <1>1, <1>5, <2>1, <2>3 DEF LogGood, Laid
  <2> QED
    BY <1>4, <2>1, <2>2, <2>4, <2>5
<1> QED
  BY <1>1, <1>2, <1>4, <1>10, <1>11, <1>13, <1>14

\* ReadPhysicalRecord at p, and what it returns from there on.
Scan(g, n, p) ==
  IF p = n THEN <<>>
  ELSE IF Taken(n, p) THEN <<FragAt(p)>> \o g[p + HeaderSize + fFragments[FragAt(p)].len]
  ELSE IF AtEnd(n, p) THEN <<>>
  ELSE IF BlockEndOf(n, p) - p < HeaderSize THEN g[BlockEndOf(n, p)]
  ELSE <<Log!Bad>> \o g[BlockEndOf(n, p)]

LEMMA PhysicalIs ==
  ASSUME NEW pos, NEW torn, LogGood(pos, torn), NEW n \in 0..Len(fFile)
  PROVE  \E s \in [0..n -> Seq(Nat)] : Log!Physical(n) = s[0] /\ \A p \in 0..n : s[p] = Scan(s, n, p)
<1> DEFINE D == 0..n
           V == Seq(Nat)
           f == CHOOSE g : g = [p \in D |-> Scan(g, n, p)]
           rank == [p \in D |-> n - p]
           stop == { p \in D : p = n \/ (~ Taken(n, p) /\ AtEnd(n, p)) }
           next == [p \in D |-> IF p \in stop THEN p
                                ELSE IF Taken(n, p) THEN p + HeaderSize + fFragments[FragAt(p)].len
                                ELSE BlockEndOf(n, p)]
           base == [p \in D |-> <<>>]
           step == [y \in D \X V |-> IF y[1] \in stop THEN <<>>
                                     ELSE IF Taken(n, y[1]) THEN <<FragAt(y[1])>> \o y[2]
                                     ELSE IF BlockEndOf(n, y[1]) - y[1] < HeaderSize THEN y[2]
                                     ELSE <<Log!Bad>> \o y[2]]
<1>1. n \in Nat
  BY Places
<1>2. ASSUME NEW p \in D, p \notin stop
      PROVE  next[p] \in D /\ p < next[p] /\ (Taken(n, p) => FragAt(p) \in Nat)
  <2>0. p \in 0..n /\ p # n
    BY <1>2
  <2>1. CASE Taken(n, p)
    <3>1. PICK g, e : g = FragAt(p) /\ e = FragEnd(pos, g)
      OBVIOUS
    <3>2. g \in 1..Len(fFragments) /\ p + HeaderSize + fFragments[g].len = e /\ e \in 0..n /\ p < e
      BY <2>0, <2>1, <3>1, TakenIs
    <3>3. next[p] = e
      BY <1>2, <2>1, <3>1, <3>2
    <3> QED
      BY <3>1, <3>2, <3>3
  <2>2. CASE ~ Taken(n, p)
    BY <1>1, <1>2, <2>2, BlockEndIs
  <2> QED
    BY <2>1, <2>2
<1>3. rank \in [D -> 0..n] /\ stop \in SUBSET D /\ base \in [D -> V]
  <2>1. \A p \in D : n - p \in 0..n
    BY <1>1
  <2>2. <<>> \in V
    OBVIOUS
  <2>3. rank \in [D -> 0..n]
    <3> HIDE DEF D
    <3> QED
      BY <2>1
  <2>4. base \in [D -> V]
    <3> HIDE DEF D, V
    <3> QED
      BY <2>2
  <2> QED
    BY <2>3, <2>4
<1>4. next \in [D -> D] /\ \A p \in D \ stop : rank[next[p]] < rank[p]
  <2>1. \A p \in D : next[p] \in D
    <3>1. \A p \in D : p \in stop => next[p] = p
      OBVIOUS
    <3> HIDE DEF next, stop
    <3> QED
      BY <1>2, <3>1
  <2>2. next = [p \in D |-> next[p]]
    <3> HIDE DEF D, stop
    <3> QED
      OBVIOUS
  <2>3. ASSUME NEW p \in D \ stop PROVE rank[next[p]] < rank[p]
    <3>1. next[p] \in D /\ p < next[p]
      BY <1>2
    <3> HIDE DEF next, stop
    <3> QED
      BY <1>1, <3>1
  <2> HIDE DEF next, D, rank, stop
  <2> QED
    BY <2>1, <2>2, <2>3
<1>5. step \in [D \X V -> V]
  <2>1. ASSUME NEW p \in D, NEW v \in V
        PROVE  (IF p \in stop THEN <<>> ELSE IF Taken(n, p) THEN <<FragAt(p)>> \o v
                ELSE IF BlockEndOf(n, p) - p < HeaderSize THEN v ELSE <<Log!Bad>> \o v) \in V
    <3>1. Log!Bad \in Nat
      BY DEF Log!Bad
    <3>2. p \notin stop /\ Taken(n, p) => FragAt(p) \in Nat
      BY <1>2
    <3>3. CASE p \in stop
      BY <3>3
    <3>4. CASE p \notin stop /\ Taken(n, p)
      <4>1. PICK a : a = FragAt(p)
        OBVIOUS
      <4>2. a \in Nat
        BY <3>2, <3>4, <4>1
      <4>3. <<a>> \o v \in V
        BY <4>2
      <4> HIDE DEF V, stop
      <4> QED
        BY <3>4, <4>1, <4>3
    <3>5. CASE p \notin stop /\ ~ Taken(n, p)
      <4>1. <<Log!Bad>> \o v \in V
        BY <3>1
      <4> HIDE DEF V, stop
      <4> QED
        BY <3>5, <4>1
    <3> HIDE DEF V, stop
    <3> QED
      BY <3>3, <3>4, <3>5
  <2> HIDE DEF D, V, stop
  <2> QED
    BY <2>1
<1>6. \E g \in [D -> V] : g = [p \in D |-> Scan(g, n, p)]
  <2> HIDE DEF D, V, rank, stop, next, base, step
  <2>1. PICK g \in [D -> V] : \A p \in D : g[p] = IF p \in stop THEN base[p] ELSE step[<<p, g[next[p]]>>]
    <3>1. Ranked(D, V, n, rank, stop, next, base, step)
      BY <1>1, <1>3, <1>4, <1>5 DEF Ranked
    <3> QED
      BY <3>1, RecursionExists
  <2>2. ASSUME NEW p \in D PROVE g[p] = Scan(g, n, p)
    <3>1. CASE p \in stop
      <4>1. g[p] = <<>>
        BY <2>1, <3>1 DEF base
      <4>2. p = n \/ (~ Taken(n, p) /\ AtEnd(n, p))
        BY <3>1 DEF stop
      <4> QED
        BY <4>1, <4>2 DEF Scan
    <3>2. CASE p \notin stop
      <4>1. next[p] \in D /\ g[next[p]] \in V
        BY <1>2, <2>1, <3>2
      <4>2. PICK v : v = g[next[p]]
        OBVIOUS
      <4>3. g[p] = IF Taken(n, p) THEN <<FragAt(p)>> \o v
                   ELSE IF BlockEndOf(n, p) - p < HeaderSize THEN v ELSE <<Log!Bad>> \o v
        <5>1. <<p, v>> \in D \X V
          BY <4>1, <4>2
        <5>2. g[p] = step[<<p, v>>]
          BY <2>1, <3>2, <4>2
        <5> QED
          BY <3>2, <5>1, <5>2 DEF step
      <4>4. p # n /\ (Taken(n, p) \/ ~ AtEnd(n, p))
        BY <3>2 DEF stop
      <4>5. v = g[IF Taken(n, p) THEN p + HeaderSize + fFragments[FragAt(p)].len ELSE BlockEndOf(n, p)]
        BY <3>2, <4>2 DEF next
      <4> QED
        BY <4>3, <4>4, <4>5 DEF Scan
    <3> QED
      BY <3>1, <3>2
  <2>3. g = [p \in D |-> g[p]]
    BY <2>1
  <2>4. g = [p \in D |-> Scan(g, n, p)]
    BY <2>2, <2>3
  <2> QED
    BY <2>4
<1>7. f = [p \in D |-> Scan(f, n, p)]
  <2> HIDE DEF D
  <2> QED
    BY <1>6
<1>8. Log!Physical(n) = f[0]
  BY DEF Log!Physical, Scan, Taken, WholeAt, AtEnd, BlockEndOf, NextEnd, FragAt
<1> HIDE DEF f
<1>9. \A p \in D : f[p] = Scan(f, n, p)
  <2> HIDE DEF D
  <2> QED
    BY <1>7
<1>10. \A p \in D : f[p] \in V
  <2> DEFINE T == { k \in Nat : \A p \in D : n - p < k => f[p] \in V }
  <2>1. 0 \in T
    BY <1>1
  <2>2. ASSUME NEW k \in Nat, k \in T PROVE k + 1 \in T
    <3>1. SUFFICES ASSUME NEW p \in D, n - p < k + 1 PROVE f[p] \in V
      BY <2>2
    <3>2. CASE p \in stop
      <4>1. f[p] = <<>>
        BY <1>9, <3>2 DEF Scan
      <4> QED
        BY <4>1
    <3>3. CASE p \notin stop
      <4>1. PICK q : q = next[p]
        OBVIOUS
      <4>2. q \in D /\ p < q /\ (Taken(n, p) => FragAt(p) \in Nat)
        BY <1>2, <3>3, <4>1
      <4>3. f[q] \in V
        <5>1. n - q < k
          BY <1>1, <3>1, <4>2
        <5> QED
          BY <2>2, <4>2, <5>1
      <4>4. PICK v : v = f[q]
        OBVIOUS
      <4>5. f[p] = IF Taken(n, p) THEN <<FragAt(p)>> \o v
                   ELSE IF BlockEndOf(n, p) - p < HeaderSize THEN v ELSE <<Log!Bad>> \o v
        <5>1. p # n /\ (Taken(n, p) \/ ~ AtEnd(n, p))
          BY <3>3
        <5>2. q = IF Taken(n, p) THEN p + HeaderSize + fFragments[FragAt(p)].len ELSE BlockEndOf(n, p)
          BY <3>3, <4>1
        <5>3. f[p] = Scan(f, n, p)
          BY <1>9
        <5> QED
          BY <4>4, <5>1, <5>2, <5>3 DEF Scan
      <4>6. Log!Bad \in Nat
        BY DEF Log!Bad
      <4>7. v \in Seq(Nat) /\ <<Log!Bad>> \o v \in Seq(Nat)
        BY <4>3, <4>4, <4>6
      <4>8. Taken(n, p) => <<FragAt(p)>> \o v \in Seq(Nat)
        <5>1. PICK a : a = FragAt(p)
          OBVIOUS
        <5>2. a \in Nat => <<a>> \o v \in Seq(Nat)
          BY <4>7
        <5> QED
          BY <4>2, <5>1, <5>2
      <4> QED
        BY <4>5, <4>7, <4>8
    <3> QED
      BY <3>2, <3>3
  <2>3. Nat \subseteq T
    <3> HIDE DEF T
    <3> QED
      BY <2>1, <2>2, NaturalInduction
  <2>4. ASSUME NEW p \in D PROVE f[p] \in V
    <3>1. n - p \in Nat /\ n - p < (n - p) + 1 /\ (n - p) + 1 \in Nat
      BY <1>1
    <3>2. PICK k \in Nat : n - p < k
      BY <3>1
    <3> HIDE DEF V, D
    <3> QED
      BY <2>3, <3>2
  <2> QED
    BY <2>4
<1>11. f \in [D -> V]
  <2> HIDE DEF D, V
  <2> QED
    BY <1>7, <1>10
<1> QED
  BY <1>8, <1>9, <1>11

\* What is read from p on: fragments that are all there, in their order; of two
\* with nothing dropped between them, the second begins less than a header
\* after the first, and so does the first of all after p.
ScanInv(s, n, p, pos, torn) ==
  /\ s \in Seq(Nat)
  /\ \A i \in 1..Len(s) : s[i] # 0 =>
       s[i] \in 1..Len(fFragments) /\ s[i] # torn /\ p <= pos[s[i]] /\ FragEnd(pos, s[i]) <= n
  /\ \A i, j \in 1..Len(s) : i < j /\ s[i] # 0 /\ s[j] # 0 => s[i] < s[j]
  /\ \A i \in 1..Len(s) : i + 1 \in 1..Len(s) /\ s[i] # 0 /\ s[i + 1] # 0 =>
       pos[s[i + 1]] < FragEnd(pos, s[i]) + HeaderSize
  /\ Len(s) # 0 /\ s[1] # 0 => pos[s[1]] < p + HeaderSize /\ (Boundary(p) => pos[s[1]] = p)

\* Fragment k + 1 is what comes next at p, and it is there.
Expect(n, p, k, pos, torn) ==
  /\ k \in Nat /\ k + 1 \in 1..Len(fFragments) /\ (torn = 0 \/ k + 1 < torn)
  /\ FragEnd(pos, k + 1) <= n /\ (p = FragEnd(pos, k) \/ p = pos[k + 1])

\* All the fragments up to m are read.
AllRead(s, n, p, pos, torn) ==
  \A k \in 0..Len(fFragments), m \in 0..Len(fFragments) :
    k < m /\ (torn = 0 \/ m < torn) /\ FragEnd(pos, m) <= n /\ (p = FragEnd(pos, k) \/ p = pos[k + 1]) =>
      m - k <= Len(s) /\ \A i \in 1..(m - k) : s[i] = k + i

LEMMA ExpectIs ==
  ASSUME NEW pos, NEW torn, LogGood(pos, torn), NEW n \in 0..Len(fFile), NEW p \in 0..n, NEW k,
         Expect(n, p, k, pos, torn)
  PROVE  /\ p # n
         /\ \/ Taken(n, p) /\ FragAt(p) = k + 1
            \/ /\ ~ Taken(n, p) /\ ~ AtEnd(n, p) /\ BlockEndOf(n, p) - p < HeaderSize
               /\ BlockEndOf(n, p) = pos[k + 1]
<1>1. PICK f, N : f = k + 1 /\ N = Len(fFragments)
  OBVIOUS
<1>2. /\ N \in Nat /\ f \in 1..N /\ k \in Nat /\ n \in Nat /\ p \in Nat /\ (torn = 0 \/ f < torn) /\ torn \in Nat
      /\ FragEnd(pos, f) <= n /\ (p = FragEnd(pos, k) \/ p = pos[f]) /\ HeaderSize \in Nat /\ HeaderSize > 0
      /\ Len(fFile) \in Nat
  BY <1>1, Places DEF Expect
<1>3. PICK a, l, e : a = pos[f] /\ l = fFragments[f].len /\ e = FragEnd(pos, f)
  OBVIOUS
<1>4. a \in Nat /\ l \in Nat /\ e \in Nat /\ e = a + HeaderSize + l /\ a + HeaderSize <= e /\ e <= n
  BY <1>1, <1>2, <1>3, Places
<1>5. Laid(fFile, fFragments, fBlockOffset, pos, torn)
  BY DEF LogGood
<1>6. /\ e <= NextEnd(a)
      /\ \/ a = FragEnd(pos, k)
         \/ Boundary(a) /\ FragEnd(pos, k) < a /\ a < FragEnd(pos, k) + HeaderSize
  <2>1. f - 1 = k
    BY <1>1, <1>2
  <2>2. /\ EndOf(fFragments, pos, f) <= NextEnd(pos[f])
        /\ \/ pos[f] = EndOf(fFragments, pos, f - 1)
           \/ /\ Boundary(pos[f]) /\ EndOf(fFragments, pos, f - 1) < pos[f]
              /\ pos[f] < EndOf(fFragments, pos, f - 1) + HeaderSize
    BY <1>1, <1>2, <1>5 DEF Laid
  <2> QED
    BY <1>3, <2>1, <2>2 DEF FragEnd
<1>7. /\ a < n
      /\ \A i \in 1..(HeaderSize + l) : fFile[a + i] = [frag |-> f, at |-> i]
  <2>1. f # torn
    BY <1>2
  <2>2. \A i \in 1..(HeaderSize + l) : fFile[a + i] = [frag |-> f, at |-> i]
    BY <1>1, <1>2, <1>3, <1>5, <2>1 DEF Laid
  <2> QED
    BY <1>2, <1>4, <2>2
<1>8. CASE p = a
  <2>1. FragAt(p) = f /\ f # 0
    <3>1. 1 \in 1..(HeaderSize + l)
      BY <1>2, <1>4
    <3>2. fFile[a + 1] = [frag |-> f, at |-> 1]
      BY <1>7, <3>1
    <3>3. fFile[a + 1].frag = f
      BY <3>2
    <3> QED
      BY <1>2, <1>8, <3>3 DEF FragAt
  <2>2. BlockEndOf(n, p) = IF n < NextEnd(p) THEN n ELSE NextEnd(p)
    BY DEF BlockEndOf, Log!Lesser
  <2>3. NextEnd(p) \in Nat
    BY <1>2, BlockFacts
  <2>4. e <= BlockEndOf(n, p) /\ BlockEndOf(n, p) \in Nat
    BY <1>2, <1>4, <1>6, <1>8, <2>2, <2>3
  <2>5. PICK b : b = BlockEndOf(n, p)
    OBVIOUS
  <2>6. b - p >= HeaderSize /\ p + HeaderSize + l <= b
    BY <1>2, <1>4, <1>8, <2>4, <2>5
  <2>7. WholeAt(n, p, f)
    BY <1>3, <1>7, <1>8, <2>5, <2>6 DEF WholeAt
  <2>8. Taken(n, p)
    BY <2>1, <2>5, <2>6, <2>7 DEF Taken
  <2>9. p # n
    BY <1>2, <1>4, <1>7, <1>8
  <2> QED
    BY <1>1, <2>1, <2>8, <2>9
<1>9. CASE p # a
  <2>1. p = FragEnd(pos, k) /\ Boundary(a) /\ p < a /\ a < p + HeaderSize
    BY <1>2, <1>3, <1>6, <1>9
  <2>2. HeaderSize < BlockSize /\ BlockSize \in Nat
    BY LogAssumption
  <2>3. a = NextEnd(p)
    BY <1>2, <1>4, <2>1, <2>2, NearBoundary
  <2>4. BlockEndOf(n, p) = a
    BY <1>2, <1>4, <1>7, <2>3 DEF BlockEndOf, Log!Lesser
  <2>5. a - p < HeaderSize /\ ~ (a - p >= HeaderSize)
    BY <1>2, <1>4, <2>1
  <2>6. ~ Taken(n, p)
    BY <2>4, <2>5 DEF Taken
  <2>7. ~ AtEnd(n, p)
    BY <1>2, <1>4, <1>7, <2>4 DEF AtEnd
  <2>8. p # n
    BY <1>2, <1>4, <1>7, <2>1
  <2> QED
    BY <1>1, <1>3, <2>4, <2>5, <2>6, <2>7, <2>8
<1> QED
  BY <1>8, <1>9

\* The first of the fragments up to m is the one that comes next.
LEMMA NextIs ==
  ASSUME NEW pos, NEW torn, LogGood(pos, torn), NEW n \in 0..Len(fFile), NEW p \in 0..n,
         NEW k \in 0..Len(fFragments), NEW m \in 0..Len(fFragments),
         k < m, torn = 0 \/ m < torn, FragEnd(pos, m) <= n, p = FragEnd(pos, k) \/ p = pos[k + 1]
  PROVE  Expect(n, p, k, pos, torn)
<1>1. PICK f, N : f = k + 1 /\ N = Len(fFragments)
  OBVIOUS
<1>2. N \in Nat /\ k \in Nat /\ m \in Nat /\ f \in 1..N /\ f <= m /\ torn \in Nat /\ n \in Nat /\ HeaderSize \in Nat
  BY <1>1, Places
<1>3. torn = 0 \/ f < torn
  BY <1>2
<1>4. FragEnd(pos, f) <= n
  <2>1. CASE f = m
    BY <2>1
  <2>2. CASE f # m
    <3>1. m \in 1..N /\ f < m /\ f # torn /\ m # torn
      BY <1>1, <1>2, <1>3, <2>2
    <3>2. FragEnd(pos, f) <= pos[m]
      <4>1. \A a, b \in 1..N : a # torn /\ b # torn /\ a < b => FragEnd(pos, a) <= pos[b]
        BY <1>1, Places
      <4> QED
        BY <1>2, <3>1, <4>1
    <3>3. pos[m] \in Nat /\ FragEnd(pos, f) \in Nat /\ FragEnd(pos, m) \in Nat /\ pos[m] + HeaderSize <= FragEnd(pos, m)
      BY <1>1, <1>2, <3>1, Places
    <3>4. PICK a, b, c : a = FragEnd(pos, f) /\ b = pos[m] /\ c = FragEnd(pos, m)
      OBVIOUS
    <3>5. a \in Nat /\ b \in Nat /\ c \in Nat /\ a <= b /\ b + HeaderSize <= c /\ c <= n
      BY <3>2, <3>3, <3>4
    <3> QED
      BY <1>2, <3>4, <3>5
  <2> QED
    BY <2>1, <2>2
<1> QED
  BY <1>1, <1>2, <1>3, <1>4 DEF Expect

LEMMA ScanStop ==
  ASSUME NEW pos, NEW torn, LogGood(pos, torn), NEW n \in 0..Len(fFile), NEW p \in 0..n,
         p = n \/ (~ Taken(n, p) /\ AtEnd(n, p))
  PROVE  ScanInv(<<>>, n, p, pos, torn) /\ AllRead(<<>>, n, p, pos, torn)
<1>1. PICK s : s = <<>>
  OBVIOUS
<1>2. s \in Seq(Nat) /\ Len(s) = 0 /\ 1..0 = {}
  BY <1>1
<1>3. ScanInv(s, n, p, pos, torn)
  BY <1>2 DEF ScanInv
<1>4. AllRead(s, n, p, pos, torn)
  <2>1. SUFFICES ASSUME NEW k \in 0..Len(fFragments), NEW m \in 0..Len(fFragments),
                        k < m, torn = 0 \/ m < torn, FragEnd(pos, m) <= n, p = FragEnd(pos, k) \/ p = pos[k + 1]
                 PROVE  FALSE
    BY DEF AllRead
  <2>2. Expect(n, p, k, pos, torn)
    BY <2>1, NextIs
  <2> QED
    BY <2>2, ExpectIs
<1> QED
  BY <1>1, <1>3, <1>4

LEMMA ScanSkip ==
  ASSUME NEW pos, NEW torn, LogGood(pos, torn), NEW n \in 0..Len(fFile), NEW p \in 0..n, p # n,
         ~ Taken(n, p), ~ AtEnd(n, p), BlockEndOf(n, p) - p < HeaderSize,
         NEW s, ScanInv(s, n, BlockEndOf(n, p), pos, torn), AllRead(s, n, BlockEndOf(n, p), pos, torn)
  PROVE  ScanInv(s, n, p, pos, torn) /\ AllRead(s, n, p, pos, torn)
<1>1. PICK b : b = BlockEndOf(n, p)
  OBVIOUS
<1>2. n \in Nat /\ p \in Nat /\ HeaderSize \in Nat /\ HeaderSize < BlockSize /\ BlockSize \in Nat
  BY Places, LogAssumption
<1>3. b \in 0..n /\ p < b /\ Boundary(b) /\ b - p < HeaderSize
  BY <1>1, <1>2, BlockEndIs
<1>4. ScanInv(s, n, b, pos, torn) /\ AllRead(s, n, b, pos, torn)
  BY <1>1
<1>5. \A f \in 1..Len(fFragments) : pos[f] \in Nat
  BY Places
<1>6. ~ Boundary(p)
  <2>1. SUFFICES ASSUME Boundary(p) PROVE FALSE
    OBVIOUS
  <2>2. NextEnd(p) = p + BlockSize /\ NextEnd(p) <= b
    BY <1>2, <1>3, <2>1, BlockFacts
  <2> QED
    BY <1>2, <1>3, <2>2
<1>7. ScanInv(s, n, p, pos, torn)
  <2>1. ASSUME NEW i \in 1..Len(s), s[i] # 0
        PROVE  s[i] \in 1..Len(fFragments) /\ s[i] # torn /\ p <= pos[s[i]] /\ FragEnd(pos, s[i]) <= n
    <3>1. s[i] \in 1..Len(fFragments) /\ s[i] # torn /\ b <= pos[s[i]] /\ FragEnd(pos, s[i]) <= n
      BY <1>4, <2>1 DEF ScanInv
    <3>2. PICK a : a = pos[s[i]]
      OBVIOUS
    <3>3. a \in Nat /\ b <= a
      BY <1>5, <3>1, <3>2
    <3> QED
      BY <1>2, <1>3, <3>1, <3>2, <3>3
  <2>2. ASSUME Len(s) # 0, s[1] # 0 PROVE pos[s[1]] < p + HeaderSize
    <3>1. pos[s[1]] = b
      BY <1>3, <1>4, <2>2 DEF ScanInv
    <3> QED
      BY <1>2, <1>3, <3>1
  <2> QED
    BY <1>4, <1>6, <2>1, <2>2 DEF ScanInv
<1>8. AllRead(s, n, p, pos, torn)
  <2>1. SUFFICES ASSUME NEW k \in 0..Len(fFragments), NEW m \in 0..Len(fFragments),
                        k < m, torn = 0 \/ m < torn, FragEnd(pos, m) <= n, p = FragEnd(pos, k) \/ p = pos[k + 1]
                 PROVE  m - k <= Len(s) /\ \A i \in 1..(m - k) : s[i] = k + i
    BY DEF AllRead
  <2>2. Expect(n, p, k, pos, torn)
    BY <2>1, NextIs
  <2>3. b = pos[k + 1]
    BY <1>1, <2>2, ExpectIs
  <2> QED
    BY <1>4, <2>1, <2>3 DEF AllRead
<1> QED
  BY <1>7, <1>8

\* Something comes before what is read from q on.
LEMMA Prepend ==
  ASSUME NEW x \in Nat, NEW s \in Seq(Nat), NEW t, t = <<x>> \o s
  PROVE  /\ t \in Seq(Nat) /\ Len(t) = Len(s) + 1 /\ t[1] = x
         /\ \A i \in 1..Len(s) : t[i + 1] = s[i]
         /\ \A i \in 1..Len(t) : i = 1 \/ (i - 1 \in 1..Len(s) /\ t[i] = s[i - 1])
<1>1. PICK c, n : c = <<x>> /\ n = Len(s)
  OBVIOUS
<1>2. c \in Seq(Nat) /\ Len(c) = 1 /\ c[1] = x /\ Joins(t, c, s) /\ n \in Nat
  BY <1>1 DEF Joins
<1>3. t \in Seq(Nat)
  BY <1>2, Concat
<1>4. Len(t) = Len(c) + Len(s)
  BY <1>2, Concat
<1>5. \A i \in 1..Len(c) : t[i] = c[i]
  BY <1>2, Concat
<1>6. \A i \in 1..Len(s) : t[Len(c) + i] = s[i]
  BY <1>2, Concat
<1>7. Len(t) = n + 1 /\ t[1] = x /\ \A i \in 1..n : t[i + 1] = s[i]
  <2>1. \A i \in 1..n : 1 + i = i + 1
    BY <1>2
  <2> QED
    BY <1>1, <1>2, <1>4, <1>5, <1>6, <2>1
<1>8. ASSUME NEW i \in 1..(n + 1), i # 1 PROVE i - 1 \in 1..n /\ t[i] = s[i - 1]
  <2>1. i - 1 \in 1..n /\ (i - 1) + 1 = i
    BY <1>2, <1>8
  <2> QED
    BY <1>7, <2>1
<1> QED
  BY <1>1, <1>3, <1>7, <1>8

LEMMA ScanBad ==
  ASSUME NEW pos, NEW torn, LogGood(pos, torn), NEW n \in 0..Len(fFile), NEW p \in 0..n, p # n,
         ~ Taken(n, p), ~ AtEnd(n, p), ~ (BlockEndOf(n, p) - p < HeaderSize),
         NEW s, ScanInv(s, n, BlockEndOf(n, p), pos, torn), NEW t, t = <<Log!Bad>> \o s
  PROVE  ScanInv(t, n, p, pos, torn) /\ AllRead(t, n, p, pos, torn)
<1>1. PICK b, k : b = BlockEndOf(n, p) /\ k = Len(s)
  OBVIOUS
<1>2. n \in Nat /\ p \in Nat /\ HeaderSize \in Nat
  BY Places
<1>3. b \in 0..n /\ p < b
  BY <1>1, <1>2, BlockEndIs
<1>4. ScanInv(s, n, b, pos, torn) /\ s \in Seq(Nat) /\ k \in Nat
  BY <1>1 DEF ScanInv
<1>5. \A f \in 1..Len(fFragments) : pos[f] \in Nat
  BY Places
<1>6. /\ t \in Seq(Nat) /\ Len(t) = k + 1 /\ t[1] = 0
      /\ \A i \in 1..(k + 1) : i = 1 \/ (i - 1 \in 1..k /\ t[i] = s[i - 1])
  <2>1. PICK z : z = Log!Bad
    OBVIOUS
  <2>2. z = 0 /\ z \in Nat /\ t = <<z>> \o s
    BY <2>1 DEF Log!Bad
  <2>3. t \in Seq(Nat) /\ Len(t) = Len(s) + 1 /\ t[1] = z
    BY <1>4, <2>2, Prepend
  <2>4. \A i \in 1..Len(t) : i = 1 \/ (i - 1 \in 1..Len(s) /\ t[i] = s[i - 1])
    BY <1>4, <2>2, Prepend
  <2> QED
    BY <1>1, <2>2, <2>3, <2>4
<1>7. ASSUME NEW i \in 1..(k + 1), t[i] # 0 PROVE i # 1 /\ i - 1 \in 1..k /\ t[i] = s[i - 1] /\ s[i - 1] # 0
  BY <1>6, <1>7
<1>8. ASSUME NEW i \in 1..(k + 1), t[i] # 0
      PROVE  t[i] \in 1..Len(fFragments) /\ t[i] # torn /\ p <= pos[t[i]] /\ FragEnd(pos, t[i]) <= n
  <2>1. PICK f : f = s[i - 1]
    OBVIOUS
  <2>2. f \in 1..Len(fFragments) /\ f # torn /\ b <= pos[f] /\ FragEnd(pos, f) <= n /\ t[i] = f
    BY <1>1, <1>4, <1>7, <1>8, <2>1 DEF ScanInv
  <2>3. PICK a : a = pos[f]
    OBVIOUS
  <2>4. a \in Nat /\ b <= a
    BY <1>5, <2>2, <2>3
  <2>5. p <= a
    BY <1>2, <1>3, <2>4
  <2> QED
    BY <2>2, <2>3, <2>5
<1>9. ASSUME NEW i \in 1..(k + 1), NEW j \in 1..(k + 1), i < j, t[i] # 0, t[j] # 0 PROVE t[i] < t[j]
  <2>1. i - 1 < j - 1 /\ i - 1 \in 1..k /\ j - 1 \in 1..k /\ s[i - 1] # 0 /\ s[j - 1] # 0
        /\ t[i] = s[i - 1] /\ t[j] = s[j - 1]
    <3>1. i - 1 \in 1..k /\ t[i] = s[i - 1] /\ s[i - 1] # 0
      BY <1>7, <1>9
    <3>2. j - 1 \in 1..k /\ t[j] = s[j - 1] /\ s[j - 1] # 0
      BY <1>7, <1>9
    <3>3. i - 1 < j - 1
      BY <1>4, <1>9
    <3> QED
      BY <3>1, <3>2, <3>3
  <2>2. s[i - 1] < s[j - 1]
    BY <1>1, <1>4, <2>1 DEF ScanInv
  <2> QED
    BY <2>1, <2>2
<1>10. ASSUME NEW i \in 1..(k + 1), i + 1 \in 1..(k + 1), t[i] # 0, t[i + 1] # 0
       PROVE  pos[t[i + 1]] < FragEnd(pos, t[i]) + HeaderSize
  <2>1. PICK j : j = i - 1
    OBVIOUS
  <2>2. j \in 1..k /\ j + 1 \in 1..k /\ (i + 1) - 1 = j + 1 /\ s[j] # 0 /\ t[i] = s[j]
    <3>1. j \in 1..k /\ s[j] # 0 /\ t[i] = s[j]
      BY <1>7, <1>10, <2>1
    <3>2. (i + 1) - 1 = j + 1 /\ j + 1 \in 1..k
      BY <1>4, <1>10, <2>1, <3>1
    <3> QED
      BY <3>1, <3>2
  <2>3. t[i + 1] = s[(i + 1) - 1] /\ s[(i + 1) - 1] # 0
    BY <1>7, <1>10
  <2>4. pos[s[j + 1]] < FragEnd(pos, s[j]) + HeaderSize
    BY <1>1, <1>4, <2>2, <2>3 DEF ScanInv
  <2> QED
    BY <2>2, <2>3, <2>4
<1>11. ScanInv(t, n, p, pos, torn)
  BY <1>6, <1>8, <1>9, <1>10 DEF ScanInv
<1>12. AllRead(t, n, p, pos, torn)
  <2>1. SUFFICES ASSUME NEW h \in 0..Len(fFragments), NEW m \in 0..Len(fFragments),
                        h < m, torn = 0 \/ m < torn, FragEnd(pos, m) <= n, p = FragEnd(pos, h) \/ p = pos[h + 1]
                 PROVE  FALSE
    BY DEF AllRead
  <2>2. Expect(n, p, h, pos, torn)
    BY <2>1, NextIs
  <2> QED
    BY <2>2, ExpectIs
<1> QED
  BY <1>11, <1>12

LEMMA ScanTaken ==
  ASSUME NEW pos, NEW torn, LogGood(pos, torn), NEW n \in 0..Len(fFile), NEW p \in 0..n, p # n, Taken(n, p),
         NEW f, f = FragAt(p), NEW s, ScanInv(s, n, FragEnd(pos, f), pos, torn),
         AllRead(s, n, FragEnd(pos, f), pos, torn), NEW t, t = <<f>> \o s
  PROVE  ScanInv(t, n, p, pos, torn) /\ AllRead(t, n, p, pos, torn)
<1>1. PICK q, k, N : q = FragEnd(pos, f) /\ k = Len(s) /\ N = Len(fFragments)
  OBVIOUS
<1>2. n \in Nat /\ p \in Nat /\ HeaderSize \in Nat /\ HeaderSize > 0 /\ N \in Nat
  BY <1>1, Places
<1>3. f \in 1..N /\ f # torn /\ pos[f] = p /\ q \in 0..n /\ p < q /\ p + HeaderSize <= q
  BY <1>1, TakenIs
<1>4. ScanInv(s, n, q, pos, torn) /\ AllRead(s, n, q, pos, torn) /\ s \in Seq(Nat) /\ k \in Nat
  BY <1>1 DEF ScanInv
<1>5. \A g \in 1..N : pos[g] \in Nat /\ FragEnd(pos, g) \in Nat /\ pos[g] + HeaderSize <= FragEnd(pos, g)
  BY <1>1, Places
<1>6. /\ t \in Seq(Nat) /\ Len(t) = k + 1 /\ t[1] = f
      /\ \A i \in 1..k : t[i + 1] = s[i]
      /\ \A i \in 1..(k + 1) : i = 1 \/ (i - 1 \in 1..k /\ t[i] = s[i - 1])
  <2>1. f \in Nat
    BY <1>2, <1>3
  <2>2. t \in Seq(Nat) /\ Len(t) = Len(s) + 1 /\ t[1] = f
    BY <1>4, <2>1, Prepend
  <2>3. \A i \in 1..Len(s) : t[i + 1] = s[i]
    BY <1>4, <2>1, Prepend
  <2>4. \A i \in 1..Len(t) : i = 1 \/ (i - 1 \in 1..Len(s) /\ t[i] = s[i - 1])
    BY <1>4, <2>1, Prepend
  <2> QED
    BY <1>1, <2>2, <2>3, <2>4
\* What is read after f.
<1>7. ASSUME NEW i \in 1..k, s[i] # 0
      PROVE  s[i] \in 1..N /\ s[i] # torn /\ q <= pos[s[i]] /\ FragEnd(pos, s[i]) <= n /\ f < s[i]
  <2>1. PICK g : g = s[i]
    OBVIOUS
  <2>2. g \in 1..N /\ g # torn /\ q <= pos[g] /\ FragEnd(pos, g) <= n
    BY <1>1, <1>4, <1>7, <2>1 DEF ScanInv
  <2>3. PICK a, e : a = pos[g] /\ e = FragEnd(pos, g)
    OBVIOUS
  <2>4. a \in Nat /\ e \in Nat /\ a + HeaderSize <= e /\ q <= a
    BY <1>5, <2>2, <2>3
  <2>5. g # f
    BY <1>1, <1>2, <1>3, <2>3, <2>4
  <2>6. ~ (g < f)
    <3>1. SUFFICES ASSUME g < f PROVE FALSE
      OBVIOUS
    <3>2. \A b, c \in 1..N : b # torn /\ c # torn /\ b < c => FragEnd(pos, b) <= pos[c]
      BY <1>1, Places
    <3>3. e <= p
      BY <1>3, <2>2, <2>3, <3>1, <3>2
    <3> QED
      BY <1>2, <1>3, <2>4, <3>3
  <2> QED
    BY <1>2, <1>3, <2>1, <2>2, <2>5, <2>6
<1>8. ASSUME NEW i \in 1..(k + 1), t[i] # 0
      PROVE  t[i] \in 1..N /\ t[i] # torn /\ p <= pos[t[i]] /\ FragEnd(pos, t[i]) <= n
  <2>1. CASE i = 1
    BY <1>1, <1>2, <1>3, <1>6, <2>1
  <2>2. CASE i # 1
    <3>1. i - 1 \in 1..k /\ t[i] = s[i - 1]
      BY <1>6, <2>2
    <3>2. PICK g : g = t[i]
      OBVIOUS
    <3>3. g \in 1..N /\ g # torn /\ q <= pos[g] /\ FragEnd(pos, g) <= n
      BY <1>7, <1>8, <3>1, <3>2
    <3>4. PICK a : a = pos[g]
      OBVIOUS
    <3>5. a \in Nat /\ q <= a
      BY <1>5, <3>3, <3>4
    <3>6. p <= a
      BY <1>2, <1>3, <3>5
    <3> QED
      BY <3>2, <3>3, <3>4, <3>6
  <2> QED
    BY <2>1, <2>2
<1>9. ASSUME NEW i \in 1..(k + 1), NEW j \in 1..(k + 1), i < j, t[i] # 0, t[j] # 0 PROVE t[i] < t[j]
  <2>1. j - 1 \in 1..k /\ t[j] = s[j - 1] /\ s[j - 1] # 0
    BY <1>4, <1>6, <1>9
  <2>2. CASE i = 1
    BY <1>6, <1>7, <2>1, <2>2
  <2>3. CASE i # 1
    <3>1. i - 1 \in 1..k /\ t[i] = s[i - 1] /\ s[i - 1] # 0
      BY <1>6, <1>9, <2>3
    <3>2. i - 1 < j - 1
      BY <1>4, <1>9
    <3>3. s[i - 1] < s[j - 1]
      BY <1>1, <1>4, <2>1, <3>1, <3>2 DEF ScanInv
    <3> QED
      BY <2>1, <3>1, <3>3
  <2> QED
    BY <2>2, <2>3
<1>10. ASSUME NEW i \in 1..(k + 1), i + 1 \in 1..(k + 1), t[i] # 0, t[i + 1] # 0
       PROVE  pos[t[i + 1]] < FragEnd(pos, t[i]) + HeaderSize
  <2>1. CASE i = 1
    <3>1. 1 \in 1..k /\ k # 0 /\ t[i + 1] = s[1]
      BY <1>4, <1>6, <1>10, <2>1
    <3>2. pos[s[1]] < q + HeaderSize
      BY <1>1, <1>4, <1>10, <3>1 DEF ScanInv
    <3> QED
      BY <1>1, <1>6, <2>1, <3>1, <3>2
  <2>2. CASE i # 1
    <3>1. PICK j : j = i - 1
      OBVIOUS
    <3>2. j \in 1..k /\ t[i] = s[j] /\ s[j] # 0
      BY <1>6, <1>10, <2>2, <3>1
    <3>3. j + 1 \in 1..k /\ i = j + 1
      BY <1>4, <1>10, <3>1, <3>2
    <3>4. t[i + 1] = s[j + 1] /\ s[j + 1] # 0
      BY <1>6, <1>10, <3>3
    <3>5. pos[s[j + 1]] < FragEnd(pos, s[j]) + HeaderSize
      BY <1>1, <1>4, <3>2, <3>3, <3>4 DEF ScanInv
    <3> QED
      BY <3>2, <3>4, <3>5
  <2> QED
    BY <2>1, <2>2
<1>11. ScanInv(t, n, p, pos, torn)
  <2>1. pos[t[1]] < p + HeaderSize /\ pos[t[1]] = p
    BY <1>2, <1>3, <1>6
  <2> QED
    BY <1>1, <1>6, <1>8, <1>9, <1>10, <2>1 DEF ScanInv
<1>12. AllRead(t, n, p, pos, torn)
  <2>1. SUFFICES ASSUME NEW h \in 0..N, NEW m \in 0..N,
                        h < m, torn = 0 \/ m < torn, FragEnd(pos, m) <= n, p = FragEnd(pos, h) \/ p = pos[h + 1]
                 PROVE  m - h <= k + 1 /\ \A i \in 1..(m - h) : t[i] = h + i
    BY <1>1, <1>6 DEF AllRead
  <2>2. Expect(n, p, h, pos, torn)
    BY <1>1, <2>1, NextIs
  <2>3. f = h + 1
    BY <2>2, ExpectIs
  <2>4. h \in Nat /\ m \in Nat /\ f <= m
    BY <1>2, <2>1, <2>3
  <2>5. CASE f = m
    <3>1. m - h = 1 /\ m - h <= k + 1
      BY <1>4, <2>3, <2>4, <2>5
    <3> QED
      BY <1>6, <2>3, <3>1
  <2>6. CASE f # m
    <3>1. f \in 0..N /\ f < m
      BY <1>2, <1>3, <2>4, <2>6
    <3>2. m - f <= k /\ \A i \in 1..(m - f) : s[i] = f + i
      BY <1>1, <1>4, <2>1, <3>1 DEF AllRead
    <3>3. m - h <= k + 1
      BY <1>4, <2>3, <2>4, <3>2
    <3>4. ASSUME NEW i \in 1..(m - h) PROVE t[i] = h + i
      <4>1. CASE i = 1
        BY <1>6, <2>3, <4>1
      <4>2. CASE i # 1
        <5>1. i - 1 \in 1..(m - f) /\ i \in 1..(k + 1) /\ f + (i - 1) = h + i
          BY <1>4, <2>3, <2>4, <3>3, <4>2
        <5>2. t[i] = s[i - 1]
          BY <1>6, <4>2, <5>1
        <5> QED
          BY <3>2, <5>1, <5>2
      <4> QED
        BY <4>1, <4>2
    <3> QED
      BY <3>3, <3>4
  <2> QED
    BY <2>5, <2>6
<1> QED
  BY <1>11, <1>12

\* What the reader finds in the first n bytes.
LEMMA PhysicalInv ==
  ASSUME NEW pos, NEW torn, LogGood(pos, torn), NEW n \in 0..Len(fFile)
  PROVE  ScanInv(Log!Physical(n), n, 0, pos, torn) /\ AllRead(Log!Physical(n), n, 0, pos, torn)
<1>1. PICK s \in [0..n -> Seq(Nat)] : Log!Physical(n) = s[0] /\ \A p \in 0..n : s[p] = Scan(s, n, p)
  BY PhysicalIs
<1>2. n \in Nat
  BY Places
<1> DEFINE Good(p) == ScanInv(s[p], n, p, pos, torn) /\ AllRead(s[p], n, p, pos, torn)
           T == { k \in Nat : \A p \in 0..n : n - p < k => Good(p) }
<1>3. 0 \in T
  BY <1>2
<1>4. ASSUME NEW k \in Nat, k \in T PROVE k + 1 \in T
  <2>1. SUFFICES ASSUME NEW p \in 0..n, n - p < k + 1 PROVE Good(p)
    BY <1>4
  <2>2. ASSUME NEW q \in 0..n, p < q PROVE Good(q)
    <3>1. n - q < k
      BY <1>2, <2>1, <2>2
    <3> HIDE DEF Good
    <3> QED
      BY <1>4, <3>1
  <2>3. s[p] = Scan(s, n, p)
    BY <1>1
  <2>4. CASE p = n \/ (~ Taken(n, p) /\ AtEnd(n, p))
    <3>1. s[p] = <<>>
      BY <2>3, <2>4 DEF Scan
    <3> QED
      BY <2>4, <3>1, ScanStop
  <2>5. CASE p # n /\ Taken(n, p)
    <3>1. PICK f, q : f = FragAt(p) /\ q = FragEnd(pos, f)
      OBVIOUS
    <3>2. p + HeaderSize + fFragments[f].len = q /\ q \in 0..n /\ p < q
      BY <2>5, <3>1, TakenIs
    <3>3. s[p] = <<f>> \o s[q]
      BY <2>3, <2>5, <3>1, <3>2 DEF Scan
    <3>4. PICK t, v : t = s[p] /\ v = s[q]
      OBVIOUS
    <3>5. ScanInv(v, n, q, pos, torn) /\ AllRead(v, n, q, pos, torn)
      BY <2>2, <3>2, <3>4
    <3>6. ScanInv(t, n, p, pos, torn) /\ AllRead(t, n, p, pos, torn)
      <4>1. t = <<f>> \o v
        BY <3>3, <3>4
      <4> QED
        BY <2>5, <3>1, <3>5, <4>1, ScanTaken
    <3> QED
      BY <3>4, <3>6
  <2>6. CASE p # n /\ ~ Taken(n, p) /\ ~ AtEnd(n, p)
    <3>1. PICK q, v, t : q = BlockEndOf(n, p) /\ v = s[q] /\ t = s[p]
      OBVIOUS
    <3>2. q \in 0..n /\ p < q
      BY <1>2, <2>6, <3>1, BlockEndIs
    <3>3. ScanInv(v, n, q, pos, torn) /\ AllRead(v, n, q, pos, torn)
      BY <2>2, <3>1, <3>2
    <3>4. CASE q - p < HeaderSize
      <4>1. t = v
        BY <2>3, <2>6, <3>1, <3>4 DEF Scan
      <4>2. ScanInv(v, n, p, pos, torn) /\ AllRead(v, n, p, pos, torn)
        BY <2>6, <3>1, <3>3, <3>4, ScanSkip
      <4> QED
        BY <3>1, <4>1, <4>2
    <3>5. CASE ~ (q - p < HeaderSize)
      <4>1. t = <<Log!Bad>> \o v
        BY <2>3, <2>6, <3>1, <3>5 DEF Scan
      <4>2. ScanInv(t, n, p, pos, torn) /\ AllRead(t, n, p, pos, torn)
        BY <2>6, <3>1, <3>3, <3>5, <4>1, ScanBad
      <4> QED
        BY <3>1, <4>2
    <3> QED
      BY <3>4, <3>5
  <2> QED
    BY <2>4, <2>5, <2>6
<1>5. Nat \subseteq T
  <2> HIDE DEF T
  <2> QED
    BY <1>3, <1>4, NaturalInduction
<1>6. Good(0)
  <2>1. n + 1 \in Nat /\ 0 \in 0..n /\ n - 0 < n + 1
    BY <1>2
  <2> HIDE DEF Good
  <2> QED
    BY <1>5, <2>1
<1> QED
  BY <1>1, <1>6

RecordOf(f) == fFragments[f].record
TypeOf(f) == fFragments[f].type

LEMMA RecordsAre ==
  ASSUME NEW pos, NEW torn, LogGood(pos, torn)
  PROVE  /\ Len(fFragments) \in Nat /\ Len(fEnds) \in Nat /\ fEnds \in Seq(Nat) /\ DOMAIN fEnds = 1..Len(fEnds)
         /\ DOMAIN fFragments = 1..Len(fFragments)
         /\ \A f \in 1..Len(fFragments) : RecordOf(f) \in 1..Len(fEnds) /\ TypeOf(f) \in FragType
         /\ \A f, g \in 1..Len(fFragments) : f <= g => RecordOf(f) <= RecordOf(g)
         /\ \A f \in 1..Len(fFragments) : TypeOf(f) \in {"full", "first"} <=> (f = 1 \/ RecordOf(f - 1) # RecordOf(f))
         /\ \A f \in 1..Len(fFragments) : TypeOf(f) \in {"full", "last"} => LastOf(fFragments, f)
         /\ \A f \in 1..Len(fFragments) : LastOf(fFragments, f) /\ RecordOf(f) # fFailed => TypeOf(f) \in {"full", "last"}
         /\ \A r \in 1..Len(fEnds) : \E f \in 1..Len(fFragments) : RecordOf(f) = r
         /\ (torn = 0) <=> (fFailed = 0)
         /\ torn # 0 => torn \in 1..Len(fFragments) /\ RecordOf(torn) = fFailed /\ LastOf(fFragments, torn)
                        /\ fEnds[fFailed] = 0
         /\ \A f \in 1..Len(fFragments) : LastOf(fFragments, f) /\ RecordOf(f) # fFailed =>
              fEnds[RecordOf(f)] = FragEnd(pos, f)
<1>1. Recorded(fFragments, fEnds, fFailed) /\ Ended(fFragments, fEnds, fFailed, pos, torn)
  BY DEF LogGood
<1>2. fFragments \in Seq(Fragment) /\ fEnds \in Seq(Nat)
  BY <1>1 DEF Recorded
<1>3. \A f \in 1..Len(fFragments) : TypeOf(f) \in FragType
  <2>1. ASSUME NEW f \in 1..Len(fFragments) PROVE TypeOf(f) \in FragType
    <3>1. fFragments[f] \in Fragment
      BY <1>2
    <3> QED
      BY <3>1 DEF Fragment, TypeOf
  <2> QED
    BY <2>1
<1>4. Len(fFragments) \in Nat /\ Len(fEnds) \in Nat /\ DOMAIN fEnds = 1..Len(fEnds) /\ DOMAIN fFragments = 1..Len(fFragments)
  BY <1>2
<1> QED
  BY <1>1, <1>2, <1>3, <1>4 DEF Recorded, Ended, RecordOf, TypeOf, FragEnd

\* Of two fragments with nothing dropped between them, the second is the next
\* one of the same record, unless it begins a record.
LEMMA NextFragment ==
  ASSUME NEW pos, NEW torn, LogGood(pos, torn), NEW n, NEW p, NEW s, ScanInv(s, n, p, pos, torn),
         NEW i \in 1..Len(s), i + 1 \in 1..Len(s), s[i] # 0, s[i + 1] # 0, TypeOf(s[i + 1]) \notin {"full", "first"}
  PROVE  s[i + 1] = s[i] + 1 /\ RecordOf(s[i + 1]) = RecordOf(s[i])
<1>1. PICK f, g, N : f = s[i] /\ g = s[i + 1] /\ N = Len(fFragments)
  OBVIOUS
<1>2. i < i + 1
  BY DEF ScanInv
<1>3. f \in 1..N /\ g \in 1..N /\ f # torn /\ g # torn /\ f < g /\ pos[g] < FragEnd(pos, f) + HeaderSize
  BY <1>1, <1>2 DEF ScanInv
<1>4. N \in Nat
  BY <1>1, RecordsAre
<1>5. ASSUME NEW h \in 1..N, f < h, h < g PROVE h = torn
  <2>1. SUFFICES ASSUME h # torn PROVE FALSE
    OBVIOUS
  <2>2. \A a, b \in 1..N : a # torn /\ b # torn /\ a < b => FragEnd(pos, a) <= pos[b]
    BY <1>1, Places
  <2>3. FragEnd(pos, f) <= pos[h] /\ FragEnd(pos, h) <= pos[g]
    BY <1>3, <1>5, <2>1, <2>2
  <2>4. PICK e, a, b, c : e = FragEnd(pos, f) /\ a = pos[h] /\ b = FragEnd(pos, h) /\ c = pos[g]
    OBVIOUS
  <2>5. e \in Nat /\ a \in Nat /\ b \in Nat /\ c \in Nat /\ a + HeaderSize <= b /\ HeaderSize \in Nat
    BY <1>1, <1>3, <2>4, Places
  <2>6. e <= a /\ b <= c /\ c < e + HeaderSize
    BY <1>3, <2>3, <2>4
  <2> QED
    BY <2>5, <2>6
<1>6. RecordOf(g - 1) = RecordOf(g) /\ g # 1
  BY <1>1, <1>3, RecordsAre
<1>7. g = f + 1
  <2>1. SUFFICES ASSUME g # f + 1 PROVE FALSE
    OBVIOUS
  <2>2. f + 1 \in 1..N /\ f < f + 1 /\ f + 1 < g /\ g - 1 \in 1..N /\ f < g - 1 /\ g - 1 < g
    BY <1>3, <1>4, <2>1
  <2>3. f + 1 = torn /\ g - 1 = torn
    BY <1>5, <2>2
  <2>4. torn # 0 /\ torn # N /\ torn + 1 = g
    BY <1>3, <1>4, <2>2, <2>3
  <2>5. LastOf(fFragments, torn)
    BY <2>4, RecordsAre
  <2>6. RecordOf(torn + 1) # RecordOf(torn)
    BY <1>1, <2>4, <2>5 DEF LastOf, RecordOf
  <2> QED
    BY <1>6, <2>3, <2>4, <2>6
<1>8. g - 1 = f
  BY <1>3, <1>4, <1>7
<1> QED
  BY <1>1, <1>6, <1>7, <1>8

\* The fragments of a record are those from its beginning to its end.
LEMMA RecordIs ==
  ASSUME NEW pos, NEW torn, LogGood(pos, torn), NEW a \in 1..Len(fFragments), NEW b \in 1..Len(fFragments), a <= b,
         RecordOf(a) = RecordOf(b), TypeOf(a) \in {"full", "first"}, LastOf(fFragments, b)
  PROVE  Log!FragmentsOf(RecordOf(a)) = a..b
<1>1. PICK N, r : N = Len(fFragments) /\ r = RecordOf(a)
  OBVIOUS
<1>2. N \in Nat /\ r \in Nat /\ \A f \in 1..N : RecordOf(f) \in Nat
  BY <1>1, RecordsAre
<1>3. \A f, g \in 1..N : f <= g => RecordOf(f) <= RecordOf(g)
  BY <1>1, RecordsAre
<1>4. Log!FragmentsOf(r) = { f \in 1..N : RecordOf(f) = r }
  BY <1>1, RecordsAre DEF Log!FragmentsOf, RecordOf
<1>5. ASSUME NEW f \in a..b PROVE f \in 1..N /\ RecordOf(f) = r
  <2>1. f \in 1..N /\ a <= f /\ f <= b
    BY <1>1, <1>2
  <2>2. RecordOf(a) <= RecordOf(f) /\ RecordOf(f) <= RecordOf(b)
    BY <1>1, <1>3, <2>1
  <2>3. PICK c : c = RecordOf(f)
    OBVIOUS
  <2>4. c \in Nat /\ r <= c /\ c <= r
    BY <1>1, <1>2, <2>1, <2>2, <2>3
  <2> QED
    BY <1>2, <2>1, <2>3, <2>4
<1>6. ASSUME NEW f \in 1..N, RecordOf(f) = r PROVE f \in a..b
  <2>1. ~ (f < a)
    <3>1. SUFFICES ASSUME f < a PROVE FALSE
      OBVIOUS
    <3>2. a - 1 \in 1..N /\ f <= a - 1 /\ a - 1 <= a /\ a # 1
      BY <1>1, <1>2, <3>1
    <3>3. RecordOf(a - 1) # RecordOf(a)
      BY <3>2, RecordsAre
    <3>4. RecordOf(f) <= RecordOf(a - 1) /\ RecordOf(a - 1) <= RecordOf(a)
      BY <1>1, <1>3, <3>2
    <3>5. PICK c : c = RecordOf(a - 1)
      OBVIOUS
    <3>6. c \in Nat /\ r <= c /\ c <= r /\ c # r
      BY <1>1, <1>2, <1>6, <3>2, <3>3, <3>4, <3>5
    <3> QED
      BY <1>2, <3>6
  <2>2. ~ (b < f)
    <3>1. SUFFICES ASSUME b < f PROVE FALSE
      OBVIOUS
    <3>2. b + 1 \in 1..N /\ b + 1 <= f /\ b <= b + 1 /\ b # N
      BY <1>1, <1>2, <3>1
    <3>3. RecordOf(b + 1) # RecordOf(b)
      BY <1>1, <3>2 DEF LastOf, RecordOf
    <3>4. RecordOf(b) <= RecordOf(b + 1) /\ RecordOf(b + 1) <= RecordOf(f)
      BY <1>1, <1>3, <3>2
    <3>5. PICK c : c = RecordOf(b + 1)
      OBVIOUS
    <3>6. c \in Nat /\ r <= c /\ c <= r /\ c # r
      BY <1>1, <1>2, <1>6, <3>2, <3>3, <3>4, <3>5
    <3> QED
      BY <1>2, <3>6
  <2> QED
    BY <1>1, <1>2, <2>1, <2>2
<1>7. Log!FragmentsOf(r) = a..b
  BY <1>4, <1>5, <1>6
<1> QED
  BY <1>1, <1>7

\* The numbers i to j of what is found are a record.
SpanOf(s, i, j) ==
  /\ i \in 1..Len(s) /\ j \in 1..Len(s) /\ i <= j
  /\ \A m \in i..j : s[m] # 0
  /\ TypeOf(s[i]) \in {"full", "first"} /\ TypeOf(s[j]) \in {"full", "last"}
  /\ \A m \in i..j : m # i => TypeOf(s[m]) \notin {"full", "first"}

LEMMA SpansAre ==
  ASSUME NEW s \in Seq(Nat), NEW i, NEW j, <<i, j>> \in Log!Spans(s)
  PROVE  SpanOf(s, i, j)
<1>1. DOMAIN s = 1..Len(s) /\ Len(s) \in Nat
  OBVIOUS
<1>2. i \in 1..Len(s) /\ j \in 1..Len(s)
  BY <1>1 DEF Log!Spans
<1>3. \/ i = j /\ Log!Type(s[i]) = "full"
      \/ /\ i < j /\ Log!Type(s[i]) = "first" /\ Log!Type(s[j]) = "last"
         /\ \A m \in (i + 1)..(j - 1) : Log!Type(s[m]) = "middle"
  BY DEF Log!Spans
<1>4. ASSUME NEW m, Log!Type(s[m]) \in {"full", "first", "middle", "last"}
      PROVE  s[m] # 0 /\ TypeOf(s[m]) = Log!Type(s[m])
  BY <1>4 DEF Log!Type, Log!Bad, TypeOf
<1>5. CASE i = j /\ Log!Type(s[i]) = "full"
  <2>1. s[i] # 0 /\ TypeOf(s[i]) = "full"
    BY <1>4, <1>5
  <2>2. \A m \in i..j : m = i
    BY <1>2, <1>5
  <2>3. i <= j
    BY <1>2, <1>5
  <2> QED
    BY <1>2, <1>5, <2>1, <2>2, <2>3 DEF SpanOf
<1>6. CASE i # j
  <2>1. i < j /\ Log!Type(s[i]) = "first" /\ Log!Type(s[j]) = "last" /\ \A m \in (i + 1)..(j - 1) : Log!Type(s[m]) = "middle"
    BY <1>3, <1>6
  <2>2. s[i] # 0 /\ TypeOf(s[i]) = "first" /\ s[j] # 0 /\ TypeOf(s[j]) = "last"
    BY <1>4, <2>1
  <2>3. \A m \in (i + 1)..(j - 1) : s[m] # 0 /\ TypeOf(s[m]) = "middle"
    BY <1>4, <2>1
  <2>4. \A m \in i..j : m = i \/ m = j \/ m \in (i + 1)..(j - 1)
    BY <1>2
  <2>5. \A m \in i..j : s[m] # 0
    BY <2>2, <2>3, <2>4
  <2>6. \A m \in i..j : m # i => TypeOf(s[m]) \notin {"full", "first"}
    BY <2>2, <2>3, <2>4
  <2>7. i <= j
    BY <1>2, <2>1
  <2> QED
    BY <1>2, <2>2, <2>5, <2>6, <2>7 DEF SpanOf
<1> QED
  BY <1>3, <1>5, <1>6

\* The fragments i to j are a record that is in the first n bytes.
WholeRecord(s, i, j, n, pos) ==
  /\ s[i] \in 1..Len(fFragments) /\ TypeOf(s[i]) \in {"full", "first"}
  /\ { s[m] : m \in i..j } = Log!FragmentsOf(RecordOf(s[i]))
  /\ RecordOf(s[i]) \in 1..Len(fEnds) /\ RecordOf(s[i]) # fFailed
  /\ \E b \in 1..Len(fFragments) : FragEnd(pos, b) <= n /\ fEnds[RecordOf(s[i])] = FragEnd(pos, b)

LEMMA SpanIs ==
  ASSUME NEW pos, NEW torn, LogGood(pos, torn), NEW n, NEW p, NEW s, ScanInv(s, n, p, pos, torn),
         NEW i, NEW j, SpanOf(s, i, j)
  PROVE  WholeRecord(s, i, j, n, pos)
<1>1. PICK a, r, N : a = s[i] /\ r = RecordOf(a) /\ N = Len(fFragments)
  OBVIOUS
<1>2. i \in Nat /\ j \in Nat /\ Len(s) \in Nat /\ i <= j /\ j <= Len(s) /\ i # 0
  BY DEF SpanOf, ScanInv
<1>3. \A m \in i..j : m \in 1..Len(s) /\ s[m] # 0 /\ s[m] \in 1..N /\ s[m] # torn /\ FragEnd(pos, s[m]) <= n
  <2>1. \A m \in i..j : m \in 1..Len(s)
    BY <1>2
  <2> QED
    BY <1>1, <2>1 DEF SpanOf, ScanInv
<1>4. N \in Nat /\ a \in 1..N /\ TypeOf(a) \in {"full", "first"} /\ a \in Nat /\ i \in i..j /\ j \in i..j
  BY <1>1, <1>2, <1>3, RecordsAre DEF SpanOf
<1> DEFINE T == { k \in Nat : i + k <= j => s[i + k] = a + k /\ RecordOf(s[i + k]) = r }
<1>5. 0 \in T
  BY <1>1, <1>2, <1>4
<1>6. ASSUME NEW k \in Nat, k \in T PROVE k + 1 \in T
  <2>1. SUFFICES ASSUME i + (k + 1) <= j PROVE s[i + (k + 1)] = a + (k + 1) /\ RecordOf(s[i + (k + 1)]) = r
    BY <1>6
  <2>2. PICK m : m = i + k
    OBVIOUS
  <2>3. m \in i..j /\ m + 1 \in i..j /\ m + 1 # i /\ i + (k + 1) = m + 1 /\ i + k <= j
    BY <1>2, <2>1, <2>2
  <2>4. s[m] = a + k /\ RecordOf(s[m]) = r
    BY <1>6, <2>2, <2>3
  <2>5. m \in 1..Len(s) /\ m + 1 \in 1..Len(s) /\ s[m] # 0 /\ s[m + 1] # 0
    BY <1>3, <2>3
  <2>6. TypeOf(s[m + 1]) \notin {"full", "first"}
    BY <2>3 DEF SpanOf
  <2>7. s[m + 1] = s[m] + 1 /\ RecordOf(s[m + 1]) = RecordOf(s[m])
    BY <2>5, <2>6, NextFragment
  <2> QED
    BY <1>4, <2>3, <2>4, <2>7
<1>7. Nat \subseteq T
  <2> HIDE DEF T
  <2> QED
    BY <1>5, <1>6, NaturalInduction
<1>8. ASSUME NEW m \in i..j PROVE s[m] = a + (m - i) /\ RecordOf(s[m]) = r
  <2>1. PICK k : k = m - i
    OBVIOUS
  <2>2. k \in Nat /\ i + k = m /\ i + k <= j
    BY <1>2, <2>1
  <2>3. k \in T
    BY <1>7, <2>2
  <2> QED
    BY <2>1, <2>2, <2>3
<1>9. PICK b : b = s[j]
  OBVIOUS
<1>10. b \in 1..N /\ b = a + (j - i) /\ RecordOf(b) = r /\ a <= b /\ LastOf(fFragments, b) /\ FragEnd(pos, b) <= n
  <2>1. b \in 1..N /\ b = a + (j - i) /\ RecordOf(b) = r /\ FragEnd(pos, b) <= n
    BY <1>3, <1>4, <1>8, <1>9
  <2>2. a <= b
    BY <1>2, <1>4, <2>1
  <2>3. TypeOf(b) \in {"full", "last"}
    BY <1>9 DEF SpanOf
  <2>4. LastOf(fFragments, b)
    BY <1>1, <2>1, <2>3, RecordsAre
  <2> QED
    BY <2>1, <2>2, <2>4
<1>11. Log!FragmentsOf(r) = a..b
  BY <1>1, <1>4, <1>10, RecordIs
<1>12. { s[m] : m \in i..j } = a..b
  <2>1. ASSUME NEW m \in i..j PROVE s[m] \in a..b
    BY <1>2, <1>4, <1>8, <1>10
  <2>2. ASSUME NEW f \in a..b PROVE \E m \in i..j : f = s[m]
    <3>1. PICK m : m = i + (f - a)
      OBVIOUS
    <3>2. m \in i..j /\ a + (m - i) = f
      BY <1>2, <1>4, <1>10, <3>1
    <3>3. s[m] = f
      BY <1>8, <3>2
    <3> QED
      BY <3>2, <3>3
  <2> QED
    BY <2>1, <2>2
<1>13. r # fFailed
  <2>1. SUFFICES ASSUME r = fFailed PROVE FALSE
    OBVIOUS
  <2>2. r \in 1..Len(fEnds) /\ Len(fEnds) \in Nat
    BY <1>1, <1>4, RecordsAre
  <2>3. torn \in 1..N /\ RecordOf(torn) = r
    BY <1>1, <2>1, <2>2, RecordsAre
  <2>4. torn \in Log!FragmentsOf(r)
    BY <1>1, <2>3, RecordsAre DEF Log!FragmentsOf, RecordOf
  <2>5. PICK m \in i..j : torn = s[m]
    BY <1>11, <1>12, <2>4
  <2> QED
    BY <1>3, <2>5
<1>14. fEnds[r] = FragEnd(pos, b) /\ r \in 1..Len(fEnds)
  BY <1>1, <1>4, <1>10, <1>13, RecordsAre
<1> QED
  BY <1>1, <1>4, <1>10, <1>11, <1>12, <1>13, <1>14 DEF WholeRecord

\* A record begins and ends.
LEMMA Bounds ==
  ASSUME NEW pos, NEW torn, LogGood(pos, torn), NEW r \in 1..Len(fEnds)
  PROVE  \E a, b \in 1..Len(fFragments) :
           /\ a <= b /\ RecordOf(a) = r /\ RecordOf(b) = r
           /\ TypeOf(a) \in {"full", "first"} /\ LastOf(fFragments, b)
<1>1. PICK N : N = Len(fFragments)
  OBVIOUS
<1>2. N \in Nat
  BY <1>1, RecordsAre
<1>3. PICK f \in 1..N : RecordOf(f) = r
  BY <1>1, RecordsAre
<1> DEFINE Begins(k) == \E a \in 1..N : a <= k /\ RecordOf(a) = r /\ TypeOf(a) \in {"full", "first"}
           T == { k \in Nat : k \in 1..N /\ RecordOf(k) = r => Begins(k) }
<1>4. 0 \in T
  OBVIOUS
<1>5. ASSUME NEW k \in Nat, k \in T PROVE k + 1 \in T
  <2>1. SUFFICES ASSUME k + 1 \in 1..N, RecordOf(k + 1) = r PROVE Begins(k + 1)
    BY <1>5
  <2>2. CASE TypeOf(k + 1) \in {"full", "first"}
    BY <2>1, <2>2
  <2>3. CASE TypeOf(k + 1) \notin {"full", "first"}
    <3>1. PICK h : h = k + 1
      OBVIOUS
    <3>2. h \in 1..N /\ TypeOf(h) \notin {"full", "first"} /\ h - 1 = k
      BY <2>1, <2>3, <3>1
    <3>3. h # 1 /\ RecordOf(h - 1) = RecordOf(h)
      BY <1>1, <3>2, RecordsAre
    <3>4. k \in 1..N /\ RecordOf(k) = r
      BY <1>2, <2>1, <3>1, <3>2, <3>3
    <3>5. PICK a \in 1..N : a <= k /\ RecordOf(a) = r /\ TypeOf(a) \in {"full", "first"}
      BY <1>5, <3>4
    <3>6. a <= k + 1
      BY <1>2, <3>5
    <3> QED
      BY <3>5, <3>6
  <2> QED
    BY <2>2, <2>3
<1>6. Nat \subseteq T
  <2> HIDE DEF T
  <2> QED
    BY <1>4, <1>5, NaturalInduction
<1>7. PICK a \in 1..N : a <= f /\ RecordOf(a) = r /\ TypeOf(a) \in {"full", "first"}
  <2>1. f \in T
    BY <1>2, <1>3, <1>6
  <2> QED
    BY <1>3, <2>1
<1> DEFINE Ends(k) == \E b \in 1..N : k <= b /\ RecordOf(b) = r /\ LastOf(fFragments, b)
           U == { k \in Nat : \A h \in 1..N : N - h < k /\ RecordOf(h) = r => Ends(h) }
<1>8. 0 \in U
  BY <1>2
<1>9. ASSUME NEW k \in Nat, k \in U PROVE k + 1 \in U
  <2>1. SUFFICES ASSUME NEW h \in 1..N, N - h < k + 1, RecordOf(h) = r PROVE Ends(h)
    BY <1>9
  <2>2. CASE LastOf(fFragments, h)
    BY <1>2, <2>1, <2>2
  <2>3. CASE ~ LastOf(fFragments, h)
    <3>1. h # N /\ RecordOf(h + 1) = RecordOf(h)
      BY <1>1, <2>3 DEF LastOf, RecordOf
    <3>2. h + 1 \in 1..N /\ N - (h + 1) < k /\ RecordOf(h + 1) = r
      BY <1>2, <2>1, <3>1
    <3>3. Ends(h + 1)
      <4>1. PICK g : g = h + 1
        OBVIOUS
      <4>2. g \in 1..N /\ N - g < k /\ RecordOf(g) = r
        BY <3>2, <4>1
      <4>3. Ends(g)
        BY <1>9, <4>2
      <4> QED
        BY <4>1, <4>3
    <3>4. PICK b \in 1..N : h + 1 <= b /\ RecordOf(b) = r /\ LastOf(fFragments, b)
      BY <3>3
    <3>5. h <= b
      BY <1>2, <3>4
    <3> QED
      BY <3>4, <3>5
  <2> QED
    BY <2>2, <2>3
<1>10. Nat \subseteq U
  <2> HIDE DEF U
  <2> QED
    BY <1>8, <1>9, NaturalInduction
<1>11. PICK b \in 1..N : f <= b /\ RecordOf(b) = r /\ LastOf(fFragments, b)
  <2>1. N - f < N + 1 /\ N + 1 \in Nat
    BY <1>2
  <2>2. N + 1 \in U
    BY <1>10, <2>1
  <2> QED
    BY <1>3, <2>1, <2>2
<1>12. a <= b
  BY <1>2, <1>7, <1>11
<1> QED
  BY <1>1, <1>7, <1>11, <1>12

\* What ReadRecord returns, from the first fragment to the last.
Returned(read, s) ==
  /\ \A i \in DOMAIN read : \E j : <<i, j>> \in Log!Spans(s) /\ read[i] = { s[m] : m \in i..j }
  /\ \A i, j : <<i, j>> \in Log!Spans(s) => i \in DOMAIN read

LEMMA ReadIs ==
  ASSUME NEW n, NEW s, s = Log!Physical(n), NEW read, read = Log!Read(n)
  PROVE  Returned(read, s)
<1>1. read = [i \in { x[1] : x \in Log!Spans(s) } |->
                { s[m] : m \in i..(CHOOSE j \in DOMAIN s : <<i, j>> \in Log!Spans(s)) }]
  BY DEF Log!Read
<1>2. DOMAIN read = { x[1] : x \in Log!Spans(s) }
  BY <1>1
<1>3. ASSUME NEW x \in Log!Spans(s) PROVE x = <<x[1], x[2]>> /\ x[2] \in DOMAIN s
  BY DEF Log!Spans
<1>4. ASSUME NEW i \in DOMAIN read PROVE \E j : <<i, j>> \in Log!Spans(s) /\ read[i] = { s[m] : m \in i..j }
  <2>1. PICK x \in Log!Spans(s) : i = x[1]
    BY <1>2
  <2>2. \E j \in DOMAIN s : <<i, j>> \in Log!Spans(s)
    BY <1>3, <2>1
  <2>3. PICK j : j = CHOOSE h \in DOMAIN s : <<i, h>> \in Log!Spans(s)
    OBVIOUS
  <2>4. <<i, j>> \in Log!Spans(s)
    BY <2>2, <2>3
  <2>5. read[i] = { s[m] : m \in i..j }
    BY <1>1, <1>2, <2>3
  <2> QED
    BY <2>4, <2>5
<1>5. ASSUME NEW i, NEW j, <<i, j>> \in Log!Spans(s) PROVE i \in DOMAIN read
  <2>1. <<i, j>>[1] = i
    OBVIOUS
  <2> QED
    BY <1>2, <1>5, <2>1
<1> QED
  BY <1>4, <1>5 DEF Returned

\* A record that is added before the cut, and before a failure, is among them.
Intact(r) == fFailed = 0 \/ r < fFailed
Found(s, r) == \E i, j : <<i, j>> \in Log!Spans(s) /\ RecordOf(s[i]) = r

LEMMA AddedRead ==
  ASSUME NEW pos, NEW torn, LogGood(pos, torn), NEW n \in 0..Len(fFile),
         NEW s, ScanInv(s, n, 0, pos, torn), AllRead(s, n, 0, pos, torn),
         NEW r, r \in Log!Added(n), Intact(r)
  PROVE  Found(s, r)
<1>1. PICK N : N = Len(fFragments)
  OBVIOUS
<1>2. N \in Nat /\ r \in 1..Len(fEnds) /\ Len(fEnds) \in Nat /\ fEnds[r] <= n
  BY <1>1, RecordsAre DEF Log!Added
<1>3. PICK a \in 1..N, b \in 1..N :
        /\ a <= b /\ RecordOf(a) = r /\ RecordOf(b) = r
        /\ TypeOf(a) \in {"full", "first"} /\ LastOf(fFragments, b)
  BY <1>1, <1>2, Bounds
<1>4. \A f \in 1..N : RecordOf(f) \in Nat
  BY <1>1, <1>2, RecordsAre
<1>5. \A f, g \in 1..N : f <= g => RecordOf(f) <= RecordOf(g)
  BY <1>1, RecordsAre
<1>6. r # fFailed
  <2>1. r \in Nat /\ r # 0
    BY <1>2
  <2> QED
    BY <2>1 DEF Intact
<1>7. torn = 0 \/ b < torn
  <2>1. SUFFICES ASSUME torn # 0, ~ (b < torn) PROVE FALSE
    OBVIOUS
  <2>2. torn \in 1..N /\ RecordOf(torn) = fFailed /\ fFailed # 0
    BY <1>1, <2>1, RecordsAre
  <2>3. torn <= b
    BY <1>2, <2>1, <2>2
  <2>4. RecordOf(torn) <= RecordOf(b)
    BY <1>5, <2>2, <2>3
  <2>5. RecordOf(torn) \in Nat
    BY <1>4, <2>2
  <2> QED
    BY <1>2, <1>3, <2>2, <2>4, <2>5 DEF Intact
<1>8. FragEnd(pos, b) <= n /\ FragEnd(pos, 0) = 0
  <2>1. fEnds[RecordOf(b)] = FragEnd(pos, b)
    BY <1>1, <1>3, <1>6, RecordsAre
  <2> QED
    BY <1>2, <1>3, <2>1, Places
<1>9. b <= Len(s) /\ (\A i \in 1..b : s[i] = i) /\ s \in Seq(Nat)
  <2>1. 0 \in 0..N /\ b \in 0..N /\ 0 < b /\ b - 0 = b
    BY <1>2
  <2>2. b - 0 <= Len(s) /\ \A i \in 1..(b - 0) : s[i] = 0 + i
    BY <1>1, <1>7, <1>8, <2>1 DEF AllRead
  <2>3. \A i \in 1..b : 0 + i = i
    BY <2>1
  <2> QED
    BY <2>1, <2>2, <2>3 DEF ScanInv
<1>10. a \in 1..Len(s) /\ b \in 1..Len(s) /\ DOMAIN s = 1..Len(s) /\ a \in 1..b /\ b \in 1..b
  BY <1>2, <1>3, <1>9
<1>11. \A f \in 1..N : f # 0 /\ TypeOf(f) \in FragType
  BY <1>1, RecordsAre
<1>12. \A f \in a..b : f \in 1..N /\ RecordOf(f) = r /\ s[f] = f
  <2>1. ASSUME NEW f \in a..b PROVE f \in 1..N /\ RecordOf(f) = r /\ s[f] = f
    <3>1. f \in 1..N /\ f \in 1..b /\ a <= f /\ f <= b
      BY <1>2
    <3>2. RecordOf(a) <= RecordOf(f) /\ RecordOf(f) <= RecordOf(b)
      BY <1>5, <3>1
    <3>3. PICK c : c = RecordOf(f)
      OBVIOUS
    <3>4. c \in Nat /\ r <= c /\ c <= r
      BY <1>3, <1>4, <3>1, <3>2, <3>3
    <3> QED
      BY <1>2, <1>9, <3>1, <3>3, <3>4
  <2> QED
    BY <2>1
<1>13. ASSUME NEW f \in a..b
       PROVE  /\ TypeOf(f) \in {"full", "first"} <=> f = a
              /\ TypeOf(f) \in {"full", "last"} <=> f = b
  <2>1. TypeOf(f) \in {"full", "first"} => f = a
    <3>1. SUFFICES ASSUME TypeOf(f) \in {"full", "first"}, f # a PROVE FALSE
      OBVIOUS
    <3>2. f - 1 \in a..b /\ f # 1 /\ f \in 1..N
      BY <1>2, <3>1
    <3>3. RecordOf(f - 1) # RecordOf(f)
      BY <1>1, <3>1, <3>2, RecordsAre
    <3> QED
      BY <1>12, <3>2, <3>3
  <2>2. TypeOf(b) \in {"full", "last"}
    BY <1>1, <1>3, <1>6, RecordsAre
  <2>3. TypeOf(f) \in {"full", "last"} => f = b
    <3>1. SUFFICES ASSUME TypeOf(f) \in {"full", "last"}, f # b PROVE FALSE
      OBVIOUS
    <3>2. f + 1 \in a..b /\ f \in 1..N /\ f # N
      BY <1>2, <3>1
    <3>3. LastOf(fFragments, f)
      BY <1>1, <3>1, <3>2, RecordsAre
    <3>4. RecordOf(f + 1) # RecordOf(f)
      BY <1>1, <3>2, <3>3 DEF LastOf, RecordOf
    <3> QED
      BY <1>12, <3>2, <3>4
  <2> QED
    BY <1>3, <2>1, <2>2, <2>3
<1>14. \A f \in a..b : Log!Type(s[f]) = TypeOf(f)
  BY <1>11, <1>12 DEF Log!Type, Log!Bad, TypeOf
<1>15. a \in a..b /\ b \in a..b
  BY <1>2, <1>3
<1>16. <<a, b>> \in Log!Spans(s)
  <2>1. CASE a = b
    <3>1. TypeOf(a) = "full"
      BY <1>13, <1>15, <2>1
    <3>2. Log!Type(s[a]) = "full"
      BY <1>14, <1>15, <3>1
    <3> QED
      BY <1>10, <2>1, <3>2 DEF Log!Spans
  <2>2. CASE a # b
    <3>1. TypeOf(a) = "first" /\ TypeOf(b) = "last"
      BY <1>3, <1>13, <1>15, <2>2
    <3>2. ASSUME NEW f \in (a + 1)..(b - 1) PROVE Log!Type(s[f]) = "middle"
      <4>1. f \in a..b /\ f # a /\ f # b
        BY <1>2
      <4>2. TypeOf(f) \in FragType
        BY <1>11, <1>12, <4>1
      <4>3. TypeOf(f) = "middle"
        BY <1>13, <4>1, <4>2 DEF FragType
      <4> QED
        BY <1>14, <4>1, <4>3
    <3>3. Log!Type(s[a]) = "first" /\ Log!Type(s[b]) = "last" /\ a < b
      BY <1>2, <1>3, <1>14, <1>15, <2>2, <3>1
    <3> QED
      BY <1>10, <3>2, <3>3 DEF Log!Spans
  <2> QED
    BY <2>1, <2>2
<1>17. RecordOf(s[a]) = r
  BY <1>12, <1>15
<1> QED
  BY <1>16, <1>17 DEF Found

\* Which record is returned.
LEMMA RecordAtIs ==
  ASSUME NEW pos, NEW torn, LogGood(pos, torn), NEW q \in 1..Len(fEnds)
  PROVE  (CHOOSE r \in DOMAIN fEnds : Log!FragmentsOf(q) = Log!FragmentsOf(r)) = q
<1>1. DOMAIN fEnds = 1..Len(fEnds)
  BY RecordsAre
<1>2. ASSUME NEW r \in 1..Len(fEnds), Log!FragmentsOf(q) = Log!FragmentsOf(r) PROVE r = q
  <2>1. PICK f \in 1..Len(fFragments) : RecordOf(f) = q
    BY RecordsAre
  <2>2. f \in Log!FragmentsOf(q)
    BY <2>1, RecordsAre DEF Log!FragmentsOf, RecordOf
  <2>3. RecordOf(f) = r
    BY <1>2, <2>2 DEF Log!FragmentsOf, RecordOf
  <2> QED
    BY <2>1, <2>3
<1> QED
  BY <1>1, <1>2

LEMMA InvRead == LogInv => Log!RecordsRead
<1>1. SUFFICES ASSUME NEW pos, NEW torn, LogGood(pos, torn), NEW n \in 0..Len(fFile), NEW read, read = Log!Read(n)
      PROVE  LET RecordAt(i) == CHOOSE r \in DOMAIN fEnds : read[i] = Log!FragmentsOf(r)
             IN  /\ \A i \in DOMAIN read : \E r \in Log!Added(n) : read[i] = Log!FragmentsOf(r)
                 /\ \A i, j \in DOMAIN read : i < j => RecordAt(i) < RecordAt(j)
                 /\ \A r \in Log!Added(n) : (fFailed = Log!NoRecord \/ r < fFailed) =>
                      \E i \in DOMAIN read : read[i] = Log!FragmentsOf(r)
  BY DEF LogInv, Log!RecordsRead
<1>2. PICK s : s = Log!Physical(n)
  OBVIOUS
<1>3. LogGood(pos, torn) /\ n \in 0..Len(fFile) /\ read = Log!Read(n)
  BY <1>1
<1>4. ScanInv(s, n, 0, pos, torn) /\ AllRead(s, n, 0, pos, torn)
  BY <1>2, <1>3, PhysicalInv
<1>5. Returned(read, s)
  BY <1>2, <1>3, ReadIs
<1>6. s \in Seq(Nat) /\ \A i, j \in 1..Len(s) : i < j /\ s[i] # 0 /\ s[j] # 0 => s[i] < s[j]
  BY <1>4 DEF ScanInv
<1>7. DOMAIN fEnds = 1..Len(fEnds) /\ Len(fEnds) \in Nat /\ Len(fFragments) \in Nat /\ Len(fFile) \in Nat
  BY <1>3, RecordsAre, Places
<1>8. ASSUME NEW i \in DOMAIN read
      PROVE  /\ i \in 1..Len(s) /\ s[i] \in 1..Len(fFragments) /\ TypeOf(s[i]) \in {"full", "first"}
             /\ read[i] = Log!FragmentsOf(RecordOf(s[i])) /\ RecordOf(s[i]) \in Log!Added(n)
             /\ RecordOf(s[i]) \in 1..Len(fEnds)
  <2>1. PICK j : <<i, j>> \in Log!Spans(s) /\ read[i] = { s[m] : m \in i..j }
    BY <1>5 DEF Returned
  <2>2. SpanOf(s, i, j)
    BY <1>6, <2>1, SpansAre
  <2>3. WholeRecord(s, i, j, n, pos)
    BY <1>3, <1>4, <2>2, SpanIs
  <2>4. /\ s[i] \in 1..Len(fFragments) /\ TypeOf(s[i]) \in {"full", "first"}
        /\ { s[m] : m \in i..j } = Log!FragmentsOf(RecordOf(s[i]))
        /\ RecordOf(s[i]) \in 1..Len(fEnds)
        /\ \E b \in 1..Len(fFragments) : FragEnd(pos, b) <= n /\ fEnds[RecordOf(s[i])] = FragEnd(pos, b)
    BY <2>3 DEF WholeRecord
  <2>5. RecordOf(s[i]) \in Log!Added(n)
    <3>1. PICK b \in 1..Len(fFragments) : FragEnd(pos, b) <= n /\ fEnds[RecordOf(s[i])] = FragEnd(pos, b)
      BY <2>4
    <3>2. PICK p, e : p = pos[b] /\ e = FragEnd(pos, b)
      OBVIOUS
    <3>3. p \in Nat /\ e \in Nat /\ p + HeaderSize <= e /\ HeaderSize \in Nat /\ HeaderSize > 0
      BY <1>3, <3>2, Places
    <3>4. e # 0
      BY <3>3
    <3> QED
      BY <1>7, <2>4, <3>1, <3>2, <3>4 DEF Log!Added, Log!Lost
  <2>6. i \in 1..Len(s)
    BY <2>2 DEF SpanOf
  <2> QED
    BY <2>1, <2>4, <2>5, <2>6
<1>9. ASSUME NEW i \in DOMAIN read
      PROVE  (CHOOSE r \in DOMAIN fEnds : read[i] = Log!FragmentsOf(r)) = RecordOf(s[i])
  <2>1. PICK q : q = RecordOf(s[i])
    OBVIOUS
  <2>2. q \in 1..Len(fEnds) /\ read[i] = Log!FragmentsOf(q)
    BY <1>8, <2>1
  <2>3. (CHOOSE r \in DOMAIN fEnds : Log!FragmentsOf(q) = Log!FragmentsOf(r)) = q
    BY <1>3, <2>2, RecordAtIs
  <2> QED
    BY <2>1, <2>2, <2>3
<1>10. ASSUME NEW i \in DOMAIN read, NEW j \in DOMAIN read, i < j PROVE RecordOf(s[i]) < RecordOf(s[j])
  <2>1. PICK f, g, N : f = s[i] /\ g = s[j] /\ N = Len(fFragments)
    OBVIOUS
  <2>2. /\ i \in 1..Len(s) /\ j \in 1..Len(s) /\ f \in 1..N /\ g \in 1..N /\ TypeOf(g) \in {"full", "first"}
        /\ f # 0 /\ g # 0 /\ N \in Nat
    BY <1>7, <1>8, <2>1
  <2>3. f < g
    BY <1>6, <1>10, <2>1, <2>2
  <2>4. g - 1 \in 1..N /\ f <= g - 1 /\ g - 1 <= g /\ g # 1
    BY <2>2, <2>3
  <2>5. RecordOf(g - 1) # RecordOf(g)
    BY <1>3, <2>1, <2>2, <2>4, RecordsAre
  <2>6. \A a, b \in 1..N : a <= b => RecordOf(a) <= RecordOf(b)
    BY <1>3, <2>1, RecordsAre
  <2>7. RecordOf(f) <= RecordOf(g - 1) /\ RecordOf(g - 1) <= RecordOf(g)
    BY <2>2, <2>4, <2>6
  <2>8. PICK a, b, c : a = RecordOf(f) /\ b = RecordOf(g - 1) /\ c = RecordOf(g)
    OBVIOUS
  <2>9. \A h \in 1..N : RecordOf(h) \in Nat
    BY <1>3, <1>7, <2>1, RecordsAre
  <2>10. a \in Nat /\ b \in Nat /\ c \in Nat /\ a <= b /\ b <= c /\ b # c
    BY <2>2, <2>4, <2>5, <2>7, <2>8, <2>9
  <2> QED
    BY <2>1, <2>8, <2>10
<1>11. ASSUME NEW r \in Log!Added(n), fFailed = Log!NoRecord \/ r < fFailed
      PROVE  \E i \in DOMAIN read : read[i] = Log!FragmentsOf(r)
  <2>1. Intact(r) /\ r \in Log!Added(n)
    BY <1>11 DEF Log!NoRecord, Intact
  <2>2. Found(s, r)
    BY <1>3, <1>4, <2>1, AddedRead
  <2>3. PICK i, j : <<i, j>> \in Log!Spans(s) /\ RecordOf(s[i]) = r
    BY <2>2 DEF Found
  <2>4. i \in DOMAIN read
    BY <1>5, <2>3 DEF Returned
  <2> QED
    BY <1>8, <2>3, <2>4
<1> QED
  BY <1>8, <1>9, <1>10, <1>11

LEMMA LogAlone == PartsSpec => [](part = "log" => LogInv)
<1>1. PartsInit => (part = "log" => LogInv)
  BY LogStart DEF PartsInit
<1>2. (part = "log" => LogInv) /\ [PartsNext]_partsVars => (part = "log" => LogInv)'
  <2> SUFFICES ASSUME part = "log" => LogInv, [PartsNext]_partsVars, part' = "log"
               PROVE  LogInv'
    OBVIOUS
  <2>1. part = "log" /\ [Log!Next]_Log!vars
    BY DEF PartsNext, partsVars, fVars, Log!vars
  <2> QED
    BY <2>1, LogStep
<1> QED
  BY <1>1, <1>2, PTL DEF PartsSpec

\* Wherever a crash cuts a log or a manifest, the reader returns whole records,
\* each once and in order, and all that were added before the cut and before
\* an append that failed (log_writer.cc, log_reader.cc), for any sizes of the
\* blocks, the headers and the records.
THEOREM LogIsRead == PartsSpec => []LogRead
<1>1. (part = "log" => LogInv) => LogRead
  BY InvRead DEF LogRead
<1> QED
  BY <1>1, LogAlone, PTL
-----------------------------------------------------------------------------
(***************************************************************************)
(* The iterators.                                                          *)
(***************************************************************************)
Spot == iEntries \cup {Iter!None}

EntriesOk ==
  /\ IsFiniteSet(iEntries) /\ iWritten \in Nat /\ iSequence \in 0..iWritten
  /\ \A e \in iEntries : e.key \in 1..IterKeys /\ e.seq \in 1..iWritten /\ e.child \in Child /\ e.del \in BOOLEAN
  /\ \A d, e \in iEntries : d.seq = e.seq => d = e

\* The order of the entries.
LEMMA OrderIs ==
  ASSUME EntriesOk
  PROVE  /\ \A d \in iEntries : ~ Iter!Before(d, d) /\ d # Iter!None
         /\ \A d, e \in iEntries : d = e \/ Iter!Before(d, e) \/ Iter!Before(e, d)
         /\ \A d, e \in iEntries : Iter!Before(d, e) => ~ Iter!Before(e, d) /\ d.key <= e.key
         /\ \A d, e, f \in iEntries : Iter!Before(d, e) /\ Iter!Before(e, f) => Iter!Before(d, f)
         /\ \A d, e \in iEntries : d.key < e.key => Iter!Before(d, e)
<1>1. \A d \in iEntries : d.key \in Nat /\ d.seq \in Nat /\ d.key # 0
  BY DEF EntriesOk
<1>2. Iter!None.key = 0
  BY DEF Iter!None
<1>3. \A d \in iEntries : ~ Iter!Before(d, d) /\ d # Iter!None
  BY <1>1, <1>2 DEF Iter!Before
<1>4. \A d, e \in iEntries : d = e \/ Iter!Before(d, e) \/ Iter!Before(e, d)
  BY <1>1 DEF EntriesOk, Iter!Before
<1>5. \A d, e \in iEntries : Iter!Before(d, e) => ~ Iter!Before(e, d) /\ d.key <= e.key
  BY <1>1 DEF Iter!Before
<1>6. \A d, e, f \in iEntries : Iter!Before(d, e) /\ Iter!Before(e, f) => Iter!Before(d, f)
  BY <1>1 DEF Iter!Before
<1>7. \A d, e \in iEntries : d.key < e.key => Iter!Before(d, e)
  BY DEF Iter!Before
<1> QED
  BY <1>3, <1>4, <1>5, <1>6, <1>7

IsFirst(x, S) == IF S = {} THEN x = Iter!None ELSE x \in S /\ \A d \in S : d = x \/ Iter!Before(x, d)
IsLast(x, S) == IF S = {} THEN x = Iter!None ELSE x \in S /\ \A d \in S : d = x \/ Iter!Before(d, x)

LEMMA EarliestIs ==
  ASSUME EntriesOk, NEW S, S \in SUBSET iEntries
  PROVE  IsFirst(Iter!FirstOf(S), S)
<1>1. CASE S = {}
  BY <1>1 DEF IsFirst, Iter!FirstOf
<1>2. CASE S # {}
  <2> DEFINE K == { e.key : e \in S }
  <2>1. K \subseteq Nat /\ K # {}
    BY <1>2 DEF EntriesOk
  <2>2. PICK k \in K : \A l \in K : k <= l
    BY <2>1, LeastNatural
  <2> DEFINE T == { iWritten - e.seq : e \in { d \in S : d.key = k } }
  <2>3. T \subseteq Nat /\ T # {}
    BY <2>2 DEF EntriesOk
  <2>4. PICK t \in T : \A u \in T : t <= u
    BY <2>3, LeastNatural
  <2>5. PICK x \in S : x.key = k /\ t = iWritten - x.seq
    BY <2>4
  <2>6. ASSUME NEW d \in S, d # x PROVE Iter!Before(x, d)
    <3>1. x \in iEntries /\ d \in iEntries /\ k <= d.key
      BY <2>2
    <3>2. d.key \in Nat /\ x.key \in Nat /\ d.seq \in Nat /\ x.seq \in Nat /\ iWritten \in Nat /\ d.seq # x.seq
      BY <2>6, <3>1 DEF EntriesOk
    <3>3. CASE d.key = k
      <4>1. iWritten - d.seq \in T
        BY <3>3
      <4>2. t <= iWritten - d.seq
        BY <2>4, <4>1
      <4> QED
        BY <2>5, <3>2, <3>3, <4>2 DEF Iter!Before
    <3>4. CASE d.key # k
      BY <2>5, <3>1, <3>2, <3>4 DEF Iter!Before
    <3> QED
      BY <3>3, <3>4
  <2>7. \E y \in S : \A d \in S \ {y} : Iter!Before(y, d)
    BY <2>5, <2>6
  <2>8. Iter!FirstOf(S) = CHOOSE y \in S : \A d \in S \ {y} : Iter!Before(y, d)
    BY <1>2 DEF Iter!FirstOf
  <2>9. Iter!FirstOf(S) \in S /\ \A d \in S \ {Iter!FirstOf(S)} : Iter!Before(Iter!FirstOf(S), d)
    BY <2>7, <2>8
  <2> QED
    BY <1>2, <2>9 DEF IsFirst
<1> QED
  BY <1>1, <1>2

LEMMA LatestIs ==
  ASSUME EntriesOk, NEW S, S \in SUBSET iEntries
  PROVE  IsLast(Iter!LastOf(S), S)
<1>1. CASE S = {}
  BY <1>1 DEF IsLast, Iter!LastOf
<1>2. CASE S # {}
  <2>0. IterKeys \in Nat
    BY IteratorAssumption
  <2> DEFINE K == { IterKeys - e.key : e \in S }
  <2>1. K \subseteq Nat /\ K # {}
    BY <1>2, <2>0 DEF EntriesOk
  <2>2. PICK k \in K : \A l \in K : k <= l
    BY <2>1, LeastNatural
  <2> DEFINE T == { e.seq : e \in { d \in S : IterKeys - d.key = k } }
  <2>3. T \subseteq Nat /\ T # {}
    BY <2>2 DEF EntriesOk
  <2>4. PICK t \in T : \A u \in T : t <= u
    BY <2>3, LeastNatural
  <2>5. PICK x \in S : IterKeys - x.key = k /\ t = x.seq
    BY <2>4
  <2>6. ASSUME NEW d \in S, d # x PROVE Iter!Before(d, x)
    <3>1. x \in iEntries /\ d \in iEntries /\ k <= IterKeys - d.key
      BY <2>2
    <3>2. d.key \in Nat /\ x.key \in Nat /\ d.seq \in Nat /\ x.seq \in Nat /\ d.seq # x.seq
      BY <2>6, <3>1 DEF EntriesOk
    <3>3. CASE IterKeys - d.key = k
      <4>1. d.seq \in T
        BY <3>3
      <4>2. t <= d.seq
        BY <2>4, <4>1
      <4> QED
        BY <2>0, <2>5, <3>2, <3>3, <4>2 DEF Iter!Before
    <3>4. CASE IterKeys - d.key # k
      BY <2>0, <2>5, <3>1, <3>2, <3>4 DEF Iter!Before
    <3> QED
      BY <3>3, <3>4
  <2>7. \E y \in S : \A d \in S \ {y} : Iter!Before(d, y)
    BY <2>5, <2>6
  <2>8. Iter!LastOf(S) = CHOOSE y \in S : \A d \in S \ {y} : Iter!Before(d, y)
    BY <1>2 DEF Iter!LastOf
  <2>9. Iter!LastOf(S) \in S /\ \A d \in S \ {Iter!LastOf(S)} : Iter!Before(d, Iter!LastOf(S))
    BY <2>7, <2>8
  <2> QED
    BY <1>2, <2>9 DEF IsLast
<1> QED
  BY <1>1, <1>2

LEMMA SmallestType ==
  ASSUME EntriesOk, NEW at, at \in [Child -> Spot], NEW m, m = Iter!Smallest(at)
  PROVE  m \in Iter!Position /\ m.at = at /\ m.forward = TRUE
<1> DEFINE here == { at[c] : c \in Child } \ {Iter!None}
<1>1. m = [at |-> at, forward |-> TRUE, current |-> IF here = {} THEN 0 ELSE Iter!FirstOf(here).child]
  BY DEF Iter!Smallest
<1>2. here \in SUBSET iEntries
  BY DEF Spot
<1>3. ASSUME here # {} PROVE Iter!FirstOf(here).child \in Child
  <2>1. IsFirst(Iter!FirstOf(here), here)
    BY <1>2, EarliestIs
  <2>2. Iter!FirstOf(here) \in iEntries
    BY <1>2, <1>3, <2>1 DEF IsFirst
  <2> QED
    BY <2>2 DEF EntriesOk
<1> HIDE DEF here
<1>4. (IF here = {} THEN 0 ELSE Iter!FirstOf(here).child) \in Child \cup {0}
  BY <1>3
<1> QED
  BY <1>1, <1>4 DEF Iter!Position, Spot

LEMMA LargestType ==
  ASSUME EntriesOk, NEW at, at \in [Child -> Spot], NEW m, m = Iter!Largest(at)
  PROVE  m \in Iter!Position /\ m.at = at /\ m.forward = FALSE
<1> DEFINE here == { at[c] : c \in Child } \ {Iter!None}
<1>1. m = [at |-> at, forward |-> FALSE, current |-> IF here = {} THEN 0 ELSE Iter!LastOf(here).child]
  BY DEF Iter!Largest
<1>2. here \in SUBSET iEntries
  BY DEF Spot
<1>3. ASSUME here # {} PROVE Iter!LastOf(here).child \in Child
  <2>1. IsLast(Iter!LastOf(here), here)
    BY <1>2, LatestIs
  <2>2. Iter!LastOf(here) \in iEntries
    BY <1>2, <1>3, <2>1 DEF IsLast
  <2> QED
    BY <2>2 DEF EntriesOk
<1> HIDE DEF here
<1>4. (IF here = {} THEN 0 ELSE Iter!LastOf(here).child) \in Child \cup {0}
  BY <1>3
<1> QED
  BY <1>1, <1>4 DEF Iter!Position, Spot

\* The first entry of each child in S, as far as a snapshot can tell: entries
\* it does not see may have been passed.
Fronts(at, S) ==
  /\ at \in [Child -> Spot]
  /\ \A c \in Child : at[c] # Iter!None => at[c] \in S /\ at[c].child = c
  /\ \A e \in S : Iter!Visible(e) =>
       at[e.child] # Iter!None /\ (at[e.child] = e \/ Iter!Before(at[e.child], e))

\* And the last.
Backs(at, S) ==
  /\ at \in [Child -> Spot]
  /\ \A c \in Child : at[c] # Iter!None => at[c] \in S /\ at[c].child = c
  /\ \A e \in S : Iter!Visible(e) =>
       at[e.child] # Iter!None /\ (at[e.child] = e \/ Iter!Before(e, at[e.child]))

\* x is the first of S, or the last, as far as a snapshot can tell.
AtFirst(x, S) ==
  /\ x # Iter!None => x \in S
  /\ \A e \in S : Iter!Visible(e) => x # Iter!None /\ (x = e \/ Iter!Before(x, e))
AtLast(x, S) ==
  /\ x # Iter!None => x \in S
  /\ \A e \in S : Iter!Visible(e) => x # Iter!None /\ (x = e \/ Iter!Before(e, x))

After(x) == { e \in iEntries : Iter!Before(x, e) }
Until(x) == { e \in iEntries : Iter!Before(e, x) }

\* A merging iterator that is at an entry of its current child, or nowhere.
Stands(m) ==
  /\ m \in Iter!Position
  /\ m.current # 0 => m.at[m.current] \in iEntries /\ m.at[m.current].child = m.current

\* It goes forward, and the other children are at what comes next.
Onward(m) ==
  /\ Stands(m) /\ m.forward = TRUE
  /\ m.current # 0 => \A c \in Child \ {m.current} :
       /\ m.at[c] # Iter!None => m.at[c] \in After(Iter!Current(m)) /\ m.at[c].child = c
       /\ \A e \in After(Iter!Current(m)) : Iter!Visible(e) /\ e.child = c =>
            m.at[c] # Iter!None /\ (m.at[c] = e \/ Iter!Before(m.at[c], e))

\* It goes back, and the other children are at what came before.
Homeward(m) ==
  /\ Stands(m) /\ m.forward = FALSE
  /\ m.current # 0 => \A c \in Child \ {m.current} :
       /\ m.at[c] # Iter!None => m.at[c] \in Until(Iter!Current(m)) /\ m.at[c].child = c
       /\ \A e \in Until(Iter!Current(m)) : Iter!Visible(e) /\ e.child = c =>
            m.at[c] # Iter!None /\ (m.at[c] = e \/ Iter!Before(e, m.at[c]))

Upward(S) == S \in SUBSET iEntries /\ \A d \in S : After(d) \subseteq S
Downward(S) == S \in SUBSET iEntries /\ \A d \in S : Until(d) \subseteq S

LEMMA CurrentIs ==
  ASSUME EntriesOk, NEW m, Stands(m)
  PROVE  /\ Iter!Current(m) = Iter!None <=> m.current = 0
         /\ m \in Iter!Position /\ m.at \in [Child -> Spot]
         /\ m.current # 0 => Iter!Current(m) = m.at[m.current] /\ Iter!Current(m) \in iEntries
                             /\ Iter!Current(m).child = m.current /\ m.current \in Child
<1>1. m.current = 0 => Iter!Current(m) = Iter!None
  BY DEF Iter!Current
<1>2. m.current # 0 => Iter!Current(m) = m.at[m.current]
  BY DEF Iter!Current
<1>3. Iter!None \notin iEntries
  BY OrderIs
<1>4. m.current \in Child \cup {0} /\ m.at \in [Child -> Spot]
  BY DEF Stands, Iter!Position, Spot
<1> QED
  BY <1>1, <1>2, <1>3, <1>4 DEF Stands

LEMMA SmallestIs ==
  ASSUME EntriesOk, NEW S, Upward(S), NEW at, Fronts(at, S), NEW m, m = Iter!Smallest(at)
  PROVE  Onward(m) /\ AtFirst(Iter!Current(m), S)
<1>0. Iter!None \notin iEntries /\ 0 \notin Child /\ S \in SUBSET iEntries
  BY OrderIs, IteratorAssumption DEF Upward
<1> DEFINE here == { at[c] : c \in Child } \ {Iter!None}
<1>1. m = [at |-> at, forward |-> TRUE, current |-> IF here = {} THEN 0 ELSE Iter!FirstOf(here).child]
  BY DEF Iter!Smallest
<1>2. m \in Iter!Position /\ m.at = at /\ m.forward = TRUE /\ m.current = IF here = {} THEN 0 ELSE Iter!FirstOf(here).child
  <2>1. at \in [Child -> Spot]
    BY DEF Fronts
  <2>2. m \in Iter!Position /\ m.at = at /\ m.forward = TRUE
    BY <2>1, SmallestType
  <2> QED
    BY <1>1, <2>2
<1>3. here \in SUBSET iEntries /\ here \subseteq S
  BY <1>0 DEF Fronts
<1>4. CASE here = {}
  <2>1. \A c \in Child : at[c] = Iter!None
    BY <1>4
  <2>2. m.current = 0 /\ Iter!Current(m) = Iter!None
    BY <1>2, <1>4 DEF Iter!Current
  <2>3. \A e \in S : ~ Iter!Visible(e)
    BY <1>0, <2>1 DEF Fronts, EntriesOk
  <2> QED
    BY <1>2, <2>2, <2>3 DEF Onward, Stands, AtFirst, Fronts
<1>5. CASE here # {}
  <2>1. PICK x : x = Iter!FirstOf(here)
    OBVIOUS
  <2>2. x \in here /\ \A d \in here : d = x \/ Iter!Before(x, d)
    <3>1. IsFirst(x, here)
      BY <1>3, <2>1, EarliestIs
    <3> QED
      BY <1>5, <3>1 DEF IsFirst
  <2>3. PICK c \in Child : x = at[c]
    BY <2>2
  <2>4. x # Iter!None /\ x \in S /\ x.child = c
    BY <2>2, <2>3 DEF Fronts
  <2>5. m.current = c /\ c # 0 /\ Iter!Current(m) = x
    BY <1>0, <1>2, <1>5, <2>1, <2>3, <2>4 DEF Iter!Current
  <2>6. AtFirst(x, S)
    <3>1. ASSUME NEW e \in S, Iter!Visible(e) PROVE x = e \/ Iter!Before(x, e)
      <4>1. at[e.child] # Iter!None /\ (at[e.child] = e \/ Iter!Before(at[e.child], e)) /\ e.child \in Child
        BY <1>0, <3>1 DEF Fronts, EntriesOk
      <4>2. at[e.child] \in here
        BY <4>1
      <4>3. at[e.child] = x \/ Iter!Before(x, at[e.child])
        BY <2>2, <4>2
      <4> QED
        BY <1>0, <1>3, <2>4, <4>1, <4>2, <4>3, OrderIs
    <3> QED
      BY <2>4, <3>1 DEF AtFirst
  <2>7. ASSUME NEW d \in Child \ {c}
        PROVE  /\ at[d] # Iter!None => at[d] \in After(x) /\ at[d].child = d
               /\ \A e \in After(x) : Iter!Visible(e) /\ e.child = d =>
                    at[d] # Iter!None /\ (at[d] = e \/ Iter!Before(at[d], e))
    <3>1. ASSUME at[d] # Iter!None PROVE at[d] \in After(x) /\ at[d].child = d
      <4>1. at[d] \in here /\ at[d].child = d
        BY <3>1 DEF Fronts
      <4>2. at[d] # x
        BY <2>4, <4>1
      <4> QED
        BY <1>3, <2>2, <4>1, <4>2 DEF After
    <3>2. ASSUME NEW e \in After(x), Iter!Visible(e), e.child = d
          PROVE  at[d] # Iter!None /\ (at[d] = e \/ Iter!Before(at[d], e))
      <4>1. e \in S
        BY <2>4 DEF Upward
      <4> QED
        BY <3>2, <4>1 DEF Fronts
    <3> QED
      BY <3>1, <3>2
  <2>8. Stands(m)
    BY <1>0, <1>2, <2>3, <2>4, <2>5 DEF Stands, Fronts
  <2>9. Onward(m)
    <3>1. \A d \in Child \ {m.current} :
            /\ m.at[d] # Iter!None => m.at[d] \in After(x) /\ m.at[d].child = d
            /\ \A e \in After(x) : Iter!Visible(e) /\ e.child = d =>
                 m.at[d] # Iter!None /\ (m.at[d] = e \/ Iter!Before(m.at[d], e))
      BY <1>2, <2>5, <2>7
    <3> QED
      BY <1>2, <2>5, <2>8, <3>1, Zenon DEF Onward
  <2> QED
    BY <2>5, <2>6, <2>9
<1> QED
  BY <1>4, <1>5

LEMMA LargestIs ==
  ASSUME EntriesOk, NEW S, Downward(S), NEW at, Backs(at, S), NEW m, m = Iter!Largest(at)
  PROVE  Homeward(m) /\ AtLast(Iter!Current(m), S)
<1>0. Iter!None \notin iEntries /\ 0 \notin Child /\ S \in SUBSET iEntries
  BY OrderIs, IteratorAssumption DEF Downward
<1> DEFINE here == { at[c] : c \in Child } \ {Iter!None}
<1>1. m = [at |-> at, forward |-> FALSE, current |-> IF here = {} THEN 0 ELSE Iter!LastOf(here).child]
  BY DEF Iter!Largest
<1>2. m \in Iter!Position /\ m.at = at /\ m.forward = FALSE /\ m.current = IF here = {} THEN 0 ELSE Iter!LastOf(here).child
  <2>1. at \in [Child -> Spot]
    BY DEF Backs
  <2>2. m \in Iter!Position /\ m.at = at /\ m.forward = FALSE
    BY <2>1, LargestType
  <2> QED
    BY <1>1, <2>2
<1>3. here \in SUBSET iEntries /\ here \subseteq S
  BY <1>0 DEF Backs
<1>4. CASE here = {}
  <2>1. \A c \in Child : at[c] = Iter!None
    BY <1>4
  <2>2. m.current = 0 /\ Iter!Current(m) = Iter!None
    BY <1>2, <1>4 DEF Iter!Current
  <2>3. \A e \in S : ~ Iter!Visible(e)
    BY <1>0, <2>1 DEF Backs, EntriesOk
  <2> QED
    BY <1>2, <2>2, <2>3 DEF Homeward, Stands, AtLast, Backs
<1>5. CASE here # {}
  <2>1. PICK x : x = Iter!LastOf(here)
    OBVIOUS
  <2>2. x \in here /\ \A d \in here : d = x \/ Iter!Before(d, x)
    <3>1. IsLast(x, here)
      BY <1>3, <2>1, LatestIs
    <3> QED
      BY <1>5, <3>1 DEF IsLast
  <2>3. PICK c \in Child : x = at[c]
    BY <2>2
  <2>4. x # Iter!None /\ x \in S /\ x.child = c
    BY <2>2, <2>3 DEF Backs
  <2>5. m.current = c /\ c # 0 /\ Iter!Current(m) = x
    BY <1>0, <1>2, <1>5, <2>1, <2>3, <2>4 DEF Iter!Current
  <2>6. AtLast(x, S)
    <3>1. ASSUME NEW e \in S, Iter!Visible(e) PROVE x = e \/ Iter!Before(e, x)
      <4>1. at[e.child] # Iter!None /\ (at[e.child] = e \/ Iter!Before(e, at[e.child])) /\ e.child \in Child
        BY <1>0, <3>1 DEF Backs, EntriesOk
      <4>2. at[e.child] \in here
        BY <4>1
      <4>3. at[e.child] = x \/ Iter!Before(at[e.child], x)
        BY <2>2, <4>2
      <4> QED
        BY <1>0, <1>3, <2>4, <4>1, <4>2, <4>3, OrderIs
    <3> QED
      BY <2>4, <3>1 DEF AtLast
  <2>7. ASSUME NEW d \in Child \ {c}
        PROVE  /\ at[d] # Iter!None => at[d] \in Until(x) /\ at[d].child = d
               /\ \A e \in Until(x) : Iter!Visible(e) /\ e.child = d =>
                    at[d] # Iter!None /\ (at[d] = e \/ Iter!Before(e, at[d]))
    <3>1. ASSUME at[d] # Iter!None PROVE at[d] \in Until(x) /\ at[d].child = d
      <4>1. at[d] \in here /\ at[d].child = d
        BY <3>1 DEF Backs
      <4>2. at[d] # x
        BY <2>4, <4>1
      <4> QED
        BY <1>3, <2>2, <4>1, <4>2 DEF Until
    <3>2. ASSUME NEW e \in Until(x), Iter!Visible(e), e.child = d
          PROVE  at[d] # Iter!None /\ (at[d] = e \/ Iter!Before(e, at[d]))
      <4>1. e \in S
        BY <2>4 DEF Downward
      <4> QED
        BY <3>2, <4>1 DEF Backs
    <3> QED
      BY <3>1, <3>2
  <2>8. Stands(m)
    BY <1>0, <1>2, <2>3, <2>4, <2>5 DEF Stands, Backs
  <2>9. Homeward(m)
    <3>1. \A d \in Child \ {m.current} :
            /\ m.at[d] # Iter!None => m.at[d] \in Until(x) /\ m.at[d].child = d
            /\ \A e \in Until(x) : Iter!Visible(e) /\ e.child = d =>
                 m.at[d] # Iter!None /\ (m.at[d] = e \/ Iter!Before(e, m.at[d]))
      BY <1>2, <2>5, <2>7
    <3> QED
      BY <1>2, <2>5, <2>8, <3>1, Zenon DEF Homeward
  <2> QED
    BY <2>5, <2>6, <2>9
<1> QED
  BY <1>4, <1>5

LEMMA AfterUp ==
  ASSUME EntriesOk, NEW x \in iEntries
  PROVE  Upward(After(x)) /\ Downward(Until(x))
BY OrderIs DEF After, Until, Upward, Downward

LEMMA SeekFirstIs ==
  ASSUME EntriesOk, NEW m, m = Iter!MergeSeekToFirst
  PROVE  Onward(m) /\ AtFirst(Iter!Current(m), iEntries)
<1>1. PICK at : at = [c \in Child |-> Iter!FirstOf(Iter!In(c))]
  OBVIOUS
<1>2. ASSUME NEW c \in Child
      PROVE  /\ at[c] \in Spot /\ (at[c] # Iter!None => at[c] \in iEntries /\ at[c].child = c)
             /\ \A e \in iEntries : e.child = c =>
                  at[c] # Iter!None /\ (at[c] = e \/ Iter!Before(at[c], e))
  <2>1. PICK x, T : x = at[c] /\ T = Iter!In(c)
    OBVIOUS
  <2>2. T \in SUBSET iEntries /\ x = Iter!FirstOf(T)
    BY <1>1, <2>1 DEF Iter!In
  <2>3. IsFirst(x, T)
    BY <2>2, EarliestIs
  <2> QED
    BY <2>1, <2>3, OrderIs DEF IsFirst, Iter!In, Spot
<1>3. Fronts(at, iEntries)
  BY <1>1, <1>2 DEF Fronts, EntriesOk
<1>4. m = Iter!Smallest(at)
  BY <1>1 DEF Iter!MergeSeekToFirst
<1>5. Upward(iEntries)
  BY DEF Upward, After
<1> QED
  BY <1>3, <1>4, <1>5, SmallestIs

LEMMA SeekLastIs ==
  ASSUME EntriesOk, NEW m, m = Iter!MergeSeekToLast
  PROVE  Homeward(m) /\ AtLast(Iter!Current(m), iEntries)
<1>1. PICK at : at = [c \in Child |-> Iter!LastOf(Iter!In(c))]
  OBVIOUS
<1>2. ASSUME NEW c \in Child
      PROVE  /\ at[c] \in Spot /\ (at[c] # Iter!None => at[c] \in iEntries /\ at[c].child = c)
             /\ \A e \in iEntries : e.child = c =>
                  at[c] # Iter!None /\ (at[c] = e \/ Iter!Before(e, at[c]))
  <2>1. PICK x, T : x = at[c] /\ T = Iter!In(c)
    OBVIOUS
  <2>2. T \in SUBSET iEntries /\ x = Iter!LastOf(T)
    BY <1>1, <2>1 DEF Iter!In
  <2>3. IsLast(x, T)
    BY <2>2, LatestIs
  <2> QED
    BY <2>1, <2>3, OrderIs DEF IsLast, Iter!In, Spot
<1>3. Backs(at, iEntries)
  BY <1>1, <1>2 DEF Backs, EntriesOk
<1>4. m = Iter!Largest(at)
  BY <1>1 DEF Iter!MergeSeekToLast
<1>5. Downward(iEntries)
  BY DEF Downward, Until
<1> QED
  BY <1>3, <1>4, <1>5, LargestIs

\* What a child is at after it was moved.
LEMMA ChildIs ==
  ASSUME EntriesOk, NEW c \in Child, NEW x
  PROVE  /\ IsFirst(Iter!ChildSeek(c, x), { d \in Iter!In(c) : ~ Iter!Before(d, x) })
         /\ IsFirst(Iter!ChildNext(c, x), { d \in Iter!In(c) : Iter!Before(x, d) })
         /\ IsLast(Iter!ChildPrev(c, x), { d \in Iter!In(c) : Iter!Before(d, x) })
         /\ IsLast(Iter!LastOf(Iter!In(c)), Iter!In(c))
<1>1. Iter!In(c) \in SUBSET iEntries
  BY DEF Iter!In
<1> QED
  BY <1>1, EarliestIs, LatestIs DEF Iter!ChildSeek, Iter!ChildNext, Iter!ChildPrev

LEMMA SeekIs ==
  ASSUME EntriesOk, NEW k \in Nat, NEW m, m = Iter!MergeSeek([key |-> k, seq |-> iSequence])
  PROVE  /\ Onward(m)
         /\ AtFirst(Iter!Current(m), { e \in iEntries : ~ Iter!Before(e, [key |-> k, seq |-> iSequence]) })
<1>1. PICK x : x = [key |-> k, seq |-> iSequence]
  OBVIOUS
<1>2. PICK at : at = [c \in Child |-> Iter!ChildSeek(c, x)]
  OBVIOUS
<1>3. PICK S : S = { e \in iEntries : ~ Iter!Before(e, x) }
  OBVIOUS
<1>4. ASSUME NEW c \in Child
      PROVE  /\ at[c] \in Spot /\ (at[c] # Iter!None => at[c] \in S /\ at[c].child = c)
             /\ \A e \in S : e.child = c => at[c] # Iter!None /\ (at[c] = e \/ Iter!Before(at[c], e))
  <2>1. PICK y, T : y = at[c] /\ T = { d \in Iter!In(c) : ~ Iter!Before(d, x) }
    OBVIOUS
  <2>2. y = Iter!ChildSeek(c, x)
    BY <1>2, <2>1
  <2>3. IsFirst(y, T)
    BY <2>1, <2>2, ChildIs
  <2>4. T = { e \in S : e.child = c }
    BY <1>3, <2>1 DEF Iter!In
  <2>5. S \in SUBSET iEntries
    BY <1>3
  <2> QED
    BY <2>1, <2>3, <2>4, <2>5, OrderIs DEF IsFirst, Spot
<1>5. Fronts(at, S)
  BY <1>2, <1>3, <1>4 DEF Fronts, EntriesOk
<1>6. m = Iter!Smallest(at)
  BY <1>1, <1>2 DEF Iter!MergeSeek
<1>7. Upward(S)
  <2>1. \A d, e \in iEntries : ~ Iter!Before(d, x) /\ Iter!Before(d, e) => ~ Iter!Before(e, x)
    <3>1. x.key = k /\ x.seq = iSequence /\ k \in Nat /\ iSequence \in Nat
      BY <1>1 DEF EntriesOk
    <3>2. \A d \in iEntries : d.key \in Nat /\ d.seq \in Nat
      BY DEF EntriesOk
    <3> QED
      BY <3>1, <3>2 DEF Iter!Before
  <2> QED
    BY <1>3, <2>1 DEF Upward, After
<1> QED
  BY <1>1, <1>3, <1>5, <1>6, <1>7, SmallestIs

LEMMA MovesOn ==
  ASSUME EntriesOk, NEW m, Onward(m) \/ Homeward(m), m.current # 0, NEW x, x = Iter!Current(m),
         NEW n, n = Iter!MergeNext(m)
  PROVE  Onward(n) /\ AtFirst(Iter!Current(n), After(x))
<1>1. /\ Stands(m) /\ x \in iEntries /\ x.child = m.current /\ m.current \in Child /\ x = m.at[m.current]
      /\ m.forward \in BOOLEAN /\ (m.forward => Onward(m))
  BY CurrentIs DEF Onward, Homeward
<1> DEFINE Other(c) == IF m.forward THEN m.at[c]
                       ELSE LET e == Iter!ChildSeek(c, x)
                            IN  IF e = x THEN Iter!ChildNext(c, e) ELSE e
           to == [c \in Child |-> IF c = m.current THEN Iter!ChildNext(c, x) ELSE Other(c)]
<1>2. n = Iter!Smallest(to)
  BY DEF Iter!MergeNext
<1>3. \A e \in iEntries : e \in After(x) <=> Iter!Before(x, e)
  BY DEF After
<1>4. ASSUME NEW c \in Child
      PROVE  /\ to[c] \in Spot /\ (to[c] # Iter!None => to[c] \in After(x) /\ to[c].child = c)
             /\ \A e \in After(x) : Iter!Visible(e) /\ e.child = c =>
                  to[c] # Iter!None /\ (to[c] = e \/ Iter!Before(to[c], e))
  <2> HIDE DEF to
  <2>1. PICK T : T = { d \in Iter!In(c) : Iter!Before(x, d) }
    OBVIOUS
  <2>2. T = { e \in After(x) : e.child = c }
    BY <2>1 DEF After, Iter!In
  <2>3. After(x) \in SUBSET iEntries
    BY DEF After
  <2>4. ASSUME IsFirst(to[c], T)
        PROVE  /\ to[c] \in Spot /\ (to[c] # Iter!None => to[c] \in After(x) /\ to[c].child = c)
               /\ \A e \in After(x) : Iter!Visible(e) /\ e.child = c =>
                    to[c] # Iter!None /\ (to[c] = e \/ Iter!Before(to[c], e))
    BY <2>2, <2>3, <2>4, OrderIs DEF IsFirst, Spot
  <2>5. CASE c = m.current
    <3>1. to[c] = Iter!ChildNext(c, x)
      BY <2>5 DEF to
    <3>2. IsFirst(to[c], T)
      BY <2>1, <3>1, ChildIs
    <3> QED
      BY <2>4, <3>2
  <2>6. CASE c # m.current /\ m.forward
    <3>1. to[c] = m.at[c]
      BY <2>6 DEF to
    <3> QED
      BY <1>1, <2>3, <2>6, <3>1, CurrentIs DEF Onward, Spot
  <2>7. CASE c # m.current /\ ~ m.forward
    <3>1. PICK y : y = Iter!ChildSeek(c, x)
      OBVIOUS
    <3>2. IsFirst(y, { d \in Iter!In(c) : ~ Iter!Before(d, x) })
      BY <3>1, ChildIs
    <3>3. { d \in Iter!In(c) : ~ Iter!Before(d, x) } = T
      <4>1. \A d \in Iter!In(c) : d \in iEntries /\ d # x
        BY <1>1, <2>7 DEF Iter!In
      <4>2. \A d \in Iter!In(c) : ~ Iter!Before(d, x) <=> Iter!Before(x, d)
        BY <1>1, <4>1, OrderIs
      <4> QED
        BY <2>1, <4>2
    <3>4. y # x
      <4>1. x \notin T /\ x # Iter!None
        BY <1>1, <2>2, <2>7, OrderIs
      <4> QED
        BY <3>2, <3>3, <4>1 DEF IsFirst
    <3>5. to[c] = y
      BY <2>7, <3>1, <3>4 DEF to
    <3> QED
      BY <2>4, <3>2, <3>3, <3>5
  <2> QED
    BY <1>1, <2>5, <2>6, <2>7
<1>5. Fronts(to, After(x))
  <2>1. to = [c \in Child |-> to[c]]
    OBVIOUS
  <2>2. to \in [Child -> Spot]
    <3> HIDE DEF to
    <3> QED
      BY <1>4, <2>1
  <2>3. \A e \in After(x) : e.child \in Child
    BY DEF After, EntriesOk
  <2> HIDE DEF to
  <2> QED
    BY <1>4, <2>2, <2>3 DEF Fronts
<1>6. Upward(After(x))
  BY <1>1, AfterUp
<1> HIDE DEF to
<1> QED
  BY <1>2, <1>5, <1>6, SmallestIs

LEMMA MovesBack ==
  ASSUME EntriesOk, NEW m, Onward(m) \/ Homeward(m), m.current # 0, NEW x, x = Iter!Current(m),
         NEW n, n = Iter!MergePrev(m)
  PROVE  Homeward(n) /\ AtLast(Iter!Current(n), Until(x))
<1>1. /\ Stands(m) /\ x \in iEntries /\ x.child = m.current /\ m.current \in Child /\ x = m.at[m.current]
      /\ m.forward \in BOOLEAN /\ (~ m.forward => Homeward(m))
  BY CurrentIs DEF Onward, Homeward
<1> DEFINE Other(c) == IF ~ m.forward THEN m.at[c]
                       ELSE LET e == Iter!ChildSeek(c, x)
                            IN  IF e = Iter!None THEN Iter!LastOf(Iter!In(c)) ELSE Iter!ChildPrev(c, e)
           to == [c \in Child |-> IF c = m.current THEN Iter!ChildPrev(c, x) ELSE Other(c)]
<1>2. n = Iter!Largest(to)
  BY DEF Iter!MergePrev
<1>3. \A e \in iEntries : e \in Until(x) <=> Iter!Before(e, x)
  BY DEF Until
<1>4. ASSUME NEW c \in Child
      PROVE  /\ to[c] \in Spot /\ (to[c] # Iter!None => to[c] \in Until(x) /\ to[c].child = c)
             /\ \A e \in Until(x) : Iter!Visible(e) /\ e.child = c =>
                  to[c] # Iter!None /\ (to[c] = e \/ Iter!Before(e, to[c]))
  <2> HIDE DEF to
  <2>1. PICK T : T = { d \in Iter!In(c) : Iter!Before(d, x) }
    OBVIOUS
  <2>2. T = { e \in Until(x) : e.child = c }
    BY <2>1 DEF Until, Iter!In
  <2>3. Until(x) \in SUBSET iEntries
    BY DEF Until
  <2>4. ASSUME IsLast(to[c], T)
        PROVE  /\ to[c] \in Spot /\ (to[c] # Iter!None => to[c] \in Until(x) /\ to[c].child = c)
               /\ \A e \in Until(x) : Iter!Visible(e) /\ e.child = c =>
                    to[c] # Iter!None /\ (to[c] = e \/ Iter!Before(e, to[c]))
    BY <2>2, <2>3, <2>4, OrderIs DEF IsLast, Spot
  <2>5. CASE c = m.current
    <3>1. to[c] = Iter!ChildPrev(c, x)
      BY <2>5 DEF to
    <3>2. IsLast(to[c], T)
      BY <2>1, <3>1, ChildIs
    <3> QED
      BY <2>4, <3>2
  <2>6. CASE c # m.current /\ ~ m.forward
    <3>1. to[c] = m.at[c]
      BY <2>6 DEF to
    <3> QED
      BY <1>1, <2>3, <2>6, <3>1, CurrentIs DEF Homeward, Spot
  <2>7. CASE c # m.current /\ m.forward
    <3>1. PICK y, U : y = Iter!ChildSeek(c, x) /\ U = { d \in Iter!In(c) : ~ Iter!Before(d, x) }
      OBVIOUS
    <3>2. IsFirst(y, U)
      BY <3>1, ChildIs
    <3>3. U \in SUBSET iEntries /\ Iter!In(c) \in SUBSET iEntries
      BY <3>1 DEF Iter!In
    <3>4. CASE y = Iter!None
      <4>1. U = {}
        BY <3>2, <3>3, <3>4, OrderIs DEF IsFirst
      <4>2. T = Iter!In(c)
        BY <2>1, <3>1, <4>1
      <4>3. to[c] = Iter!LastOf(Iter!In(c))
        BY <2>7, <3>1, <3>4 DEF to
      <4>4. IsLast(to[c], T)
        BY <4>2, <4>3, ChildIs
      <4> QED
        BY <2>4, <4>4
    <3>5. CASE y # Iter!None
      <4>1. y \in U /\ y \in iEntries /\ \A d \in U : d = y \/ Iter!Before(y, d)
        BY <3>2, <3>3, <3>5 DEF IsFirst
      <4>2. { d \in Iter!In(c) : Iter!Before(d, y) } = T
        <5>1. ASSUME NEW d \in Iter!In(c), Iter!Before(d, y) PROVE Iter!Before(d, x)
          BY <3>1, <3>3, <4>1, <5>1, OrderIs
        <5>2. ASSUME NEW d \in Iter!In(c), Iter!Before(d, x) PROVE Iter!Before(d, y)
          <6>1. ~ Iter!Before(y, x)
            BY <3>1, <4>1
          <6> QED
            BY <1>1, <3>3, <4>1, <5>2, <6>1, OrderIs
        <5> QED
          BY <2>1, <5>1, <5>2
      <4>3. to[c] = Iter!ChildPrev(c, y)
        BY <2>7, <3>1, <3>5 DEF to
      <4>4. IsLast(to[c], T)
        BY <4>2, <4>3, ChildIs
      <4> QED
        BY <2>4, <4>4
    <3> QED
      BY <3>4, <3>5
  <2> QED
    BY <1>1, <2>5, <2>6, <2>7
<1>5. Backs(to, Until(x))
  <2>1. to = [c \in Child |-> to[c]]
    OBVIOUS
  <2>2. to \in [Child -> Spot]
    <3> HIDE DEF to
    <3> QED
      BY <1>4, <2>1
  <2>3. \A e \in Until(x) : e.child \in Child
    BY DEF Until, EntriesOk
  <2> HIDE DEF to
  <2> QED
    BY <1>4, <2>2, <2>3 DEF Backs
<1>6. Downward(Until(x))
  BY <1>1, AfterUp
<1> HIDE DEF to
<1> QED
  BY <1>2, <1>5, <1>6, LargestIs

-----------------------------------------------------------------------------
(***************************************************************************)
(* Loops.  From any position an iterator goes one way, so a loop over it   *)
(* ends.                                                                   *)
(***************************************************************************)
\* A loop: from x to next[x], until it stops with a result.
IsLoop(f, D, stop, next, base) ==
  f = [x \in D |-> IF x \in stop THEN base[x] ELSE f[next[x]]]

Falling(D, V, top, rank, stop, next, base) ==
  /\ top \in Nat /\ rank \in [D -> 0..top] /\ stop \in SUBSET D
  /\ next \in [D -> D] /\ base \in [D -> V]
  /\ \A x \in D \ stop : rank[next[x]] < rank[x]

LEMMA LoopExists ==
  ASSUME NEW D, NEW V, NEW top, NEW rank, NEW stop, NEW next, NEW base,
         Falling(D, V, top, rank, stop, next, base)
  PROVE  \E f : IsLoop(f, D, stop, next, base)
<1>1. PICK step : step = [y \in D \X V |-> y[2]]
  OBVIOUS
<1>2. step \in [D \X V -> V] /\ \A x \in D, v \in V : step[<<x, v>>] = v
  BY <1>1
<1>3. Ranked(D, V, top, rank, stop, next, base, step)
  BY <1>2 DEF Ranked, Falling
<1>4. PICK f \in [D -> V] : \A x \in D : f[x] = IF x \in stop THEN base[x] ELSE step[<<x, f[next[x]]>>]
  BY <1>3, RecursionExists
<1>5. \A x \in D : next[x] \in D /\ f[next[x]] \in V
  BY DEF Falling
<1>6. \A x \in D : f[x] = IF x \in stop THEN base[x] ELSE f[next[x]]
  BY <1>2, <1>4, <1>5
<1>7. IsLoop(f, D, stop, next, base)
  BY <1>4, <1>6 DEF IsLoop
<1> QED
  BY <1>7

\* What every turn of a loop keeps holds where it stops.
LEMMA LoopEnds ==
  ASSUME NEW D, NEW V, NEW top, NEW rank, NEW stop, NEW next, NEW base,
         Falling(D, V, top, rank, stop, next, base),
         NEW f, IsLoop(f, D, stop, next, base),
         NEW G, G \in SUBSET D, \A x \in G : x \notin stop => next[x] \in G
  PROVE  \A x \in G : \E y \in G : y \in stop /\ f[x] = base[y]
<1> DEFINE T == { k \in Nat : \A x \in G : rank[x] < k => \E y \in G : y \in stop /\ f[x] = base[y] }
<1>1. \A x \in D : rank[x] \in 0..top /\ top \in Nat
  BY DEF Falling
<1>2. 0 \in T
  BY <1>1
<1>3. ASSUME NEW k \in Nat, k \in T PROVE k + 1 \in T
  <2>1. SUFFICES ASSUME NEW x \in G, rank[x] < k + 1 PROVE \E y \in G : y \in stop /\ f[x] = base[y]
    BY <1>3
  <2>2. CASE x \in stop
    BY <2>2 DEF IsLoop
  <2>3. CASE x \notin stop
    <3>1. PICK z : z = next[x]
      OBVIOUS
    <3>2. z \in G /\ f[x] = f[z] /\ rank[z] < rank[x] /\ z \in D /\ x \in D
      BY <2>3, <3>1 DEF IsLoop, Falling
    <3>3. rank[z] < k
      BY <1>1, <2>1, <3>2
    <3> QED
      BY <1>3, <3>2, <3>3
  <2> QED
    BY <2>2, <2>3
<1>4. Nat \subseteq T
  <2> HIDE DEF T
  <2> QED
    BY <1>2, <1>3, NaturalInduction
<1>5. ASSUME NEW x \in G PROVE \E y \in G : y \in stop /\ f[x] = base[y]
  <2>1. top + 1 \in T /\ rank[x] < top + 1
    BY <1>1, <1>4
  <2> QED
    BY <2>1
<1> QED
  BY <1>5

\* How many entries the children have before them, and behind them.
AheadOf(m) == { y \in Child \X iEntries : m.at[y[1]] # Iter!None /\ ~ Iter!Before(y[2], m.at[y[1]]) }
BehindOf(m) == { y \in Child \X iEntries : m.at[y[1]] # Iter!None /\ ~ Iter!Before(m.at[y[1]], y[2]) }
Most == Cardinality(Child \X iEntries) + 1
AheadRank(m) == IF m.forward THEN Cardinality(AheadOf(m)) ELSE Most
BehindRank(m) == IF m.forward THEN Most ELSE Cardinality(BehindOf(m))

LEMMA PairsFinite ==
  ASSUME EntriesOk, NEW A, A \in SUBSET (Child \X iEntries)
  PROVE  IsFiniteSet(A) /\ Cardinality(A) \in Nat /\ Cardinality(A) < Most /\ Most \in Nat
<1>1. IsFiniteSet(Child \X iEntries) /\ Cardinality(Child \X iEntries) \in Nat
  BY IteratorAssumption, FS_Product, FS_CardinalityType DEF EntriesOk
<1>2. IsFiniteSet(A) /\ Cardinality(A) <= Cardinality(Child \X iEntries)
  BY <1>1, FS_Subset
<1>3. Cardinality(A) \in Nat
  BY <1>2, FS_CardinalityType
<1> QED
  BY <1>1, <1>2, <1>3 DEF Most

LEMMA FewerPairs ==
  ASSUME EntriesOk, NEW A, A \in SUBSET (Child \X iEntries), NEW B, B \in SUBSET A, NEW y \in A, y \notin B
  PROVE  Cardinality(B) < Cardinality(A)
<1>1. IsFiniteSet(A) /\ Cardinality(A) \in Nat /\ B \in SUBSET (Child \X iEntries)
  BY PairsFinite
<1>2. Cardinality(B) \in Nat
  BY <1>1, PairsFinite
<1>3. Cardinality(B) <= Cardinality(A) /\ (Cardinality(A) = Cardinality(B) => A = B)
  BY <1>1, FS_Subset
<1> QED
  BY <1>1, <1>2, <1>3

\* A position that is at an entry.
LEMMA PositionIs ==
  ASSUME EntriesOk, NEW m \in Iter!Position
  PROVE  /\ m.at \in [Child -> Spot] /\ m.forward \in BOOLEAN /\ Iter!Current(m) \in Spot
         /\ Iter!Current(m) # Iter!None =>
              m.current \in Child /\ Iter!Current(m) = m.at[m.current] /\ Iter!Current(m) \in iEntries
         /\ AheadRank(m) \in 0..Most /\ BehindRank(m) \in 0..Most
<1>1. m.at \in [Child -> Spot] /\ m.forward \in BOOLEAN /\ m.current \in Child \cup {0}
  BY DEF Iter!Position, Spot
<1>2. Iter!Current(m) = (IF m.current = 0 THEN Iter!None ELSE m.at[m.current])
  BY DEF Iter!Current
<1>3. AheadOf(m) \in SUBSET (Child \X iEntries) /\ BehindOf(m) \in SUBSET (Child \X iEntries)
  BY DEF AheadOf, BehindOf
<1>4. /\ Cardinality(AheadOf(m)) \in Nat /\ Cardinality(AheadOf(m)) < Most /\ Most \in Nat
      /\ Cardinality(BehindOf(m)) \in Nat /\ Cardinality(BehindOf(m)) < Most
  BY <1>3, PairsFinite
<1>5. AheadRank(m) \in 0..Most /\ BehindRank(m) \in 0..Most
  BY <1>1, <1>4 DEF AheadRank, BehindRank
<1> QED
  BY <1>1, <1>2, <1>5 DEF Spot

LEMMA NextTurn ==
  ASSUME EntriesOk, NEW m \in Iter!Position, Iter!Current(m) # Iter!None, NEW n, n = Iter!MergeNext(m)
  PROVE  n \in Iter!Position /\ AheadRank(n) < AheadRank(m)
<1>1. PICK x : x = Iter!Current(m)
  OBVIOUS
<1>2. /\ m.at \in [Child -> Spot] /\ m.forward \in BOOLEAN /\ m.current \in Child
      /\ x = m.at[m.current] /\ x \in iEntries
  BY <1>1, PositionIs
<1> DEFINE Other(c) == IF m.forward THEN m.at[c]
                       ELSE LET e == Iter!ChildSeek(c, x)
                            IN  IF e = x THEN Iter!ChildNext(c, e) ELSE e
           to == [c \in Child |-> IF c = m.current THEN Iter!ChildNext(c, x) ELSE Other(c)]
<1>3. n = Iter!Smallest(to)
  BY <1>1 DEF Iter!MergeNext
<1>4. ASSUME NEW c \in Child, NEW y
      PROVE  /\ Iter!ChildSeek(c, y) \in Spot /\ Iter!ChildNext(c, y) \in Spot
             /\ Iter!ChildNext(c, y) # Iter!None => Iter!Before(y, Iter!ChildNext(c, y))
  <2>1. IsFirst(Iter!ChildSeek(c, y), { d \in Iter!In(c) : ~ Iter!Before(d, y) })
    BY ChildIs
  <2>2. IsFirst(Iter!ChildNext(c, y), { d \in Iter!In(c) : Iter!Before(y, d) })
    BY ChildIs
  <2>3. Iter!In(c) \in SUBSET iEntries
    BY DEF Iter!In
  <2>4. Iter!ChildSeek(c, y) \in Spot
    BY <2>1, <2>3 DEF IsFirst, Spot
  <2> QED
    BY <2>2, <2>3, <2>4 DEF IsFirst, Spot
<1>5. to \in [Child -> Spot]
  <2>1. ASSUME NEW c \in Child PROVE to[c] \in Spot
    BY <1>2, <1>4
  <2>2. to = [c \in Child |-> to[c]]
    OBVIOUS
  <2> HIDE DEF to
  <2> QED
    BY <2>1, <2>2
<1>6. n \in Iter!Position /\ n.at = to /\ n.forward = TRUE
  <2> HIDE DEF to
  <2> QED
    BY <1>3, <1>5, SmallestType
<1>7. AheadOf(n) \in SUBSET (Child \X iEntries) /\ AheadOf(m) \in SUBSET (Child \X iEntries)
  BY DEF AheadOf
<1>8. CASE m.forward
  <2>1. to[m.current] = Iter!ChildNext(m.current, x) /\ \A c \in Child \ {m.current} : to[c] = m.at[c]
    BY <1>2, <1>8
  <2> HIDE DEF to
  <2>2. to[m.current] # Iter!None => to[m.current] \in iEntries /\ Iter!Before(x, to[m.current])
    BY <1>2, <1>4, <2>1 DEF Spot
  <2>3. PICK y : y = <<m.current, x>>
    OBVIOUS
  <2>4. y \in Child \X iEntries /\ y[1] = m.current /\ y[2] = x
    BY <1>2, <2>3
  <2>5. y \in AheadOf(m)
    BY <1>2, <2>4, OrderIs DEF AheadOf
  <2>6. y \notin AheadOf(n)
    BY <1>6, <2>2, <2>4 DEF AheadOf
  <2>7. ASSUME NEW z \in AheadOf(n) PROVE z \in AheadOf(m)
    <3>1. PICK c, e : c = z[1] /\ e = z[2]
      OBVIOUS
    <3>2. z \in Child \X iEntries /\ c \in Child /\ e \in iEntries /\ to[c] # Iter!None /\ ~ Iter!Before(e, to[c])
      BY <1>6, <3>1 DEF AheadOf
    <3>3. m.at[c] # Iter!None /\ ~ Iter!Before(e, m.at[c])
      <4>1. CASE c = m.current
        <5>1. ~ Iter!Before(e, x)
          BY <1>2, <2>2, <3>2, <4>1, OrderIs
        <5>2. x # Iter!None
          BY <1>2, OrderIs
        <5> QED
          BY <1>2, <4>1, <5>1, <5>2
      <4>2. CASE c # m.current
        BY <2>1, <3>2, <4>2
      <4> QED
        BY <4>1, <4>2
    <3> QED
      BY <3>1, <3>2, <3>3 DEF AheadOf
  <2>8. PICK A, B : A = AheadOf(m) /\ B = AheadOf(n)
    OBVIOUS
  <2>9. A \in SUBSET (Child \X iEntries) /\ B \in SUBSET A /\ y \in A /\ y \notin B
    BY <1>7, <2>5, <2>6, <2>7, <2>8
  <2>10. Cardinality(B) < Cardinality(A)
    BY <2>9, FewerPairs
  <2>11. AheadRank(n) = Cardinality(B) /\ AheadRank(m) = Cardinality(A)
    BY <1>6, <1>8, <2>8 DEF AheadRank
  <2> QED
    BY <1>6, <2>10, <2>11
<1>9. CASE ~ m.forward
  <2>1. AheadRank(m) = Most /\ AheadRank(n) = Cardinality(AheadOf(n))
    BY <1>6, <1>9 DEF AheadRank
  <2>2. Cardinality(AheadOf(n)) < Most
    BY <1>7, PairsFinite
  <2> QED
    BY <1>6, <2>1, <2>2
<1> QED
  BY <1>8, <1>9

LEMMA PrevTurn ==
  ASSUME EntriesOk, NEW m \in Iter!Position, Iter!Current(m) # Iter!None, NEW n, n = Iter!MergePrev(m)
  PROVE  n \in Iter!Position /\ BehindRank(n) < BehindRank(m)
<1>1. PICK x : x = Iter!Current(m)
  OBVIOUS
<1>2. /\ m.at \in [Child -> Spot] /\ m.forward \in BOOLEAN /\ m.current \in Child
      /\ x = m.at[m.current] /\ x \in iEntries
  BY <1>1, PositionIs
<1> DEFINE Other(c) == IF ~ m.forward THEN m.at[c]
                       ELSE LET e == Iter!ChildSeek(c, x)
                            IN  IF e = Iter!None THEN Iter!LastOf(Iter!In(c)) ELSE Iter!ChildPrev(c, e)
           to == [c \in Child |-> IF c = m.current THEN Iter!ChildPrev(c, x) ELSE Other(c)]
<1>3. n = Iter!Largest(to)
  BY <1>1 DEF Iter!MergePrev
<1>4. ASSUME NEW c \in Child, NEW y
      PROVE  /\ Iter!LastOf(Iter!In(c)) \in Spot /\ Iter!ChildPrev(c, y) \in Spot
             /\ Iter!ChildPrev(c, y) # Iter!None => Iter!Before(Iter!ChildPrev(c, y), y)
  <2>1. IsLast(Iter!LastOf(Iter!In(c)), Iter!In(c))
    BY ChildIs
  <2>2. IsLast(Iter!ChildPrev(c, y), { d \in Iter!In(c) : Iter!Before(d, y) })
    BY ChildIs
  <2>3. Iter!In(c) \in SUBSET iEntries
    BY DEF Iter!In
  <2>4. Iter!LastOf(Iter!In(c)) \in Spot
    BY <2>1, <2>3 DEF IsLast, Spot
  <2> QED
    BY <2>2, <2>3, <2>4 DEF IsLast, Spot
<1>5. to \in [Child -> Spot]
  <2>1. ASSUME NEW c \in Child PROVE to[c] \in Spot
    BY <1>2, <1>4
  <2>2. to = [c \in Child |-> to[c]]
    OBVIOUS
  <2> HIDE DEF to
  <2> QED
    BY <2>1, <2>2
<1>6. n \in Iter!Position /\ n.at = to /\ n.forward = FALSE
  <2> HIDE DEF to
  <2> QED
    BY <1>3, <1>5, LargestType
<1>7. BehindOf(n) \in SUBSET (Child \X iEntries) /\ BehindOf(m) \in SUBSET (Child \X iEntries)
  BY DEF BehindOf
<1>8. CASE ~ m.forward
  <2>1. to[m.current] = Iter!ChildPrev(m.current, x) /\ \A c \in Child \ {m.current} : to[c] = m.at[c]
    BY <1>2, <1>8
  <2> HIDE DEF to
  <2>2. to[m.current] # Iter!None => to[m.current] \in iEntries /\ Iter!Before(to[m.current], x)
    BY <1>2, <1>4, <2>1 DEF Spot
  <2>3. PICK y : y = <<m.current, x>>
    OBVIOUS
  <2>4. y \in Child \X iEntries /\ y[1] = m.current /\ y[2] = x
    BY <1>2, <2>3
  <2>5. y \in BehindOf(m)
    BY <1>2, <2>4, OrderIs DEF BehindOf
  <2>6. y \notin BehindOf(n)
    BY <1>6, <2>2, <2>4 DEF BehindOf
  <2>7. ASSUME NEW z \in BehindOf(n) PROVE z \in BehindOf(m)
    <3>1. PICK c, e : c = z[1] /\ e = z[2]
      OBVIOUS
    <3>2. z \in Child \X iEntries /\ c \in Child /\ e \in iEntries /\ to[c] # Iter!None /\ ~ Iter!Before(to[c], e)
      BY <1>6, <3>1 DEF BehindOf
    <3>3. m.at[c] # Iter!None /\ ~ Iter!Before(m.at[c], e)
      <4>1. CASE c = m.current
        <5>1. ~ Iter!Before(x, e)
          BY <1>2, <2>2, <3>2, <4>1, OrderIs
        <5>2. x # Iter!None
          BY <1>2, OrderIs
        <5> QED
          BY <1>2, <4>1, <5>1, <5>2
      <4>2. CASE c # m.current
        BY <2>1, <3>2, <4>2
      <4> QED
        BY <4>1, <4>2
    <3> QED
      BY <3>1, <3>2, <3>3 DEF BehindOf
  <2>8. PICK A, B : A = BehindOf(m) /\ B = BehindOf(n)
    OBVIOUS
  <2>9. A \in SUBSET (Child \X iEntries) /\ B \in SUBSET A /\ y \in A /\ y \notin B
    BY <1>7, <2>5, <2>6, <2>7, <2>8
  <2>10. Cardinality(B) < Cardinality(A)
    BY <2>9, FewerPairs
  <2>11. BehindRank(n) = Cardinality(B) /\ BehindRank(m) = Cardinality(A)
    BY <1>6, <1>8, <2>8 DEF BehindRank
  <2> QED
    BY <1>6, <2>10, <2>11
<1>9. CASE m.forward
  <2>1. BehindRank(m) = Most /\ BehindRank(n) = Cardinality(BehindOf(n))
    BY <1>6, <1>9 DEF BehindRank
  <2>2. Cardinality(BehindOf(n)) < Most
    BY <1>7, PairsFinite
  <2> QED
    BY <1>6, <2>1, <2>2
<1> QED
  BY <1>8, <1>9

-----------------------------------------------------------------------------
(***************************************************************************)
(* The loop of FindNextUserEntry.                                          *)
(***************************************************************************)
Forths == [m : Iter!Position, skip : Iter!Key \cup {Iter!NoKey}]
ForthNext(s) ==
  [m |-> Iter!MergeNext(s.m),
   skip |-> IF Iter!Visible(Iter!Current(s.m)) /\ Iter!Current(s.m).del THEN Iter!Current(s.m).key ELSE s.skip]
ForthEnds(s) == Iter!Current(s.m) = Iter!None \/ ~ Iter!Passed(Iter!Current(s.m), s.skip)

LEMMA ForthIs ==
  ASSUME EntriesOk, NEW G, G \in SUBSET Forths, \A s \in G : ForthEnds(s) \/ ForthNext(s) \in G,
         NEW start, NEW skip, [m |-> start, skip |-> skip] \in G
  PROVE  \E s \in G : ForthEnds(s) /\ Iter!Forth(start, skip) = s.m
<1> DEFINE D == Forths
           V == Iter!Position
           Body(g, s) == IF ForthEnds(s) THEN s.m ELSE g[ForthNext(s)]
           f == CHOOSE g : g = [s \in D |-> Body(g, s)]
           rank == [s \in D |-> AheadRank(s.m)]
           stop == { s \in D : ForthEnds(s) }
           next == [s \in D |-> IF ForthEnds(s) THEN s ELSE ForthNext(s)]
           base == [s \in D |-> s.m]
<1>1. \A s \in D : s.m \in Iter!Position
  BY DEF Forths
<1>2. ASSUME NEW s \in D, ~ ForthEnds(s)
      PROVE  ForthNext(s) \in D /\ AheadRank(ForthNext(s).m) < AheadRank(s.m)
  <2>1. PICK m, x, n : m = s.m /\ x = Iter!Current(m) /\ n = Iter!MergeNext(m)
    OBVIOUS
  <2>2. m \in Iter!Position /\ x # Iter!None
    BY <1>1, <1>2, <2>1 DEF ForthEnds
  <2>3. n \in Iter!Position /\ AheadRank(n) < AheadRank(m)
    BY <2>1, <2>2, NextTurn
  <2>4. x \in iEntries
    BY <2>1, <2>2, PositionIs
  <2>5. x.key \in Iter!Key
    BY <2>4 DEF EntriesOk, Iter!Key
  <2>6. ForthNext(s).m = n
    BY <2>1 DEF ForthNext
  <2>7. ForthNext(s) \in D
    BY <2>1, <2>3, <2>5 DEF ForthNext, Forths
  <2> QED
    BY <2>1, <2>3, <2>6, <2>7
<1>3. Falling(D, V, Most, rank, stop, next, base)
  <2>1. Most \in Nat /\ \A s \in D : AheadRank(s.m) \in 0..Most
    BY <1>1, PositionIs, PairsFinite
  <2>2. rank \in [D -> 0..Most] /\ stop \in SUBSET D /\ base \in [D -> V]
    <3> HIDE DEF D
    <3> QED
      BY <1>1, <2>1
  <2>3. \A s \in D : next[s] \in D /\ next[s] = (IF ForthEnds(s) THEN s ELSE ForthNext(s))
    <3> HIDE DEF D
    <3> QED
      BY <1>2
  <2>4. next \in [D -> D]
    <3>1. next = [s \in D |-> next[s]]
      <4> HIDE DEF D
      <4> QED
        OBVIOUS
    <3> HIDE DEF D, next
    <3> QED
      BY <2>3, <3>1
  <2>5. ASSUME NEW s \in D \ stop PROVE rank[next[s]] < rank[s]
    <3>1. ~ ForthEnds(s) /\ ForthNext(s) \in D /\ AheadRank(ForthNext(s).m) < AheadRank(s.m)
      BY <1>2
    <3>2. next[s] = ForthNext(s)
      BY <2>3, <3>1
    <3> HIDE DEF D, next, stop
    <3> QED
      BY <3>1, <3>2
  <2> HIDE DEF D, V, rank, stop, next, base
  <2> QED
    BY <2>1, <2>2, <2>4, <2>5 DEF Falling
<1>4. ASSUME NEW g PROVE IsLoop(g, D, stop, next, base) <=> g = [s \in D |-> Body(g, s)]
  <2>1. \A s \in D : (IF s \in stop THEN base[s] ELSE g[next[s]]) = Body(g, s)
    <3> HIDE DEF D
    <3> QED
      OBVIOUS
  <2>2. [s \in D |-> IF s \in stop THEN base[s] ELSE g[next[s]]] = [s \in D |-> Body(g, s)]
    <3> HIDE DEF D, stop, base, next, Body
    <3> QED
      BY <2>1
  <2> HIDE DEF D, stop, base, next, Body
  <2> QED
    BY <2>2 DEF IsLoop
<1>5. IsLoop(f, D, stop, next, base)
  <2>1. \E g : g = [s \in D |-> Body(g, s)]
    <3> HIDE DEF D, V, rank, stop, next, base, Body
    <3> QED
      BY <1>3, <1>4, LoopExists
  <2>2. f = [s \in D |-> Body(f, s)]
    <3> HIDE DEF D, Body
    <3> QED
      BY <2>1
  <2> HIDE DEF f, D, stop, next, base, Body
  <2> QED
    BY <1>4, <2>2
<1>6. PICK a : a = [m |-> start, skip |-> skip]
  OBVIOUS
<1>7. Iter!Forth(start, skip) = f[a]
  BY <1>6 DEF Iter!Forth, Forths, ForthEnds, ForthNext
<1>8. \A x \in G : x \notin stop => next[x] \in G
  <2>1. \A x \in G : x \in D
    OBVIOUS
  <2> HIDE DEF D
  <2> QED
    BY <2>1
<1>9. PICK y \in G : y \in stop /\ f[a] = base[y]
  <2> HIDE DEF f, D, V, rank, stop, next, base
  <2>1. G \in SUBSET D
    BY DEF D
  <2> QED
    BY <1>3, <1>5, <1>6, <1>8, <2>1, LoopEnds
<1> QED
  BY <1>7, <1>9

-----------------------------------------------------------------------------
(***************************************************************************)
(* The loops that go back.                                                 *)
(***************************************************************************)
Backing == [m : Iter!Position, kept : Spot]
BackNext(s) == [m |-> Iter!MergePrev(s.m), kept |-> Iter!Kept(Iter!Current(s.m), s.kept)]
BackEnds(s) == Iter!Ended(Iter!Current(s.m), s.kept)

LEMMA BackIs ==
  ASSUME EntriesOk, NEW G, G \in SUBSET Backing, \A s \in G : BackEnds(s) \/ BackNext(s) \in G,
         NEW start, [m |-> start, kept |-> Iter!None] \in G
  PROVE  \E s \in G : BackEnds(s) /\ Iter!Back(start) = [iter |-> s.m, saved |-> s.kept]
<1> DEFINE D == Backing
           V == [iter : Iter!Position, saved : Spot]
           Body(g, s) == IF BackEnds(s) THEN [iter |-> s.m, saved |-> s.kept] ELSE g[BackNext(s)]
           f == CHOOSE g : g = [s \in D |-> Body(g, s)]
           rank == [s \in D |-> BehindRank(s.m)]
           stop == { s \in D : BackEnds(s) }
           next == [s \in D |-> IF BackEnds(s) THEN s ELSE BackNext(s)]
           base == [s \in D |-> [iter |-> s.m, saved |-> s.kept]]
<1>1. \A s \in D : s.m \in Iter!Position /\ s.kept \in Spot
  BY DEF Backing
<1>2. ASSUME NEW s \in D, ~ BackEnds(s)
      PROVE  BackNext(s) \in D /\ BehindRank(BackNext(s).m) < BehindRank(s.m)
  <2>1. PICK m, x, n : m = s.m /\ x = Iter!Current(m) /\ n = Iter!MergePrev(m)
    OBVIOUS
  <2>2. m \in Iter!Position /\ x # Iter!None
    BY <1>1, <1>2, <2>1 DEF BackEnds, Iter!Ended
  <2>3. n \in Iter!Position /\ BehindRank(n) < BehindRank(m)
    BY <2>1, <2>2, PrevTurn
  <2>4. x \in iEntries
    BY <2>1, <2>2, PositionIs
  <2>5. Iter!Kept(x, s.kept) \in Spot
    BY <1>1, <2>4 DEF Iter!Kept, Spot
  <2>6. BackNext(s).m = n
    BY <2>1 DEF BackNext
  <2>7. BackNext(s) \in D
    BY <2>1, <2>3, <2>5 DEF BackNext, Backing
  <2> QED
    BY <2>1, <2>3, <2>6, <2>7
<1>3. Falling(D, V, Most, rank, stop, next, base)
  <2>1. Most \in Nat /\ \A s \in D : BehindRank(s.m) \in 0..Most
    BY <1>1, PositionIs, PairsFinite
  <2>2. rank \in [D -> 0..Most] /\ stop \in SUBSET D /\ base \in [D -> V]
    <3> HIDE DEF D
    <3> QED
      BY <1>1, <2>1
  <2>3. \A s \in D : next[s] \in D /\ next[s] = (IF BackEnds(s) THEN s ELSE BackNext(s))
    <3> HIDE DEF D
    <3> QED
      BY <1>2
  <2>4. next \in [D -> D]
    <3>1. next = [s \in D |-> next[s]]
      <4> HIDE DEF D
      <4> QED
        OBVIOUS
    <3> HIDE DEF D, next
    <3> QED
      BY <2>3, <3>1
  <2>5. ASSUME NEW s \in D \ stop PROVE rank[next[s]] < rank[s]
    <3>1. ~ BackEnds(s) /\ BackNext(s) \in D /\ BehindRank(BackNext(s).m) < BehindRank(s.m)
      BY <1>2
    <3>2. next[s] = BackNext(s)
      BY <2>3, <3>1
    <3> HIDE DEF D, next, stop
    <3> QED
      BY <3>1, <3>2
  <2> HIDE DEF D, V, rank, stop, next, base
  <2> QED
    BY <2>1, <2>2, <2>4, <2>5 DEF Falling
<1>4. ASSUME NEW g PROVE IsLoop(g, D, stop, next, base) <=> g = [s \in D |-> Body(g, s)]
  <2>1. \A s \in D : (IF s \in stop THEN base[s] ELSE g[next[s]]) = Body(g, s)
    <3> HIDE DEF D
    <3> QED
      OBVIOUS
  <2>2. [s \in D |-> IF s \in stop THEN base[s] ELSE g[next[s]]] = [s \in D |-> Body(g, s)]
    <3> HIDE DEF D, stop, base, next, Body
    <3> QED
      BY <2>1
  <2> HIDE DEF D, stop, base, next, Body
  <2> QED
    BY <2>2 DEF IsLoop
<1>5. IsLoop(f, D, stop, next, base)
  <2>1. \E g : g = [s \in D |-> Body(g, s)]
    <3> HIDE DEF D, V, rank, stop, next, base, Body
    <3> QED
      BY <1>3, <1>4, LoopExists
  <2>2. f = [s \in D |-> Body(f, s)]
    <3> HIDE DEF D, Body
    <3> QED
      BY <2>1
  <2> HIDE DEF f, D, stop, next, base, Body
  <2> QED
    BY <1>4, <2>2
<1>6. PICK a : a = [m |-> start, kept |-> Iter!None]
  OBVIOUS
<1>7. Iter!Back(start) = f[a]
  BY <1>6 DEF Iter!Back, Backing, BackEnds, BackNext, Spot
<1>8. \A x \in G : x \notin stop => next[x] \in G
  <2>1. \A x \in G : x \in D
    OBVIOUS
  <2> HIDE DEF D
  <2> QED
    BY <2>1
<1>9. PICK y \in G : y \in stop /\ f[a] = base[y]
  <2> HIDE DEF f, D, V, rank, stop, next, base
  <2>1. G \in SUBSET D
    BY DEF D
  <2> QED
    BY <1>3, <1>5, <1>6, <1>8, <2>1, LoopEnds
<1> QED
  BY <1>7, <1>9

EarlierEnds(m, k) == Iter!Current(m) = Iter!None \/ Iter!Current(m).key < k

LEMMA BeforeKeyIs ==
  ASSUME EntriesOk, NEW k, NEW G, G \in SUBSET Iter!Position,
         \A m \in G : EarlierEnds(m, k) \/ Iter!MergePrev(m) \in G, NEW start \in G
  PROVE  \E m \in G : EarlierEnds(m, k) /\ Iter!BeforeKey(start, k) = m
<1> DEFINE D == Iter!Position
           Body(g, m) == IF EarlierEnds(m, k) THEN m ELSE g[Iter!MergePrev(m)]
           f == CHOOSE g : g = [m \in D |-> Body(g, m)]
           rank == [m \in D |-> BehindRank(m)]
           stop == { m \in D : EarlierEnds(m, k) }
           next == [m \in D |-> IF EarlierEnds(m, k) THEN m ELSE Iter!MergePrev(m)]
           base == [m \in D |-> m]
<1>1. ASSUME NEW m \in D, ~ EarlierEnds(m, k)
      PROVE  Iter!MergePrev(m) \in D /\ BehindRank(Iter!MergePrev(m)) < BehindRank(m)
  BY <1>1, PrevTurn DEF EarlierEnds
<1>2. Falling(D, D, Most, rank, stop, next, base)
  <2>1. Most \in Nat /\ \A m \in D : BehindRank(m) \in 0..Most
    BY PositionIs, PairsFinite
  <2>2. rank \in [D -> 0..Most] /\ stop \in SUBSET D /\ base \in [D -> D]
    <3> HIDE DEF D
    <3> QED
      BY <2>1
  <2>3. \A m \in D : next[m] \in D /\ next[m] = (IF EarlierEnds(m, k) THEN m ELSE Iter!MergePrev(m))
    <3> HIDE DEF D
    <3> QED
      BY <1>1
  <2>4. next \in [D -> D]
    <3>1. next = [m \in D |-> next[m]]
      <4> HIDE DEF D
      <4> QED
        OBVIOUS
    <3> HIDE DEF D, next
    <3> QED
      BY <2>3, <3>1
  <2>5. ASSUME NEW m \in D \ stop PROVE rank[next[m]] < rank[m]
    <3>1. ~ EarlierEnds(m, k) /\ Iter!MergePrev(m) \in D /\ BehindRank(Iter!MergePrev(m)) < BehindRank(m)
      BY <1>1
    <3>2. next[m] = Iter!MergePrev(m)
      BY <2>3, <3>1
    <3> HIDE DEF D, next, stop
    <3> QED
      BY <3>1, <3>2
  <2> HIDE DEF D, rank, stop, next, base
  <2> QED
    BY <2>1, <2>2, <2>4, <2>5 DEF Falling
<1>3. ASSUME NEW g PROVE IsLoop(g, D, stop, next, base) <=> g = [m \in D |-> Body(g, m)]
  <2>1. \A m \in D : (IF m \in stop THEN base[m] ELSE g[next[m]]) = Body(g, m)
    <3> HIDE DEF D
    <3> QED
      OBVIOUS
  <2>2. [m \in D |-> IF m \in stop THEN base[m] ELSE g[next[m]]] = [m \in D |-> Body(g, m)]
    <3> HIDE DEF D, stop, base, next, Body
    <3> QED
      BY <2>1
  <2> HIDE DEF D, stop, base, next, Body
  <2> QED
    BY <2>2 DEF IsLoop
<1>4. IsLoop(f, D, stop, next, base)
  <2>1. \E g : g = [m \in D |-> Body(g, m)]
    <3> HIDE DEF D, rank, stop, next, base, Body
    <3> QED
      BY <1>2, <1>3, LoopExists
  <2>2. f = [m \in D |-> Body(f, m)]
    <3> HIDE DEF D, Body
    <3> QED
      BY <2>1
  <2> HIDE DEF f, D, stop, next, base, Body
  <2> QED
    BY <1>3, <2>2
<1>5. Iter!BeforeKey(start, k) = f[start]
  BY DEF Iter!BeforeKey, EarlierEnds
<1>6. \A m \in G : m \notin stop => next[m] \in G
  <2>1. \A m \in G : m \in D
    OBVIOUS
  <2> HIDE DEF D
  <2> QED
    BY <2>1
<1>7. PICK m \in G : m \in stop /\ f[start] = base[m]
  <2> HIDE DEF f, D, rank, stop, next, base
  <2>1. G \in SUBSET D
    BY DEF D
  <2> QED
    BY <1>2, <1>4, <1>6, <2>1, LoopEnds
<1> QED
  BY <1>5, <1>7

-----------------------------------------------------------------------------
(***************************************************************************)
(* What a user should see.                                                 *)
(***************************************************************************)
VisibleOf(k) == { e \in iEntries : e.key = k /\ Iter!Visible(e) }

LEMMA ShownIs ==
  ASSUME EntriesOk, NEW k
  PROVE  IsFirst(Iter!NewestOf(k), VisibleOf(k))
<1>1. PICK S : S = VisibleOf(k)
  OBVIOUS
<1>2. S \in SUBSET iEntries /\ Iter!NewestOf(k) = Iter!FirstOf(S)
  BY <1>1 DEF VisibleOf, Iter!NewestOf
<1> QED
  BY <1>1, <1>2, EarliestIs

LEMMA LiveIs ==
  ASSUME EntriesOk, NEW k \in Iter!Live
  PROVE  /\ k \in Nat /\ k # 0 /\ k \in 1..IterKeys
         /\ Iter!NewestOf(k) \in iEntries /\ Iter!NewestOf(k).key = k /\ Iter!Visible(Iter!NewestOf(k))
         /\ ~ Iter!NewestOf(k).del
         /\ \A e \in iEntries : e.key = k /\ Iter!Visible(e) =>
              e = Iter!NewestOf(k) \/ Iter!Before(Iter!NewestOf(k), e)
<1>1. k \in 1..IterKeys /\ Iter!NewestOf(k) # Iter!None /\ ~ Iter!NewestOf(k).del
  BY DEF Iter!Live, Iter!Key
<1>2. IterKeys \in Nat
  BY IteratorAssumption
<1>3. IsFirst(Iter!NewestOf(k), VisibleOf(k))
  BY ShownIs
<1> QED
  BY <1>1, <1>2, <1>3 DEF IsFirst, VisibleOf

\* No visible entry of its key is before it.
Foremost(x) ==
  \A d \in iEntries : Iter!Visible(d) /\ d.key = x.key => ~ Iter!Before(d, x)

LEMMA IsNewest ==
  ASSUME EntriesOk, NEW x \in iEntries, Iter!Visible(x), Foremost(x)
  PROVE  Iter!NewestOf(x.key) = x /\ (~ x.del => x.key \in Iter!Live)
<1>1. PICK k, S : k = x.key /\ S = VisibleOf(k)
  OBVIOUS
<1>2. IsFirst(Iter!NewestOf(k), S) /\ x \in S
  BY <1>1, ShownIs DEF VisibleOf
<1>3. Iter!NewestOf(k) = x
  BY <1>1, <1>2, OrderIs DEF IsFirst, Foremost, VisibleOf
<1>4. k \in Iter!Key /\ x # Iter!None
  BY <1>1, OrderIs DEF EntriesOk, Iter!Key
<1> QED
  BY <1>1, <1>3, <1>4 DEF Iter!Live

IsLeast(k, K) == IF K = {} THEN k = 0 ELSE k \in K /\ \A l \in K : k <= l
IsGreatest(k, K) == IF K = {} THEN k = 0 ELSE k \in K /\ \A l \in K : l <= k

LEMMA LeastIs ==
  ASSUME NEW K, K \in SUBSET (1..IterKeys)
  PROVE  IsLeast(Iter!Least(K), K) /\ IsGreatest(Iter!Greatest(K), K)
<1>0. IterKeys \in Nat /\ K \subseteq Nat
  BY IteratorAssumption
<1>1. CASE K = {}
  BY <1>1 DEF IsLeast, IsGreatest, Iter!Least, Iter!Greatest, Iter!NoKey
<1>2. CASE K # {}
  <2>1. \E k \in K : \A l \in K : k <= l
    BY <1>0, <1>2, LeastNatural
  <2>2. \E k \in K : \A l \in K : l <= k
    <3> DEFINE T == { IterKeys - l : l \in K }
    <3>1. T \subseteq Nat /\ T # {}
      <4>1. \A l \in K : l \in 1..IterKeys
        OBVIOUS
      <4>2. \A l \in K : IterKeys - l \in Nat
        BY <1>0, <4>1
      <4> QED
        BY <1>2, <4>2
    <3>2. PICK t \in T : \A u \in T : t <= u
      BY <3>1, LeastNatural
    <3>3. PICK k \in K : t = IterKeys - k
      OBVIOUS
    <3>4. ASSUME NEW l \in K PROVE l <= k
      <4>1. t <= IterKeys - l
        BY <3>2
      <4> QED
        BY <1>0, <3>3, <4>1
    <3> QED
      BY <3>4
  <2>3. Iter!Least(K) = (CHOOSE k \in K : \A l \in K : k <= l)
    BY <1>2 DEF Iter!Least, Iter!Min
  <2>4. Iter!Greatest(K) = (CHOOSE k \in K : \A l \in K : k >= l)
    BY <1>2 DEF Iter!Greatest, Iter!Max
  <2>5. \E k \in K : \A l \in K : k >= l
    BY <1>0, <2>2
  <2>6. Iter!Least(K) \in K /\ \A l \in K : Iter!Least(K) <= l
    BY <2>1, <2>3
  <2>7. Iter!Greatest(K) \in K /\ \A l \in K : Iter!Greatest(K) >= l
    BY <2>4, <2>5
  <2>8. \A l \in K : l <= Iter!Greatest(K)
    BY <1>0, <2>7
  <2> QED
    BY <1>2, <2>6, <2>7, <2>8 DEF IsLeast, IsGreatest
<1> QED
  BY <1>1, <1>2

\* Forward: the newest entries of the keys after a are still to come, and of
\* the keys that were passed since then none is shown.
ForthGood(m, skip, a) ==
  /\ Onward(m) /\ skip \in Iter!Key \cup {Iter!NoKey}
  /\ \A k \in Iter!Live : k > a =>
       /\ Iter!Current(m) # Iter!None /\ skip < k
       /\ Iter!NewestOf(k) = Iter!Current(m) \/ Iter!Before(Iter!Current(m), Iter!NewestOf(k))
  /\ Iter!Current(m) # Iter!None =>
       \A e \in iEntries : Iter!Visible(e) =>
         IF Iter!Before(e, Iter!Current(m)) THEN e.key <= skip \/ e.key <= a
         ELSE e.key > a \/ (e.key = a /\ a <= skip)

LEMMA ForthTurn ==
  ASSUME EntriesOk, NEW a \in Nat, NEW m, NEW skip, ForthGood(m, skip, a), NEW x, x = Iter!Current(m), x # Iter!None,
         Iter!Passed(x, skip), NEW n, n = Iter!MergeNext(m),
         NEW t, t = IF Iter!Visible(x) /\ x.del THEN x.key ELSE skip
  PROVE  ForthGood(n, t, a)
<1>1. Onward(m) /\ x \in iEntries /\ m.current # 0
  BY CurrentIs DEF ForthGood, Onward
<1>2. PICK y : y = Iter!Current(n)
  OBVIOUS
<1>3. Onward(n) /\ AtFirst(y, After(x))
  BY <1>1, <1>2, MovesOn
<1>4. \A e \in iEntries : e.key \in Nat /\ e.key \in Iter!Key
  BY DEF EntriesOk, Iter!Key
<1>5. skip \in Nat /\ t \in Iter!Key \cup {Iter!NoKey} /\ t \in Nat
  BY <1>1, <1>4 DEF ForthGood, Iter!Key, Iter!NoKey
<1>6. y # Iter!None => y \in iEntries /\ Iter!Before(x, y)
  BY <1>3 DEF AtFirst, After
<1>7. ASSUME NEW k \in Iter!Live, k > a
      PROVE  y # Iter!None /\ t < k /\ (Iter!NewestOf(k) = y \/ Iter!Before(y, Iter!NewestOf(k)))
  <2>1. PICK v : v = Iter!NewestOf(k)
    OBVIOUS
  <2>2. /\ k \in Nat /\ v \in iEntries /\ v.key = k /\ Iter!Visible(v) /\ ~ v.del
        /\ \A e \in iEntries : e.key = k /\ Iter!Visible(e) => e = v \/ Iter!Before(v, e)
    BY <2>1, LiveIs
  <2>3. skip < k /\ (v = x \/ Iter!Before(x, v))
    BY <1>7, <2>1 DEF ForthGood
  <2>4. v # x
    BY <1>5, <2>2, <2>3 DEF Iter!Passed
  <2>5. v \in After(x)
    BY <2>2, <2>3, <2>4 DEF After
  <2>6. y # Iter!None /\ (v = y \/ Iter!Before(y, v))
    BY <1>3, <2>2, <2>5 DEF AtFirst
  <2>7. Iter!Visible(x) => x.key # k
    BY <1>1, <2>2, <2>3, <2>4, OrderIs
  <2>8. x.key <= k
    BY <1>1, <2>2, <2>3, <2>4, OrderIs
  <2>9. t < k
    BY <1>1, <1>4, <2>2, <2>3, <2>7, <2>8
  <2> QED
    BY <2>1, <2>6, <2>9
<1>8. ASSUME y # Iter!None, NEW e \in iEntries, Iter!Visible(e)
      PROVE  IF Iter!Before(e, y) THEN e.key <= t \/ e.key <= a ELSE e.key > a \/ (e.key = a /\ a <= t)
  <2>1. IF Iter!Before(e, x) THEN e.key <= skip \/ e.key <= a ELSE e.key > a \/ (e.key = a /\ a <= skip)
    BY <1>8 DEF ForthGood
  <2>2. ASSUME Iter!Visible(x) PROVE x.key > a \/ (x.key = a /\ a <= skip)
    BY <1>1, <2>2, OrderIs DEF ForthGood
  <2>3. CASE Iter!Before(e, x)
    <3>1. Iter!Before(e, y) /\ e.key <= x.key
      BY <1>1, <1>6, <1>8, <2>3, OrderIs
    <3> QED
      BY <1>1, <1>4, <1>5, <2>1, <2>3, <3>1
  <2>4. CASE e = x
    <3>1. Iter!Before(e, y) /\ (x.del \/ x.key <= skip)
      BY <1>6, <1>8, <2>4 DEF Iter!Passed
    <3> QED
      BY <1>1, <1>4, <1>8, <2>4, <3>1
  <2>5. CASE e # x /\ ~ Iter!Before(e, x)
    <3>1. e \in After(x)
      BY <1>1, <2>5, OrderIs DEF After
    <3>2. ~ Iter!Before(e, y)
      BY <1>3, <1>6, <1>8, <3>1, OrderIs DEF AtFirst
    <3> QED
      BY <1>1, <1>4, <1>5, <2>1, <2>2, <2>5, <3>2
  <2> QED
    BY <2>3, <2>4, <2>5
<1> QED
  BY <1>2, <1>3, <1>5, <1>7, <1>8 DEF ForthGood

\* The iterator is at the first live key after a.
NextShown(m, a) ==
  LET k == Iter!Least({ l \in Iter!Live : l > a })
  IN  IF k = 0 THEN Iter!Current(m) = Iter!None
      ELSE k \in Iter!Live /\ Iter!Current(m) = Iter!NewestOf(k)

LEMMA ForthShows ==
  ASSUME EntriesOk, NEW a \in Nat, NEW m, NEW skip, ForthGood(m, skip, a),
         Iter!Current(m) = Iter!None \/ ~ Iter!Passed(Iter!Current(m), skip)
  PROVE  NextShown(m, a)
<1>1. PICK x, K, k : x = Iter!Current(m) /\ K = { l \in Iter!Live : l > a } /\ k = Iter!Least(K)
  OBVIOUS
<1>2. \A l \in Iter!Live : l \in 1..IterKeys /\ l \in Nat
  BY LiveIs
<1>3. IsLeast(k, K)
  BY <1>1, <1>2, LeastIs
<1>4. CASE x = Iter!None
  <2>1. K = {}
    BY <1>1, <1>4 DEF ForthGood
  <2>2. k = 0
    BY <1>3, <2>1 DEF IsLeast
  <2> QED
    BY <1>1, <1>4, <2>2 DEF NextShown
<1>5. CASE x # Iter!None
  <2>1. x \in iEntries
    BY <1>1, <1>5, CurrentIs DEF ForthGood, Onward
  <2>2. skip \in Nat /\ x.key \in Nat /\ x.key # 0 /\ \A e \in iEntries : e.key \in Nat
    BY <2>1 DEF ForthGood, Iter!Key, Iter!NoKey, EntriesOk
  <2>3. Iter!Visible(x) /\ ~ x.del /\ x.key > skip
    BY <1>1, <1>5, <2>2 DEF Iter!Passed
  <2>4. x.key > a
    BY <1>1, <1>5, <2>1, <2>2, <2>3, OrderIs DEF ForthGood
  <2>5. Foremost(x)
    <3>1. ASSUME NEW d \in iEntries, Iter!Visible(d), d.key = x.key, Iter!Before(d, x) PROVE FALSE
      <4>1. d.key <= skip \/ d.key <= a
        BY <1>1, <1>5, <3>1 DEF ForthGood
      <4> QED
        BY <2>2, <2>3, <2>4, <3>1, <4>1
    <3> QED
      BY <3>1 DEF Foremost
  <2>6. Iter!NewestOf(x.key) = x /\ x.key \in Iter!Live
    BY <2>1, <2>3, <2>5, IsNewest
  <2>7. x.key \in K
    BY <1>1, <2>4, <2>6
  <2>8. k \in K /\ k <= x.key
    BY <1>3, <2>7 DEF IsLeast
  <2>9. x.key <= k
    <3>1. PICK v : v = Iter!NewestOf(k)
      OBVIOUS
    <3>2. v = x \/ Iter!Before(x, v)
      BY <1>1, <2>8, <3>1 DEF ForthGood
    <3>3. v \in iEntries /\ v.key = k
      BY <1>1, <2>8, <3>1, LiveIs
    <3> QED
      BY <2>1, <2>2, <3>2, <3>3, OrderIs
  <2>10. x.key = k
    BY <1>1, <1>2, <2>2, <2>8, <2>9
  <2> QED
    BY <1>1, <2>2, <2>6, <2>10 DEF NextShown
<1> QED
  BY <1>4, <1>5

LEMMA ForthFinds ==
  ASSUME EntriesOk, NEW a \in Nat, NEW m, NEW skip, ForthGood(m, skip, a), NEW r, r = Iter!Forth(m, skip)
  PROVE  Onward(r) /\ NextShown(r, a)
<1> DEFINE G == { s \in Forths : ForthGood(s.m, s.skip, a) }
<1>1. ASSUME NEW s \in G PROVE ForthEnds(s) \/ ForthNext(s) \in G
  <2>1. SUFFICES ASSUME ~ ForthEnds(s) PROVE ForthNext(s) \in G
    OBVIOUS
  <2>2. PICK x, n, t : /\ x = Iter!Current(s.m) /\ n = Iter!MergeNext(s.m)
                       /\ t = IF Iter!Visible(x) /\ x.del THEN x.key ELSE s.skip
    OBVIOUS
  <2>3. x # Iter!None /\ Iter!Passed(x, s.skip)
    BY <2>1, <2>2 DEF ForthEnds
  <2>4. ForthGood(n, t, a)
    BY <2>2, <2>3, ForthTurn
  <2>5. PICK u : u = ForthNext(s)
    OBVIOUS
  <2>6. u = [m |-> n, skip |-> t]
    BY <2>2, <2>5 DEF ForthNext
  <2>7. n \in Iter!Position /\ t \in Iter!Key \cup {Iter!NoKey}
    BY <2>4 DEF ForthGood, Onward, Stands
  <2> QED
    BY <2>4, <2>5, <2>6, <2>7 DEF Forths
<1>2. PICK b : b = [m |-> m, skip |-> skip]
  OBVIOUS
<1>3. b \in G
  BY <1>2 DEF Forths, ForthGood, Onward, Stands
<1>4. PICK s \in G : ForthEnds(s) /\ r = s.m
  <2>1. G \in SUBSET Forths
    OBVIOUS
  <2> HIDE DEF G
  <2> QED
    BY <1>1, <1>2, <1>3, <2>1, ForthIs
<1>5. ForthGood(s.m, s.skip, a)
  OBVIOUS
<1>6. NextShown(s.m, a)
  BY <1>4, <1>5, ForthShows DEF ForthEnds
<1> QED
  BY <1>4, <1>5, <1>6 DEF ForthGood

\* Back: the newest entries of the keys below b are still to come, or the one
\* that was passed last is saved.
BackGood(m, s, b) ==
  /\ Homeward(m) /\ s \in Spot
  /\ \A k \in Iter!Live : k < b =>
       \/ s = Iter!NewestOf(k)
       \/ /\ Iter!Current(m) # Iter!None
          /\ Iter!NewestOf(k) = Iter!Current(m) \/ Iter!Before(Iter!NewestOf(k), Iter!Current(m))
  /\ s # Iter!None =>
       /\ Iter!Visible(s) /\ ~ s.del /\ s.key < b
       /\ Iter!Current(m) # Iter!None => Iter!Before(Iter!Current(m), s)
       /\ \A e \in iEntries : Iter!Visible(e) /\ Iter!Before(e, s) =>
            Iter!Current(m) # Iter!None /\ (e = Iter!Current(m) \/ Iter!Before(e, Iter!Current(m)))
  /\ Iter!Current(m) # Iter!None =>
       \A e \in iEntries : Iter!Visible(e) /\ (e = Iter!Current(m) \/ Iter!Before(e, Iter!Current(m))) => e.key < b

LEMMA BackTurn ==
  ASSUME EntriesOk, NEW b \in Nat, NEW m, NEW s, BackGood(m, s, b), NEW x, x = Iter!Current(m),
         ~ Iter!Ended(x, s), NEW n, n = Iter!MergePrev(m), NEW t, t = Iter!Kept(x, s)
  PROVE  BackGood(n, t, b)
<1>1. Homeward(m) /\ x \in iEntries /\ m.current # 0 /\ x # Iter!None
  BY CurrentIs DEF BackGood, Homeward, Iter!Ended
<1>2. PICK y : y = Iter!Current(n)
  OBVIOUS
<1>3. Homeward(n) /\ AtLast(y, Until(x))
  BY <1>1, <1>2, MovesBack
<1>4. \A e \in iEntries : e.key \in Nat
  BY DEF EntriesOk
<1>5. t = (IF ~ Iter!Visible(x) THEN s ELSE IF x.del THEN Iter!None ELSE x) /\ s \in Spot /\ t \in Spot
  BY <1>1 DEF Iter!Kept, BackGood, Spot
<1>6. y # Iter!None => y \in iEntries /\ Iter!Before(y, x)
  BY <1>3 DEF AtLast, Until
<1>7. \A e \in iEntries : Iter!Visible(e) /\ Iter!Before(e, x) => y # Iter!None /\ (e = y \/ Iter!Before(e, y))
  BY <1>3 DEF AtLast, Until
<1>8. s # Iter!None => /\ s \in iEntries /\ Iter!Visible(s) /\ ~ s.del /\ s.key < b /\ Iter!Before(x, s)
                       /\ \A e \in iEntries : Iter!Visible(e) /\ Iter!Before(e, s) => e = x \/ Iter!Before(e, x)
  BY <1>1, <1>5 DEF BackGood, Spot
<1>9. \A e \in iEntries : Iter!Visible(e) /\ (e = x \/ Iter!Before(e, x)) => e.key < b
  BY <1>1 DEF BackGood
<1>10. ASSUME NEW k \in Iter!Live, k < b
       PROVE  t = Iter!NewestOf(k) \/ (y # Iter!None /\ (Iter!NewestOf(k) = y \/ Iter!Before(Iter!NewestOf(k), y)))
  <2>1. PICK v : v = Iter!NewestOf(k)
    OBVIOUS
  <2>2. /\ k \in Nat /\ v \in iEntries /\ v.key = k /\ Iter!Visible(v) /\ ~ v.del
        /\ \A e \in iEntries : e.key = k /\ Iter!Visible(e) => e = v \/ Iter!Before(v, e)
    BY <2>1, LiveIs
  <2>3. s = v \/ v = x \/ Iter!Before(v, x)
    BY <1>10, <2>1 DEF BackGood
  <2>4. CASE Iter!Before(v, x)
    BY <1>7, <2>1, <2>2, <2>4
  <2>5. CASE v = x
    BY <1>5, <2>1, <2>2, <2>5
  <2>6. CASE s = v
    <3>1. s # Iter!None
      BY <2>2, <2>6, OrderIs
    <3>2. Iter!Visible(x) => FALSE
      <4>1. SUFFICES ASSUME Iter!Visible(x) PROVE FALSE
        OBVIOUS
      <4>2. ~ (x.key < s.key)
        BY <3>1, <4>1 DEF Iter!Ended
      <4>3. x.key <= s.key
        BY <1>1, <1>8, <3>1, OrderIs
      <4>4. x.key = k
        BY <1>1, <1>4, <2>2, <2>6, <4>2, <4>3
      <4>5. x = v \/ Iter!Before(v, x)
        BY <1>1, <2>2, <4>1, <4>4
      <4> QED
        BY <1>1, <1>8, <2>2, <2>6, <3>1, <4>5, OrderIs
    <3> QED
      BY <1>5, <2>1, <2>6, <3>2
  <2> QED
    BY <2>3, <2>4, <2>5, <2>6
<1>11. ASSUME t # Iter!None
       PROVE  /\ Iter!Visible(t) /\ ~ t.del /\ t.key < b
              /\ y # Iter!None => Iter!Before(y, t)
              /\ \A e \in iEntries : Iter!Visible(e) /\ Iter!Before(e, t) => y # Iter!None /\ (e = y \/ Iter!Before(e, y))
  <2>1. CASE Iter!Visible(x)
    <3>1. t = x /\ ~ x.del
      BY <1>5, <1>11, <2>1
    <3> QED
      BY <1>1, <1>6, <1>7, <1>9, <2>1, <3>1
  <2>2. CASE ~ Iter!Visible(x)
    <3>1. t = s /\ s # Iter!None
      BY <1>5, <1>11, <2>2
    <3>2. y # Iter!None => Iter!Before(y, s)
      BY <1>1, <1>6, <1>8, <3>1, OrderIs
    <3>3. \A e \in iEntries : Iter!Visible(e) /\ Iter!Before(e, s) => Iter!Before(e, x)
      BY <1>8, <2>2, <3>1
    <3> QED
      BY <1>7, <1>8, <3>1, <3>2, <3>3
  <2> QED
    BY <2>1, <2>2
<1>12. ASSUME y # Iter!None, NEW e \in iEntries, Iter!Visible(e), e = y \/ Iter!Before(e, y) PROVE e.key < b
  <2>1. Iter!Before(e, x)
    BY <1>1, <1>6, <1>12, OrderIs
  <2> QED
    BY <1>9, <1>12, <2>1
<1> QED
  BY <1>2, <1>3, <1>5, <1>10, <1>11, <1>12 DEF BackGood

\* It is between the entries of the keys below k and those from k on.
BackAt(m, k) ==
  /\ Homeward(m)
  /\ \A e \in iEntries : Iter!Visible(e) =>
       (e.key < k <=> Iter!Current(m) # Iter!None /\ (e = Iter!Current(m) \/ Iter!Before(e, Iter!Current(m))))

\* x is the entry to show of a live key k.
Displayed(k, x) ==
  x \in iEntries /\ Iter!Visible(x) /\ x.key = k /\ ~ x.del /\ Foremost(x)

LEMMA DisplayedIs ==
  ASSUME EntriesOk, NEW k, NEW x
  PROVE  /\ Displayed(k, x) => k \in Iter!Live /\ x = Iter!NewestOf(k) /\ k \in Nat /\ k # 0 /\ k \in Iter!Key /\ x # Iter!None
         /\ k \in Iter!Live /\ x = Iter!NewestOf(k) => Displayed(k, x)
<1>1. ASSUME Displayed(k, x) PROVE k \in Iter!Live /\ x = Iter!NewestOf(k) /\ k \in Nat /\ k # 0 /\ k \in Iter!Key /\ x # Iter!None
  <2>1. x \in iEntries /\ Iter!Visible(x) /\ x.key = k /\ ~ x.del /\ Foremost(x)
    BY <1>1 DEF Displayed
  <2>2. k \in Iter!Live /\ x = Iter!NewestOf(k)
    BY <2>1, IsNewest
  <2> QED
    BY <2>1, <2>2, LiveIs, OrderIs DEF Iter!Key
<1>2. ASSUME k \in Iter!Live, x = Iter!NewestOf(k) PROVE Displayed(k, x)
  <2>1. /\ x \in iEntries /\ x.key = k /\ Iter!Visible(x) /\ ~ x.del
        /\ \A e \in iEntries : e.key = k /\ Iter!Visible(e) => e = x \/ Iter!Before(x, e)
    BY <1>2, LiveIs
  <2> QED
    BY <2>1, OrderIs DEF Displayed, Foremost
<1> QED
  BY <1>1, <1>2

\* What is saved is the entry of the last live key below b.
PrevShown(m, s, b) ==
  LET k == Iter!Greatest({ l \in Iter!Live : l < b })
  IN  IF k = 0 THEN s = Iter!None ELSE Displayed(k, s) /\ BackAt(m, k)

LEMMA BackShows ==
  ASSUME EntriesOk, NEW b \in Nat, NEW m, NEW s, BackGood(m, s, b), Iter!Ended(Iter!Current(m), s)
  PROVE  PrevShown(m, s, b)
<1>1. PICK x, K, k : x = Iter!Current(m) /\ K = { l \in Iter!Live : l < b } /\ k = Iter!Greatest(K)
  OBVIOUS
<1>2. \A l \in Iter!Live : l \in 1..IterKeys /\ l \in Nat /\ l # 0
  BY LiveIs
<1>3. IsGreatest(k, K)
  BY <1>1, <1>2, LeastIs
<1>4. \A l \in K : l \in Iter!Live /\ l < b
  BY <1>1
<1>5. CASE s = Iter!None
  <2>1. x = Iter!None
    BY <1>1, <1>5 DEF Iter!Ended
  <2>2. ASSUME NEW l \in K PROVE FALSE
    <3>1. Iter!NewestOf(l) \in iEntries
      BY <1>4, LiveIs
    <3>2. s = Iter!NewestOf(l)
      BY <1>1, <1>4, <2>1 DEF BackGood
    <3> QED
      BY <1>5, <3>1, <3>2, OrderIs
  <2>3. k = 0
    BY <1>3, <2>2 DEF IsGreatest
  <2> QED
    BY <1>1, <1>5, <2>3 DEF PrevShown
<1>6. CASE s # Iter!None
  <2>1. /\ s \in iEntries /\ Iter!Visible(s) /\ ~ s.del /\ s.key < b
        /\ \A e \in iEntries : Iter!Visible(e) /\ Iter!Before(e, s) => x # Iter!None /\ (e = x \/ Iter!Before(e, x))
    BY <1>1, <1>6 DEF BackGood, Spot
  <2>2. \A e \in iEntries : e.key \in Nat
    BY DEF EntriesOk
  <2>3. x # Iter!None => x \in iEntries /\ x.key < s.key
    BY <1>1, CurrentIs DEF Iter!Ended, BackGood, Homeward
  <2>4. \A e \in iEntries : x # Iter!None /\ (e = x \/ Iter!Before(e, x)) => e.key < s.key
    <3>1. ASSUME NEW e \in iEntries, x # Iter!None, e = x \/ Iter!Before(e, x) PROVE e.key < s.key
      <4>1. e.key <= x.key
        BY <2>2, <2>3, <3>1, OrderIs
      <4> QED
        BY <2>1, <2>2, <2>3, <3>1, <4>1
    <3> QED
      BY <3>1
  <2>5. Foremost(s)
    <3>1. ASSUME NEW d \in iEntries, Iter!Visible(d), d.key = s.key, Iter!Before(d, s) PROVE FALSE
      <4>1. d.key < s.key
        BY <2>1, <2>4, <3>1
      <4> QED
        BY <2>1, <2>2, <3>1, <4>1
    <3> QED
      BY <3>1 DEF Foremost
  <2>6. Displayed(s.key, s)
    BY <2>1, <2>5 DEF Displayed
  <2>7. s.key \in K
    BY <1>1, <2>1, <2>6, DisplayedIs
  <2>8. k \in K /\ s.key <= k
    BY <1>3, <2>7 DEF IsGreatest
  <2>9. k <= s.key
    <3>1. PICK v : v = Iter!NewestOf(k)
      OBVIOUS
    <3>2. v \in iEntries /\ v.key = k
      BY <1>4, <2>8, <3>1, LiveIs
    <3>3. s = v \/ (x # Iter!None /\ (v = x \/ Iter!Before(v, x)))
      BY <1>1, <1>4, <2>8, <3>1 DEF BackGood
    <3> QED
      BY <2>1, <2>2, <2>4, <3>2, <3>3
  <2>10. k = s.key /\ k # 0
    BY <1>2, <1>4, <2>1, <2>2, <2>8, <2>9
  <2>11. BackAt(m, s.key)
    <3>1. ASSUME NEW e \in iEntries, Iter!Visible(e), e.key < s.key PROVE x # Iter!None /\ (e = x \/ Iter!Before(e, x))
      BY <2>1, <3>1, OrderIs
    <3> QED
      BY <1>1, <2>4, <3>1 DEF BackAt, BackGood
  <2> QED
    BY <1>1, <2>6, <2>10, <2>11 DEF PrevShown
<1> QED
  BY <1>5, <1>6

LEMMA BackFinds ==
  ASSUME EntriesOk, NEW b \in Nat, NEW m, BackAt(m, b), NEW r, r = Iter!Back(m)
  PROVE  PrevShown(r.iter, r.saved, b)
<1> DEFINE G == { s \in Backing : BackGood(s.m, s.kept, b) }
<1>1. ASSUME NEW s \in G PROVE BackEnds(s) \/ BackNext(s) \in G
  <2>1. SUFFICES ASSUME ~ BackEnds(s) PROVE BackNext(s) \in G
    OBVIOUS
  <2>2. PICK x, n, t : x = Iter!Current(s.m) /\ n = Iter!MergePrev(s.m) /\ t = Iter!Kept(x, s.kept)
    OBVIOUS
  <2>3. ~ Iter!Ended(x, s.kept)
    BY <2>1, <2>2 DEF BackEnds
  <2>4. BackGood(n, t, b)
    BY <2>2, <2>3, BackTurn
  <2>5. PICK u : u = BackNext(s)
    OBVIOUS
  <2>6. u = [m |-> n, kept |-> t]
    BY <2>2, <2>5 DEF BackNext
  <2>7. n \in Iter!Position /\ t \in Spot
    BY <2>4 DEF BackGood, Homeward, Stands
  <2> QED
    BY <2>4, <2>5, <2>6, <2>7 DEF Backing
<1>2. PICK a : a = [m |-> m, kept |-> Iter!None]
  OBVIOUS
<1>3. BackGood(m, Iter!None, b)
  <2>1. ASSUME NEW k \in Iter!Live, k < b
        PROVE  /\ Iter!Current(m) # Iter!None
               /\ Iter!NewestOf(k) = Iter!Current(m) \/ Iter!Before(Iter!NewestOf(k), Iter!Current(m))
    <3>1. PICK v : v = Iter!NewestOf(k)
      OBVIOUS
    <3>2. v \in iEntries /\ v.key = k /\ Iter!Visible(v)
      BY <3>1, LiveIs
    <3> QED
      BY <2>1, <3>1, <3>2 DEF BackAt
  <2> QED
    BY <2>1 DEF BackAt, BackGood, Spot
<1>4. a \in G
  BY <1>2, <1>3 DEF Backing, BackGood, Homeward, Stands
<1>5. PICK s \in G : BackEnds(s) /\ r = [iter |-> s.m, saved |-> s.kept]
  <2>1. G \in SUBSET Backing
    OBVIOUS
  <2> HIDE DEF G
  <2> QED
    BY <1>1, <1>2, <1>4, <2>1, BackIs
<1>6. BackGood(s.m, s.kept, b) /\ r.iter = s.m /\ r.saved = s.kept
  BY <1>5
<1>7. PrevShown(s.m, s.kept, b)
  BY <1>5, <1>6, BackShows DEF BackEnds
<1> QED
  BY <1>6, <1>7

LEMMA BeforeKeyFinds ==
  ASSUME EntriesOk, NEW k \in Nat, NEW m, Onward(m), Iter!Current(m) # Iter!None, Iter!Current(m).key = k,
         NEW r, r = Iter!BeforeKey(m, k)
  PROVE  BackAt(r, k)
<1> DEFINE Below(n) == \A e \in iEntries : Iter!Visible(e) /\ e.key < k =>
                         Iter!Current(n) # Iter!None /\ (e = Iter!Current(n) \/ Iter!Before(e, Iter!Current(n)))
           G == { n \in Iter!Position : (Homeward(n) \/ (Onward(n) /\ ~ EarlierEnds(n, k))) /\ Below(n) }
<1>0. \A e \in iEntries : e.key \in Nat
  BY DEF EntriesOk
<1>1. ASSUME NEW n \in G PROVE EarlierEnds(n, k) \/ Iter!MergePrev(n) \in G
  <2>1. SUFFICES ASSUME ~ EarlierEnds(n, k) PROVE Iter!MergePrev(n) \in G
    OBVIOUS
  <2>2. PICK x, p, y : x = Iter!Current(n) /\ p = Iter!MergePrev(n) /\ y = Iter!Current(p)
    OBVIOUS
  <2>3. x # Iter!None /\ ~ (x.key < k)
    BY <2>1, <2>2 DEF EarlierEnds
  <2>4. (Onward(n) \/ Homeward(n)) /\ n.current # 0 /\ x \in iEntries
    BY <2>2, <2>3, CurrentIs DEF Onward, Homeward
  <2>5. Homeward(p) /\ AtLast(y, Until(x))
    BY <2>2, <2>4, MovesBack
  <2>6. ASSUME NEW e \in iEntries, Iter!Visible(e), e.key < k PROVE y # Iter!None /\ (e = y \/ Iter!Before(e, y))
    <3>1. e.key < x.key
      BY <1>0, <2>3, <2>4, <2>6
    <3>2. e \in Until(x)
      BY <2>4, <3>1, OrderIs DEF Until
    <3> QED
      BY <2>5, <2>6, <3>2 DEF AtLast
  <2>7. p \in Iter!Position
    BY <2>5 DEF Homeward, Stands
  <2> QED
    BY <2>2, <2>5, <2>6, <2>7
<1>2. m \in G
  <2>1. Iter!Current(m) \in iEntries /\ m \in Iter!Position
    BY CurrentIs DEF Onward
  <2>2. ~ EarlierEnds(m, k)
    BY <1>0, <2>1 DEF EarlierEnds
  <2>3. Below(m)
    BY <1>0, <2>1, OrderIs
  <2> QED
    BY <2>1, <2>2, <2>3
<1>3. PICK n \in G : EarlierEnds(n, k) /\ r = n
  <2>1. G \in SUBSET Iter!Position
    OBVIOUS
  <2> HIDE DEF G
  <2> QED
    BY <1>1, <1>2, <2>1, BeforeKeyIs
<1>4. Homeward(n) /\ Below(n)
  BY <1>3
<1>5. ASSUME Iter!Current(n) # Iter!None, NEW e \in iEntries, e = Iter!Current(n) \/ Iter!Before(e, Iter!Current(n))
      PROVE  e.key < k
  <2>1. PICK x : x = Iter!Current(n)
    OBVIOUS
  <2>2. x \in iEntries /\ x.key < k
    BY <1>3, <1>4, <1>5, <2>1, CurrentIs DEF EarlierEnds, Homeward
  <2>3. e.key <= x.key
    BY <1>0, <1>5, <2>1, <2>2, OrderIs
  <2> QED
    BY <1>0, <2>2, <2>3
<1> QED
  BY <1>3, <1>4, <1>5 DEF BackAt

-----------------------------------------------------------------------------
(***************************************************************************)
(* Iteration: the inductive invariant, and its steps.                      *)
(***************************************************************************)
\* A user who should be at key k, or at none, sees its newest value, and the
\* iterator of all entries is where the way on, either way, starts from.
ShowsAt(i, d, v, s, k) ==
  /\ k \in Nat /\ d \in {"forward", "reverse"} /\ v \in BOOLEAN
  /\ v = TRUE <=> k # 0
  /\ v = TRUE /\ d = "forward" => Onward(i) /\ Displayed(k, Iter!Current(i))
  /\ v = TRUE /\ d = "reverse" => Displayed(k, s) /\ BackAt(i, k)

IterInv ==
  /\ EntriesOk
  /\ \E i, d, v, s, k :
       /\ i = iIter /\ d = iDirection /\ v = iValid /\ s = iSaved /\ k = iAt
       /\ ShowsAt(i, d, v, s, k)

\* What FindNextUserEntry leaves.
LEMMA ForthLeaves ==
  ASSUME EntriesOk, NEW a \in Nat, NEW m, NEW skip, ForthGood(m, skip, a), NEW i, i = Iter!Forth(m, skip),
         NEW v, v = (Iter!Current(i) # Iter!None), NEW s,
         NEW k, k = Iter!Least({ l \in Iter!Live : l > a })
  PROVE  ShowsAt(i, "forward", v, s, k)
<1>1. Onward(i) /\ NextShown(i, a)
  BY ForthFinds
<1>2. PICK x : x = Iter!Current(i)
  OBVIOUS
<1>3. v \in BOOLEAN /\ (v = TRUE <=> x # Iter!None)
  BY <1>2
<1>4. CASE k = 0
  <2>1. x = Iter!None
    BY <1>1, <1>2, <1>4 DEF NextShown
  <2> QED
    BY <1>3, <1>4, <2>1 DEF ShowsAt
<1>5. CASE k # 0
  <2>1. k \in Iter!Live /\ x = Iter!NewestOf(k)
    BY <1>1, <1>2, <1>5 DEF NextShown
  <2>2. Displayed(k, x)
    BY <2>1, DisplayedIs
  <2>3. k \in Nat /\ x # Iter!None
    BY <2>2, DisplayedIs
  <2> QED
    BY <1>1, <1>2, <1>3, <1>5, <2>2, <2>3 DEF ShowsAt
<1> QED
  BY <1>4, <1>5

\* What FindPrevUserEntry leaves.
LEMMA BackLeaves ==
  ASSUME EntriesOk, NEW b \in Nat, NEW m, BackAt(m, b), NEW r, r = Iter!Back(m),
         NEW i, i = r.iter, NEW s, s = r.saved,
         NEW v, v = (s # Iter!None), NEW d, d = IF s = Iter!None THEN "forward" ELSE "reverse",
         NEW k, k = Iter!Greatest({ l \in Iter!Live : l < b })
  PROVE  ShowsAt(i, d, v, s, k)
<1>1. PrevShown(i, s, b)
  BY BackFinds
<1>2. v \in BOOLEAN /\ (v = TRUE <=> s # Iter!None)
  OBVIOUS
<1>3. CASE k = 0
  <2>1. s = Iter!None
    BY <1>1, <1>3 DEF PrevShown
  <2> QED
    BY <1>2, <1>3, <2>1 DEF ShowsAt
<1>4. CASE k # 0
  <2>1. Displayed(k, s) /\ BackAt(i, k)
    BY <1>1, <1>4 DEF PrevShown
  <2>2. k \in Nat /\ s # Iter!None
    BY <2>1, DisplayedIs
  <2>3. d = "reverse"
    BY <2>2
  <2> QED
    BY <1>2, <1>4, <2>1, <2>2, <2>3 DEF ShowsAt
<1> QED
  BY <1>3, <1>4

\* Where the ways on start.
LEMMA FirstGood ==
  ASSUME EntriesOk, NEW m, m = Iter!MergeSeekToFirst
  PROVE  ForthGood(m, 0, 0)
<1>1. PICK x : x = Iter!Current(m)
  OBVIOUS
<1>2. Onward(m) /\ AtFirst(x, iEntries)
  BY <1>1, SeekFirstIs
<1>3. \A e \in iEntries : e.key \in Nat /\ e.key # 0
  BY DEF EntriesOk
<1>4. \A k \in Iter!Live : x # Iter!None /\ 0 < k /\ (Iter!NewestOf(k) = x \/ Iter!Before(x, Iter!NewestOf(k)))
  <2>1. ASSUME NEW k \in Iter!Live
        PROVE  x # Iter!None /\ 0 < k /\ (Iter!NewestOf(k) = x \/ Iter!Before(x, Iter!NewestOf(k)))
    <3>1. Iter!NewestOf(k) \in iEntries /\ Iter!Visible(Iter!NewestOf(k)) /\ k \in Nat /\ k # 0
      BY LiveIs
    <3> QED
      BY <1>2, <3>1 DEF AtFirst
  <2> QED
    BY <2>1
<1>5. x # Iter!None => \A e \in iEntries : Iter!Visible(e) => ~ Iter!Before(e, x) /\ e.key > 0
  BY <1>2, <1>3, OrderIs DEF AtFirst
<1> QED
  BY <1>1, <1>2, <1>4, <1>5 DEF ForthGood, Iter!NoKey

LEMMA SeekGood ==
  ASSUME EntriesOk, NEW k \in Nat, k # 0, NEW a, a = k - 1, NEW m,
         m = Iter!MergeSeek([key |-> k, seq |-> iSequence])
  PROVE  ForthGood(m, 0, a)
<1>1. PICK x, y, S : /\ x = Iter!Current(m) /\ y = [key |-> k, seq |-> iSequence]
                     /\ S = { e \in iEntries : ~ Iter!Before(e, y) }
  OBVIOUS
<1>2. Onward(m) /\ AtFirst(x, S)
  BY <1>1, SeekIs
<1>3. \A e \in iEntries : e.key \in Nat /\ e.key # 0 /\ e.seq \in Nat
  BY DEF EntriesOk
<1>4. \A e \in iEntries : Iter!Visible(e) => (e \in S <=> e.key > a)
  <2>1. y.key = k /\ y.seq = iSequence /\ iSequence \in Nat
    BY <1>1 DEF EntriesOk
  <2>2. \A e \in iEntries : Iter!Visible(e) => (Iter!Before(e, y) <=> e.key < k)
    BY <1>3, <2>1 DEF Iter!Before, Iter!Visible
  <2> QED
    BY <1>1, <1>3, <2>2
<1>5. ASSUME NEW l \in Iter!Live, l > a
      PROVE  x # Iter!None /\ 0 < l /\ (Iter!NewestOf(l) = x \/ Iter!Before(x, Iter!NewestOf(l)))
  <2>1. PICK w : w = Iter!NewestOf(l)
    OBVIOUS
  <2>2. w \in iEntries /\ Iter!Visible(w) /\ w.key = l /\ l \in Nat /\ l # 0
    BY <2>1, LiveIs
  <2>3. w \in S
    BY <1>4, <1>5, <2>2
  <2> QED
    BY <1>2, <2>1, <2>2, <2>3 DEF AtFirst
<1>6. ASSUME x # Iter!None, NEW e \in iEntries, Iter!Visible(e)
      PROVE  IF Iter!Before(e, x) THEN e.key <= 0 \/ e.key <= a ELSE e.key > a \/ (e.key = a /\ a <= 0)
  <2>1. x \in S /\ x \in iEntries
    BY <1>1, <1>2, <1>6 DEF AtFirst
  <2>2. CASE e \in S
    <3>1. ~ Iter!Before(e, x)
      BY <1>2, <1>6, <2>1, <2>2, OrderIs DEF AtFirst
    <3> QED
      BY <1>4, <1>6, <2>2, <3>1
  <2>3. CASE e \notin S
    <3>1. e.key < k
      BY <1>3, <1>4, <1>6, <2>3
    <3>2. Iter!Before(e, y)
      BY <1>1, <2>3
    <3>3. Iter!Before(e, x)
      <4>1. x.key >= k
        BY <1>1, <1>3, <2>1 DEF Iter!Before
      <4> QED
        BY <1>3, <2>1, <3>1, <4>1, OrderIs
    <3> QED
      BY <1>3, <3>1, <3>3
  <2> QED
    BY <2>2, <2>3
<1> QED
  BY <1>1, <1>2, <1>5, <1>6 DEF ForthGood, Iter!NoKey

LEMMA LastGood ==
  ASSUME EntriesOk, NEW m, m = Iter!MergeSeekToLast, NEW b, b = IterKeys + 1
  PROVE  BackAt(m, b)
<1>1. PICK x : x = Iter!Current(m)
  OBVIOUS
<1>2. Homeward(m) /\ AtLast(x, iEntries)
  BY <1>1, SeekLastIs
<1>3. \A e \in iEntries : e.key < b
  BY IteratorAssumption DEF EntriesOk
<1> QED
  BY <1>1, <1>2, <1>3 DEF BackAt, AtLast

LEMMA OnGood ==
  ASSUME EntriesOk, NEW k, NEW m, Onward(m), Displayed(k, Iter!Current(m))
  PROVE  ForthGood(m, k, k)
<1>1. PICK x : x = Iter!Current(m)
  OBVIOUS
<1>2. /\ x \in iEntries /\ Iter!Visible(x) /\ x.key = k /\ k \in Nat /\ k \in Iter!Key /\ x # Iter!None
      /\ \A e \in iEntries : e.key \in Nat
  BY <1>1, DisplayedIs DEF Displayed, EntriesOk
<1>3. \A e \in iEntries : e.key > k => Iter!Before(x, e)
  BY <1>2, OrderIs
<1>4. ASSUME NEW l \in Iter!Live, l > k
      PROVE  x # Iter!None /\ k < l /\ (Iter!NewestOf(l) = x \/ Iter!Before(x, Iter!NewestOf(l)))
  <2>1. Iter!NewestOf(l) \in iEntries /\ Iter!NewestOf(l).key = l /\ l \in Nat
    BY LiveIs
  <2> QED
    BY <1>2, <1>3, <1>4, <2>1
<1>5. ASSUME NEW e \in iEntries
      PROVE  IF Iter!Before(e, x) THEN e.key <= k \/ e.key <= k ELSE e.key > k \/ (e.key = k /\ k <= k)
  <2>1. Iter!Before(e, x) => e.key <= k
    BY <1>2, OrderIs
  <2>2. ~ Iter!Before(e, x) => ~ (e.key < k)
    BY <1>2, OrderIs
  <2> QED
    BY <1>2, <2>1, <2>2
<1> QED
  BY <1>1, <1>2, <1>4, <1>5 DEF ForthGood

LEMMA TurnGood ==
  ASSUME EntriesOk, NEW k, NEW s, Displayed(k, s), NEW i, BackAt(i, k), NEW m,
         m = IF Iter!Current(i) = Iter!None THEN Iter!MergeSeekToFirst ELSE Iter!MergeNext(i)
  PROVE  Iter!Current(m) # Iter!None /\ ForthGood(m, k, k)
<1>1. PICK x, y, S : /\ x = Iter!Current(i) /\ y = Iter!Current(m)
                     /\ S = IF x = Iter!None THEN iEntries ELSE After(x)
  OBVIOUS
<1>2. k \in Nat /\ k \in Iter!Key /\ \A e \in iEntries : e.key \in Nat
  BY DisplayedIs DEF EntriesOk
<1>3. Homeward(i) /\ \A e \in iEntries : Iter!Visible(e) => (e.key < k <=> x # Iter!None /\ (e = x \/ Iter!Before(e, x)))
  BY <1>1 DEF BackAt
<1>4. x # Iter!None => x \in iEntries /\ i.current # 0
  BY <1>1, <1>3, CurrentIs DEF Homeward
<1>5. Onward(m) /\ AtFirst(y, S)
  <2>1. CASE x = Iter!None
    BY <1>1, <2>1, SeekFirstIs
  <2>2. CASE x # Iter!None
    BY <1>1, <1>3, <1>4, <2>2, MovesOn
  <2> QED
    BY <2>1, <2>2
<1>6. S \in SUBSET iEntries /\ \A e \in iEntries : Iter!Visible(e) => (e \in S <=> ~ (e.key < k))
  BY <1>1, <1>3, <1>4, OrderIs DEF After
<1>7. y # Iter!None
  <2>1. s \in iEntries /\ Iter!Visible(s) /\ s.key = k
    BY DEF Displayed
  <2>2. s \in S
    BY <1>2, <1>6, <2>1
  <2> QED
    BY <1>5, <2>1, <2>2 DEF AtFirst
<1>8. y \in S /\ y \in iEntries
  BY <1>5, <1>6, <1>7 DEF AtFirst
<1>9. ASSUME NEW l \in Iter!Live, l > k
      PROVE  y # Iter!None /\ k < l /\ (Iter!NewestOf(l) = y \/ Iter!Before(y, Iter!NewestOf(l)))
  <2>1. PICK w : w = Iter!NewestOf(l)
    OBVIOUS
  <2>2. w \in iEntries /\ Iter!Visible(w) /\ w.key = l /\ l \in Nat
    BY <2>1, LiveIs
  <2>3. w \in S
    BY <1>2, <1>6, <1>9, <2>2
  <2> QED
    BY <1>2, <1>5, <1>7, <1>9, <2>1, <2>2, <2>3 DEF AtFirst
<1>10. ASSUME NEW e \in iEntries, Iter!Visible(e)
       PROVE  IF Iter!Before(e, y) THEN e.key <= k \/ e.key <= k ELSE e.key > k \/ (e.key = k /\ k <= k)
  <2>1. CASE e \in S
    <3>1. ~ Iter!Before(e, y)
      BY <1>5, <1>8, <1>10, <2>1, OrderIs DEF AtFirst
    <3> QED
      BY <1>2, <1>6, <1>10, <2>1, <3>1
  <2>2. CASE e \notin S
    <3>1. e.key < k /\ x # Iter!None /\ (e = x \/ Iter!Before(e, x))
      BY <1>2, <1>3, <1>6, <1>10, <2>2
    <3>2. Iter!Before(x, y) /\ x \in iEntries
      BY <1>1, <1>4, <1>8, <3>1 DEF After
    <3>3. Iter!Before(e, y)
      BY <1>8, <3>1, <3>2, OrderIs
    <3> QED
      BY <1>2, <3>1, <3>3
  <2> QED
    BY <2>1, <2>2
<1> QED
  BY <1>1, <1>2, <1>5, <1>7, <1>9, <1>10 DEF ForthGood

\* Entries the snapshot does not see change nothing.
LEMMA EntriesStay ==
  ASSUME EntriesOk, iEntries \in SUBSET iEntries', iSequence' = iSequence,
         \A e \in iEntries' \ iEntries : ~ Iter!Visible(e)
  PROVE  /\ \A e : Iter!Visible(e)' <=> Iter!Visible(e)
         /\ \A m : Stands(m) => Stands(m)'
         /\ \A m : Onward(m) => Onward(m)'
         /\ \A m : Homeward(m) => Homeward(m)'
         /\ \A m, k : BackAt(m, k) => BackAt(m, k)'
         /\ \A x, k : Displayed(k, x) => Displayed(k, x)'
<1>1. \A e : Iter!Visible(e)' <=> Iter!Visible(e)
  BY DEF Iter!Visible
<1>2. \A m : Stands(m) => Stands(m)'
  BY DEF Stands, Iter!Position
<1>3. \A x : After(x) \in SUBSET After(x)' /\ Until(x) \in SUBSET Until(x)'
  BY DEF After, Until
<1>4. \A x : \A e \in After(x)' : Iter!Visible(e) => e \in After(x)
  BY DEF After
<1>5. \A x : \A e \in Until(x)' : Iter!Visible(e) => e \in Until(x)
  BY DEF Until
<1>6. ASSUME NEW m, Onward(m) PROVE Onward(m)'
  <2>1. PICK x : x = Iter!Current(m)
    OBVIOUS
  <2>2. Stands(m)' /\ m.forward = TRUE
    BY <1>2, <1>6 DEF Onward
  <2>3. ASSUME m.current # 0, NEW c \in Child \ {m.current}
        PROVE  /\ m.at[c] # Iter!None => m.at[c] \in After(x)' /\ m.at[c].child = c
               /\ \A e \in After(x)' : Iter!Visible(e)' /\ e.child = c =>
                    m.at[c] # Iter!None /\ (m.at[c] = e \/ Iter!Before(m.at[c], e))
    BY <1>1, <1>3, <1>4, <1>6, <2>1, <2>3 DEF Onward
  <2> QED
    BY <2>1, <2>2, <2>3 DEF Onward
<1>7. ASSUME NEW m, Homeward(m) PROVE Homeward(m)'
  <2>1. PICK x : x = Iter!Current(m)
    OBVIOUS
  <2>2. Stands(m)' /\ m.forward = FALSE
    BY <1>2, <1>7 DEF Homeward
  <2>3. ASSUME m.current # 0, NEW c \in Child \ {m.current}
        PROVE  /\ m.at[c] # Iter!None => m.at[c] \in Until(x)' /\ m.at[c].child = c
               /\ \A e \in Until(x)' : Iter!Visible(e)' /\ e.child = c =>
                    m.at[c] # Iter!None /\ (m.at[c] = e \/ Iter!Before(e, m.at[c]))
    BY <1>1, <1>3, <1>5, <1>7, <2>1, <2>3 DEF Homeward
  <2> QED
    BY <2>1, <2>2, <2>3 DEF Homeward
<1>8. ASSUME NEW m, NEW k, BackAt(m, k) PROVE BackAt(m, k)'
  BY <1>1, <1>7, <1>8 DEF BackAt
<1>9. ASSUME NEW x, NEW k, Displayed(k, x) PROVE Displayed(k, x)'
  BY <1>1, <1>9 DEF Displayed, Foremost
<1> QED
  BY <1>1, <1>2, <1>6, <1>7, <1>8, <1>9

LEMMA ShowsStays ==
  ASSUME EntriesOk, EntriesOk', iEntries \in SUBSET iEntries', iSequence' = iSequence,
         \A e \in iEntries' \ iEntries : ~ Iter!Visible(e),
         NEW i, NEW d, NEW v, NEW s, NEW k, ShowsAt(i, d, v, s, k),
         iIter' = i, iDirection' = d, iValid' = v, iSaved' = s, iAt' = k
  PROVE  IterInv'
<1>1. ShowsAt(i, d, v, s, k)'
  BY EntriesStay DEF ShowsAt
<1> QED
  BY <1>1 DEF IterInv

\* A move: the entries stay.
LEMMA Moved ==
  ASSUME EntriesOk, UNCHANGED <<iEntries, iSequence, iWritten>>,
         NEW i, NEW d, NEW v, NEW s, NEW k, ShowsAt(i, d, v, s, k),
         iIter' = i, iDirection' = d, iValid' = v, iSaved' = s, iAt' = k
  PROVE  IterInv'
<1>1. EntriesOk'
  BY DEF EntriesOk
<1> QED
  BY <1>1, ShowsStays

LEMMA SeekToFirstKeeps ==
  ASSUME IterInv, Iter!SeekToFirst
  PROVE  IterInv'
<1>1. EntriesOk
  BY DEF IterInv
<1>2. PICK m, i, v, k : /\ m = Iter!MergeSeekToFirst /\ i = Iter!Forth(m, 0) /\ v = (Iter!Current(i) # Iter!None)
                        /\ k = Iter!Least({ l \in Iter!Live : l > 0 })
  OBVIOUS
<1>3. iIter' = i /\ iDirection' = "forward" /\ iSaved' = Iter!None
  BY <1>2 DEF Iter!SeekToFirst, Iter!FindNextUserEntry, Iter!NoKey
<1>4. iValid' = v
  BY <1>2, <1>3 DEF Iter!SeekToFirst, Iter!FindNextUserEntry
<1>5. iAt' = k
  <2>1. { l \in Iter!Live : l > 0 } = Iter!Live
    <3>1. \A l \in Iter!Live : l > 0
      BY <1>1, LiveIs
    <3> QED
      BY <3>1
  <2>2. iAt' = Iter!Least(Iter!Live)
    BY DEF Iter!SeekToFirst
  <2> QED
    BY <1>2, <2>1, <2>2
<1>6. ForthGood(m, 0, 0)
  BY <1>1, <1>2, FirstGood
<1>7. ShowsAt(i, "forward", v, Iter!None, k)
  BY <1>1, <1>2, <1>6, ForthLeaves
<1>8. UNCHANGED <<iEntries, iSequence, iWritten>>
  BY DEF Iter!SeekToFirst
<1> QED
  BY <1>1, <1>3, <1>4, <1>5, <1>7, <1>8, Moved

LEMMA SeekToLastKeeps ==
  ASSUME IterInv, Iter!SeekToLast
  PROVE  IterInv'
<1>1. EntriesOk
  BY DEF IterInv
<1>2. PICK m, r, i, s, v, d, b, k :
        /\ m = Iter!MergeSeekToLast /\ r = Iter!Back(m) /\ i = r.iter /\ s = r.saved
        /\ v = (s # Iter!None) /\ d = IF s = Iter!None THEN "forward" ELSE "reverse"
        /\ b = IterKeys + 1 /\ k = Iter!Greatest({ l \in Iter!Live : l < b })
  OBVIOUS
<1>3. iIter' = i /\ iSaved' = s
  BY <1>2 DEF Iter!SeekToLast, Iter!FindPrevUserEntry
<1>4. iValid' = v /\ iDirection' = d
  BY <1>2, <1>3 DEF Iter!SeekToLast, Iter!FindPrevUserEntry
<1>5. iAt' = k
  <2>1. { l \in Iter!Live : l < b } = Iter!Live
    <3>1. \A l \in Iter!Live : l < b
      BY <1>1, <1>2, LiveIs, IteratorAssumption
    <3> QED
      BY <3>1
  <2>2. iAt' = Iter!Greatest(Iter!Live)
    BY DEF Iter!SeekToLast
  <2> QED
    BY <1>2, <2>1, <2>2
<1>6. BackAt(m, b) /\ b \in Nat
  BY <1>1, <1>2, LastGood, IteratorAssumption
<1>7. ShowsAt(i, d, v, s, k)
  BY <1>1, <1>2, <1>6, BackLeaves
<1>8. UNCHANGED <<iEntries, iSequence, iWritten>>
  BY DEF Iter!SeekToLast
<1> QED
  BY <1>1, <1>3, <1>4, <1>5, <1>7, <1>8, Moved

LEMMA SeekKeeps ==
  ASSUME IterInv, NEW l \in Iter!Key, Iter!Seek(l)
  PROVE  IterInv'
<1>1. EntriesOk
  BY DEF IterInv
<1>2. PICK a, m, i, v, k :
        /\ a = l - 1 /\ m = Iter!MergeSeek([key |-> l, seq |-> iSequence])
        /\ i = Iter!Forth(m, 0) /\ v = (Iter!Current(i) # Iter!None)
        /\ k = Iter!Least({ h \in Iter!Live : h > a })
  OBVIOUS
<1>3. iIter' = i /\ iDirection' = "forward" /\ iSaved' = Iter!None
  BY <1>2 DEF Iter!Seek, Iter!FindNextUserEntry, Iter!NoKey
<1>4. iValid' = v
  BY <1>2, <1>3 DEF Iter!Seek, Iter!FindNextUserEntry
<1>5. l \in Nat /\ l # 0 /\ a \in Nat
  BY <1>2, IteratorAssumption DEF Iter!Key
<1>6. iAt' = k
  <2>1. { h \in Iter!Live : h > a } = { h \in Iter!Live : h >= l }
    <3>1. \A h \in Iter!Live : h > a <=> h >= l
      BY <1>1, <1>2, <1>5, LiveIs
    <3> QED
      BY <3>1
  <2>2. iAt' = Iter!Least({ h \in Iter!Live : h >= l })
    BY DEF Iter!Seek
  <2> QED
    BY <1>2, <2>1, <2>2
<1>7. ForthGood(m, 0, a)
  BY <1>1, <1>2, <1>5, SeekGood
<1>8. ShowsAt(i, "forward", v, Iter!None, k)
  BY <1>1, <1>2, <1>5, <1>7, ForthLeaves
<1>9. UNCHANGED <<iEntries, iSequence, iWritten>>
  BY DEF Iter!Seek
<1> QED
  BY <1>1, <1>3, <1>4, <1>6, <1>8, <1>9, Moved

LEMMA NextKeyKeeps ==
  ASSUME IterInv, Iter!NextKey
  PROVE  IterInv'
<1>1. EntriesOk
  BY DEF IterInv
<1>2. PICK j, d, s, a : j = iIter /\ d = iDirection /\ s = iSaved /\ a = iAt /\ ShowsAt(j, d, TRUE, s, a)
  BY DEF IterInv, Iter!NextKey
<1>3. /\ a \in Nat /\ d \in {"forward", "reverse"}
      /\ d = "forward" => Onward(j) /\ Displayed(a, Iter!Current(j))
      /\ d = "reverse" => Displayed(a, s) /\ BackAt(j, a)
  BY <1>2 DEF ShowsAt
<1>4. \E m : ForthGood(m, a, a) /\ Iter!FindNextUserEntry(m, a)
  <2>1. CASE d = "forward"
    <3>1. ForthGood(j, a, a)
      BY <1>1, <1>3, <2>1, OnGood
    <3>2. Iter!Current(j).key = a
      BY <1>3, <2>1 DEF Displayed
    <3>3. Iter!FindNextUserEntry(j, Iter!Current(j).key)
      BY <1>2, <2>1 DEF Iter!NextKey
    <3> QED
      BY <3>1, <3>2, <3>3
  <2>2. CASE d = "reverse"
    <3>1. PICK m : m = IF Iter!Current(j) = Iter!None THEN Iter!MergeSeekToFirst ELSE Iter!MergeNext(j)
      OBVIOUS
    <3>2. Iter!Current(m) # Iter!None /\ ForthGood(m, a, a)
      BY <1>1, <1>3, <2>2, <3>1, TurnGood
    <3>3. s.key = a
      BY <1>3, <2>2 DEF Displayed
    <3>4. IF Iter!Current(m) = Iter!None THEN Iter!Invalid(m) ELSE Iter!FindNextUserEntry(m, s.key)
      BY <1>2, <2>2, <3>1 DEF Iter!NextKey
    <3> QED
      BY <3>2, <3>3, <3>4
  <2> QED
    BY <1>3, <2>1, <2>2
<1>5. PICK m : ForthGood(m, a, a) /\ Iter!FindNextUserEntry(m, a)
  BY <1>4
<1>6. PICK i, v, k : /\ i = Iter!Forth(m, a) /\ v = (Iter!Current(i) # Iter!None)
                     /\ k = Iter!Least({ l \in Iter!Live : l > a })
  OBVIOUS
<1>7. iIter' = i /\ iDirection' = "forward" /\ iSaved' = Iter!None
  BY <1>5, <1>6 DEF Iter!FindNextUserEntry
<1>8. iValid' = v
  BY <1>5, <1>6, <1>7 DEF Iter!FindNextUserEntry
<1>9. iAt' = k /\ UNCHANGED <<iEntries, iSequence, iWritten>>
  BY <1>2, <1>6 DEF Iter!NextKey
<1>10. ShowsAt(i, "forward", v, Iter!None, k)
  BY <1>1, <1>3, <1>5, <1>6, ForthLeaves
<1> QED
  BY <1>1, <1>7, <1>8, <1>9, <1>10, Moved

LEMMA PrevKeyKeeps ==
  ASSUME IterInv, Iter!PrevKey
  PROVE  IterInv'
<1>1. EntriesOk
  BY DEF IterInv
<1>2. PICK j, d, s, b : j = iIter /\ d = iDirection /\ s = iSaved /\ b = iAt /\ ShowsAt(j, d, TRUE, s, b)
  BY DEF IterInv, Iter!PrevKey
<1>3. /\ b \in Nat /\ d \in {"forward", "reverse"}
      /\ d = "forward" => Onward(j) /\ Displayed(b, Iter!Current(j))
      /\ d = "reverse" => Displayed(b, s) /\ BackAt(j, b)
  BY <1>2 DEF ShowsAt
<1>4. PICK k : k = Iter!Greatest({ l \in Iter!Live : l < b })
  OBVIOUS
<1>5. iAt' = k /\ UNCHANGED <<iEntries, iSequence, iWritten>>
  BY <1>2, <1>4 DEF Iter!PrevKey
<1>6. \E m : BackAt(m, b) /\ (Iter!FindPrevUserEntry(m) \/ (Iter!Current(m) = Iter!None /\ Iter!Invalid(m)))
  <2>1. CASE d = "reverse"
    BY <1>2, <1>3, <2>1 DEF Iter!PrevKey
  <2>2. CASE d = "forward"
    <3>1. PICK x, m : x = Iter!Current(j) /\ m = Iter!BeforeKey(j, b)
      OBVIOUS
    <3>2. x.key = b /\ x # Iter!None
      BY <1>1, <1>3, <2>2, <3>1, DisplayedIs DEF Displayed
    <3>3. BackAt(m, b)
      BY <1>1, <1>3, <2>2, <3>1, <3>2, BeforeKeyFinds
    <3>4. IF Iter!Current(m) = Iter!None THEN Iter!Invalid(m) ELSE Iter!FindPrevUserEntry(m)
      BY <1>2, <2>2, <3>1, <3>2 DEF Iter!PrevKey
    <3> QED
      BY <3>3, <3>4
  <2> QED
    BY <1>3, <2>1, <2>2
<1>7. PICK m : BackAt(m, b) /\ (Iter!FindPrevUserEntry(m) \/ (Iter!Current(m) = Iter!None /\ Iter!Invalid(m)))
  BY <1>6
<1>8. CASE Iter!FindPrevUserEntry(m)
  <2>1. PICK r, i, t, v, e :
          /\ r = Iter!Back(m) /\ i = r.iter /\ t = r.saved
          /\ v = (t # Iter!None) /\ e = IF t = Iter!None THEN "forward" ELSE "reverse"
    OBVIOUS
  <2>2. iIter' = i /\ iSaved' = t
    BY <1>8, <2>1 DEF Iter!FindPrevUserEntry
  <2>3. iValid' = v /\ iDirection' = e
    BY <1>8, <2>1, <2>2 DEF Iter!FindPrevUserEntry
  <2>4. ShowsAt(i, e, v, t, k)
    BY <1>1, <1>3, <1>4, <1>7, <2>1, BackLeaves
  <2> QED
    BY <1>1, <1>5, <2>2, <2>3, <2>4, Moved
<1>9. CASE Iter!Current(m) = Iter!None /\ Iter!Invalid(m)
  <2>1. PICK K : K = { l \in Iter!Live : l < b }
    OBVIOUS
  <2>2. ASSUME NEW l \in K PROVE FALSE
    <3>1. l \in Iter!Live /\ l < b
      BY <2>1
    <3>2. Iter!NewestOf(l) \in iEntries /\ Iter!Visible(Iter!NewestOf(l)) /\ Iter!NewestOf(l).key = l
      BY <1>1, <3>1, LiveIs
    <3> QED
      BY <1>7, <1>9, <3>1, <3>2 DEF BackAt
  <2>3. k = 0
    BY <1>4, <2>1, <2>2 DEF Iter!Greatest, Iter!NoKey
  <2>4. ShowsAt(m, "forward", FALSE, Iter!None, k)
    BY <2>3 DEF ShowsAt
  <2>5. iIter' = m /\ iDirection' = "forward" /\ iValid' = FALSE /\ iSaved' = Iter!None
    BY <1>9 DEF Iter!Invalid
  <2> QED
    BY <1>1, <1>5, <2>4, <2>5, Moved
<1> QED
  BY <1>7, <1>8, <1>9

LEMMA WriteKeeps ==
  ASSUME IterInv, NEW l \in Iter!Key, NEW del \in BOOLEAN, Iter!Write(l, del)
  PROVE  IterInv'
<1>1. EntriesOk
  BY DEF IterInv
<1>2. PICK i, d, v, s, k :
        /\ i = iIter /\ d = iDirection /\ v = iValid /\ s = iSaved /\ k = iAt
        /\ ShowsAt(i, d, v, s, k)
  BY DEF IterInv
<1>3. PICK n, e : n = iWritten + 1 /\ e = [key |-> l, seq |-> n, del |-> del, child |-> Memtable]
  OBVIOUS
<1>4. iWritten' = n /\ iEntries' = iEntries \cup {e} /\ iSequence' = iSequence
  BY <1>3 DEF Iter!Write
<1>5. /\ iWritten \in Nat /\ n \in Nat /\ n > iWritten /\ iSequence \in 0..iWritten /\ iSequence \in 0..n
      /\ e.key \in 1..IterKeys /\ e.seq = n /\ e.child \in Child /\ e.del \in BOOLEAN
      /\ \A x \in iEntries : x.seq \in 1..iWritten /\ x.seq \in 1..n /\ x.seq # n
  BY <1>1, <1>3, IteratorAssumption DEF EntriesOk, Iter!Key
<1>6. EntriesOk'
  <2>1. IsFiniteSet(iEntries')
    BY <1>1, <1>4, FS_AddElement DEF EntriesOk
  <2>2. \A x \in iEntries' : x.key \in 1..IterKeys /\ x.seq \in 1..n /\ x.child \in Child /\ x.del \in BOOLEAN
    BY <1>1, <1>4, <1>5 DEF EntriesOk
  <2>3. \A x, y \in iEntries' : x.seq = y.seq => x = y
    BY <1>1, <1>4, <1>5 DEF EntriesOk
  <2> QED
    BY <1>4, <1>5, <2>1, <2>2, <2>3 DEF EntriesOk
<1>7. \A x \in iEntries' \ iEntries : ~ Iter!Visible(x)
  BY <1>4, <1>5 DEF Iter!Visible
<1>8. iIter' = i /\ iDirection' = d /\ iValid' = v /\ iSaved' = s /\ iAt' = k
  BY <1>2 DEF Iter!Write
<1> QED
  BY <1>1, <1>2, <1>4, <1>6, <1>7, <1>8, ShowsStays

LEMMA IterStarts ==
  ASSUME Iter!Init
  PROVE  IterInv
<1>1. PICK h \in Iter!Histories :
        /\ iEntries = { [key |-> h[n].key, seq |-> n, del |-> h[n].del, child |-> h[n].child] : n \in DOMAIN h }
        /\ iSequence \in 0..Len(h) /\ iWritten = Len(h)
  BY DEF Iter!Init
<1>2. PICK w \in 0..(IterEntries - IterWrites) : h \in [1..w -> [key : Iter!Key, del : BOOLEAN, child : Child]]
  BY DEF Iter!Histories
<1>3. w \in Nat
  BY IteratorAssumption
<1>4. Len(h) = w /\ DOMAIN h = 1..w
  BY <1>2, <1>3
<1>5. IsFiniteSet(iEntries)
  <2> DEFINE E(n) == [key |-> h[n].key, seq |-> n, del |-> h[n].del, child |-> h[n].child]
             f == [n \in 1..w |-> E(n)]
  <2>1. IsFiniteSet(1..w)
    BY <1>3, FS_Interval
  <2>2. PICK D : D = 1..w
    OBVIOUS
  <2>3. f \in Surjection(D, iEntries)
    <3>1. iEntries = { E(n) : n \in D }
      BY <1>1, <1>4, <2>2
    <3>2. f = [n \in D |-> E(n)]
      BY <2>2
    <3> HIDE DEF E, f
    <3> QED
      BY <3>1, <3>2 DEF Surjection
  <2> HIDE DEF f
  <2> QED
    BY <2>1, <2>2, <2>3, FS_Surjection
<1>6. \A e \in iEntries : e.key \in 1..IterKeys /\ e.seq \in 1..w /\ e.child \in Child /\ e.del \in BOOLEAN
  BY <1>1, <1>2, <1>4 DEF Iter!Key
<1>7. \A d, e \in iEntries : d.seq = e.seq => d = e
  <2>1. ASSUME NEW d \in iEntries, NEW e \in iEntries, d.seq = e.seq PROVE d = e
    <3>1. PICK m \in 1..w : d = [key |-> h[m].key, seq |-> m, del |-> h[m].del, child |-> h[m].child]
      BY <1>1, <1>4
    <3>2. PICK n \in 1..w : e = [key |-> h[n].key, seq |-> n, del |-> h[n].del, child |-> h[n].child]
      BY <1>1, <1>4
    <3>3. m = n
      BY <2>1, <3>1, <3>2
    <3> QED
      BY <3>1, <3>2, <3>3
  <2> QED
    BY <2>1
<1>8. EntriesOk
  BY <1>1, <1>3, <1>4, <1>5, <1>6, <1>7 DEF EntriesOk
<1>9. PICK i, s : i = iIter /\ s = iSaved /\ ShowsAt(i, "forward", FALSE, s, 0)
  BY DEF ShowsAt
<1>10. iDirection = "forward" /\ iValid = FALSE /\ iAt = 0
  BY DEF Iter!Init, Iter!NoKey
<1> QED
  BY <1>8, <1>9, <1>10 DEF IterInv

LEMMA IterStep ==
  ASSUME IterInv, [Iter!Next]_Iter!vars
  PROVE  IterInv'
<1>1. CASE Iter!Next
  BY <1>1, SeekToFirstKeeps, SeekToLastKeeps, NextKeyKeeps, PrevKeyKeeps, SeekKeeps, WriteKeeps DEF Iter!Next
<1>2. CASE UNCHANGED Iter!vars
  <2>1. EntriesOk
    BY DEF IterInv
  <2>2. PICK i, d, v, s, k :
          /\ i = iIter /\ d = iDirection /\ v = iValid /\ s = iSaved /\ k = iAt
          /\ ShowsAt(i, d, v, s, k)
    BY DEF IterInv
  <2> QED
    BY <1>2, <2>1, <2>2, Moved DEF Iter!vars
<1> QED
  BY <1>1, <1>2

LEMMA IterShows ==
  ASSUME IterInv
  PROVE  Iter!ShowsSnapshot
<1>1. PICK i, d, v, s, k :
        /\ i = iIter /\ d = iDirection /\ v = iValid /\ s = iSaved /\ k = iAt
        /\ ShowsAt(i, d, v, s, k)
  BY DEF IterInv
<1>2. EntriesOk /\ v \in BOOLEAN /\ (v = TRUE <=> k # 0)
  BY <1>1 DEF IterInv, ShowsAt
<1>3. iValid <=> iAt # 0
  BY <1>1, <1>2
<1>4. ASSUME iValid PROVE Iter!NewestOf(iAt) = IF iDirection = "forward" THEN Iter!Current(iIter) ELSE iSaved
  <2>1. v = TRUE
    BY <1>1, <1>2, <1>4
  <2>2. CASE d = "forward"
    <3>1. Displayed(k, Iter!Current(i))
      BY <1>1, <2>1, <2>2 DEF ShowsAt
    <3>2. Iter!Current(i) = Iter!NewestOf(k)
      BY <1>2, <3>1, DisplayedIs
    <3> QED
      BY <1>1, <2>2, <3>2
  <2>3. CASE d = "reverse"
    <3>1. Displayed(k, s)
      BY <1>1, <2>1, <2>3 DEF ShowsAt
    <3>2. s = Iter!NewestOf(k)
      BY <1>2, <3>1, DisplayedIs
    <3> QED
      BY <1>1, <2>3, <3>2
  <2> QED
    BY <1>1, <2>2, <2>3 DEF ShowsAt
<1> QED
  BY <1>3, <1>4 DEF Iter!ShowsSnapshot, Iter!NoKey

LEMMA IterAlone == PartsSpec => [](part = "iterator" => IterInv)
<1>1. PartsInit => (part = "iterator" => IterInv)
  BY IterStarts DEF PartsInit
<1>2. (part = "iterator" => IterInv) /\ [PartsNext]_partsVars => (part = "iterator" => IterInv)'
  <2> SUFFICES ASSUME part = "iterator" => IterInv, [PartsNext]_partsVars, part' = "iterator"
               PROVE  IterInv'
    OBVIOUS
  <2>1. part = "iterator" /\ [Iter!Next]_Iter!vars
    BY DEF PartsNext, partsVars, iVars, Iter!vars
  <2> QED
    BY <2>1, IterStep
<1> QED
  BY <1>1, <1>2, PTL DEF PartsSpec

\* However a user of the database moves, to and fro, over any number of keys,
\* entries and children, and whatever is written meanwhile, the iterator shows
\* the newest value the snapshot sees of the key where the user should be, and
\* is invalid exactly at the ends (db_iter.cc, merger.cc).
THEOREM IteratorShows == PartsSpec => []Iteration
<1>1. (part = "iterator" => IterInv) => Iteration
  BY IterShows DEF Iteration
<1> QED
  BY <1>1, IterAlone, PTL
=============================================================================
