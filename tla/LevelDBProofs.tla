---------------------------- MODULE LevelDBProofs ----------------------------
(***************************************************************************)
(* Proofs about LevelDB, for any number of calls, crashes and tables, and  *)
(* that it implements Store.                                               *)
(***************************************************************************)
EXTENDS LevelDB, NumberFacts, SequenceTheorems

-----------------------------------------------------------------------------
(***************************************************************************)
(* Records, and the functions that stand for directories.                  *)
(***************************************************************************)
\* What a record in a log or a table can be.
Records == [seq : Nat \ {0}, ws : (SUBSET Call) \ {{}}]

LEMMA RecordFacts ==
  ASSUME NEW r \in Records
  PROVE  /\ r.seq \in Nat \ {0} /\ r.ws \subseteq Call /\ r.ws # {}
         /\ LastOf(r) \in Nat /\ r.seq <= LastOf(r)
<1>1. r.seq \in Nat \ {0} /\ r.ws \subseteq Call /\ r.ws # {}
  BY DEF Records
<1>2. IsFiniteSet(Call)
  BY BoundsAssumption, FS_Interval DEF Call
<1>3. IsFiniteSet(r.ws)
  BY <1>1, <1>2, FS_Subset
<1>4. Cardinality(r.ws) \in Nat /\ Cardinality(r.ws) # 0
  BY <1>1, <1>3, FS_CardinalityType, FS_EmptySet
<1> QED
  BY <1>1, <1>4 DEF LastOf

LEMMA OverFacts ==
  ASSUME NEW f, NEW g
  PROVE  /\ DOMAIN Over(f, g) = DOMAIN f \cup DOMAIN g
         /\ \A n \in DOMAIN f : Over(f, g)[n] = f[n]
         /\ \A n \in DOMAIN g \ DOMAIN f : Over(f, g)[n] = g[n]
BY DEF Over

LEMMA RestrictFacts ==
  ASSUME NEW f, NEW S
  PROVE  /\ DOMAIN Restrict(f, S) = S
         /\ \A n \in S : Restrict(f, S)[n] = f[n]
BY DEF Restrict

LEMMA RangeFacts ==
  ASSUME NEW S, NEW q \in Seq(S)
  PROVE  /\ \A a : a \in Range(q) <=> \E i \in 1..Len(q) : q[i] = a
         /\ Range(q) \subseteq S
<1>1. DOMAIN q = 1..Len(q) /\ \A i \in 1..Len(q) : q[i] \in S
  BY LenProperties, ElementOfSeq
<1> QED
  BY <1>1 DEF Range

\* The last sequence numbers of the records of a log have a bound.
LEMMA LastBounded ==
  ASSUME NEW q \in Seq(Records)
  PROVE  \E b \in Nat : \A c \in Range(q) : LastOf(c) <= b
<1> DEFINE S == { n \in Nat : \E b \in Nat : \A i \in 1..Len(q) : i <= n => LastOf(q[i]) <= b }
<1>1. \A i \in 1..Len(q) : q[i] \in Records /\ LastOf(q[i]) \in Nat
  BY ElementOfSeq, RecordFacts
<1>2. Len(q) \in Nat
  BY LenProperties
<1>3. 0 \in S
  BY <1>2
<1>4. ASSUME NEW n \in Nat, n \in S PROVE n + 1 \in S
  <2>1. PICK b \in Nat : \A i \in 1..Len(q) : i <= n => LastOf(q[i]) <= b
    BY <1>4
  <2>2. CASE n + 1 \in 1..Len(q)
    <3>1. PICK l \in Nat : l = LastOf(q[n + 1])
      BY <1>1, <2>2
    <3>2. b + l \in Nat /\ \A i \in 1..Len(q) : i <= n + 1 => LastOf(q[i]) <= b + l
      <4> SUFFICES ASSUME NEW i \in 1..Len(q), i <= n + 1 PROVE LastOf(q[i]) <= b + l
        OBVIOUS
      <4>1. CASE i <= n
        BY <4>1, <2>1, <1>1, <3>1
      <4>2. CASE i = n + 1
        BY <4>2, <3>1, <2>1
      <4> QED
        BY <4>1, <4>2, <1>2
    <3> QED
      BY <3>2
  <2>3. CASE n + 1 \notin 1..Len(q)
    <3>1. \A i \in 1..Len(q) : i <= n + 1 => i <= n
      BY <2>3, <1>2
    <3> QED
      BY <3>1, <2>1
  <2> QED
    BY <2>2, <2>3
<1>5. Nat \subseteq S
  <2> HIDE DEF S
  <2> QED
    BY <1>3, <1>4, NaturalInduction
<1>6. PICK b \in Nat : \A i \in 1..Len(q) : i <= Len(q) => LastOf(q[i]) <= b
  BY <1>5, <1>2
<1>7. \A i \in 1..Len(q) : LastOf(q[i]) <= b
  BY <1>6, <1>2
<1> QED
  BY <1>7, RangeFacts

-----------------------------------------------------------------------------
(***************************************************************************)
(* Recovery replays the logs one by one.                                   *)
(***************************************************************************)
\* The logs have numbers and records, and so has the manifest.
DiskOK ==
  /\ DOMAIN logs \subseteq Nat \ {0}
  /\ \E b \in Nat : \A n \in DOMAIN logs : n <= b
  /\ \A n \in DOMAIN logs :
       /\ logs[n] \in [recs : Seq(Records), synced : Nat]
       /\ logs[n].synced <= Len(logs[n].recs)
  /\ DOMAIN files \subseteq Nat
  /\ \A n \in DOMAIN files : files[n] \subseteq Records
  /\ manifest \in [l0 : SUBSET Nat, l1 : SUBSET Nat, log : Nat, last : Nat, next : Nat]

Start == [tabs |-> <<>>, next |-> manifest.next + 1, last |-> manifest.last]

\* What the replay of the logs up to number k adds up to.
ReplayedTo(r, k) ==
  /\ r.next \in Nat /\ manifest.next < r.next
  /\ r.last \in Nat /\ manifest.last <= r.last
  /\ \A t \in DOMAIN r.tabs :
       /\ t \in Nat /\ manifest.next < t /\ t < r.next
       /\ \E n \in LogsNeeded : r.tabs[t] = Range(logs[n].recs)
  /\ \A n \in LogsNeeded : n <= k =>
       /\ n < r.next
       /\ \A c \in Range(logs[n].recs) :
            LastOf(c) <= r.last /\ \E t \in DOMAIN r.tabs : c \in r.tabs[t]

\* One more log, with what recovery makes of it.
LEMMA RecoverLogFileFacts ==
  ASSUME DiskOK, NEW r, NEW k \in Nat, ReplayedTo(r, k), k + 1 \in LogsNeeded
  PROVE  ReplayedTo(RecoverLogFile(r, k + 1), k + 1)
<1> DEFINE n == k + 1
           recs == Range(logs[n].recs)
           q == RecoverLogFile(r, n)
           next == IF recs = {} THEN r.next ELSE r.next + 1
<1>1. n \in DOMAIN logs /\ logs[n].recs \in Seq(Records) /\ n \in Nat
  BY DEF DiskOK, LogsNeeded
<1>2. recs \subseteq Records
  BY <1>1, RangeFacts
<1>3. \A c \in recs : LastOf(c) \in Nat
  BY <1>2, RecordFacts
<1>4. r.next \in Nat /\ next \in Nat /\ r.next <= next /\ r.last \in Nat
  BY DEF ReplayedTo
<1>5. /\ q.tabs = IF recs = {} THEN r.tabs ELSE Over([t \in {r.next} |-> recs], r.tabs)
      /\ q.next = Max({next, n + 1})
      /\ q.last = Max({r.last} \cup { LastOf(c) : c \in recs })
  BY DEF RecoverLogFile
<1>6. q.next \in Nat /\ next <= q.next /\ n < q.next
  <2>1. \A y \in {next, n + 1} : y \in Nat /\ y <= next + n + 1
    BY <1>1, <1>4
  <2>2. next + n + 1 \in Nat /\ {next, n + 1} \subseteq Nat /\ {next, n + 1} # {}
    BY <1>1, <1>4
  <2>3. Max({next, n + 1}) \in {next, n + 1} /\ \A y \in {next, n + 1} : y <= Max({next, n + 1})
    <3> HIDE DEF next, n
    <3> QED
      BY <2>1, <2>2, GreatestNatural
  <2> HIDE DEF next, n, q
  <2> QED
    BY <2>2, <2>3, <1>5, <1>1, <1>4
<1>7. q.last \in Nat /\ r.last <= q.last /\ \A c \in recs : LastOf(c) <= q.last
  <2> DEFINE T == {r.last} \cup { LastOf(c) : c \in recs }
  <2>1. PICK b \in Nat : \A c \in recs : LastOf(c) <= b
    BY <1>1, LastBounded
  <2>2. b + r.last \in Nat /\ T \subseteq Nat /\ T # {}
    BY <1>3, <1>4
  <2>3. \A y \in T : y <= b + r.last
    BY <2>1, <1>3, <1>4
  <2>4. Max(T) \in T /\ \A y \in T : y <= Max(T)
    <3> HIDE DEF T
    <3> QED
      BY <2>2, <2>3, GreatestNatural
  <2>5. q.last = Max(T)
    BY <1>5
  <2> HIDE DEF q
  <2> QED
    BY <2>2, <2>4, <2>5
<1>8. CASE recs = {}
  <2>1. q.tabs = r.tabs
    BY <1>5, <1>8
  <2>2. \A m \in LogsNeeded : m <= n => m <= k \/ m = n
    BY DEF LogsNeeded, DiskOK
  <2>3. SUFFICES ReplayedTo(q, n)
    OBVIOUS
  <2>4. q.next \in Nat /\ manifest.next < q.next /\ r.next <= q.next
    BY <1>4, <1>6, <1>8 DEF ReplayedTo, DiskOK
  <2>5. q.last \in Nat /\ manifest.last <= q.last
    BY <1>4, <1>7 DEF ReplayedTo, DiskOK
  <2>6. ASSUME NEW t \in DOMAIN q.tabs
        PROVE  /\ t \in Nat /\ manifest.next < t /\ t < q.next
               /\ \E m \in LogsNeeded : q.tabs[t] = Range(logs[m].recs)
    <3> HIDE DEF q
    <3> QED
      BY <2>1, <2>4, <2>6, <1>4 DEF ReplayedTo
  <2>7. ASSUME NEW m \in LogsNeeded, m <= n
        PROVE  /\ m < q.next
               /\ \A c \in Range(logs[m].recs) :
                    LastOf(c) <= q.last /\ \E t \in DOMAIN q.tabs : c \in q.tabs[t]
    <3>1. CASE m = n
      <4> HIDE DEF q
      <4> QED
        BY <3>1, <1>6, <1>8
    <3>2. CASE m <= k
      <4>1. m < r.next /\ m \in Nat
        BY <3>2 DEF ReplayedTo, LogsNeeded, DiskOK
      <4>2. \A c \in Range(logs[m].recs) :
              LastOf(c) <= r.last /\ \E t \in DOMAIN r.tabs : c \in r.tabs[t]
        BY <3>2 DEF ReplayedTo
      <4>3. Range(logs[m].recs) \subseteq Records
        BY RangeFacts DEF DiskOK, LogsNeeded
      <4>4. \A c \in Range(logs[m].recs) : LastOf(c) \in Nat
        BY <4>3, RecordFacts
      <4>5. m < q.next
        BY <4>1, <2>4, <1>4
      <4>6. \A c \in Range(logs[m].recs) : LastOf(c) <= q.last
        BY <4>2, <4>4, <1>4, <1>7
      <4> HIDE DEF q
      <4> QED
        BY <4>2, <4>5, <4>6, <2>1
    <3> QED
      BY <3>1, <3>2, <2>2, <2>7
  <2> HIDE DEF q
  <2> QED
    BY <2>4, <2>5, <2>6, <2>7 DEF ReplayedTo
<1>9. CASE recs # {}
  <2>1. q.tabs = Over([t \in {r.next} |-> recs], r.tabs) /\ next = r.next + 1
    BY <1>5, <1>9
  <2>2. /\ DOMAIN q.tabs = {r.next} \cup DOMAIN r.tabs
        /\ q.tabs[r.next] = recs
        /\ \A t \in DOMAIN r.tabs \ {r.next} : q.tabs[t] = r.tabs[t]
    <3>1. PICK F : F = [t \in {r.next} |-> recs]
      OBVIOUS
    <3>2. DOMAIN F = {r.next} /\ F[r.next] = recs
      BY <3>1
    <3>3. q.tabs = Over(F, r.tabs)
      BY <2>1, <3>1
    <3>4. /\ DOMAIN Over(F, r.tabs) = DOMAIN F \cup DOMAIN r.tabs
          /\ \A t \in DOMAIN F : Over(F, r.tabs)[t] = F[t]
          /\ \A t \in DOMAIN r.tabs \ DOMAIN F : Over(F, r.tabs)[t] = r.tabs[t]
      BY OverFacts
    <3> HIDE DEF q, recs
    <3> QED
      BY <3>2, <3>3, <3>4
  <2>3. \A t \in DOMAIN r.tabs : t # r.next /\ t \in Nat /\ t < r.next
    BY <1>4 DEF ReplayedTo
  <2>4. \A m \in LogsNeeded : m \in Nat /\ (m <= n => m <= k \/ m = n)
    BY DEF LogsNeeded, DiskOK
  <2>5. q.next \in Nat /\ manifest.next < q.next /\ manifest.next < r.next /\ r.next < q.next
    BY <1>4, <1>6, <2>1 DEF ReplayedTo, DiskOK
  <2>6. q.last \in Nat /\ manifest.last <= q.last
    BY <1>4, <1>7 DEF ReplayedTo, DiskOK
  <2>7. ASSUME NEW t \in DOMAIN q.tabs
        PROVE  /\ t \in Nat /\ manifest.next < t /\ t < q.next
               /\ \E m \in LogsNeeded : q.tabs[t] = Range(logs[m].recs)
    <3>1. CASE t = r.next
      BY <3>1, <2>2, <2>5, <1>4
    <3>2. CASE t \in DOMAIN r.tabs
      <4>1. t \in Nat /\ manifest.next < t /\ t < r.next
        BY <3>2 DEF ReplayedTo
      <4>2. q.tabs[t] = r.tabs[t]
        BY <3>2, <2>2, <2>3
      <4>3. \E m \in LogsNeeded : r.tabs[t] = Range(logs[m].recs)
        BY <3>2 DEF ReplayedTo
      <4>4. t < q.next
        BY <4>1, <2>5, <1>4
      <4> HIDE DEF q
      <4> QED
        BY <4>1, <4>2, <4>3, <4>4
    <3> HIDE DEF q
    <3> QED
      BY <3>1, <3>2, <2>2
  <2>8. ASSUME NEW m \in LogsNeeded, m <= n
        PROVE  /\ m < q.next
               /\ \A c \in Range(logs[m].recs) :
                    LastOf(c) <= q.last /\ \E t \in DOMAIN q.tabs : c \in q.tabs[t]
    <3>1. CASE m = n
      <4> HIDE DEF q
      <4> QED
        BY <3>1, <1>6, <1>7, <2>2
    <3>2. CASE m <= k
      <4>1. m < r.next /\ m \in Nat
        BY <3>2, <2>4 DEF ReplayedTo
      <4>2. \A c \in Range(logs[m].recs) :
              LastOf(c) <= r.last /\ \E t \in DOMAIN r.tabs : c \in r.tabs[t]
        BY <3>2 DEF ReplayedTo
      <4>3. \A t \in DOMAIN r.tabs : t \in DOMAIN q.tabs /\ q.tabs[t] = r.tabs[t]
        BY <2>2, <2>3
      <4>4. Range(logs[m].recs) \subseteq Records
        BY RangeFacts DEF DiskOK, LogsNeeded
      <4>5. \A c \in Range(logs[m].recs) : LastOf(c) \in Nat
        BY <4>4, RecordFacts
      <4>6. m < q.next
        BY <4>1, <2>5, <1>4
      <4>7. \A c \in Range(logs[m].recs) : LastOf(c) <= q.last
        BY <4>2, <4>5, <1>4, <1>7
      <4> HIDE DEF q
      <4> QED
        BY <4>2, <4>3, <4>6, <4>7
    <3> QED
      BY <3>1, <3>2, <2>4, <2>8
  <2>9. SUFFICES ReplayedTo(q, n)
    OBVIOUS
  <2> HIDE DEF q
  <2> QED
    BY <2>5, <2>6, <2>7, <2>8 DEF ReplayedTo
<1> QED
  BY <1>8, <1>9

\* All of them.
LEMMA ReplayFacts ==
  ASSUME DiskOK
  PROVE  \E k \in Nat : ReplayedTo(Replay, k) /\ \A n \in DOMAIN logs : n <= k
<1> DEFINE Body(g, n) ==
             IF n = 0 THEN Start
             ELSE IF n \in DOMAIN logs /\ n >= manifest.log THEN RecoverLogFile(g[n - 1], n)
             ELSE g[n - 1]
           S == { m \in Nat : \E g : g = [n \in 0..m |-> Body(g, n)] }
           top == Max(DOMAIN logs \cup {0})
<1>1. top \in Nat /\ \A n \in DOMAIN logs : n <= top
  <2>1. PICK b \in Nat : \A n \in DOMAIN logs : n <= b
    BY DEF DiskOK
  <2>2. DOMAIN logs \cup {0} \subseteq Nat /\ \A n \in DOMAIN logs \cup {0} : n <= b
    BY <2>1 DEF DiskOK
  <2> QED
    BY <2>2, GreatestNatural
<1> HIDE DEF top
<1>2. 0 \in S
  <2>1. 0..0 = {0}
    OBVIOUS
  <2>2. [n \in 0..0 |-> Start] = [n \in 0..0 |-> Body([k \in 0..0 |-> Start], n)]
    BY <2>1
  <2> QED
    BY <2>2
<1>3. ASSUME NEW m \in Nat, m \in S PROVE m + 1 \in S
  <2>1. PICK g : g = [n \in 0..m |-> Body(g, n)]
    BY <1>3
  <2> DEFINE h == [n \in 0..(m + 1) |-> IF n <= m THEN g[n] ELSE Body(g, m + 1)]
  <2>2. ASSUME NEW n \in 0..(m + 1) PROVE h[n] = Body(h, n)
    <3>1. CASE n = 0
      BY <3>1, <2>1
    <3>2. CASE n # 0 /\ n <= m
      <4>1. n \in 0..m /\ n - 1 \in 0..(m + 1) /\ n - 1 <= m
        BY <3>2
      <4>2. h[n] = g[n] /\ h[n - 1] = g[n - 1]
        BY <4>1, <3>2
      <4>3. g[n] = Body(g, n)
        BY <4>1, <2>1
      <4> HIDE DEF h
      <4> QED
        BY <4>2, <4>3
    <3>3. CASE n = m + 1
      <4>1. m \in 0..(m + 1) /\ ~ (m + 1 <= m)
        OBVIOUS
      <4>2. h[m] = g[m] /\ h[n] = Body(g, n) /\ n - 1 = m /\ n # 0
        BY <4>1, <3>3
      <4> HIDE DEF h
      <4> QED
        BY <4>2
    <3> QED
      BY <3>1, <3>2, <3>3
  <2>3. h = [n \in 0..(m + 1) |-> Body(h, n)]
    <3>1. DOMAIN h = 0..(m + 1) /\ h = [n \in 0..(m + 1) |-> h[n]]
      OBVIOUS
    <3> HIDE DEF h, Body
    <3> QED
      BY <3>1, <2>2
  <2> HIDE DEF h, Body
  <2> QED
    BY <2>3
<1>4. Nat \subseteq S
  <2> HIDE DEF S
  <2> QED
    BY <1>2, <1>3, NaturalInduction
<1> DEFINE f == CHOOSE g : g = [n \in 0..top |-> Body(g, n)]
<1>5. f = [n \in 0..top |-> Body(f, n)]
  <2>1. \E g : g = [n \in 0..top |-> Body(g, n)]
    BY <1>1, <1>4
  <2> HIDE DEF Body
  <2> QED
    BY <2>1
<1>6. Replay = f[top]
  BY DEF Replay, Start, top
<1> HIDE DEF f
<1> DEFINE T == { k \in Nat : k <= top => ReplayedTo(f[k], k) }
<1>7. 0 \in T
  <2>1. f[0] = Start
    BY <1>1, <1>5
  <2>2. ReplayedTo(Start, 0)
    <3>1. \A n \in LogsNeeded : n \in Nat /\ ~ (n <= 0)
      BY DEF DiskOK, LogsNeeded
    <3>2. manifest.next \in Nat /\ manifest.last \in Nat
      BY DEF DiskOK
    <3>3. DOMAIN Start.tabs = {}
      BY DEF Start
    <3> QED
      BY <3>1, <3>2, <3>3 DEF Start, ReplayedTo
  <2> QED
    BY <2>1, <2>2
<1>8. ASSUME NEW k \in Nat, k \in T PROVE k + 1 \in T
  <2>1. SUFFICES ASSUME k + 1 <= top PROVE ReplayedTo(f[k + 1], k + 1)
    OBVIOUS
  <2>2. ReplayedTo(f[k], k) /\ k \in 0..top /\ k + 1 \in 0..top /\ k + 1 # 0 /\ (k + 1) - 1 = k
    BY <2>1, <1>8, <1>1
  <2>3. f[k + 1] = Body(f, k + 1)
    <3> HIDE DEF Body
    <3> QED
      BY <2>2, <1>5
  <2>4. CASE k + 1 \in LogsNeeded
    <3>1. f[k + 1] = RecoverLogFile(f[k], k + 1)
      BY <2>2, <2>3, <2>4 DEF LogsNeeded
    <3> QED
      BY <3>1, <2>2, <2>4, RecoverLogFileFacts
  <2>5. CASE k + 1 \notin LogsNeeded
    <3>1. f[k + 1] = f[k]
      BY <2>2, <2>3, <2>5 DEF LogsNeeded
    <3>2. \A n \in LogsNeeded : n <= k + 1 => n <= k
      BY <2>5 DEF LogsNeeded, DiskOK
    <3> QED
      BY <3>1, <3>2, <2>2 DEF ReplayedTo
  <2> QED
    BY <2>4, <2>5
<1>9. Nat \subseteq T
  <2> HIDE DEF T
  <2> QED
    BY <1>7, <1>8, NaturalInduction
<1>10. ReplayedTo(f[top], top)
  BY <1>9, <1>1
<1> QED
  BY <1>1, <1>6, <1>10

-----------------------------------------------------------------------------
(***************************************************************************)
(* The queue of writers.                                                   *)
(***************************************************************************)
\* The writers in the queue are the calls without an answer, and none stands
\* there twice; a writer is on its way only while the database is open.
QueueInv ==
  /\ kind \in Seq(Kind) /\ Len(kind) <= MaxWrites
  /\ answer \in Seq({"none", "ok", "error", "dead"}) /\ Len(answer) = Len(kind)
  /\ writers \in Seq(1..Len(kind))
  /\ \A i, j \in 1..Len(writers) : writers[i] = writers[j] => i = j
  /\ \A c \in 1..Len(kind) : answer[c] = "none" <=> \E i \in 1..Len(writers) : writers[i] = c
  /\ awake \in BOOLEAN /\ (Len(writers) = 0 => ~awake)
  /\ stage \in {"queued", "room", "wait", "log", "sync", "insert", "inserted"}
  /\ stage # "queued" => Len(writers) # 0
  /\ mode # "up" => Len(writers) = 0

\* A group is a front part of the queue.  Its first call has a batch, and
\* nobody who wants a sync is in a group that gets none.
GroupInv ==
  stage \in {"log", "sync", "insert", "inserted"} =>
    /\ group \in 1..Len(writers)
    /\ kind[writers[1]] # "force"
    /\ kind[writers[1]] = "sync" \/ \A i \in 2..group : kind[writers[i]] # "sync"
    /\ stage = "sync" => kind[writers[1]] = "sync"

LEMMA SequenceFacts ==
  ASSUME NEW S, NEW q \in Seq(S)
  PROVE  /\ Len(q) \in Nat /\ DOMAIN q = 1..Len(q)
         /\ \A i \in 1..Len(q) : q[i] \in S
         /\ q # <<>> <=> Len(q) # 0
         /\ Len(q) # 0 => Head(q) = q[1]
<1>1. Len(q) \in Nat /\ DOMAIN q = 1..Len(q)
  BY LenProperties
<1>2. \A i \in 1..Len(q) : q[i] \in S
  BY ElementOfSeq
<1>3. Len(<<>>) = 0 /\ (q # <<>> => Len(q) # 0)
  BY EmptySeq
<1>4. q = <<>> => Len(q) = 0
  BY <1>3, Zenon
<1>5. Len(q) # 0 => Head(q) = q[1]
  BY <1>4
<1> QED
  BY <1>1, <1>2, <1>3, <1>4, <1>5

LEMMA AppendFacts ==
  ASSUME NEW S, NEW q \in Seq(S), NEW a \in S
  PROVE  /\ Append(q, a) \in Seq(S) /\ Len(Append(q, a)) = Len(q) + 1
         /\ \A i \in 1..Len(q) : Append(q, a)[i] = q[i]
         /\ Append(q, a)[Len(q) + 1] = a
         /\ Range(Append(q, a)) = Range(q) \cup {a}
<1>1. Append(q, a) \in Seq(S) /\ Len(Append(q, a)) = Len(q) + 1 /\ Len(q) \in Nat
  BY AppendProperties, LenProperties
<1>2. \A i \in 1..Len(q) : Append(q, a)[i] = q[i]
  BY AppendProperties
<1>3. Append(q, a)[Len(q) + 1] = a
  BY AppendProperties
<1>4. \A b : b \in Range(Append(q, a)) <=> \E i \in 1..Len(Append(q, a)) : Append(q, a)[i] = b
  BY <1>1, RangeFacts
<1>5. \A b : b \in Range(q) <=> \E i \in 1..Len(q) : q[i] = b
  BY RangeFacts
<1>6. ASSUME NEW b PROVE b \in Range(Append(q, a)) <=> b \in Range(q) \cup {a}
  <2>1. ASSUME b \in Range(q) PROVE b \in Range(Append(q, a))
    <3>1. PICK i \in 1..Len(q) : q[i] = b
      BY <2>1, <1>5
    <3>2. i \in 1..Len(Append(q, a)) /\ Append(q, a)[i] = b
      BY <3>1, <1>1, <1>2
    <3> QED
      BY <3>2, <1>4
  <2>2. a \in Range(Append(q, a))
    BY <1>1, <1>3, <1>4
  <2>3. ASSUME b \in Range(Append(q, a)) PROVE b \in Range(q) \cup {a}
    <3>1. PICK i \in 1..Len(Append(q, a)) : Append(q, a)[i] = b
      BY <2>3, <1>4
    <3>2. i \in 1..Len(q) \/ i = Len(q) + 1
      BY <1>1
    <3> QED
      BY <3>1, <3>2, <1>2, <1>3, <1>5
  <2> QED
    BY <2>1, <2>2, <2>3
<1>7. Range(Append(q, a)) = Range(q) \cup {a}
  BY <1>6
<1> QED
  BY <1>1, <1>2, <1>3, <1>7

\* A front part of a sequence, and what is left behind it.
LEMMA SubSeqFacts ==
  ASSUME NEW S, NEW q \in Seq(S), NEW n \in 0..Len(q)
  PROVE  /\ SubSeq(q, 1, n) \in Seq(S) /\ Len(SubSeq(q, 1, n)) = n
         /\ \A i \in 1..n : SubSeq(q, 1, n)[i] = q[i]
         /\ \A a : a \in Range(SubSeq(q, 1, n)) <=> \E i \in 1..n : q[i] = a
         /\ SubSeq(q, n + 1, Len(q)) \in Seq(S)
         /\ Len(SubSeq(q, n + 1, Len(q))) = Len(q) - n
         /\ \A i \in 1..Len(q) - n : SubSeq(q, n + 1, Len(q))[i] = q[n + i]
<1>1. Len(q) \in Nat /\ \A i \in 1..Len(q) : q[i] \in S
  BY SequenceFacts
<1>2. /\ SubSeq(q, 1, n) \in Seq(S)
      /\ Len(SubSeq(q, 1, n)) = IF 1 <= n THEN n - 1 + 1 ELSE 0
      /\ \A i \in 1..(n - 1 + 1) : SubSeq(q, 1, n)[i] = q[1 + i - 1]
  <2>1. 1 \in Int /\ n \in Int /\ \A i \in 1..n : q[i] \in S
    BY <1>1
  <2> QED
    BY <2>1, SubSeqProperties
<1>3. Len(SubSeq(q, 1, n)) = n /\ \A i \in 1..n : SubSeq(q, 1, n)[i] = q[i]
  BY <1>1, <1>2
<1>4. \A a : a \in Range(SubSeq(q, 1, n)) <=> \E i \in 1..n : q[i] = a
  <2>1. \A a : a \in Range(SubSeq(q, 1, n)) <=>
                 \E i \in 1..Len(SubSeq(q, 1, n)) : SubSeq(q, 1, n)[i] = a
    BY <1>2, RangeFacts
  <2> QED
    BY <2>1, <1>3
<1>5. /\ SubSeq(q, n + 1, Len(q)) \in Seq(S)
      /\ Len(SubSeq(q, n + 1, Len(q))) = IF n + 1 <= Len(q) THEN Len(q) - (n + 1) + 1 ELSE 0
      /\ \A i \in 1..(Len(q) - (n + 1) + 1) : SubSeq(q, n + 1, Len(q))[i] = q[(n + 1) + i - 1]
  <2>1. n + 1 \in Int /\ Len(q) \in Int /\ \A i \in (n + 1)..Len(q) : q[i] \in S
    BY <1>1
  <2> QED
    BY <2>1, SubSeqProperties
<1>6. Len(SubSeq(q, n + 1, Len(q))) = Len(q) - n
  BY <1>1, <1>5
<1>7. \A i \in 1..Len(q) - n : SubSeq(q, n + 1, Len(q))[i] = q[n + i]
  <2> SUFFICES ASSUME NEW i \in 1..Len(q) - n PROVE SubSeq(q, n + 1, Len(q))[i] = q[n + i]
    OBVIOUS
  <2>1. i \in 1..(Len(q) - (n + 1) + 1) /\ (n + 1) + i - 1 = n + i
    BY <1>1
  <2> QED
    BY <2>1, <1>5
<1> QED
  BY <1>2, <1>3, <1>4, <1>5, <1>6, <1>7

LEMMA FrontRange ==
  ASSUME NEW S, NEW q, q \in Seq(S), NEW n, n \in 0..Len(q)
  PROVE  \A a : a \in Range(SubSeq(q, 1, n)) <=> \E i \in 1..n : q[i] = a
BY SubSeqFacts

\* A call joins the queue.
LEMMA QueueWrite ==
  ASSUME QueueInv, GroupInv, NEW k \in Kind, Write(k)
  PROVE  QueueInv' /\ GroupInv'
<1>1. /\ kind' = Append(kind, k) /\ answer' = Append(answer, "none")
      /\ writers' = Append(writers, Len(kind) + 1) /\ awake' = (awake \/ writers = <<>>)
      /\ stage' = stage /\ group' = group /\ mode' = mode /\ mode = "up" /\ Len(kind) < MaxWrites
  BY DEF Write, tables, sets, thread, disk, fate
<1>2. /\ kind \in Seq(Kind) /\ answer \in Seq({"none", "ok", "error", "dead"})
      /\ writers \in Seq(1..Len(kind)) /\ Len(answer) = Len(kind)
  BY DEF QueueInv
<1>3. Len(kind) \in Nat /\ MaxWrites \in Nat /\ Len(writers) \in Nat
  BY <1>2, SequenceFacts, BoundsAssumption
<1>4. /\ kind' \in Seq(Kind) /\ Len(kind') = Len(kind) + 1
      /\ \A i \in 1..Len(kind) : kind'[i] = kind[i]
  BY <1>1, <1>2, AppendFacts
<1>5. /\ answer' \in Seq({"none", "ok", "error", "dead"}) /\ Len(answer') = Len(kind) + 1
      /\ \A i \in 1..Len(kind) : answer'[i] = answer[i]
      /\ answer'[Len(kind) + 1] = "none"
  <2>1. "none" \in {"none", "ok", "error", "dead"}
    OBVIOUS
  <2> QED
    BY <2>1, <1>1, <1>2, AppendFacts
<1>6. /\ writers' \in Seq(1..Len(kind')) /\ Len(writers') = Len(writers) + 1
      /\ \A i \in 1..Len(writers) : writers'[i] = writers[i]
      /\ writers'[Len(writers) + 1] = Len(kind) + 1
  <2>1. 1..Len(kind) \subseteq 1..Len(kind') /\ Len(kind) + 1 \in 1..Len(kind')
    BY <1>3, <1>4
  <2>2. writers \in Seq(1..Len(kind'))
    BY <2>1, <1>2, SeqMonotonic
  <2> QED
    BY <2>1, <2>2, <1>1, AppendFacts
<1>7. \A i \in 1..Len(writers) : writers[i] \in 1..Len(kind)
  BY <1>2, SequenceFacts
<1>8. \A i, j \in 1..Len(writers') : writers'[i] = writers'[j] => i = j
  <2> SUFFICES ASSUME NEW i \in 1..Len(writers'), NEW j \in 1..Len(writers'),
                      writers'[i] = writers'[j]
               PROVE  i = j
    OBVIOUS
  <2>1. i \in 1..Len(writers) \/ i = Len(writers) + 1
    BY <1>6, <1>3
  <2>2. j \in 1..Len(writers) \/ j = Len(writers) + 1
    BY <1>6, <1>3
  <2>3. \A l, m \in 1..Len(writers) : writers[l] = writers[m] => l = m
    BY DEF QueueInv
  <2>4. \A l \in 1..Len(writers) : writers[l] # Len(kind) + 1
    BY <1>7, <1>3
  <2> QED
    BY <2>1, <2>2, <2>3, <2>4, <1>6
<1>9. \A c \in 1..Len(kind') : answer'[c] = "none" <=> \E i \in 1..Len(writers') : writers'[i] = c
  <2> SUFFICES ASSUME NEW c \in 1..Len(kind')
               PROVE  answer'[c] = "none" <=> \E i \in 1..Len(writers') : writers'[i] = c
    OBVIOUS
  <2>1. CASE c = Len(kind) + 1
    BY <2>1, <1>5, <1>6, <1>3
  <2>2. CASE c \in 1..Len(kind)
    <3>1. answer[c] = "none" <=> \E i \in 1..Len(writers) : writers[i] = c
      BY <2>2 DEF QueueInv
    <3>2. (\E i \in 1..Len(writers) : writers[i] = c) <=> \E i \in 1..Len(writers') : writers'[i] = c
      <4>1. \A i \in 1..Len(writers') : i \in 1..Len(writers) \/ i = Len(writers) + 1
        BY <1>6, <1>3
      <4>2. 1..Len(writers) \subseteq 1..Len(writers')
        BY <1>6, <1>3
      <4>3. c # Len(kind) + 1
        BY <2>2, <1>3
      <4> QED
        BY <4>1, <4>2, <4>3, <1>6
    <3> QED
      BY <3>1, <3>2, <2>2, <1>5
  <2> QED
    BY <2>1, <2>2, <1>3, <1>4
<1>10. awake' \in BOOLEAN /\ Len(writers') # 0 /\ Len(kind') <= MaxWrites
  BY <1>1, <1>3, <1>4, <1>6 DEF QueueInv
<1>11. QueueInv'
  BY <1>1, <1>4, <1>5, <1>6, <1>8, <1>9, <1>10 DEF QueueInv
<1>12. GroupInv'
  <2> SUFFICES ASSUME stage \in {"log", "sync", "insert", "inserted"}
               PROVE  /\ group' \in 1..Len(writers')
                      /\ kind'[writers'[1]] # "force"
                      /\ kind'[writers'[1]] = "sync" \/ \A i \in 2..group' : kind'[writers'[i]] # "sync"
                      /\ stage' = "sync" => kind'[writers'[1]] = "sync"
    BY <1>1 DEF GroupInv
  <2>1. group \in 1..Len(writers) /\ group' \in 1..Len(writers')
    BY <1>1, <1>3, <1>6 DEF GroupInv
  <2>2. \A i \in 1..group : writers'[i] = writers[i] /\ kind'[writers'[i]] = kind[writers[i]]
    <3>1. ASSUME NEW i \in 1..group
          PROVE  writers'[i] = writers[i] /\ kind'[writers'[i]] = kind[writers[i]]
      <4>1. i \in 1..Len(writers)
        BY <1>3, <2>1
      <4>2. writers'[i] = writers[i] /\ writers[i] \in 1..Len(kind)
        BY <1>6, <1>7, <4>1
      <4> QED
        BY <1>4, <4>2
    <3> QED
      BY <3>1
  <2>3. 1 \in 1..group /\ 2..group \subseteq 1..group
    BY <2>1
  <2> QED
    BY <2>1, <2>2, <2>3, <1>1 DEF GroupInv
<1> QED
  BY <1>11, <1>12

\* Calls are answered.
LEMMA QueueAnswered ==
  ASSUME QueueInv, NEW n \in 1..Len(writers), NEW st \in {"ok", "error"},
         Answered(n, st), kind' = kind, mode' = mode
  PROVE  QueueInv' /\ GroupInv'
<1>1. /\ answer' = [c \in DOMAIN answer |->
                      IF c \in Range(SubSeq(writers, 1, n)) THEN st ELSE answer[c]]
      /\ writers' = SubSeq(writers, n + 1, Len(writers))
      /\ awake' = (n < Len(writers)) /\ stage' = "queued"
  BY DEF Answered
<1>2. /\ kind \in Seq(Kind) /\ answer \in Seq({"none", "ok", "error", "dead"})
      /\ writers \in Seq(1..Len(kind)) /\ Len(answer) = Len(kind) /\ Len(kind) <= MaxWrites
  BY DEF QueueInv
<1>3. /\ Len(writers) \in Nat /\ n \in 0..Len(writers) /\ DOMAIN answer = 1..Len(kind)
      /\ Len(kind) \in Nat /\ \A i \in 1..Len(kind) : answer[i] \in {"none", "ok", "error", "dead"}
  BY <1>2, SequenceFacts
<1>4. \A a : a \in Range(SubSeq(writers, 1, n)) <=> \E i \in 1..n : writers[i] = a
  BY <1>2, <1>3, SubSeqFacts
<1>5. /\ writers' \in Seq(1..Len(kind)) /\ Len(writers') = Len(writers) - n
      /\ \A i \in 1..Len(writers) - n : writers'[i] = writers[n + i]
  <2>1. PICK W, q : W = 1..Len(kind) /\ q = writers
    OBVIOUS
  <2>2. q \in Seq(W) /\ n \in 0..Len(q)
    BY <1>2, <1>3, <2>1
  <2>3. /\ SubSeq(q, n + 1, Len(q)) \in Seq(W)
        /\ Len(SubSeq(q, n + 1, Len(q))) = Len(q) - n
        /\ \A i \in 1..Len(q) - n : SubSeq(q, n + 1, Len(q))[i] = q[n + i]
    BY <2>2, SubSeqFacts
  <2>4. writers' = SubSeq(q, n + 1, Len(q))
    BY <1>1, <2>1
  <2> QED
    BY <2>1, <2>3, <2>4
<1>6. /\ answer' \in Seq({"none", "ok", "error", "dead"}) /\ Len(answer') = Len(kind)
      /\ \A c \in 1..Len(kind) :
           answer'[c] = IF c \in Range(SubSeq(writers, 1, n)) THEN st ELSE answer[c]
  <2>1. answer' \in [1..Len(kind) -> {"none", "ok", "error", "dead"}]
    BY <1>1, <1>3
  <2>2. answer' \in Seq({"none", "ok", "error", "dead"})
    BY <2>1, <1>3, SeqDef
  <2>3. DOMAIN answer' = 1..Len(answer') /\ Len(answer') \in Nat
    BY <2>2, LenProperties
  <2>4. Len(answer') = Len(kind)
    BY <2>1, <2>3, <1>3
  <2> QED
    BY <2>2, <2>4, <1>1, <1>3
<1>7. \A i, j \in 1..Len(writers') : writers'[i] = writers'[j] => i = j
  <2> SUFFICES ASSUME NEW i \in 1..Len(writers'), NEW j \in 1..Len(writers'),
                      writers'[i] = writers'[j]
               PROVE  i = j
    OBVIOUS
  <2>1. n + i \in 1..Len(writers) /\ n + j \in 1..Len(writers)
    <3>1. PICK l : l = Len(writers)
      OBVIOUS
    <3>2. l \in Nat /\ n \in 0..l /\ i \in 1..(l - n) /\ j \in 1..(l - n)
      BY <1>3, <1>5, <3>1
    <3>3. n + i \in 1..l /\ n + j \in 1..l
      BY <3>2
    <3> QED
      BY <3>1, <3>3
  <2>2. writers[n + i] = writers[n + j]
    BY <1>5
  <2>3. n + i = n + j
    BY <2>1, <2>2 DEF QueueInv
  <2> QED
    BY <2>3, <1>3
<1>8. \A c \in 1..Len(kind) : answer'[c] = "none" <=> \E i \in 1..Len(writers') : writers'[i] = c
  <2> SUFFICES ASSUME NEW c \in 1..Len(kind)
               PROVE  answer'[c] = "none" <=> \E i \in 1..Len(writers') : writers'[i] = c
    OBVIOUS
  <2>1. answer[c] = "none" <=> \E i \in 1..Len(writers) : writers[i] = c
    BY DEF QueueInv
  <2>2. CASE \E i \in 1..n : writers[i] = c
    <3>1. PICK i \in 1..n : writers[i] = c
      BY <2>2
    <3>2. answer'[c] = st
      BY <1>4, <1>6, <2>2
    <3>3. ASSUME NEW j \in 1..Len(writers'), writers'[j] = c PROVE FALSE
      <4>1. n + j \in 1..Len(writers) /\ i \in 1..Len(writers) /\ writers[n + j] = c
        BY <3>3, <1>3, <1>5
      <4>2. n + j = i
        BY <4>1, <3>1 DEF QueueInv
      <4> QED
        BY <4>2, <1>3
    <3> QED
      BY <3>2, <3>3
  <2>3. CASE ~ \E i \in 1..n : writers[i] = c
    <3>1. answer'[c] = answer[c]
      BY <1>4, <1>6, <2>3
    <3>2. ASSUME NEW i \in 1..Len(writers), writers[i] = c
          PROVE  \E j \in 1..Len(writers') : writers'[j] = c
      <4>1. i \notin 1..n
        BY <3>2, <2>3
      <4>2. i - n \in 1..Len(writers') /\ n + (i - n) = i
        BY <4>1, <1>3, <1>5
      <4>3. writers'[i - n] = c
        BY <4>2, <1>5, <3>2
      <4> QED
        BY <4>2, <4>3
    <3>3. ASSUME NEW j \in 1..Len(writers'), writers'[j] = c
          PROVE  \E i \in 1..Len(writers) : writers[i] = c
      <4>1. n + j \in 1..Len(writers) /\ writers[n + j] = c
        BY <3>3, <1>3, <1>5
      <4> QED
        BY <4>1
    <3> QED
      BY <3>1, <3>2, <3>3, <2>1
  <2> QED
    BY <2>2, <2>3
<1>9. awake' \in BOOLEAN /\ (Len(writers') = 0 => ~awake') /\ (mode # "up" => Len(writers') = 0)
  <2>1. mode = "up"
    BY <1>3 DEF QueueInv
  <2>2. Len(writers') = 0 => ~ (n < Len(writers))
    BY <1>3, <1>5
  <2>3. (n < Len(writers)) \in BOOLEAN
    OBVIOUS
  <2> QED
    BY <2>1, <2>2, <2>3, <1>1, Zenon
<1>10. QueueInv'
  BY <1>1, <1>2, <1>5, <1>6, <1>7, <1>8, <1>9 DEF QueueInv
<1>11. GroupInv'
  BY <1>1 DEF GroupInv
<1> QED
  BY <1>10, <1>11

\* What the background thread does to the queue: it may wake a writer.
Wakes ==
  /\ stage' \in {stage, Woken(stage)}
  /\ UNCHANGED <<kind, answer, writers, awake, group, mode>>

LEMMA BackgroundWakes == BackgroundStep => Wakes
<1> USE DEF Wakes, calls, queue, tables, sets, thread, disk, fate
<1>1. NothingToDo => Wakes
  BY DEF NothingToDo, Idle
<1>2. BeginFlush => Wakes
  BY DEF BeginFlush
<1>3. BuildTable => Wakes
  BY DEF BuildTable
<1>4. BuildTableFails => Wakes
  BY DEF BuildTableFails, Flushed, Idle
<1>5. ApplyFlush => Wakes
  BY DEF ApplyFlush, Flushed, Idle
<1>6. BeginMove => Wakes
  BY DEF BeginMove
<1>7. BeginMerge => Wakes
  BY DEF BeginMerge
<1>8. OpenCompactionOutputFile => Wakes
  BY DEF OpenCompactionOutputFile
<1>9. FinishCompactionOutputFile => Wakes
  BY DEF FinishCompactionOutputFile
<1>10. InstallCompactionResults => Wakes
  BY DEF InstallCompactionResults, Idle
<1>11. MergeFails => Wakes
  BY DEF MergeFails, Idle
<1>12. ManifestFails => Wakes
  BY DEF ManifestFails, Flushed, Idle
<1> QED
  BY <1>1, <1>2, <1>3, <1>4, <1>5, <1>6, <1>7, <1>8, <1>9, <1>10, <1>11, <1>12
     DEF BackgroundStep

LEMMA QueueWakes ==
  ASSUME QueueInv, GroupInv, Wakes
  PROVE  QueueInv' /\ GroupInv'
<1>1. /\ stage' = stage \/ (stage = "wait" /\ stage' = "room")
      /\ UNCHANGED <<kind, answer, writers, awake, group, mode>>
  BY DEF Wakes, Woken
<1>2. QueueInv'
  BY <1>1 DEF QueueInv
<1>3. GroupInv'
  BY <1>1 DEF GroupInv
<1> QED
  BY <1>2, <1>3

\* After a crash there is no queue.
LEMMA QueueGone ==
  ASSUME QueueInv, Gone
  PROVE  QueueInv' /\ GroupInv'
<1>1. /\ kind' = kind /\ answer' = [c \in DOMAIN answer |-> "dead"]
      /\ writers' = <<>> /\ awake' = FALSE /\ stage' = "queued" /\ mode' = "down"
  BY DEF Gone
<1>2. kind \in Seq(Kind) /\ Len(kind) <= MaxWrites /\ Len(answer) = Len(kind)
  BY DEF QueueInv
<1>3. DOMAIN answer = 1..Len(kind) /\ Len(kind) \in Nat
  BY <1>2, SequenceFacts DEF QueueInv
<1>4. answer' \in [1..Len(kind) -> {"none", "ok", "error", "dead"}]
  BY <1>1, <1>3
<1>5. answer' \in Seq({"none", "ok", "error", "dead"})
  BY <1>3, <1>4, SeqDef
<1>6. Len(answer') = Len(kind)
  BY <1>3, <1>4, <1>5, LenProperties
<1>7. writers' \in Seq(1..Len(kind)) /\ Len(writers') = 0
  BY <1>1, EmptySeq
<1>8. \A c \in 1..Len(kind) : answer'[c] = "dead"
  BY <1>1, <1>3
<1>9. QueueInv'
  <2>1. kind' = kind /\ Len(answer') = Len(kind) /\ 1..Len(writers') = {}
    BY <1>1, <1>6, <1>7
  <2>2. awake' \in BOOLEAN /\ ~awake' /\ stage' = "queued"
    BY <1>1
  <2>3. \A c \in 1..Len(kind) : answer'[c] # "none"
    BY <1>8
  <2> QED
    BY <2>1, <2>2, <2>3, <1>2, <1>5, <1>7 DEF QueueInv
<1>10. GroupInv'
  BY <1>1 DEF GroupInv
<1> QED
  BY <1>9, <1>10

\* Where the front of the queue goes without an answer.
LEMMA QueueMoves ==
  ASSUME QueueInv, GroupInv,
         UNCHANGED <<kind, answer, writers, awake, mode>>,
         \/ Begin \/ Wait \/ AddRecord \/ SyncLog \/ Insert
         \/ Room /\ group' \in Groups
  PROVE  QueueInv' /\ GroupInv'
<1>1. /\ Len(writers) \in Nat /\ (writers # <<>> <=> Len(writers) # 0)
      /\ Len(writers) # 0 => Head(writers) = writers[1]
  BY SequenceFacts DEF QueueInv
<1>2. CASE Begin
  <2>1. stage' = "room" /\ Len(writers) # 0
    BY <1>2, <1>1 DEF Begin
  <2>2. QueueInv'
    BY <2>1 DEF QueueInv
  <2> QED
    BY <2>1, <2>2 DEF GroupInv
<1>3. CASE Wait
  <2>1. stage = "room" /\ stage' = "wait"
    BY <1>3 DEF Wait
  <2>2. QueueInv'
    BY <2>1 DEF QueueInv
  <2> QED
    BY <2>1, <2>2 DEF GroupInv
<1>4. CASE AddRecord
  <2>1. stage = "log" /\ stage' = (IF kind[First] = "sync" THEN "sync" ELSE "insert") /\ group' = group
    BY <1>4 DEF AddRecord
  <2>2. QueueInv' /\ First = writers[1]
    BY <2>1, <1>1 DEF QueueInv, First
  <2> QED
    BY <2>1, <2>2 DEF GroupInv
<1>5. CASE SyncLog
  <2>1. stage = "sync" /\ stage' = "insert" /\ group' = group
    BY <1>5 DEF SyncLog
  <2>2. QueueInv'
    BY <2>1 DEF QueueInv
  <2> QED
    BY <2>1, <2>2 DEF GroupInv
<1>6. CASE Insert
  <2>1. stage = "insert" /\ stage' = "inserted" /\ group' = group
    BY <1>6 DEF Insert
  <2>2. QueueInv'
    BY <2>1 DEF QueueInv
  <2> QED
    BY <2>1, <2>2 DEF GroupInv
<1>7. CASE Room /\ group' \in Groups
  <2>1. stage = "room" /\ stage' = "log" /\ kind[First] # "force"
    BY <1>7 DEF Room
  <2>2. QueueInv' /\ First = writers[1]
    BY <2>1, <1>1 DEF QueueInv, First
  <2>3. group' \in 1..Len(writers)
    BY <1>7 DEF Groups
  <2>4. kind[First] = "sync" \/ \A i \in 2..group' : kind[writers[i]] # "sync"
    BY <1>7 DEF Groups
  <2> QED
    BY <2>1, <2>2, <2>3, <2>4 DEF GroupInv
<1> QED
  BY <1>2, <1>3, <1>4, <1>5, <1>6, <1>7

QueueVars == <<kind, answer, writers, awake, stage, group, mode>>

\* What a step does to the queue.
LEMMA QueueSteps ==
  ASSUME QueueInv, GroupInv, Next
  PROVE  \/ \E k \in Kind : Write(k)
         \/ /\ UNCHANGED <<kind, answer, writers, awake, mode>>
            /\ \/ Begin \/ Wait \/ AddRecord \/ SyncLog \/ Insert
               \/ Room /\ group' \in Groups
         \/ /\ \E n \in 1..Len(writers), st \in {"ok", "error"} : Answered(n, st)
            /\ UNCHANGED <<kind, mode>>
         \/ Wakes
         \/ Gone
         \/ /\ mode # "up"
            /\ UNCHANGED <<kind, answer, writers, awake, stage, group>>
<1> USE DEF calls, queue, tables, sets, thread, disk, fate
<1>1. Len(writers) \in Nat
  BY SequenceFacts DEF QueueInv
<1>2. stage # "queued" => 1 \in 1..Len(writers)
  BY <1>1 DEF QueueInv
<1>3. stage \in {"log", "sync", "insert", "inserted"} => group \in 1..Len(writers)
  BY DEF GroupInv
<1>4. CASE WriterStep
  <2>1. CASE Begin
    BY <2>1 DEF Begin
  <2>2. CASE NoRoom
    BY <2>2, <1>2 DEF NoRoom
  <2>3. CASE RoomOnly
    BY <2>3, <1>2 DEF RoomOnly
  <2>4. CASE Room
    BY <2>4 DEF Room
  <2>5. CASE Wait
    BY <2>5 DEF Wait
  <2>6. CASE Switch
    BY <2>6 DEF Switch, Wakes
  <2>7. CASE NewLogFails
    BY <2>7, <1>2 DEF NewLogFails
  <2>8. CASE AddRecord
    BY <2>8 DEF AddRecord
  <2>9. CASE AddRecordFails
    BY <2>9, <1>3 DEF AddRecordFails
  <2>10. CASE SyncLog
    BY <2>10 DEF SyncLog
  <2>11. CASE SyncFails
    BY <2>11, <1>3 DEF SyncFails
  <2>12. CASE Insert
    BY <2>12 DEF Insert
  <2>13. CASE Finish
    BY <2>13, <1>3 DEF Finish
  <2> QED
    BY <1>4, <2>1, <2>2, <2>3, <2>4, <2>5, <2>6, <2>7, <2>8, <2>9, <2>10, <2>11, <2>12, <2>13
       DEF WriterStep
<1>5. CASE BackgroundStep
  BY <1>5, BackgroundWakes
<1>6. CASE OpenStep
  <2>1. Recover => mode # "up" /\ UNCHANGED <<kind, answer, writers, awake, stage, group>>
    BY DEF Recover
  <2>2. SetCurrentFile => mode # "up" /\ UNCHANGED <<kind, answer, writers, awake, stage, group>>
    BY DEF SetCurrentFile
  <2>3. Opened => mode # "up" /\ UNCHANGED <<kind, answer, writers, awake, stage, group>>
    BY DEF Opened
  <2> QED
    BY <1>6, <2>1, <2>2, <2>3 DEF OpenStep
<1>7. NewIterator \/ DeleteIterator => Wakes
  BY DEF NewIterator, DeleteIterator, Wakes
<1>8. ProcessCrash \/ MachineCrash => Gone
  BY DEF ProcessCrash, MachineCrash
<1> QED
  BY <1>4, <1>5, <1>6, <1>7, <1>8 DEF Next

LEMMA QueueStep ==
  ASSUME QueueInv, GroupInv, [Next]_vars
  PROVE  QueueInv' /\ GroupInv'
<1>1. CASE Next
  <2>1. ASSUME NEW k \in Kind, Write(k) PROVE QueueInv' /\ GroupInv'
    BY <2>1, QueueWrite
  <2>2. ASSUME UNCHANGED <<kind, answer, writers, awake, mode>>,
               \/ Begin \/ Wait \/ AddRecord \/ SyncLog \/ Insert
               \/ Room /\ group' \in Groups
        PROVE  QueueInv' /\ GroupInv'
    BY <2>2, QueueMoves
  <2>3. ASSUME NEW n \in 1..Len(writers), NEW st \in {"ok", "error"}, Answered(n, st),
               UNCHANGED <<kind, mode>>
        PROVE  QueueInv' /\ GroupInv'
    BY <2>3, QueueAnswered
  <2>4. ASSUME Wakes PROVE QueueInv' /\ GroupInv'
    BY <2>4, QueueWakes
  <2>5. ASSUME Gone PROVE QueueInv' /\ GroupInv'
    BY <2>5, QueueGone
  <2>6. ASSUME mode # "up", UNCHANGED <<kind, answer, writers, awake, stage, group>>
        PROVE  QueueInv' /\ GroupInv'
    BY <2>6 DEF QueueInv, GroupInv
  <2> QED
    BY <1>1, <2>1, <2>2, <2>3, <2>4, <2>5, <2>6, QueueSteps
<1>2. CASE UNCHANGED vars
  BY <1>2 DEF QueueInv, GroupInv, vars, calls, queue
<1> QED
  BY <1>1, <1>2

LEMMA QueueStart == Init => QueueInv /\ GroupInv
<1>1. SUFFICES ASSUME Init PROVE QueueInv /\ GroupInv
  OBVIOUS
<1>2. kind = <<>> /\ answer = <<>> /\ writers = <<>> /\ awake = FALSE /\ stage = "queued" /\ mode = "up"
  BY <1>1 DEF Init
<1>3. Len(kind) = 0 /\ Len(answer) = 0 /\ Len(writers) = 0
  BY <1>2, EmptySeq
<1>4. kind \in Seq(Kind) /\ answer \in Seq({"none", "ok", "error", "dead"})
  BY <1>2, EmptySeq
<1>5. writers \in Seq(1..Len(kind))
  BY <1>2, EmptySeq
<1>6. 1..Len(kind) = {} /\ 1..Len(writers) = {} /\ Len(kind) <= MaxWrites
  BY <1>3, BoundsAssumption
<1>7. awake \in BOOLEAN /\ ~awake
  BY <1>2
<1> QED
  BY <1>2, <1>3, <1>4, <1>5, <1>6, <1>7 DEF QueueInv, GroupInv

-----------------------------------------------------------------------------
(***************************************************************************)
(* What is in memory and on the disk has numbers and records.              *)
(***************************************************************************)
Versions == [l0 : SUBSET Nat, l1 : SUBSET Nat]
Merges == [l0 : SUBSET Nat, l1 : SUBSET Nat, out : SUBSET Nat]
Edits == [add0 : SUBSET Nat, add1 : SUBSET Nat, del : SUBSET Nat,
          log : Nat, last : Nat, next : Nat]

ContentInv ==
  /\ DiskOK
  /\ mem \subseteq Records /\ imm \subseteq Records
  /\ hasImm \in BOOLEAN /\ (~hasImm => imm = {})
  /\ lastSequence \in Nat /\ logfile \in Nat /\ logNumber \in Nat /\ nextFile \in Nat
  /\ mode = "down" \/ nextFile # 0
  /\ current \in Versions /\ merge \in Merges /\ edit \in Edits

LEMMA EditFacts ==
  /\ NoEdit \in Edits /\ NoMerge \in Merges
  /\ NoEdit.add0 = {} /\ NoEdit.add1 = {} /\ NoEdit.del = {}
  /\ NoMerge.l0 = {} /\ NoMerge.l1 = {} /\ NoMerge.out = {}
  /\ \A A0, A1, D \in SUBSET Nat, l, n \in Nat :
       /\ lastSequence \in Nat => Edit(A0, A1, D, l, n) \in Edits
       /\ Edit(A0, A1, D, l, n).add0 = A0 /\ Edit(A0, A1, D, l, n).add1 = A1
       /\ Edit(A0, A1, D, l, n).del = D /\ Edit(A0, A1, D, l, n).log = l
       /\ Edit(A0, A1, D, l, n).next = n /\ Edit(A0, A1, D, l, n).last = lastSequence
BY DEF Edits, Merges, NoEdit, NoMerge, Edit

LEMMA AppliedFacts ==
  ASSUME NEW v \in Versions, NEW e \in Edits
  PROVE  /\ Applied(v, e) \in Versions
         /\ Applied(v, e).l0 = (v.l0 \ e.del) \cup e.add0
         /\ Applied(v, e).l1 = (v.l1 \ e.del) \cup e.add1
BY DEF Applied, Versions, Edits

LEMMA LoggedFacts ==
  ASSUME DiskOK, NEW e \in Edits
  PROVE  /\ Logged(e) \in [l0 : SUBSET Nat, l1 : SUBSET Nat, log : Nat, last : Nat, next : Nat]
         /\ Logged(e).l0 = (manifest.l0 \ e.del) \cup e.add0
         /\ Logged(e).l1 = (manifest.l1 \ e.del) \cup e.add1
         /\ Logged(e).log = e.log /\ Logged(e).last = e.last /\ Logged(e).next = e.next
<1>1. manifest \in [l0 : SUBSET Nat, l1 : SUBSET Nat, log : Nat, last : Nat, next : Nat]
  BY DEF DiskOK
<1>2. /\ Applied(manifest, e).l0 = (manifest.l0 \ e.del) \cup e.add0
      /\ Applied(manifest, e).l1 = (manifest.l1 \ e.del) \cup e.add1
  BY <1>1 DEF Applied
<1>3. (manifest.l0 \ e.del) \cup e.add0 \in SUBSET Nat /\ (manifest.l1 \ e.del) \cup e.add1 \in SUBSET Nat
  BY <1>1 DEF Edits
<1>4. e.log \in Nat /\ e.last \in Nat /\ e.next \in Nat
  BY DEF Edits
<1>5. /\ Logged(e).l0 = Applied(manifest, e).l0 /\ Logged(e).l1 = Applied(manifest, e).l1
      /\ Logged(e).log = e.log /\ Logged(e).last = e.last /\ Logged(e).next = e.next
  BY DEF Logged
<1>6. Logged(e) \in [l0 : SUBSET Nat, l1 : SUBSET Nat, log : Nat, last : Nat, next : Nat]
  BY <1>2, <1>3, <1>4 DEF Logged
<1> QED
  BY <1>2, <1>5, <1>6

\* What deleting files leaves.
LEMMA SweptFacts ==
  ASSUME NEW err \in BOOLEAN, NEW live, NEW log, Swept(err, live, log)
  PROVE  /\ DOMAIN files' = IF err THEN DOMAIN files ELSE DOMAIN files \cap live
         /\ \A n \in DOMAIN files' : files'[n] = files[n]
         /\ DOMAIN logs' = IF err THEN DOMAIN logs ELSE { n \in DOMAIN logs : n >= log }
         /\ \A n \in DOMAIN logs' : logs'[n] = logs[n]
<1>1. CASE err
  BY <1>1 DEF Swept
<1>2. CASE ~err
  <2>1. /\ files' = Restrict(files, DOMAIN files \cap live)
        /\ logs' = Restrict(logs, { n \in DOMAIN logs : n >= log })
    BY <1>2 DEF Swept
  <2> QED
    BY <1>2, <2>1, RestrictFacts
<1> QED
  BY <1>1, <1>2

\* A disk from which files may have gone, with a manifest that may be new.
LEMMA DiskSwept ==
  ASSUME DiskOK,
         DOMAIN files' \subseteq DOMAIN files, \A n \in DOMAIN files' : files'[n] = files[n],
         DOMAIN logs' \subseteq DOMAIN logs, \A n \in DOMAIN logs' : logs'[n] = logs[n],
         manifest' \in [l0 : SUBSET Nat, l1 : SUBSET Nat, log : Nat, last : Nat, next : Nat]
  PROVE  DiskOK'
<1>1. PICK b \in Nat : \A n \in DOMAIN logs : n <= b
  BY DEF DiskOK
<1>2. \A n \in DOMAIN logs' : n <= b
  BY <1>1
<1> QED
  BY <1>2 DEF DiskOK

\* A disk on which files were written.
LEMMA DiskWritten ==
  ASSUME DiskOK, UNCHANGED <<logs, manifest>>,
         NEW f, DOMAIN f \subseteq Nat, \A n \in DOMAIN f : f[n] \subseteq Records,
         files' = Over(f, files)
  PROVE  DiskOK'
<1>1. /\ DOMAIN files' = DOMAIN f \cup DOMAIN files
      /\ \A n \in DOMAIN f : files'[n] = f[n]
      /\ \A n \in DOMAIN files \ DOMAIN f : files'[n] = files[n]
  <2>1. /\ DOMAIN Over(f, files) = DOMAIN f \cup DOMAIN files
        /\ \A n \in DOMAIN f : Over(f, files)[n] = f[n]
        /\ \A n \in DOMAIN files \ DOMAIN f : Over(f, files)[n] = files[n]
    BY OverFacts
  <2> QED
    BY <2>1
<1>2. \A n \in DOMAIN files' : files'[n] \subseteq Records
  BY <1>1 DEF DiskOK
<1>3. DOMAIN files' \subseteq Nat
  BY <1>1 DEF DiskOK
<1> QED
  BY <1>2, <1>3 DEF DiskOK

\* A disk with a new log.
LEMMA DiskNewLog ==
  ASSUME DiskOK, NEW m \in Nat \ {0}, logs' = Over([n \in {m} |-> EmptyLog], logs),
         DOMAIN files' \subseteq Nat, \A n \in DOMAIN files' : files'[n] \subseteq Records,
         UNCHANGED manifest
  PROVE  /\ DiskOK'
         /\ DOMAIN logs' = DOMAIN logs \cup {m} /\ logs'[m] = EmptyLog
         /\ \A n \in DOMAIN logs \ {m} : logs'[n] = logs[n]
<1>1. PICK f : f = [n \in {m} |-> EmptyLog]
  OBVIOUS
<1>2. /\ DOMAIN Over(f, logs) = DOMAIN f \cup DOMAIN logs
      /\ \A n \in DOMAIN f : Over(f, logs)[n] = f[n]
      /\ \A n \in DOMAIN logs \ DOMAIN f : Over(f, logs)[n] = logs[n]
  BY OverFacts
<1>3. DOMAIN f = {m} /\ f[m] = EmptyLog /\ logs' = Over(f, logs)
  BY <1>1
<1>4. /\ DOMAIN logs' = DOMAIN logs \cup {m} /\ logs'[m] = EmptyLog
      /\ \A n \in DOMAIN logs \ {m} : logs'[n] = logs[n]
  BY <1>2, <1>3
<1>5. PICK b \in Nat : \A n \in DOMAIN logs : n <= b
  BY DEF DiskOK
<1>6. b + m \in Nat /\ \A n \in DOMAIN logs' : n <= b + m
  BY <1>4, <1>5 DEF DiskOK
<1>7. EmptyLog \in [recs : Seq(Records), synced : Nat] /\ EmptyLog.synced <= Len(EmptyLog.recs)
  <2>1. <<>> \in Seq(Records) /\ Len(<<>>) = 0
    BY EmptySeq
  <2> QED
    BY <2>1 DEF EmptyLog
<1>8. \A n \in DOMAIN logs' :
        /\ logs'[n] \in [recs : Seq(Records), synced : Nat]
        /\ logs'[n].synced <= Len(logs'[n].recs)
  BY <1>4, <1>7 DEF DiskOK
<1>9. DOMAIN logs' \subseteq Nat \ {0}
  BY <1>4 DEF DiskOK
<1> QED
  BY <1>4, <1>6, <1>8, <1>9 DEF DiskOK

\* What a group writes is a record, and the first call is in it.
LEMMA RecordOfGroup ==
  ASSUME QueueInv, GroupInv, lastSequence \in Nat, stage \in {"log", "sync", "insert", "inserted"}
  PROVE  /\ Record \in Records /\ Record.seq = lastSequence + 1 /\ Record.ws = Batches
         /\ LastOf(Record) \in Nat /\ lastSequence < LastOf(Record)
         /\ Batches \subseteq 1..Len(kind) /\ writers[1] \in Batches
<1>1. /\ Len(writers) \in Nat /\ \A i \in 1..Len(writers) : writers[i] \in 1..Len(kind)
      /\ Len(kind) \in Nat /\ Len(kind) <= MaxWrites
  BY SequenceFacts DEF QueueInv
<1>2. group \in 1..Len(writers) /\ kind[writers[1]] # "force"
  BY DEF GroupInv
<1>3. \A a : a \in Range(SubSeq(writers, 1, group)) <=> \E i \in 1..group : writers[i] = a
  BY <1>1, <1>2, SubSeqFacts DEF QueueInv
<1>4. Batches \subseteq 1..Len(kind) /\ writers[1] \in Batches
  BY <1>1, <1>2, <1>3 DEF Batches
<1>5. 1..Len(kind) \subseteq Call
  BY <1>1, BoundsAssumption DEF Call
<1>6. Record.seq = lastSequence + 1 /\ Record.ws = Batches
  BY DEF Record
<1>7. Record \in Records
  <2>1. Batches \in SUBSET Call /\ Batches # {}
    BY <1>4, <1>5
  <2>2. lastSequence + 1 \in Nat \ {0}
    OBVIOUS
  <2> QED
    BY <2>1, <2>2 DEF Record, Records
<1>8. LastOf(Record) \in Nat /\ lastSequence + 1 <= LastOf(Record)
  BY <1>6, <1>7, RecordFacts
<1> QED
  BY <1>4, <1>6, <1>7, <1>8

\* A record is appended to the log, or not.
LEMMA DiskAppended ==
  ASSUME DiskOK, NEW r \in Records, logs' = [logs EXCEPT ![logfile].recs = Append(@, r)],
         UNCHANGED <<files, manifest>>
  PROVE  /\ DiskOK' /\ DOMAIN logs' = DOMAIN logs
         /\ \A n \in DOMAIN logs : logs'[n].synced = logs[n].synced
         /\ \A n \in DOMAIN logs \ {logfile} : logs'[n] = logs[n]
         /\ logfile \in DOMAIN logs => logs'[logfile].recs = Append(logs[logfile].recs, r)
<1>1. DOMAIN logs' = DOMAIN logs /\ \A n \in DOMAIN logs \ {logfile} : logs'[n] = logs[n]
  OBVIOUS
<1>2. CASE logfile \in DOMAIN logs
  <2>1. /\ logs[logfile] \in [recs : Seq(Records), synced : Nat]
        /\ logs[logfile].synced <= Len(logs[logfile].recs)
    BY <1>2 DEF DiskOK
  <2>2. /\ logs'[logfile] = [logs[logfile] EXCEPT !.recs = Append(logs[logfile].recs, r)]
    BY <1>2
  <2>3. /\ logs'[logfile].recs = Append(logs[logfile].recs, r)
        /\ logs'[logfile].synced = logs[logfile].synced
        /\ logs'[logfile] = [recs |-> Append(logs[logfile].recs, r), synced |-> logs[logfile].synced]
    BY <2>1, <2>2
  <2>4. /\ Append(logs[logfile].recs, r) \in Seq(Records)
        /\ Len(Append(logs[logfile].recs, r)) = Len(logs[logfile].recs) + 1
        /\ Len(logs[logfile].recs) \in Nat
    BY <2>1, AppendFacts, SequenceFacts
  <2>5. logs'[logfile] \in [recs : Seq(Records), synced : Nat]
    BY <2>1, <2>3, <2>4
  <2>6. logs'[logfile].synced <= Len(logs'[logfile].recs)
    <3>1. logs[logfile].synced \in Nat
      BY <2>1
    <3> QED
      BY <3>1, <2>1, <2>3, <2>4
  <2>7. DiskOK'
    BY <1>1, <2>5, <2>6 DEF DiskOK
  <2> QED
    BY <1>1, <2>3, <2>7
<1>3. CASE logfile \notin DOMAIN logs
  <2>1. \A n \in DOMAIN logs : logs'[n] = logs[n]
    BY <1>1, <1>3
  <2> QED
    BY <1>1, <1>3, <2>1 DEF DiskOK
<1> QED
  BY <1>2, <1>3

\* A log is synced.
LEMMA DiskSynced ==
  ASSUME DiskOK, logs' = [logs EXCEPT ![logfile].synced = Len(logs[logfile].recs)],
         UNCHANGED <<files, manifest>>
  PROVE  /\ DiskOK' /\ DOMAIN logs' = DOMAIN logs
         /\ \A n \in DOMAIN logs : logs'[n].recs = logs[n].recs
         /\ \A n \in DOMAIN logs \ {logfile} : logs'[n] = logs[n]
         /\ logfile \in DOMAIN logs => logs'[logfile].synced = Len(logs[logfile].recs)
<1>1. DOMAIN logs' = DOMAIN logs /\ \A n \in DOMAIN logs \ {logfile} : logs'[n] = logs[n]
  OBVIOUS
<1>2. CASE logfile \in DOMAIN logs
  <2>1. /\ logs[logfile] \in [recs : Seq(Records), synced : Nat] /\ Len(logs[logfile].recs) \in Nat
    BY <1>2, SequenceFacts DEF DiskOK
  <2>2. /\ logs'[logfile].recs = logs[logfile].recs
        /\ logs'[logfile].synced = Len(logs[logfile].recs)
        /\ logs'[logfile] = [recs |-> logs[logfile].recs, synced |-> Len(logs[logfile].recs)]
    BY <2>1, <1>2
  <2>3. logs'[logfile] \in [recs : Seq(Records), synced : Nat]
    BY <2>1, <2>2
  <2>4. logs'[logfile].synced <= Len(logs'[logfile].recs)
    BY <2>1, <2>2
  <2>5. DiskOK'
    BY <1>1, <2>3, <2>4 DEF DiskOK
  <2> QED
    BY <1>1, <2>2, <2>5
<1>3. CASE logfile \notin DOMAIN logs
  <2>1. \A n \in DOMAIN logs : logs'[n] = logs[n]
    BY <1>1, <1>3
  <2> QED
    BY <1>1, <1>3, <2>1 DEF DiskOK
<1> QED
  BY <1>2, <1>3

LEMMA DiskSame == DiskOK /\ UNCHANGED <<logs, files, manifest>> => DiskOK'
BY DEF DiskOK

\* The writer's steps.
LEMMA ContentWriter ==
  ASSUME QueueInv, GroupInv, ContentInv, WriterStep
  PROVE  ContentInv'
<1> USE DEF calls, queue, tables, sets, thread, disk, fate
<1> DEFINE Same == UNCHANGED <<logNumber, current, merge, edit, files, manifest, mode>>
           More == UNCHANGED <<logfile, nextFile, imm, hasImm>>
<1>1. CASE \/ Begin \/ NoRoom \/ RoomOnly \/ Room \/ Wait \/ NewLogFails
  <2>1. Same /\ More /\ UNCHANGED <<logs, lastSequence, mem>>
    BY <1>1 DEF Begin, NoRoom, RoomOnly, Room, Wait, NewLogFails
  <2> QED
    BY <2>1, DiskSame DEF ContentInv
<1>2. CASE Switch
  <2>1. /\ logfile' = nextFile /\ nextFile' = nextFile + 1 /\ imm' = mem /\ hasImm' = TRUE /\ mem' = {}
        /\ logs' = Over([n \in {nextFile} |-> EmptyLog], logs)
        /\ lastSequence' = lastSequence /\ Same /\ stage = "room"
    BY <1>2 DEF Switch
  <2>2. nextFile \in Nat \ {0} /\ nextFile + 1 \in Nat \ {0}
    BY <2>1 DEF QueueInv, ContentInv
  <2>3. DiskOK'
    BY <2>1, <2>2, DiskNewLog DEF ContentInv, DiskOK
  <2> QED
    BY <2>1, <2>2, <2>3 DEF ContentInv
<1>3. CASE AddRecord
  <2>1. /\ logs' = [logs EXCEPT ![logfile].recs = Append(@, Record)]
        /\ Same /\ More /\ UNCHANGED <<lastSequence, mem>> /\ stage = "log"
    BY <1>3 DEF AddRecord
  <2>2. DiskOK'
    BY <2>1, RecordOfGroup, DiskAppended DEF ContentInv
  <2> QED
    BY <2>1, <2>2 DEF ContentInv
<1>4. CASE AddRecordFails
  <2>1. /\ logs' = logs \/ logs' = [logs EXCEPT ![logfile].recs = Append(@, Record)]
        /\ lastSequence' = LastOf(Record) /\ Same /\ More /\ mem' = mem /\ stage = "log"
    BY <1>4 DEF AddRecordFails
  <2>2. Record \in Records /\ LastOf(Record) \in Nat
    BY <2>1, RecordOfGroup DEF ContentInv
  <2>3. DiskOK'
    BY <2>1, <2>2, DiskAppended, DiskSame DEF ContentInv
  <2> QED
    BY <2>1, <2>2, <2>3 DEF ContentInv
<1>5. CASE SyncLog
  <2>1. /\ logs' = [logs EXCEPT ![logfile].synced = Len(logs[logfile].recs)]
        /\ Same /\ More /\ UNCHANGED <<lastSequence, mem>>
    BY <1>5 DEF SyncLog
  <2>2. DiskOK'
    BY <2>1, DiskSynced DEF ContentInv
  <2> QED
    BY <2>1, <2>2 DEF ContentInv
<1>6. CASE SyncFails \/ Finish
  <2>1. /\ lastSequence' = LastOf(Record) /\ Same /\ More /\ UNCHANGED <<logs, mem>>
        /\ stage \in {"sync", "inserted"}
    BY <1>6 DEF SyncFails, Finish
  <2>2. LastOf(Record) \in Nat
    BY <2>1, RecordOfGroup DEF ContentInv
  <2> QED
    BY <2>1, <2>2, DiskSame DEF ContentInv
<1>7. CASE Insert
  <2>1. mem' = mem \cup {Record} /\ Same /\ More /\ UNCHANGED <<logs, lastSequence>> /\ stage = "insert"
    BY <1>7 DEF Insert
  <2>2. Record \in Records
    BY <2>1, RecordOfGroup DEF ContentInv
  <2>3. mem' \subseteq Records
    BY <2>1, <2>2 DEF ContentInv
  <2> QED
    BY <2>1, <2>3, DiskSame DEF ContentInv
<1> QED
  BY <1>1, <1>2, <1>3, <1>4, <1>5, <1>6, <1>7 DEF WriterStep

\* What a compaction writes into its tables is what its inputs hold.
LEMMA SharesFacts ==
  ASSUME ContentInv, NEW f \in Shares
  PROVE  /\ DOMAIN f = merge.out
         /\ \A n \in DOMAIN f : \A r \in f[n] : \E m \in Numbers(merge) : r \in files[m]
<1>1. PICK to \in [UNION { files[n] : n \in Numbers(merge) } -> merge.out] :
             f = [n \in merge.out |-> { r \in DOMAIN to : to[r] = n }]
  BY DEF Shares
<1>2. DOMAIN f = merge.out /\ \A n \in DOMAIN f : f[n] = { r \in DOMAIN to : to[r] = n }
  BY <1>1
<1>3. DOMAIN to = UNION { files[n] : n \in Numbers(merge) }
  BY <1>1
<1> QED
  BY <1>2, <1>3

\* The steps of the background thread.
LEMMA ContentBackground ==
  ASSUME ContentInv, Numbers(merge) \subseteq DOMAIN files, bgError \in BOOLEAN, BackgroundStep
  PROVE  ContentInv'
<1> USE DEF calls, queue, tables, sets, thread, disk, fate
<1> DEFINE Same == UNCHANGED <<mem, lastSequence, logfile, mode>>
           Memory == UNCHANGED <<imm, hasImm>>
           Disk == UNCHANGED <<files, logs, manifest>>
           Installed == UNCHANGED <<logNumber, current>>
<1>1. CASE NothingToDo
  <2>1. Same /\ Memory /\ Disk /\ Installed /\ UNCHANGED <<nextFile, merge, edit>>
    BY <1>1 DEF NothingToDo
  <2> QED
    BY <2>1, DiskSame DEF ContentInv
<1>2. CASE BeginFlush
  <2>1. /\ edit' = [NoEdit EXCEPT !.add0 = {nextFile}] /\ nextFile' = nextFile + 1
        /\ Same /\ Memory /\ Disk /\ Installed /\ merge' = merge
    BY <1>2 DEF BeginFlush
  <2>2. edit' \in Edits /\ nextFile' \in Nat \ {0}
    BY <2>1 DEF NoEdit, Edits, ContentInv
  <2> QED
    BY <2>1, <2>2, DiskSame DEF ContentInv
<1>3. CASE BuildTable
  <2> DEFINE add == IF imm = {} THEN {} ELSE edit.add0
  <2>1. /\ files' = Over([n \in add |-> imm], files)
        /\ edit' = Edit(add, {}, {}, logfile, nextFile)
        /\ Same /\ Memory /\ Installed /\ UNCHANGED <<nextFile, merge, logs, manifest>>
    BY <1>3 DEF BuildTable
  <2>2. add \subseteq Nat /\ imm \subseteq Records
    BY DEF ContentInv, Edits
  <2>3. edit' \in Edits
    BY <2>1, <2>2, EditFacts DEF ContentInv
  <2>4. PICK f : f = [n \in add |-> imm]
    OBVIOUS
  <2>5. DOMAIN f \subseteq Nat /\ \A n \in DOMAIN f : f[n] \subseteq Records
    BY <2>2, <2>4
  <2>6. DiskOK'
    BY <2>1, <2>4, <2>5, DiskWritten DEF ContentInv
  <2> QED
    BY <2>1, <2>3, <2>6 DEF ContentInv
<1>4. CASE BuildTableFails
  <2>1. edit' = NoEdit /\ Same /\ Memory /\ Disk /\ Installed /\ UNCHANGED <<nextFile, merge>>
    BY <1>4 DEF BuildTableFails
  <2> QED
    BY <2>1, EditFacts, DiskSame DEF ContentInv
<1>5. CASE ApplyFlush
  <2>1. /\ manifest' = Logged(edit) /\ current' = Applied(current, edit) /\ logNumber' = edit.log
        /\ imm' = {} /\ hasImm' = FALSE /\ edit' = NoEdit
        /\ Swept(bgError, Live(current', merge, pending), edit.log)
        /\ Same /\ UNCHANGED <<nextFile, merge>>
    BY <1>5 DEF ApplyFlush
  <2>2. manifest' \in [l0 : SUBSET Nat, l1 : SUBSET Nat, log : Nat, last : Nat, next : Nat]
    BY <2>1, LoggedFacts DEF ContentInv
  <2>3. current' \in Versions /\ logNumber' \in Nat /\ edit' \in Edits
    BY <2>1, AppliedFacts, EditFacts DEF ContentInv, Edits
  <2>4. DiskOK'
    BY <2>1, <2>2, SweptFacts, DiskSwept DEF ContentInv
  <2> QED
    BY <2>1, <2>3, <2>4 DEF ContentInv
<1>6. CASE BeginMove
  <2>1. /\ edit' = Edit({}, current.l0, current.l0, logNumber, nextFile)
        /\ Same /\ Memory /\ Disk /\ Installed /\ UNCHANGED <<nextFile, merge>>
    BY <1>6 DEF BeginMove
  <2>2. current.l0 \in SUBSET Nat
    BY DEF ContentInv, Versions
  <2>3. edit' \in Edits
    BY <2>1, <2>2, EditFacts DEF ContentInv
  <2> QED
    BY <2>1, <2>3, DiskSame DEF ContentInv
<1>7. CASE BeginMerge
  <2>1. /\ merge' = [l0 |-> current.l0, l1 |-> current.l1, out |-> {}]
        /\ Same /\ Memory /\ Disk /\ Installed /\ UNCHANGED <<nextFile, edit>>
    BY <1>7 DEF BeginMerge
  <2>2. merge' \in Merges
    BY <2>1 DEF ContentInv, Versions, Merges
  <2> QED
    BY <2>1, <2>2, DiskSame DEF ContentInv
<1>8. CASE OpenCompactionOutputFile
  <2>1. /\ merge' = [merge EXCEPT !.out = @ \cup {nextFile}] /\ nextFile' = nextFile + 1
        /\ files' = Over([n \in {nextFile} |-> {}], files)
        /\ Same /\ Memory /\ Installed /\ UNCHANGED <<logs, manifest, edit>>
    BY <1>8 DEF OpenCompactionOutputFile
  <2>2. nextFile \in Nat /\ nextFile' \in Nat \ {0}
    BY <2>1 DEF ContentInv
  <2>3. merge' \in Merges
    BY <2>1, <2>2 DEF ContentInv, Merges
  <2>4. PICK f : f = [n \in {nextFile} |-> {}]
    OBVIOUS
  <2>5. DOMAIN f \subseteq Nat /\ \A n \in DOMAIN f : f[n] \subseteq Records
    BY <2>2, <2>4
  <2>6. DiskOK'
    BY <2>1, <2>4, <2>5, DiskWritten DEF ContentInv
  <2> QED
    BY <2>1, <2>2, <2>3, <2>6 DEF ContentInv
<1>9. CASE FinishCompactionOutputFile
  <2>1. PICK f \in Shares : files' = Over(f, files)
    BY <1>9 DEF FinishCompactionOutputFile
  <2>2. /\ edit' = Edit({}, merge.out, Numbers(merge), logNumber, nextFile)
        /\ Same /\ Memory /\ Installed /\ UNCHANGED <<nextFile, merge, logs, manifest>>
    BY <1>9 DEF FinishCompactionOutputFile
  <2>3. merge.out \in SUBSET Nat /\ Numbers(merge) \in SUBSET Nat
    BY DEF ContentInv, Merges, Numbers
  <2>4. edit' \in Edits
    BY <2>2, <2>3, EditFacts DEF ContentInv
  <2>5. DOMAIN f \subseteq Nat
    BY <2>3, SharesFacts
  <2>6. \A n \in DOMAIN f : f[n] \subseteq Records
    <3>1. \A m \in Numbers(merge) : files[m] \subseteq Records
      BY DEF ContentInv, DiskOK
    <3> QED
      BY <3>1, SharesFacts
  <2>7. DiskOK'
    BY <2>1, <2>2, <2>5, <2>6, DiskWritten DEF ContentInv
  <2> QED
    BY <2>2, <2>4, <2>7 DEF ContentInv
<1>10. CASE InstallCompactionResults
  <2>1. /\ manifest' = Logged(edit) /\ current' = Applied(current, edit) /\ logNumber' = edit.log
        /\ merge' = NoMerge /\ edit' = NoEdit /\ Same /\ Memory /\ nextFile' = nextFile
        /\ \/ UNCHANGED <<files, logs>>
           \/ Swept(bgError, Live(current', NoMerge, pending'), logNumber')
    BY <1>10 DEF InstallCompactionResults
  <2>2. manifest' \in [l0 : SUBSET Nat, l1 : SUBSET Nat, log : Nat, last : Nat, next : Nat]
    BY <2>1, LoggedFacts DEF ContentInv
  <2>3. current' \in Versions /\ logNumber' \in Nat /\ edit' \in Edits /\ merge' \in Merges
    BY <2>1, AppliedFacts, EditFacts DEF ContentInv, Edits
  <2>4. /\ DOMAIN files' \subseteq DOMAIN files /\ \A n \in DOMAIN files' : files'[n] = files[n]
        /\ DOMAIN logs' \subseteq DOMAIN logs /\ \A n \in DOMAIN logs' : logs'[n] = logs[n]
    BY <2>1, SweptFacts
  <2>5. DiskOK'
    BY <2>2, <2>4, DiskSwept DEF ContentInv
  <2> QED
    BY <2>1, <2>3, <2>5 DEF ContentInv
<1>11. CASE MergeFails
  <2>1. /\ merge' = NoMerge /\ Same /\ Memory /\ Installed /\ UNCHANGED <<nextFile, edit, manifest>>
        /\ Swept(TRUE, {}, 0)
    BY <1>11 DEF MergeFails
  <2>2. Disk
    BY <2>1 DEF Swept
  <2> QED
    BY <2>1, <2>2, EditFacts, DiskSame DEF ContentInv
<1>12. CASE ManifestFails
  <2>1. /\ manifest' \in {manifest, Logged(edit)} /\ edit' = NoEdit /\ merge' \in {merge, NoMerge}
        /\ Same /\ Memory /\ Installed /\ nextFile' = nextFile /\ UNCHANGED <<files, logs>>
    BY <1>12 DEF ManifestFails, Swept
  <2>2. manifest' \in [l0 : SUBSET Nat, l1 : SUBSET Nat, log : Nat, last : Nat, next : Nat]
    BY <2>1, LoggedFacts DEF ContentInv, DiskOK
  <2>3. DiskOK'
    BY <2>1, <2>2, DiskSwept DEF ContentInv
  <2>4. edit' \in Edits /\ merge' \in Merges
    BY <2>1, EditFacts DEF ContentInv
  <2> QED
    BY <2>1, <2>3, <2>4 DEF ContentInv
<1> QED
  BY <1>1, <1>2, <1>3, <1>4, <1>5, <1>6, <1>7, <1>8, <1>9, <1>10, <1>11, <1>12
     DEF BackgroundStep

\* A machine crash cuts every log somewhere behind what is synced.
LEMMA DiskCut ==
  ASSUME DiskOK, MachineCrash
  PROVE  /\ DiskOK' /\ UNCHANGED <<files, manifest>> /\ DOMAIN logs' = DOMAIN logs
         /\ \A n \in DOMAIN logs :
              \E k \in logs[n].synced..Len(logs[n].recs) :
                logs'[n].recs = SubSeq(logs[n].recs, 1, k) /\ logs'[n].synced = k
         /\ \A n \in DOMAIN logs : Range(logs'[n].recs) \subseteq Range(logs[n].recs)
<1>1. PICK cut \in [DOMAIN logs -> 0..MaxWrites] :
        /\ \A n \in DOMAIN logs : cut[n] \in logs[n].synced..Len(logs[n].recs)
        /\ logs' = [n \in DOMAIN logs |->
                      [recs |-> SubSeq(logs[n].recs, 1, cut[n]), synced |-> cut[n]]]
  BY DEF MachineCrash
<1>2. UNCHANGED <<files, manifest>>
  BY DEF MachineCrash
<1>3. ASSUME NEW n \in DOMAIN logs
      PROVE  /\ logs'[n].recs = SubSeq(logs[n].recs, 1, cut[n]) /\ logs'[n].synced = cut[n]
             /\ logs'[n] \in [recs : Seq(Records), synced : Nat]
             /\ logs'[n].synced <= Len(logs'[n].recs)
             /\ Range(logs'[n].recs) \subseteq Range(logs[n].recs)
  <2>1. logs'[n] = [recs |-> SubSeq(logs[n].recs, 1, cut[n]), synced |-> cut[n]]
    BY <1>1, <1>3
  <2>2. /\ logs[n].recs \in Seq(Records) /\ logs[n].synced \in Nat
        /\ Len(logs[n].recs) \in Nat
    BY <1>3, SequenceFacts DEF DiskOK
  <2>3. cut[n] \in 0..Len(logs[n].recs)
    BY <1>1, <2>2
  <2>4. /\ SubSeq(logs[n].recs, 1, cut[n]) \in Seq(Records)
        /\ Len(SubSeq(logs[n].recs, 1, cut[n])) = cut[n]
        /\ \A a : a \in Range(SubSeq(logs[n].recs, 1, cut[n])) <=>
                    \E i \in 1..cut[n] : logs[n].recs[i] = a
    BY <2>2, <2>3, SubSeqFacts
  <2>5. \A a : a \in Range(logs[n].recs) <=> \E i \in 1..Len(logs[n].recs) : logs[n].recs[i] = a
    BY <2>2, RangeFacts
  <2>6. 1..cut[n] \subseteq 1..Len(logs[n].recs)
    BY <2>2, <2>3
  <2>7. Range(SubSeq(logs[n].recs, 1, cut[n])) \subseteq Range(logs[n].recs)
    BY <2>4, <2>5, <2>6
  <2>8. cut[n] \in Nat /\ cut[n] <= cut[n]
    BY <2>3
  <2> QED
    BY <2>1, <2>4, <2>7, <2>8
<1>4. DOMAIN logs' = DOMAIN logs
  BY <1>1
<1>5. DiskOK'
  BY <1>2, <1>3, <1>4 DEF DiskOK
<1> QED
  BY <1>1, <1>2, <1>3, <1>4, <1>5

\* What recovery makes of the disk.
LEMMA RecoverFacts ==
  ASSUME DiskOK, Recover
  PROVE  \E r : /\ r = Replay
                /\ \E k \in Nat : ReplayedTo(r, k) /\ \A n \in DOMAIN logs : n <= k
                /\ files' = Over(r.tabs, files)
                /\ logs' = Over([n \in {r.next} |-> EmptyLog], logs)
                /\ logfile' = r.next /\ nextFile' = r.next + 1
                /\ lastSequence' = r.last
                /\ edit' = [add0 |-> DOMAIN r.tabs, add1 |-> {}, del |-> {}, log |-> r.next,
                            last |-> r.last, next |-> r.next + 1]
                /\ \A n \in LogsNeeded : /\ n < r.next
                                         /\ \A c \in Range(logs[n].recs) :
                                              /\ LastOf(c) <= r.last
                                              /\ \E t \in DOMAIN r.tabs : c \in r.tabs[t]
<1>1. PICK r : r = Replay
  OBVIOUS
<1>2. PICK k \in Nat : ReplayedTo(r, k) /\ \A n \in DOMAIN logs : n <= k
  BY <1>1, ReplayFacts
<1>3. \A n \in LogsNeeded : /\ n < r.next
                            /\ \A c \in Range(logs[n].recs) :
                                 /\ LastOf(c) <= r.last
                                 /\ \E t \in DOMAIN r.tabs : c \in r.tabs[t]
  BY <1>2 DEF ReplayedTo, LogsNeeded
<1>4. /\ files' = Over(r.tabs, files)
      /\ logs' = Over([n \in {r.next} |-> EmptyLog], logs)
      /\ logfile' = r.next /\ nextFile' = r.next + 1
      /\ lastSequence' = r.last
      /\ edit' = [add0 |-> DOMAIN r.tabs, add1 |-> {}, del |-> {}, log |-> r.next,
                  last |-> r.last, next |-> r.next + 1]
  BY <1>1 DEF Recover
<1> QED
  BY <1>1, <1>2, <1>3, <1>4

\* Crashes, and opening the database.
LEMMA ContentOpen ==
  ASSUME ContentInv, OpenStep \/ ProcessCrash \/ MachineCrash
  PROVE  ContentInv'
<1> USE DEF calls, queue, tables, sets, thread, disk, fate
<1>1. CASE Recover
  <2>1. PICK r : /\ \E k \in Nat : ReplayedTo(r, k)
                 /\ files' = Over(r.tabs, files)
                 /\ logs' = Over([n \in {r.next} |-> EmptyLog], logs)
                 /\ logfile' = r.next /\ nextFile' = r.next + 1
                 /\ lastSequence' = r.last
                 /\ edit' = [add0 |-> DOMAIN r.tabs, add1 |-> {}, del |-> {}, log |-> r.next,
                             last |-> r.last, next |-> r.next + 1]
    BY <1>1, RecoverFacts DEF ContentInv
  <2>2. /\ current' = [l0 |-> manifest.l0, l1 |-> manifest.l1] /\ logNumber' = manifest.log
        /\ UNCHANGED <<mem, imm, hasImm, merge, manifest>>
    BY <1>1 DEF Recover
  <2>3. PICK k \in Nat : ReplayedTo(r, k)
    BY <2>1
  <2>4. /\ r.next \in Nat \ {0} /\ r.last \in Nat
        /\ \A t \in DOMAIN r.tabs : t \in Nat /\ r.tabs[t] \subseteq Records
    <3>1. manifest.next \in Nat /\ \A n \in LogsNeeded : Range(logs[n].recs) \subseteq Records
      BY RangeFacts DEF ContentInv, DiskOK, LogsNeeded
    <3> QED
      BY <2>3, <3>1 DEF ReplayedTo
  <2>5. /\ DOMAIN files' = DOMAIN r.tabs \cup DOMAIN files
        /\ \A n \in DOMAIN r.tabs : files'[n] = r.tabs[n]
        /\ \A n \in DOMAIN files \ DOMAIN r.tabs : files'[n] = files[n]
    <3>1. PICK f : f = r.tabs
      OBVIOUS
    <3>2. /\ DOMAIN Over(f, files) = DOMAIN f \cup DOMAIN files
          /\ \A n \in DOMAIN f : Over(f, files)[n] = f[n]
          /\ \A n \in DOMAIN files \ DOMAIN f : Over(f, files)[n] = files[n]
      BY OverFacts
    <3> QED
      BY <2>1, <3>1, <3>2
  <2>6. DOMAIN files' \subseteq Nat
    BY <2>4, <2>5 DEF ContentInv, DiskOK
  <2>7. \A n \in DOMAIN files' : files'[n] \subseteq Records
    BY <2>4, <2>5 DEF ContentInv, DiskOK
  <2>8. DiskOK'
    BY <2>1, <2>2, <2>4, <2>6, <2>7, DiskNewLog DEF ContentInv
  <2>9. edit' \in Edits
    <3>1. DOMAIN r.tabs \in SUBSET Nat /\ r.next + 1 \in Nat
      BY <2>4
    <3> QED
      BY <2>1, <2>4, <3>1 DEF Edits
  <2>10. current' \in Versions /\ logNumber' \in Nat
    BY <2>2 DEF Versions, ContentInv, DiskOK
  <2>11. logfile' \in Nat /\ nextFile' \in Nat \ {0} /\ lastSequence' \in Nat
    BY <2>1, <2>4
  <2> QED
    BY <2>2, <2>8, <2>9, <2>10, <2>11 DEF ContentInv
<1>2. CASE SetCurrentFile
  <2>1. /\ manifest' = Logged(edit) /\ current' = Applied(current, edit) /\ logNumber' = edit.log
        /\ edit' = NoEdit /\ mode = "replayed"
        /\ UNCHANGED <<mem, imm, hasImm, lastSequence, logfile, nextFile, merge, logs, files>>
    BY <1>2 DEF SetCurrentFile
  <2>2. manifest' \in [l0 : SUBSET Nat, l1 : SUBSET Nat, log : Nat, last : Nat, next : Nat]
    BY <2>1, LoggedFacts DEF ContentInv
  <2>3. current' \in Versions /\ logNumber' \in Nat /\ edit' \in Edits
    BY <2>1, AppliedFacts, EditFacts DEF ContentInv, Edits
  <2>4. DiskOK'
    BY <2>1, <2>2, DiskSwept DEF ContentInv
  <2> QED
    BY <2>1, <2>3, <2>4 DEF ContentInv
<1>3. CASE Opened
  <2>1. /\ Swept(FALSE, Live(current, NoMerge, pending), logNumber) /\ mode = "installed"
        /\ UNCHANGED <<mem, imm, hasImm, lastSequence, logfile, logNumber, nextFile, current,
                       merge, edit, manifest>>
    BY <1>3 DEF Opened
  <2>2. /\ DOMAIN files' \subseteq DOMAIN files /\ \A n \in DOMAIN files' : files'[n] = files[n]
        /\ DOMAIN logs' \subseteq DOMAIN logs /\ \A n \in DOMAIN logs' : logs'[n] = logs[n]
    BY <2>1, SweptFacts
  <2>3. manifest' \in [l0 : SUBSET Nat, l1 : SUBSET Nat, log : Nat, last : Nat, next : Nat]
    BY <2>1 DEF ContentInv, DiskOK
  <2>4. DiskOK'
    BY <2>2, <2>3, DiskSwept DEF ContentInv
  <2> QED
    BY <2>1, <2>4 DEF ContentInv
<1>4. CASE ProcessCrash \/ MachineCrash
  <2>1. Gone
    BY <1>4 DEF ProcessCrash, MachineCrash
  <2>2. /\ mem' = {} /\ imm' = {} /\ hasImm' = FALSE /\ mode' = "down"
        /\ lastSequence' = 0 /\ logfile' = 0 /\ logNumber' = 0 /\ nextFile' = 0
        /\ current' = [l0 |-> {}, l1 |-> {}] /\ merge' = NoMerge /\ edit' = NoEdit
    BY <2>1 DEF Gone
  <2>3. DiskOK'
    BY <1>4, DiskCut, DiskSame DEF ProcessCrash, ContentInv
  <2>4. current' \in Versions
    BY <2>2 DEF Versions
  <2> QED
    BY <2>2, <2>3, <2>4, EditFacts DEF ContentInv
<1> QED
  BY <1>1, <1>2, <1>3, <1>4 DEF OpenStep

LEMMA ContentElse ==
  ASSUME ContentInv,
         \/ \E k \in Kind : Write(k)
         \/ NewIterator \/ DeleteIterator
         \/ UNCHANGED vars
  PROVE  ContentInv'
<1>1. UNCHANGED <<mem, imm, hasImm, lastSequence, logfile, logNumber, nextFile, current, merge,
                  edit, mode, logs, files, manifest>>
  BY DEF Write, NewIterator, DeleteIterator, vars, calls, queue, tables, sets, thread, disk, fate
<1> QED
  BY <1>1, DiskSame DEF ContentInv

LEMMA ContentStart == Init => ContentInv
<1>1. SUFFICES ASSUME Init PROVE ContentInv
  OBVIOUS
<1>2. /\ logs = [n \in {1} |-> EmptyLog] /\ DOMAIN files = {}
      /\ manifest = [l0 |-> {}, l1 |-> {}, log |-> 1, last |-> 0, next |-> 2]
  <2>1. files = <<>>
    BY <1>1 DEF Init
  <2> QED
    BY <1>1, <2>1 DEF Init
<1>3. EmptyLog \in [recs : Seq(Records), synced : Nat] /\ EmptyLog.synced <= Len(EmptyLog.recs)
  <2>1. <<>> \in Seq(Records) /\ Len(<<>>) = 0
    BY EmptySeq
  <2> QED
    BY <2>1 DEF EmptyLog
<1>4. \A n \in DOMAIN logs : n = 1 /\ logs[n] = EmptyLog
  BY <1>2
<1>5. \E b \in Nat : \A n \in DOMAIN logs : n <= b
  <2>1. \A n \in DOMAIN logs : n <= 1
    BY <1>4
  <2> QED
    BY <2>1
<1>6. DiskOK
  BY <1>2, <1>3, <1>4, <1>5 DEF DiskOK
<1>7. current \in Versions /\ merge \in Merges /\ edit \in Edits
  BY <1>1, EditFacts DEF Init, Versions
<1>8. /\ mem = {} /\ imm = {} /\ hasImm = FALSE /\ lastSequence = 0
      /\ logfile = 1 /\ logNumber = 1 /\ nextFile = 2
  BY <1>1 DEF Init
<1>9. mem \subseteq Records /\ imm \subseteq Records /\ hasImm \in BOOLEAN /\ imm = {}
  BY <1>8
<1>10. lastSequence \in Nat /\ logfile \in Nat /\ logNumber \in Nat /\ nextFile \in Nat /\ nextFile # 0
  BY <1>8
<1> QED
  BY <1>6, <1>7, <1>9, <1>10 DEF ContentInv

-----------------------------------------------------------------------------
(***************************************************************************)
(* The background thread, the tables it writes and deletes, and the        *)
(* numbers of files.                                                       *)
(***************************************************************************)
\* Where the background thread is, and what it has in its hands.  Until
\* something fails, the current version is what the manifest says.
ThreadInv ==
  /\ mode \in {"up", "down", "replayed", "installed"}
  /\ bg \in {"idle", "scheduled", "build", "apply", "merge", "install"}
  /\ bgError \in BOOLEAN
  /\ mode # "up" => /\ merge = NoMerge /\ held = {} /\ bg = "idle" /\ ~bgError
                    /\ ~hasImm /\ mem = {}
  /\ bg \in {"idle", "scheduled"} => merge = NoMerge
  /\ bg \in {"idle", "scheduled", "merge"} /\ mode \in {"up", "installed"} => edit = NoEdit
  /\ bg \in {"build", "apply"} => hasImm /\ edit.add0 \cap merge.out = {}
  /\ pending = merge.out \cup (IF bg = "build" THEN edit.add0 ELSE {})
  /\ ~bgError /\ mode # "down" => manifest.l0 = current.l0 /\ manifest.l1 = current.l1

\* An edit is on its way to the manifest.
Editing == bg \in {"apply", "install"} \/ mode = "replayed"

\* Tables are there as long as anybody needs them, or soon will.
KeptInv ==
  /\ TablesKept
  /\ Editing => edit.add0 \cup edit.add1 \subseteq DOMAIN files

Below(S, m) == \A n \in S : n < m

\* Numbers are given out once, and the log in use is the newest.
NumbersInv ==
  /\ Below(Numbers(manifest), manifest.next) /\ manifest.log < manifest.next
  /\ mode = "up" =>
       /\ Below(DOMAIN files, nextFile) /\ Below(DOMAIN logs, nextFile) /\ Below(pending, nextFile)
       /\ manifest.next <= nextFile
       /\ logfile \in DOMAIN logs /\ logNumber <= logfile /\ (hasImm => logNumber < logfile)
       /\ ~bgError => manifest.log = logNumber
  /\ Editing =>
       /\ manifest.next <= edit.next /\ edit.next <= nextFile /\ edit.log < edit.next
       /\ Below(edit.add0 \cup edit.add1, edit.next)
  /\ bg = "apply" => edit.log = logfile /\ edit.add1 = {}
  /\ bg = "install" => edit.log = logNumber
  /\ (Numbers(current) \cup Numbers(manifest)) \cap pending = {}
  /\ mode = "replayed" =>
       /\ edit.log = logfile /\ edit.next = nextFile /\ logfile \in DOMAIN logs
       /\ manifest.log <= edit.log /\ edit.add1 = {}
  /\ mode = "installed" =>
       /\ logNumber = manifest.log /\ logfile = logNumber /\ nextFile = manifest.next
       /\ logfile \in DOMAIN logs
  /\ mode \in {"replayed", "installed"} => Below(LogsNeeded, nextFile)

StructureInv == QueueInv /\ GroupInv /\ ContentInv /\ ThreadInv /\ KeptInv /\ NumbersInv

\* Where the background thread goes.
LEMMA ScheduledFacts ==
  /\ \A b, err, hasimm, v : Scheduled(b, err, hasimm, v) \in (IF b = "idle" THEN {"idle", "scheduled"} ELSE {b})
  /\ \A err, hasimm, v : Rescheduled(err, hasimm, v) \in {"idle", "scheduled"}
BY DEF Scheduled, Rescheduled

LEMMA IdleFacts ==
  ASSUME NEW err, NEW hasimm, NEW v, Idle(err, hasimm, v)
  PROVE  bg' \in {"idle", "scheduled"}
BY ScheduledFacts DEF Idle

LEMMA FlushedFacts ==
  ASSUME NEW err, NEW hasimm, NEW v, Flushed(err, hasimm, v)
  PROVE  bg' = "merge" \/ (merge = NoMerge /\ bg' \in {"idle", "scheduled"})
BY IdleFacts DEF Flushed

\* Steps that only write into the log or the memtable, or fail to.
LEMMA StructureFrame ==
  ASSUME ThreadInv, KeptInv, NumbersInv,
         UNCHANGED <<hasImm, logfile, logNumber, nextFile, current, held, pending, bg, merge, edit,
                     mode, files, manifest>>,
         DOMAIN logs' = DOMAIN logs, bgError' = bgError \/ (bgError' = TRUE /\ mode = "up"),
         mem' = mem \/ mode = "up"
  PROVE  ThreadInv' /\ KeptInv' /\ NumbersInv'
<1>1. ThreadInv'
  <2>1. bgError \in BOOLEAN /\ (mode # "up" => ~bgError)
    BY DEF ThreadInv
  <2>2. bgError' \in BOOLEAN /\ (~bgError' => ~bgError) /\ (mode # "up" => ~bgError')
    <3>1. CASE bgError' = bgError
      BY <3>1, <2>1
    <3>2. CASE bgError' = TRUE /\ mode = "up"
      BY <3>2
    <3> QED
      BY <3>1, <3>2
  <2> QED
    BY <2>2 DEF ThreadInv
<1>2. KeptInv'
  BY DEF KeptInv, TablesKept, Editing, Numbers
<1>3. LogsNeeded' = LogsNeeded
  BY DEF LogsNeeded
<1>4. NumbersInv'
  BY <1>3 DEF NumbersInv, ThreadInv, Editing, Numbers, Below
<1> QED
  BY <1>1, <1>2, <1>4

LEMMA StructureWriter ==
  ASSUME StructureInv, WriterStep
  PROVE  ThreadInv' /\ KeptInv' /\ NumbersInv'
<1> USE DEF calls, queue, tables, sets, thread, disk, fate
<1>1. QueueInv /\ GroupInv /\ ContentInv /\ ThreadInv /\ KeptInv /\ NumbersInv /\ DiskOK
  BY DEF StructureInv, ContentInv
<1>2. stage # "queued" => mode = "up"
  BY <1>1 DEF QueueInv
<1>3. stage \in {"log", "sync", "insert", "inserted"} => Record \in Records
  BY <1>1, RecordOfGroup DEF ContentInv
<1> DEFINE Same == UNCHANGED <<hasImm, logfile, logNumber, nextFile, current, held, pending, bg, merge,
                               edit, mode, files, manifest>>
<1>4. CASE \/ Begin \/ NoRoom \/ RoomOnly \/ Room \/ Wait \/ NewLogFails \/ Finish \/ SyncFails \/ Insert
  <2>1. /\ Same /\ logs' = logs /\ (bgError' = bgError \/ (bgError' = TRUE /\ mode = "up"))
        /\ mem' = mem \/ mode = "up"
    BY <1>4, <1>2 DEF Begin, NoRoom, RoomOnly, Room, Wait, NewLogFails, Finish, SyncFails, Insert
  <2> QED
    BY <2>1, <1>1, StructureFrame
<1>5. CASE AddRecord \/ AddRecordFails \/ SyncLog
  <2>1. Same /\ UNCHANGED <<bgError, mem>>
    BY <1>5 DEF AddRecord, AddRecordFails, SyncLog
  <2>2. DOMAIN logs' = DOMAIN logs
    BY <1>5 DEF AddRecord, AddRecordFails, SyncLog
  <2> QED
    BY <2>1, <2>2, <1>1, StructureFrame
<1>6. CASE Switch
  <2>1. /\ ~hasImm /\ mode = "up" /\ mode' = "up"
        /\ logfile' = nextFile /\ nextFile' = nextFile + 1 /\ hasImm' = TRUE
        /\ logs' = Over([n \in {nextFile} |-> EmptyLog], logs)
        /\ bg' = Scheduled(bg, bgError, TRUE, current)
        /\ UNCHANGED <<logNumber, current, held, pending, merge, edit, bgError, files, manifest>>
    BY <1>6, <1>2 DEF Switch
  <2>2. bg' = bg \/ (bg = "idle" /\ bg' = "scheduled")
    BY <2>1, ScheduledFacts
  <2>3. nextFile \in Nat \ {0} /\ logNumber \in Nat /\ logfile \in Nat
    BY <2>1, <1>1 DEF ContentInv
  <2>4. DOMAIN logs' = DOMAIN logs \cup {nextFile}
    <3>1. PICK f : f = [n \in {nextFile} |-> EmptyLog]
      OBVIOUS
    <3>2. DOMAIN f = {nextFile} /\ DOMAIN Over(f, logs) = DOMAIN f \cup DOMAIN logs
      BY <3>1, OverFacts
    <3> QED
      BY <3>1, <3>2, <2>1
  <2>5. ThreadInv'
    BY <2>1, <2>2, <1>1 DEF ThreadInv
  <2>6. KeptInv'
    BY <2>1, <2>2, <1>1 DEF KeptInv, TablesKept, Editing, Numbers
  <2>7. DOMAIN files \subseteq Nat /\ DOMAIN logs \subseteq Nat /\ pending \subseteq Nat
    BY <1>1 DEF DiskOK, ThreadInv, ContentInv, Merges, Edits
  <2>8. Below(DOMAIN files', nextFile') /\ Below(DOMAIN logs', nextFile') /\ Below(pending', nextFile')
    BY <2>1, <2>3, <2>4, <2>7, <1>1 DEF NumbersInv, Below
  <2>9. manifest'.next <= nextFile' /\ manifest.next \in Nat /\ edit.next \in Nat
    BY <2>1, <2>3, <1>1 DEF NumbersInv, DiskOK, ContentInv, Edits
  <2>10. logfile' \in DOMAIN logs' /\ logNumber' < logfile'
    <3>1. logNumber <= logfile /\ logfile < nextFile
      BY <2>1, <1>1 DEF NumbersInv, Below
    <3> QED
      BY <3>1, <2>1, <2>3, <2>4
  <2>11. bg # "apply" /\ bg' # "apply"
    BY <2>1, <2>2, <1>1 DEF ThreadInv
  <2>12. edit.next <= nextFile => edit.next <= nextFile + 1
    BY <2>3, <2>9
  <2>13. logfile' \in Nat /\ logNumber' \in Nat
    BY <2>1, <2>3
  <2>14. Editing' <=> Editing
    BY <2>1, <2>2 DEF Editing
  <2>15. logNumber' <= logfile'
    BY <2>10, <2>13
  <2>16. Editing => edit'.next <= nextFile'
    BY <2>1, <2>12, <1>1 DEF NumbersInv
  <2> QED
    BY <2>1, <2>2, <2>5, <2>6, <2>8, <2>9, <2>10, <2>11, <2>14, <2>15, <2>16, <1>1
       DEF NumbersInv, Numbers, Below
<1> QED
  BY <1>4, <1>5, <1>6 DEF WriterStep

\* What the invariant says while the background thread works.
LEMMA ThreadFacts ==
  ASSUME StructureInv, bg # "idle"
  PROVE  /\ mode = "up" /\ bgError \in BOOLEAN
         /\ nextFile \in Nat /\ logfile \in Nat /\ logNumber \in Nat
         /\ edit \in Edits /\ current \in Versions /\ merge \in Merges /\ DiskOK
         /\ edit.log \in Nat /\ edit.next \in Nat
         /\ manifest.next \in Nat /\ manifest.log \in Nat
         /\ manifest.next <= nextFile /\ logNumber <= logfile /\ logfile < nextFile
         /\ logfile \in DOMAIN logs
         /\ DOMAIN files \subseteq Nat /\ DOMAIN logs \subseteq Nat /\ pending \subseteq Nat
         /\ Below(DOMAIN files, nextFile) /\ Below(DOMAIN logs, nextFile) /\ Below(pending, nextFile)
         /\ Below(Numbers(manifest), manifest.next) /\ manifest.log < manifest.next
         /\ Numbers(manifest) \subseteq DOMAIN files /\ Numbers(current) \subseteq DOMAIN files
         /\ held \subseteq DOMAIN files /\ Numbers(merge) \subseteq DOMAIN files
         /\ merge.out \subseteq DOMAIN files
         /\ (Numbers(current) \cup Numbers(manifest)) \cap pending = {}
         /\ pending = merge.out \cup (IF bg = "build" THEN edit.add0 ELSE {})
<1>1. QueueInv /\ GroupInv /\ ContentInv /\ ThreadInv /\ KeptInv /\ NumbersInv
  BY DEF StructureInv
<1>2. mode = "up" /\ bgError \in BOOLEAN /\ pending = merge.out \cup (IF bg = "build" THEN edit.add0 ELSE {})
  BY <1>1 DEF ThreadInv
<1>3. /\ nextFile \in Nat /\ logfile \in Nat /\ logNumber \in Nat
      /\ edit \in Edits /\ current \in Versions /\ merge \in Merges /\ DiskOK
  BY <1>1 DEF ContentInv
<1>4. edit.log \in Nat /\ edit.next \in Nat /\ edit.add0 \subseteq Nat /\ merge.out \subseteq Nat
  BY <1>3 DEF Edits, Merges
<1>5. manifest.next \in Nat /\ manifest.log \in Nat /\ DOMAIN files \subseteq Nat /\ DOMAIN logs \subseteq Nat
  BY <1>3 DEF DiskOK
<1>6. /\ Below(DOMAIN files, nextFile) /\ Below(DOMAIN logs, nextFile) /\ Below(pending, nextFile)
      /\ manifest.next <= nextFile /\ logfile \in DOMAIN logs /\ logNumber <= logfile
      /\ (Numbers(current) \cup Numbers(manifest)) \cap pending = {}
      /\ Below(Numbers(manifest), manifest.next) /\ manifest.log < manifest.next
  BY <1>1, <1>2 DEF NumbersInv
<1>7. logfile < nextFile
  BY <1>6 DEF Below
<1>8. /\ Numbers(manifest) \subseteq DOMAIN files /\ Numbers(current) \subseteq DOMAIN files
      /\ held \subseteq DOMAIN files /\ Numbers(merge) \subseteq DOMAIN files
      /\ merge.out \subseteq DOMAIN files
  BY <1>1 DEF KeptInv, TablesKept
<1> QED
  BY <1>2, <1>3, <1>4, <1>5, <1>6, <1>7, <1>8

\* The memtable is written to a table: the beginning, and a failure.
LEMMA StructureFlush ==
  ASSUME StructureInv, BeginFlush \/ BuildTableFails
  PROVE  ThreadInv' /\ KeptInv' /\ NumbersInv'
<1> USE DEF calls, queue, tables, sets, thread, disk, fate
<1>1. ThreadInv /\ KeptInv /\ NumbersInv /\ bg # "idle"
  BY DEF StructureInv, BeginFlush, BuildTableFails
<1>2. mode = "up" /\ bgError \in BOOLEAN /\ nextFile \in Nat /\ pending \subseteq Nat
  BY <1>1, ThreadFacts
<1>3. CASE BeginFlush
  <2>1. /\ bg \in {"merge", "scheduled"} /\ bg' = "build" /\ hasImm
        /\ edit' = [NoEdit EXCEPT !.add0 = {nextFile}]
        /\ pending' = pending \cup {nextFile} /\ nextFile' = nextFile + 1
        /\ UNCHANGED <<mem, hasImm, logfile, logNumber, current, held, merge, bgError, mode,
                       files, logs, manifest>>
    BY <1>3 DEF BeginFlush
  <2>2. edit'.add0 = {nextFile}
    BY <2>1 DEF NoEdit
  <2>3. nextFile \notin merge.out /\ nextFile \notin Numbers(current) /\ nextFile \notin Numbers(manifest)
    BY <1>1, <1>2, ThreadFacts DEF Below
  <2>4. pending = merge.out
    BY <2>1, <1>1 DEF ThreadInv
  <2>5. ThreadInv'
    BY <2>1, <2>2, <2>3, <2>4, <1>1, <1>2 DEF ThreadInv
  <2>6. KeptInv'
    BY <2>1, <1>1, <1>2 DEF KeptInv, TablesKept, Editing, Numbers
  <2>7. /\ Below(DOMAIN files', nextFile') /\ Below(DOMAIN logs', nextFile')
        /\ Below(pending', nextFile') /\ manifest'.next <= nextFile'
    BY <2>1, <1>1, <1>2, ThreadFacts DEF Below
  <2>8. (Numbers(current)' \cup Numbers(manifest)') \cap pending' = {}
    BY <2>1, <2>3, <1>1, ThreadFacts DEF Numbers
  <2>9. ~Editing'
    BY <2>1, <1>2 DEF Editing
  <2> QED
    BY <2>1, <2>5, <2>6, <2>7, <2>8, <2>9, <1>1, <1>2 DEF NumbersInv, Numbers, Below
<1>4. CASE BuildTableFails
  <2>1. /\ bg = "build" /\ bgError' = TRUE /\ pending' = pending \ edit.add0 /\ edit' = NoEdit
        /\ Flushed(TRUE, hasImm, current)
        /\ UNCHANGED <<mem, hasImm, logfile, logNumber, nextFile, current, held, merge, mode,
                       files, logs, manifest>>
    BY <1>4 DEF BuildTableFails
  <2>2. bg' = "merge" \/ (merge = NoMerge /\ bg' \in {"idle", "scheduled"})
    BY <2>1, FlushedFacts
  <2>3. pending' = merge.out
    BY <2>1, <1>1 DEF ThreadInv
  <2>4. ThreadInv'
    BY <2>1, <2>2, <2>3, <1>1, <1>2 DEF ThreadInv
  <2>5. ~Editing'
    BY <2>1, <2>2, <1>2 DEF Editing
  <2>6. KeptInv'
    BY <2>1, <2>5, <1>1, <1>2 DEF KeptInv, TablesKept, Numbers
  <2>7. Below(pending', nextFile') /\ (Numbers(current)' \cup Numbers(manifest)') \cap pending' = {}
    BY <2>1, <1>1, ThreadFacts DEF Below, Numbers
  <2> QED
    BY <2>1, <2>2, <2>4, <2>5, <2>6, <2>7, <1>1, <1>2 DEF NumbersInv, Numbers, Below
<1> QED
  BY <1>3, <1>4

LEMMA StructureBuild ==
  ASSUME StructureInv, BuildTable
  PROVE  ThreadInv' /\ KeptInv' /\ NumbersInv'
<1> USE DEF calls, queue, tables, sets, thread, disk, fate
<1> DEFINE add == IF imm = {} THEN {} ELSE edit.add0
<1>1. ThreadInv /\ KeptInv /\ NumbersInv /\ bg = "build"
  BY DEF StructureInv, BuildTable
<1>2. /\ files' = Over([n \in add |-> imm], files)
      /\ edit' = Edit(add, {}, {}, logfile, nextFile)
      /\ pending' = pending \ edit.add0 /\ bg' = "apply"
      /\ UNCHANGED <<mem, hasImm, logfile, logNumber, nextFile, current, held, merge, bgError, mode,
                     logs, manifest>>
  BY DEF BuildTable
<1>3. /\ mode = "up" /\ nextFile \in Nat /\ edit \in Edits /\ logfile \in Nat
      /\ pending = merge.out \cup edit.add0 /\ Below(pending, nextFile) /\ logfile < nextFile
      /\ manifest.next <= nextFile /\ Below(DOMAIN files, nextFile)
  BY <1>1, ThreadFacts
<1>4. add \subseteq edit.add0 /\ add \subseteq Nat
  BY <1>3 DEF Edits
<1>5. DOMAIN files' = add \cup DOMAIN files
  <2>1. PICK f : f = [n \in add |-> imm]
    OBVIOUS
  <2>2. DOMAIN f = add /\ DOMAIN Over(f, files) = DOMAIN f \cup DOMAIN files
    BY <2>1, OverFacts
  <2> QED
    BY <2>1, <2>2, <1>2
<1>6. /\ edit'.add0 = add /\ edit'.add1 = {} /\ edit'.del = {} /\ edit'.log = logfile
      /\ edit'.next = nextFile
  BY <1>2, <1>4, <1>3, EditFacts
<1>7. hasImm /\ edit.add0 \cap merge.out = {}
  BY <1>1 DEF ThreadInv
<1>8. pending' = merge.out /\ merge' = merge
  BY <1>2, <1>3, <1>7
<1> HIDE DEF add
<1>9. ThreadInv'
  BY <1>1, <1>2, <1>3, <1>4, <1>6, <1>7, <1>8 DEF ThreadInv
<1>10. KeptInv'
  BY <1>1, <1>2, <1>5, <1>6 DEF KeptInv, TablesKept, Numbers
<1>11. Below(add, nextFile) /\ Below(DOMAIN files', nextFile) /\ Below(pending', nextFile)
  BY <1>3, <1>4, <1>5, <1>8 DEF Below
<1>12. (Numbers(current)' \cup Numbers(manifest)') \cap pending' = {}
  BY <1>1, <1>2, ThreadFacts DEF Numbers
<1>13. edit'.add0 \cup edit'.add1 = add /\ nextFile <= nextFile
  BY <1>3, <1>6
<1>14. NumbersInv'
  BY <1>1, <1>2, <1>3, <1>6, <1>11, <1>12, <1>13 DEF NumbersInv, Numbers, Below, Editing
<1> QED
  BY <1>9, <1>10, <1>14

\* What an installed edit does to the numbers a version has.
LEMMA AppliedNumbers ==
  ASSUME NEW v, NEW w, NEW e,
         w.l0 = (v.l0 \ e.del) \cup e.add0, w.l1 = (v.l1 \ e.del) \cup e.add1
  PROVE  Numbers(w) \subseteq Numbers(v) \cup e.add0 \cup e.add1
BY DEF Numbers

LEMMA StructureApply ==
  ASSUME StructureInv, ApplyFlush
  PROVE  ThreadInv' /\ KeptInv' /\ NumbersInv'
<1> USE DEF calls, queue, tables, sets, thread, disk, fate
<1>1. ThreadInv /\ KeptInv /\ NumbersInv /\ bg = "apply"
  BY DEF StructureInv, ApplyFlush
<1>2. /\ manifest' = Logged(edit) /\ current' = Applied(current, edit) /\ logNumber' = edit.log
      /\ imm' = {} /\ hasImm' = FALSE /\ edit' = NoEdit
      /\ Swept(bgError, Live(current', merge, pending), edit.log)
      /\ Flushed(bgError, FALSE, current')
      /\ UNCHANGED <<mem, logfile, nextFile, held, merge, pending, bgError, mode>>
  BY DEF ApplyFlush
<1>3. /\ mode = "up" /\ bgError \in BOOLEAN /\ edit \in Edits /\ current \in Versions /\ DiskOK
      /\ pending = merge.out /\ nextFile \in Nat /\ logfile \in Nat /\ logfile \in DOMAIN logs
      /\ edit.next \in Nat /\ manifest.next \in Nat /\ edit.log \in Nat
      /\ DOMAIN files \subseteq Nat /\ DOMAIN logs \subseteq Nat
      /\ (Numbers(current) \cup Numbers(manifest)) \cap pending = {}
      /\ Below(Numbers(manifest), manifest.next)
  BY <1>1, ThreadFacts
<1>4. /\ current'.l0 = (current.l0 \ edit.del) \cup edit.add0
      /\ current'.l1 = (current.l1 \ edit.del) \cup edit.add1
  BY <1>2, <1>3, AppliedFacts
<1>5. /\ manifest'.l0 = (manifest.l0 \ edit.del) \cup edit.add0
      /\ manifest'.l1 = (manifest.l1 \ edit.del) \cup edit.add1
      /\ manifest'.log = edit.log /\ manifest'.next = edit.next
  BY <1>2, <1>3, LoggedFacts
<1>6. Numbers(current') \subseteq Numbers(current) \cup edit.add0 \cup edit.add1
  BY <1>4, AppliedNumbers
<1>7. Numbers(manifest') \subseteq Numbers(manifest) \cup edit.add0 \cup edit.add1
  BY <1>5, AppliedNumbers
<1>8. bg' = "merge" \/ (merge = NoMerge /\ bg' \in {"idle", "scheduled"})
  BY <1>2, FlushedFacts
<1>9. ThreadInv'
  <2>1. ~bgError => manifest'.l0 = current'.l0 /\ manifest'.l1 = current'.l1
    BY <1>1, <1>3, <1>4, <1>5 DEF ThreadInv
  <2> QED
    BY <2>1, <1>1, <1>2, <1>3, <1>8 DEF ThreadInv
<1>10. /\ DOMAIN files' = (IF bgError THEN DOMAIN files
                           ELSE DOMAIN files \cap (Numbers(current') \cup held \cup Numbers(merge) \cup pending))
       /\ DOMAIN logs' = (IF bgError THEN DOMAIN logs ELSE { n \in DOMAIN logs : n >= edit.log })
  BY <1>2, <1>3, SweptFacts DEF Live
<1>11. /\ edit.add0 \cup edit.add1 \subseteq DOMAIN files
       /\ Numbers(manifest) \subseteq DOMAIN files /\ Numbers(current) \subseteq DOMAIN files
       /\ held \subseteq DOMAIN files /\ Numbers(merge) \subseteq DOMAIN files /\ merge.out \subseteq DOMAIN files
  BY <1>1 DEF KeptInv, Editing, TablesKept
<1>12. KeptInv'
  <2>1. CASE bgError
    <3>1. DOMAIN files' = DOMAIN files
      BY <2>1, <1>10
    <3> QED
      BY <3>1, <1>2, <1>3, <1>6, <1>7, <1>8, <1>11 DEF KeptInv, TablesKept, Editing, Numbers
  <2>2. CASE ~bgError
    <3>1. Numbers(manifest') = Numbers(current')
      BY <2>2, <1>2, <1>9, <1>3 DEF ThreadInv, Numbers
    <3>2. DOMAIN files' = DOMAIN files \cap (Numbers(current') \cup held \cup Numbers(merge) \cup merge.out)
      BY <2>2, <1>10, <1>3
    <3>3. /\ Numbers(current') \subseteq DOMAIN files' /\ held \subseteq DOMAIN files'
          /\ Numbers(merge) \subseteq DOMAIN files' /\ merge.out \subseteq DOMAIN files'
      BY <3>2, <1>6, <1>11
    <3> QED
      BY <3>1, <3>3, <1>2, <1>3, <1>8 DEF KeptInv, TablesKept, Editing, Numbers
  <2> QED
    BY <2>1, <2>2, <1>3
<1>13. /\ manifest.next <= edit.next /\ edit.next <= nextFile /\ edit.log < edit.next
       /\ Below(edit.add0 \cup edit.add1, edit.next) /\ edit.log = logfile /\ edit.add1 = {}
  BY <1>1 DEF NumbersInv, Editing
<1>14. Below(Numbers(manifest'), manifest'.next)
  <2>1. \A n \in Numbers(manifest) : n \in Nat /\ n < manifest.next
    BY <1>3, <1>11 DEF Below
  <2> QED
    BY <2>1, <1>3, <1>5, <1>7, <1>13 DEF Below
<1>15. (Numbers(current') \cup Numbers(manifest')) \cap pending' = {}
  <2>1. edit.add0 \cap merge.out = {}
    BY <1>1 DEF ThreadInv
  <2> QED
    BY <2>1, <1>2, <1>3, <1>6, <1>7, <1>13
<1>16. /\ Below(DOMAIN files', nextFile') /\ Below(DOMAIN logs', nextFile') /\ Below(pending', nextFile')
       /\ logfile' \in DOMAIN logs'
  <2>1. DOMAIN files' \subseteq DOMAIN files /\ DOMAIN logs' \subseteq DOMAIN logs
    BY <1>10
  <2>2. Below(DOMAIN files, nextFile) /\ Below(DOMAIN logs, nextFile) /\ Below(pending, nextFile)
    BY <1>1, ThreadFacts
  <2>3. logfile \in DOMAIN logs'
    BY <1>3, <1>10, <1>13
  <2> QED
    BY <2>1, <2>2, <2>3, <1>2 DEF Below
<1>17. ~Editing' /\ logNumber' <= logfile' /\ manifest'.next <= nextFile' /\ manifest'.log < manifest'.next
  BY <1>2, <1>3, <1>5, <1>8, <1>13 DEF Editing
<1>18. NumbersInv'
  BY <1>2, <1>3, <1>5, <1>8, <1>14, <1>15, <1>16, <1>17 DEF NumbersInv, Numbers
<1> QED
  BY <1>9, <1>12, <1>18

\* A compaction begins, or there is nothing to do.
LEMMA StructureBegin ==
  ASSUME StructureInv, NothingToDo \/ BeginMove \/ BeginMerge
  PROVE  ThreadInv' /\ KeptInv' /\ NumbersInv'
<1> USE DEF calls, queue, tables, sets, thread, disk, fate
<1>1. ThreadInv /\ KeptInv /\ NumbersInv /\ bg = "scheduled"
  BY DEF StructureInv, NothingToDo, BeginMove, BeginMerge
<1>2. /\ mode = "up" /\ bgError \in BOOLEAN /\ nextFile \in Nat /\ edit \in Edits /\ current \in Versions
      /\ logNumber \in Nat /\ logfile \in Nat /\ logNumber <= logfile /\ logfile < nextFile
      /\ pending = merge.out /\ Numbers(current) \subseteq DOMAIN files /\ Below(DOMAIN files, nextFile)
      /\ manifest.next <= nextFile
  BY <1>1, ThreadFacts
<1>3. merge = NoMerge /\ edit = NoEdit
  BY <1>1, <1>2 DEF ThreadInv
<1> DEFINE Same == UNCHANGED <<mem, hasImm, logfile, logNumber, nextFile, current, held, pending, bgError,
                               mode, files, logs, manifest>>
<1>4. CASE NothingToDo
  <2>1. Same /\ bg' \in {"idle", "scheduled"} /\ UNCHANGED <<merge, edit>>
    BY <1>4, IdleFacts DEF NothingToDo
  <2>2. ThreadInv'
    BY <2>1, <1>1, <1>2, <1>3 DEF ThreadInv
  <2>3. KeptInv'
    BY <2>1, <1>1, <1>2 DEF KeptInv, TablesKept, Numbers, Editing
  <2>4. NumbersInv'
    BY <2>1, <1>1, <1>2 DEF NumbersInv, Numbers, Below, Editing
  <2> QED
    BY <2>2, <2>3, <2>4
<1>5. CASE BeginMove
  <2>1. /\ Same /\ bg' = "install" /\ merge' = merge
        /\ edit' = Edit({}, current.l0, current.l0, logNumber, nextFile)
    BY <1>5 DEF BeginMove
  <2>2. /\ edit'.add0 = {} /\ edit'.add1 = current.l0 /\ edit'.log = logNumber /\ edit'.next = nextFile
    BY <2>1, <1>2, EditFacts DEF Versions
  <2>3. ThreadInv'
    BY <2>1, <1>1, <1>2, <1>3 DEF ThreadInv
  <2>4. KeptInv'
    BY <2>1, <2>2, <1>1, <1>2 DEF KeptInv, TablesKept, Numbers
  <2>5. Below(edit'.add0 \cup edit'.add1, nextFile) /\ logNumber < nextFile /\ nextFile <= nextFile
    BY <2>2, <1>2 DEF Numbers, Below
  <2>6. NumbersInv'
    BY <2>1, <2>2, <2>5, <1>1, <1>2 DEF NumbersInv, Numbers, Below
  <2> QED
    BY <2>3, <2>4, <2>6
<1>6. CASE BeginMerge
  <2>1. /\ Same /\ bg' = "merge" /\ edit' = edit
        /\ merge' = [l0 |-> current.l0, l1 |-> current.l1, out |-> {}]
    BY <1>6 DEF BeginMerge
  <2>2. merge'.out = {} /\ Numbers(merge') = Numbers(current) /\ merge.out = {}
    BY <2>1, <1>3, EditFacts DEF Numbers
  <2>3. ThreadInv'
    BY <2>1, <2>2, <1>1, <1>2, <1>3 DEF ThreadInv
  <2>4. KeptInv'
    BY <2>1, <2>2, <1>1, <1>2 DEF KeptInv, TablesKept, Numbers, Editing
  <2>5. NumbersInv'
    BY <2>1, <1>1, <1>2 DEF NumbersInv, Numbers, Below, Editing
  <2> QED
    BY <2>3, <2>4, <2>5
<1> QED
  BY <1>4, <1>5, <1>6

\* A compaction starts a table, or has finished them.
LEMMA StructureOutput ==
  ASSUME StructureInv, OpenCompactionOutputFile \/ FinishCompactionOutputFile
  PROVE  ThreadInv' /\ KeptInv' /\ NumbersInv'
<1> USE DEF calls, queue, tables, sets, thread, disk, fate
<1>1. ContentInv /\ ThreadInv /\ KeptInv /\ NumbersInv /\ bg = "merge"
  BY DEF StructureInv, OpenCompactionOutputFile, FinishCompactionOutputFile
<1>2. /\ mode = "up" /\ bgError \in BOOLEAN /\ nextFile \in Nat /\ edit \in Edits /\ merge \in Merges
      /\ logNumber \in Nat /\ logfile \in Nat /\ logNumber <= logfile /\ logfile < nextFile
      /\ pending = merge.out /\ Below(DOMAIN files, nextFile) /\ Below(DOMAIN logs, nextFile)
      /\ manifest.next <= nextFile /\ manifest.next \in Nat /\ Below(pending, nextFile)
      /\ DOMAIN files \subseteq Nat /\ DOMAIN logs \subseteq Nat /\ pending \subseteq Nat
      /\ Numbers(manifest) \subseteq DOMAIN files /\ Numbers(current) \subseteq DOMAIN files
      /\ (Numbers(current) \cup Numbers(manifest)) \cap pending = {}
  BY <1>1, ThreadFacts
<1>3. CASE OpenCompactionOutputFile
  <2>1. /\ merge' = [merge EXCEPT !.out = @ \cup {nextFile}] /\ pending' = pending \cup {nextFile}
        /\ files' = Over([n \in {nextFile} |-> {}], files) /\ nextFile' = nextFile + 1
        /\ UNCHANGED <<mem, hasImm, logfile, logNumber, current, held, bg, edit, bgError, mode, logs,
                       manifest>>
    BY <1>3 DEF OpenCompactionOutputFile
  <2>2. merge'.out = merge.out \cup {nextFile} /\ merge'.l0 = merge.l0 /\ merge'.l1 = merge.l1
    BY <2>1, <1>2 DEF Merges
  <2>3. DOMAIN files' = {nextFile} \cup DOMAIN files
    <3>1. PICK f : f = [n \in {nextFile} |-> {}]
      OBVIOUS
    <3>2. DOMAIN f = {nextFile} /\ DOMAIN Over(f, files) = DOMAIN f \cup DOMAIN files
      BY <3>1, OverFacts
    <3> QED
      BY <3>1, <3>2, <2>1
  <2>4. pending' = merge'.out
    BY <2>1, <2>2, <1>2
  <2>5. ThreadInv'
    BY <2>1, <2>4, <1>1, <1>2 DEF ThreadInv
  <2>6. KeptInv'
    BY <2>1, <2>2, <2>3, <1>1, <1>2 DEF KeptInv, TablesKept, Numbers, Editing
  <2>7. /\ Below(DOMAIN files', nextFile') /\ Below(DOMAIN logs', nextFile') /\ Below(pending', nextFile')
        /\ manifest'.next <= nextFile'
    BY <2>1, <2>3, <1>2 DEF Below
  <2>8. (Numbers(current)' \cup Numbers(manifest)') \cap pending' = {}
    <3>1. nextFile \notin DOMAIN files
      BY <1>2 DEF Below
    <3> QED
      BY <3>1, <2>1, <1>2 DEF Numbers
  <2>9. ~Editing'
    BY <2>1, <1>1, <1>2 DEF Editing
  <2> QED
    BY <2>1, <2>5, <2>6, <2>7, <2>8, <2>9, <1>1, <1>2 DEF NumbersInv, Numbers, Below
<1>4. CASE FinishCompactionOutputFile
  <2>1. PICK f \in Shares : files' = Over(f, files)
    BY <1>4 DEF FinishCompactionOutputFile
  <2>2. /\ edit' = Edit({}, merge.out, Numbers(merge), logNumber, nextFile) /\ bg' = "install"
        /\ UNCHANGED <<mem, hasImm, logfile, logNumber, nextFile, current, held, pending, merge, bgError,
                       mode, logs, manifest>>
    BY <1>4 DEF FinishCompactionOutputFile
  <2>3. DOMAIN files' = DOMAIN files
    <3>1. DOMAIN f = merge.out /\ DOMAIN Over(f, files) = DOMAIN f \cup DOMAIN files
      BY <1>1, SharesFacts, OverFacts
    <3>2. merge.out \subseteq DOMAIN files
      BY <1>1 DEF KeptInv, TablesKept
    <3> QED
      BY <3>1, <3>2, <2>1
  <2>4. merge.out \in SUBSET Nat /\ Numbers(merge) \in SUBSET Nat
    BY <1>2 DEF Merges, Numbers
  <2>5. /\ edit'.add0 = {} /\ edit'.add1 = merge.out /\ edit'.log = logNumber /\ edit'.next = nextFile
    BY <2>2, <2>4, <1>2, EditFacts
  <2>6. ThreadInv'
    BY <2>2, <1>1, <1>2 DEF ThreadInv
  <2>7. KeptInv'
    BY <2>2, <2>3, <2>5, <1>1, <1>2 DEF KeptInv, TablesKept, Numbers
  <2>8. Below(edit'.add0 \cup edit'.add1, nextFile) /\ logNumber < nextFile /\ nextFile <= nextFile
    BY <2>5, <1>2 DEF Below
  <2> QED
    BY <2>2, <2>3, <2>5, <2>6, <2>7, <2>8, <1>1, <1>2 DEF NumbersInv, Numbers, Below
<1> QED
  BY <1>3, <1>4

LEMMA StructureInstall ==
  ASSUME StructureInv, InstallCompactionResults
  PROVE  ThreadInv' /\ KeptInv' /\ NumbersInv'
<1> USE DEF calls, queue, tables, sets, thread, disk, fate
<1>1. ThreadInv /\ KeptInv /\ NumbersInv /\ bg = "install"
  BY DEF StructureInv, InstallCompactionResults
<1>2. /\ manifest' = Logged(edit) /\ current' = Applied(current, edit) /\ logNumber' = edit.log
      /\ pending' = pending \ merge.out /\ merge' = NoMerge /\ edit' = NoEdit
      /\ IF merge = NoMerge THEN UNCHANGED <<files, logs>>
         ELSE Swept(bgError, Live(current', NoMerge, pending'), logNumber')
      /\ Idle(bgError, hasImm, current')
      /\ UNCHANGED <<mem, imm, hasImm, logfile, nextFile, held, bgError, mode>>
  BY DEF InstallCompactionResults
<1>3. /\ mode = "up" /\ bgError \in BOOLEAN /\ edit \in Edits /\ current \in Versions /\ DiskOK
      /\ pending = merge.out /\ nextFile \in Nat /\ logfile \in Nat /\ logfile \in DOMAIN logs
      /\ edit.next \in Nat /\ manifest.next \in Nat /\ edit.log \in Nat /\ logNumber \in Nat
      /\ DOMAIN files \subseteq Nat /\ DOMAIN logs \subseteq Nat /\ logNumber <= logfile
      /\ Below(Numbers(manifest), manifest.next)
  BY <1>1, ThreadFacts
<1>4. /\ current'.l0 = (current.l0 \ edit.del) \cup edit.add0
      /\ current'.l1 = (current.l1 \ edit.del) \cup edit.add1
  BY <1>2, <1>3, AppliedFacts
<1>5. /\ manifest'.l0 = (manifest.l0 \ edit.del) \cup edit.add0
      /\ manifest'.l1 = (manifest.l1 \ edit.del) \cup edit.add1
      /\ manifest'.log = edit.log /\ manifest'.next = edit.next
  BY <1>2, <1>3, LoggedFacts
<1>6. Numbers(current') \subseteq Numbers(current) \cup edit.add0 \cup edit.add1
  BY <1>4, AppliedNumbers
<1>7. Numbers(manifest') \subseteq Numbers(manifest) \cup edit.add0 \cup edit.add1
  BY <1>5, AppliedNumbers
<1>8. bg' \in {"idle", "scheduled"} /\ pending' = {} /\ Numbers(NoMerge) = {} /\ NoMerge.out = {}
  BY <1>2, <1>3, IdleFacts, EditFacts DEF Numbers
<1>9. ThreadInv'
  <2>1. ~bgError => manifest'.l0 = current'.l0 /\ manifest'.l1 = current'.l1
    BY <1>1, <1>3, <1>4, <1>5 DEF ThreadInv
  <2> QED
    BY <2>1, <1>1, <1>2, <1>3, <1>8 DEF ThreadInv
<1>10. /\ edit.add0 \cup edit.add1 \subseteq DOMAIN files
       /\ Numbers(manifest) \subseteq DOMAIN files /\ Numbers(current) \subseteq DOMAIN files
       /\ held \subseteq DOMAIN files
  BY <1>1 DEF KeptInv, Editing, TablesKept
<1>11. edit.log = logNumber
  BY <1>1 DEF NumbersInv
<1>12. /\ Numbers(current') \subseteq DOMAIN files' /\ held \subseteq DOMAIN files'
       /\ bgError \/ Numbers(manifest') = Numbers(current')
       /\ bgError => DOMAIN files' = DOMAIN files
       /\ DOMAIN files' \subseteq DOMAIN files /\ DOMAIN logs' \subseteq DOMAIN logs
       /\ \A n \in DOMAIN logs : n >= logNumber => n \in DOMAIN logs'
  <2>1. bgError \/ Numbers(manifest') = Numbers(current')
    BY <1>2, <1>3, <1>9 DEF ThreadInv, Numbers
  <2>2. CASE merge = NoMerge
    BY <2>1, <2>2, <1>2, <1>6, <1>10
  <2>3. CASE merge # NoMerge
    <3>1. Swept(bgError, Live(current', NoMerge, pending'), logNumber')
      BY <2>3, <1>2
    <3>2. /\ DOMAIN files' = (IF bgError THEN DOMAIN files
                              ELSE DOMAIN files \cap (Numbers(current') \cup held))
          /\ DOMAIN logs' = (IF bgError THEN DOMAIN logs ELSE { n \in DOMAIN logs : n >= logNumber })
      <4>1. PICK live, log : live = Live(current', NoMerge, pending') /\ log = logNumber'
        OBVIOUS
      <4>2. Swept(bgError, live, log) /\ bgError \in BOOLEAN
        BY <3>1, <4>1, <1>3
      <4>3. /\ DOMAIN files' = IF bgError THEN DOMAIN files ELSE DOMAIN files \cap live
            /\ DOMAIN logs' = IF bgError THEN DOMAIN logs ELSE { n \in DOMAIN logs : n >= log }
        BY <4>2, SweptFacts
      <4>4. live = Numbers(current') \cup held /\ log = logNumber
        BY <4>1, <1>2, <1>8, <1>11 DEF Live
      <4> QED
        BY <4>3, <4>4
    <3> QED
      BY <2>1, <3>2, <1>6, <1>10
  <2> QED
    BY <2>2, <2>3
<1>13. KeptInv'
  <2>1. Numbers(manifest') \subseteq DOMAIN files'
    BY <1>7, <1>10, <1>12
  <2> QED
    BY <2>1, <1>2, <1>3, <1>8, <1>12 DEF KeptInv, TablesKept, Editing, Numbers
<1>14. /\ manifest.next <= edit.next /\ edit.next <= nextFile /\ edit.log < edit.next
       /\ Below(edit.add0 \cup edit.add1, edit.next)
  BY <1>1 DEF NumbersInv, Editing
<1>15. Below(Numbers(manifest'), manifest'.next)
  <2>1. \A n \in Numbers(manifest) : n \in Nat /\ n < manifest.next
    BY <1>3, <1>10 DEF Below
  <2> QED
    BY <2>1, <1>3, <1>5, <1>7, <1>14 DEF Below
<1>16. /\ Below(DOMAIN files', nextFile') /\ Below(DOMAIN logs', nextFile') /\ Below(pending', nextFile')
       /\ logfile' \in DOMAIN logs'
  <2>1. Below(DOMAIN files, nextFile) /\ Below(DOMAIN logs, nextFile)
    BY <1>1, ThreadFacts
  <2>2. logfile \in DOMAIN logs'
    BY <1>3, <1>12
  <2> QED
    BY <2>1, <2>2, <1>2, <1>8, <1>12 DEF Below
<1>17. /\ ~Editing' /\ logNumber' <= logfile' /\ manifest'.next <= nextFile' /\ manifest'.log < manifest'.next
       /\ hasImm' => logNumber' < logfile'
  BY <1>1, <1>2, <1>3, <1>5, <1>8, <1>11, <1>14 DEF Editing, NumbersInv
<1>18. NumbersInv'
  BY <1>2, <1>3, <1>5, <1>8, <1>15, <1>16, <1>17 DEF NumbersInv, Numbers
<1> QED
  BY <1>9, <1>13, <1>18

\* Writing a table, or the manifest, fails.
LEMMA StructureFails ==
  ASSUME StructureInv, MergeFails \/ ManifestFails
  PROVE  ThreadInv' /\ KeptInv' /\ NumbersInv'
<1> USE DEF calls, queue, tables, sets, thread, disk, fate
<1>1. ThreadInv /\ KeptInv /\ NumbersInv /\ bg \in {"merge", "apply", "install"}
  BY DEF StructureInv, MergeFails, ManifestFails
<1>2. /\ mode = "up" /\ bgError \in BOOLEAN /\ edit \in Edits /\ DiskOK
      /\ pending = merge.out /\ nextFile \in Nat /\ manifest.next \in Nat /\ edit.log \in Nat
      /\ edit.next \in Nat /\ DOMAIN files \subseteq Nat
      /\ Below(Numbers(manifest), manifest.next) /\ manifest.next <= nextFile
      /\ manifest.log < manifest.next /\ Below(pending, nextFile)
      /\ (Numbers(current) \cup Numbers(manifest)) \cap pending = {}
  BY <1>1, ThreadFacts
<1>3. Numbers(NoMerge) = {} /\ NoMerge.out = {} /\ NoMerge.l0 = {} /\ NoMerge.l1 = {}
  BY EditFacts DEF Numbers
<1>4. CASE MergeFails
  <2>1. /\ bg = "merge" /\ bgError' = TRUE /\ pending' = pending \ merge.out /\ merge' = NoMerge
        /\ Swept(TRUE, {}, 0) /\ Idle(TRUE, hasImm, current)
        /\ UNCHANGED <<mem, hasImm, logfile, logNumber, nextFile, current, held, edit, mode, manifest>>
    BY <1>4 DEF MergeFails
  <2>2. UNCHANGED <<files, logs>> /\ bg' \in {"idle", "scheduled"} /\ pending' = {}
    BY <2>1, <1>2, IdleFacts DEF Swept
  <2>3. ThreadInv'
    BY <2>1, <2>2, <1>1, <1>2, <1>3 DEF ThreadInv
  <2>4. KeptInv'
    BY <2>1, <2>2, <1>1, <1>2, <1>3 DEF KeptInv, TablesKept, Numbers, Editing
  <2>5. NumbersInv'
    BY <2>1, <2>2, <1>1, <1>2 DEF NumbersInv, Numbers, Below, Editing
  <2> QED
    BY <2>3, <2>4, <2>5
<1>5. CASE ManifestFails
  <2>1. /\ bg \in {"apply", "install"} /\ bgError' = TRUE /\ manifest' \in {manifest, Logged(edit)}
        /\ edit' = NoEdit /\ UNCHANGED <<files, logs>>
        /\ UNCHANGED <<mem, hasImm, logfile, logNumber, nextFile, current, held, mode>>
    BY <1>5 DEF ManifestFails, Swept
  <2>2. \/ bg = "apply" /\ Flushed(TRUE, hasImm, current) /\ UNCHANGED <<merge, pending>>
        \/ bg = "install" /\ pending' = pending \ merge.out /\ merge' = NoMerge /\ Idle(TRUE, hasImm, current)
    BY <1>5 DEF ManifestFails
  <2>3. \/ /\ bg = "apply" /\ merge' = merge /\ pending' = pending
           /\ bg' = "merge" \/ (merge' = NoMerge /\ bg' \in {"idle", "scheduled"})
        \/ bg = "install" /\ merge' = NoMerge /\ pending' = {} /\ bg' \in {"idle", "scheduled"}
    BY <2>2, <1>2, FlushedFacts, IdleFacts
  <2>4. ThreadInv'
    BY <2>1, <2>3, <1>1, <1>2, <1>3 DEF ThreadInv
  <2>5. /\ edit.add0 \cup edit.add1 \subseteq DOMAIN files
        /\ Numbers(manifest) \subseteq DOMAIN files
        /\ manifest.next <= edit.next /\ edit.next <= nextFile /\ edit.log < edit.next
        /\ Below(edit.add0 \cup edit.add1, edit.next)
        /\ bg = "apply" => edit.add1 = {} /\ edit.add0 \cap merge.out = {}
    <3>1. Editing
      BY <2>1 DEF Editing
    <3>2. edit.add0 \cup edit.add1 \subseteq DOMAIN files /\ Numbers(manifest) \subseteq DOMAIN files
      BY <3>1, <1>1 DEF KeptInv, TablesKept
    <3>3. /\ manifest.next <= edit.next /\ edit.next <= nextFile /\ edit.log < edit.next
          /\ Below(edit.add0 \cup edit.add1, edit.next)
      BY <3>1, <1>1 DEF NumbersInv
    <3>4. bg = "apply" => edit.add1 = {}
      BY <1>1 DEF NumbersInv
    <3>5. bg = "apply" => edit.add0 \cap merge.out = {}
      BY <1>1 DEF ThreadInv
    <3> QED
      BY <3>2, <3>3, <3>4, <3>5
  <2>6. /\ Numbers(manifest') \subseteq Numbers(manifest) \cup edit.add0 \cup edit.add1
        /\ \/ manifest'.next = manifest.next /\ manifest'.log = manifest.log /\ manifest' = manifest
           \/ manifest'.next = edit.next /\ manifest'.log = edit.log
    <3>1. CASE manifest' = manifest
      BY <3>1
    <3>2. CASE manifest' = Logged(edit)
      <4>1. /\ manifest'.l0 = (manifest.l0 \ edit.del) \cup edit.add0
            /\ manifest'.l1 = (manifest.l1 \ edit.del) \cup edit.add1
            /\ manifest'.log = edit.log /\ manifest'.next = edit.next
        BY <3>2, <1>2, LoggedFacts
      <4> QED
        BY <4>1, AppliedNumbers
    <3> QED
      BY <3>1, <3>2, <2>1
  <2>7. ~Editing'
    BY <2>1, <2>3, <1>2 DEF Editing
  <2>8. KeptInv'
    BY <2>1, <2>3, <2>5, <2>6, <2>7, <1>1, <1>3 DEF KeptInv, TablesKept, Numbers
  <2>9. \A n \in Numbers(manifest) : n \in Nat /\ n < manifest.next
    BY <2>5, <1>2 DEF Below
  <2>10. Below(Numbers(manifest'), manifest'.next) /\ manifest'.log < manifest'.next /\ manifest'.next <= nextFile
    <3>1. CASE manifest' = manifest
      BY <3>1, <1>2
    <3>2. CASE manifest'.next = edit.next /\ manifest'.log = edit.log
      BY <3>2, <2>5, <2>6, <2>9, <1>2 DEF Below
    <3> QED
      BY <3>1, <3>2, <2>6
  <2>11. (Numbers(current)' \cup Numbers(manifest)') \cap pending' = {}
    <3>1. Numbers(current)' = Numbers(current) /\ Numbers(manifest)' = Numbers(manifest')
      BY <2>1 DEF Numbers
    <3> QED
      BY <3>1, <2>3, <2>5, <2>6, <1>2
  <2>12. Below(pending', nextFile)
    BY <2>3, <1>2 DEF Below
  <2>13. bg' \notin {"apply", "install"}
    BY <2>3
  <2>14. NumbersInv'
    BY <2>1, <2>7, <2>10, <2>11, <2>12, <2>13, <1>1, <1>2 DEF NumbersInv, Numbers, Below
  <2> QED
    BY <2>4, <2>8, <2>14
<1> QED
  BY <1>4, <1>5

LEMMA StructureBackground ==
  ASSUME StructureInv, BackgroundStep
  PROVE  ThreadInv' /\ KeptInv' /\ NumbersInv'
BY StructureFlush, StructureBuild, StructureApply, StructureBegin, StructureOutput, StructureInstall,
   StructureFails DEF BackgroundStep

\* A crash.
LEMMA StructureGone ==
  ASSUME StructureInv, ProcessCrash \/ MachineCrash
  PROVE  ThreadInv' /\ KeptInv' /\ NumbersInv'
<1> USE DEF calls, queue, tables, sets, thread, disk, fate
<1>1. ThreadInv /\ KeptInv /\ NumbersInv
  BY DEF StructureInv
<1>2. Gone /\ UNCHANGED <<files, manifest>>
  BY DEF ProcessCrash, MachineCrash
<1>3. /\ mode' = "down" /\ bg' = "idle" /\ bgError' = FALSE /\ merge' = NoMerge /\ edit' = NoEdit
      /\ held' = {} /\ pending' = {} /\ mem' = {} /\ hasImm' = FALSE
      /\ current' = [l0 |-> {}, l1 |-> {}]
  BY <1>2 DEF Gone
<1>4. Numbers(NoMerge) = {} /\ NoMerge.out = {} /\ Numbers(current') = {}
  BY <1>3, EditFacts DEF Numbers
<1>5. ThreadInv'
  BY <1>3, <1>4 DEF ThreadInv
<1>6. ~Editing'
  BY <1>3 DEF Editing
<1>7. KeptInv'
  <2>1. Numbers(manifest') \subseteq DOMAIN files'
    BY <1>1, <1>2 DEF KeptInv, TablesKept
  <2> QED
    BY <2>1, <1>3, <1>4, <1>6 DEF KeptInv, TablesKept, Numbers
<1>8. Below(Numbers(manifest'), manifest'.next) /\ manifest'.log < manifest'.next
  BY <1>1, <1>2 DEF NumbersInv
<1>9. NumbersInv'
  BY <1>3, <1>6, <1>8 DEF NumbersInv, Numbers
<1> QED
  BY <1>5, <1>7, <1>9

\* Recovery finds the tables of the manifest, and numbers what it writes
\* above everything it needs.
LEMMA StructureRecover ==
  ASSUME StructureInv, Recover
  PROVE  ThreadInv' /\ KeptInv' /\ NumbersInv'
<1> USE DEF calls, queue, tables, sets, thread, disk, fate
<1>1. ThreadInv /\ KeptInv /\ NumbersInv /\ DiskOK /\ mode = "down"
  BY DEF StructureInv, ContentInv, Recover
<1>2. PICK r : /\ \E k \in Nat : ReplayedTo(r, k) /\ \A n \in DOMAIN logs : n <= k
               /\ files' = Over(r.tabs, files)
               /\ logs' = Over([n \in {r.next} |-> EmptyLog], logs)
               /\ logfile' = r.next /\ nextFile' = r.next + 1
               /\ edit' = [add0 |-> DOMAIN r.tabs, add1 |-> {}, del |-> {}, log |-> r.next,
                           last |-> r.last, next |-> r.next + 1]
               /\ \A n \in LogsNeeded : n < r.next
  BY <1>1, RecoverFacts
<1>3. /\ current' = [l0 |-> manifest.l0, l1 |-> manifest.l1] /\ logNumber' = manifest.log
      /\ mode' = "replayed"
      /\ UNCHANGED <<mem, hasImm, held, bg, merge, pending, bgError, manifest>>
  BY DEF Recover
<1>4. /\ r.next \in Nat /\ manifest.next < r.next /\ manifest.next \in Nat /\ manifest.log \in Nat
      /\ \A t \in DOMAIN r.tabs : t \in Nat /\ t < r.next
  BY <1>1, <1>2 DEF ReplayedTo, DiskOK
<1>5. /\ edit'.add0 = DOMAIN r.tabs /\ edit'.add1 = {} /\ edit'.log = r.next
      /\ edit'.next = r.next + 1
  BY <1>2
<1>6. DOMAIN files' = DOMAIN r.tabs \cup DOMAIN files
  <2>1. PICK f : f = r.tabs
    OBVIOUS
  <2>2. DOMAIN Over(f, files) = DOMAIN f \cup DOMAIN files
    BY OverFacts
  <2> QED
    BY <1>2, <2>1, <2>2
<1>7. DOMAIN logs' = DOMAIN logs \cup {r.next}
  <2>1. PICK f : f = [n \in {r.next} |-> EmptyLog]
    OBVIOUS
  <2>2. DOMAIN f = {r.next} /\ DOMAIN Over(f, logs) = DOMAIN f \cup DOMAIN logs
    BY <2>1, OverFacts
  <2> QED
    BY <1>2, <2>1, <2>2
<1>8. pending = {} /\ bg = "idle" /\ merge = NoMerge /\ held = {} /\ ~bgError
  BY <1>1, EditFacts DEF ThreadInv
<1>9. ThreadInv'
  BY <1>1, <1>3, <1>8 DEF ThreadInv
<1>10. Numbers(manifest) \subseteq DOMAIN files /\ Numbers(current') = Numbers(manifest)
  BY <1>1, <1>3 DEF KeptInv, TablesKept, Numbers
<1>11. Numbers(NoMerge) = {} /\ NoMerge.out = {}
  BY EditFacts DEF Numbers
<1>12. KeptInv'
  BY <1>3, <1>5, <1>6, <1>8, <1>10, <1>11 DEF KeptInv, TablesKept, Numbers
<1>13. Below(LogsNeeded', nextFile')
  <2>1. ASSUME NEW n \in LogsNeeded' PROVE n < nextFile'
    <3>1. n \in DOMAIN logs' /\ n >= manifest.log
      BY <1>3 DEF LogsNeeded
    <3>2. CASE n = r.next
      BY <3>2, <1>2, <1>4
    <3>3. CASE n \in DOMAIN logs
      <4>1. n \in LogsNeeded /\ n \in Nat
        BY <3>1, <3>3, <1>1 DEF LogsNeeded, DiskOK
      <4> QED
        BY <4>1, <1>2, <1>4
    <3> QED
      BY <3>1, <3>2, <3>3, <1>7
  <2> QED
    BY <2>1 DEF Below
<1>14. manifest.log < manifest.next /\ manifest.log <= r.next /\ manifest.next <= r.next + 1
  BY <1>1, <1>4 DEF NumbersInv
<1>15. Below(edit'.add0 \cup edit'.add1, edit'.next) /\ edit'.log < edit'.next
  BY <1>4, <1>5 DEF Below
<1>16. edit'.next <= nextFile' /\ logfile' \in DOMAIN logs'
  BY <1>2, <1>4, <1>5, <1>7
<1>17. Below(Numbers(manifest'), manifest'.next)
  BY <1>1, <1>3 DEF NumbersInv
<1>18. NumbersInv'
  BY <1>2, <1>3, <1>5, <1>8, <1>13, <1>14, <1>15, <1>16, <1>17 DEF NumbersInv, Numbers
<1> QED
  BY <1>9, <1>12, <1>18

\* The manifest is written, and the database is open.
LEMMA StructureOpened ==
  ASSUME StructureInv, SetCurrentFile \/ Opened
  PROVE  ThreadInv' /\ KeptInv' /\ NumbersInv'
<1> USE DEF calls, queue, tables, sets, thread, disk, fate
<1>1. ThreadInv /\ KeptInv /\ NumbersInv /\ ContentInv /\ mode \in {"replayed", "installed"}
  BY DEF StructureInv, SetCurrentFile, Opened
<1>2. /\ merge = NoMerge /\ held = {} /\ bg = "idle" /\ ~bgError /\ ~hasImm /\ mem = {}
      /\ bgError \in BOOLEAN
      /\ pending = {} /\ manifest.l0 = current.l0 /\ manifest.l1 = current.l1
  BY <1>1, EditFacts DEF ThreadInv
<1>3. Numbers(NoMerge) = {} /\ NoMerge.out = {}
  BY EditFacts DEF Numbers
<1>4. /\ edit \in Edits /\ current \in Versions /\ DiskOK
      /\ DOMAIN files \subseteq Nat /\ DOMAIN logs \subseteq Nat
      /\ {manifest.next, manifest.log, edit.log, edit.next, nextFile, logfile, logNumber} \subseteq Nat
  BY <1>1 DEF ContentInv, DiskOK, Edits
<1>5. /\ Numbers(manifest) \subseteq DOMAIN files /\ Below(LogsNeeded, nextFile)
      /\ Below(Numbers(manifest), manifest.next) /\ manifest.log < manifest.next
  BY <1>1 DEF KeptInv, TablesKept, NumbersInv
<1>6. CASE SetCurrentFile
  <2>1. /\ manifest' = Logged(edit) /\ current' = Applied(current, edit) /\ logNumber' = edit.log
        /\ edit' = NoEdit /\ mode = "replayed" /\ mode' = "installed"
        /\ UNCHANGED <<mem, hasImm, held, bg, merge, pending, bgError, logfile, nextFile, logs, files>>
    BY <1>6 DEF SetCurrentFile
  <2>2. /\ current'.l0 = (current.l0 \ edit.del) \cup edit.add0
        /\ current'.l1 = (current.l1 \ edit.del) \cup edit.add1
    BY <2>1, <1>4, AppliedFacts
  <2>3. /\ manifest'.l0 = (manifest.l0 \ edit.del) \cup edit.add0
        /\ manifest'.l1 = (manifest.l1 \ edit.del) \cup edit.add1
        /\ manifest'.log = edit.log /\ manifest'.next = edit.next
    BY <2>1, <1>4, LoggedFacts
  <2>4. Editing
    BY <2>1 DEF Editing
  <2>5. edit.add0 \cup edit.add1 \subseteq DOMAIN files
    BY <2>4, <1>1 DEF KeptInv
  <2>6. /\ manifest.next <= edit.next /\ edit.next <= nextFile /\ edit.log < edit.next
        /\ Below(edit.add0 \cup edit.add1, edit.next)
        /\ edit.log = logfile /\ edit.next = nextFile /\ logfile \in DOMAIN logs
        /\ manifest.log <= edit.log
    BY <2>1, <2>4, <1>1 DEF NumbersInv
  <2>7. ThreadInv'
    BY <2>1, <2>2, <2>3, <1>2, <1>3 DEF ThreadInv
  <2>8. Numbers(manifest') \subseteq Numbers(manifest) \cup edit.add0 \cup edit.add1
    BY <2>3, AppliedNumbers
  <2>9. Numbers(current') = Numbers(manifest') /\ Numbers(manifest') \subseteq DOMAIN files
    BY <2>2, <2>3, <2>5, <2>8, <1>2, <1>5 DEF Numbers
  <2>10. ~Editing'
    BY <2>1, <1>2 DEF Editing
  <2>11. KeptInv'
    BY <2>1, <2>9, <2>10, <1>2, <1>3 DEF KeptInv, TablesKept, Numbers
  <2>12. Below(Numbers(manifest'), manifest'.next)
    <3>1. \A n \in Numbers(manifest) : n \in Nat /\ n < manifest.next
      BY <1>4, <1>5 DEF Below
    <3> QED
      BY <3>1, <2>3, <2>6, <2>8, <1>4 DEF Below
  <2>13. Below(LogsNeeded', nextFile')
    <3>1. ASSUME NEW n \in LogsNeeded' PROVE n \in LogsNeeded
      <4>1. n \in DOMAIN logs /\ n >= edit.log
        BY <2>1, <2>3 DEF LogsNeeded
      <4>2. n \in Nat /\ n >= manifest.log
        BY <4>1, <2>6, <1>4
      <4> QED
        BY <4>1, <4>2 DEF LogsNeeded
    <3> QED
      BY <3>1, <2>1, <1>5 DEF Below
  <2>14. NumbersInv'
    BY <2>1, <2>3, <2>6, <2>10, <2>12, <2>13, <1>2 DEF NumbersInv, Numbers
  <2> QED
    BY <2>7, <2>11, <2>14
<1>7. CASE Opened
  <2>1. /\ mode = "installed" /\ mode' = "up"
        /\ Swept(FALSE, Live(current, NoMerge, pending), logNumber)
        /\ bg' = Scheduled(bg, FALSE, FALSE, current)
        /\ UNCHANGED <<mem, hasImm, held, merge, edit, pending, bgError, logfile, logNumber, nextFile,
                       current, manifest>>
    BY <1>7 DEF Opened
  <2>2. bg' \in {"idle", "scheduled"}
    BY <2>1, <1>2, ScheduledFacts
  <2>3. /\ logNumber = manifest.log /\ logfile = logNumber /\ nextFile = manifest.next
        /\ logfile \in DOMAIN logs
    BY <2>1, <1>1 DEF NumbersInv
  <2>4. /\ DOMAIN files' = DOMAIN files \cap Numbers(current)
        /\ DOMAIN logs' = { n \in DOMAIN logs : n >= logNumber }
    <3>1. Live(current, NoMerge, pending) = Numbers(current)
      BY <1>2, <1>3 DEF Live
    <3>2. /\ files' = Restrict(files, DOMAIN files \cap Numbers(current))
          /\ logs' = Restrict(logs, { n \in DOMAIN logs : n >= logNumber })
      BY <2>1, <3>1 DEF Swept
    <3> QED
      BY <3>2, RestrictFacts
  <2>5. Numbers(current) = Numbers(manifest) /\ DOMAIN logs' = LogsNeeded
    BY <2>3, <2>4, <1>2 DEF Numbers, LogsNeeded
  <2>6. ThreadInv'
    <3>1. edit = NoEdit
      BY <2>1, <1>1, <1>2 DEF ThreadInv
    <3> QED
      BY <3>1, <2>1, <2>2, <1>2, <1>3 DEF ThreadInv
  <2>7. ~Editing'
    BY <2>1, <2>2 DEF Editing
  <2>8. KeptInv'
    BY <2>1, <2>4, <2>5, <2>7, <1>2, <1>3, <1>5 DEF KeptInv, TablesKept, Numbers
  <2>9. /\ Below(DOMAIN files', nextFile') /\ Below(DOMAIN logs', nextFile') /\ Below(pending', nextFile')
        /\ logfile' \in DOMAIN logs'
    BY <2>1, <2>3, <2>4, <2>5, <1>2, <1>4, <1>5 DEF Below
  <2>10. manifest'.next <= nextFile' /\ logNumber' <= logfile' /\ manifest'.log = logNumber'
    BY <2>1, <2>3, <1>4
  <2>11. (Numbers(current)' \cup Numbers(manifest)') \cap pending' = {}
    BY <2>1, <1>2
  <2>12. Below(Numbers(manifest'), manifest'.next) /\ manifest'.log < manifest'.next
    BY <2>1, <1>5
  <2>13. bg' # "apply" /\ bg' # "install" /\ ~hasImm'
    BY <2>1, <2>2, <1>2
  <2>14. NumbersInv'
    BY <2>1, <2>7, <2>9, <2>10, <2>11, <2>12, <2>13 DEF NumbersInv, Numbers
  <2> QED
    BY <2>6, <2>8, <2>14
<1> QED
  BY <1>6, <1>7

\* Steps that touch neither the tables nor the logs.
LEMMA StructureElse ==
  ASSUME StructureInv,
         \/ \E k \in Kind : Write(k)
         \/ NewIterator \/ DeleteIterator
         \/ UNCHANGED vars
  PROVE  ThreadInv' /\ KeptInv' /\ NumbersInv'
<1> USE DEF calls, queue, tables, sets, thread, disk, fate
<1>1. ThreadInv /\ KeptInv /\ NumbersInv
  BY DEF StructureInv
<1>2. /\ UNCHANGED <<mem, hasImm, logfile, logNumber, nextFile, current, pending, bg, merge, edit,
                     bgError, mode, logs, files, manifest>>
      /\ held' \in {held, {}} \/ (held' = Numbers(current) /\ mode = "up")
  BY DEF Write, NewIterator, DeleteIterator, vars
<1>3. ThreadInv'
  BY <1>1, <1>2 DEF ThreadInv
<1>4. KeptInv'
  BY <1>1, <1>2 DEF KeptInv, TablesKept, Editing, Numbers
<1>5. LogsNeeded' = LogsNeeded
  BY <1>2 DEF LogsNeeded
<1>6. NumbersInv'
  BY <1>1, <1>2, <1>5 DEF NumbersInv, Editing, Numbers
<1> QED
  BY <1>3, <1>4, <1>6

LEMMA StructureStart == Init => StructureInv
<1>1. SUFFICES ASSUME Init PROVE ThreadInv /\ KeptInv /\ NumbersInv
  BY QueueStart, ContentStart DEF StructureInv
<1>2. /\ mode = "up" /\ bg = "idle" /\ bgError = FALSE /\ merge = NoMerge /\ edit = NoEdit
      /\ held = {} /\ pending = {} /\ mem = {} /\ hasImm = FALSE
      /\ current = [l0 |-> {}, l1 |-> {}] /\ DOMAIN files = {}
      /\ logs = [n \in {1} |-> EmptyLog] /\ logfile = 1 /\ logNumber = 1 /\ nextFile = 2
      /\ manifest = [l0 |-> {}, l1 |-> {}, log |-> 1, last |-> 0, next |-> 2]
  <2>1. files = <<>>
    BY <1>1 DEF Init
  <2> QED
    BY <1>1, <2>1 DEF Init
<1>3. /\ Numbers(NoMerge) = {} /\ NoMerge.out = {} /\ Numbers(current) = {} /\ Numbers(manifest) = {}
      /\ ~Editing /\ DOMAIN logs = {1}
  BY <1>2, EditFacts DEF Numbers, Editing
<1>4. ThreadInv
  BY <1>2, <1>3 DEF ThreadInv
<1>5. KeptInv
  BY <1>2, <1>3 DEF KeptInv, TablesKept
<1>6. NumbersInv
  BY <1>2, <1>3 DEF NumbersInv, Below
<1> QED
  BY <1>4, <1>5, <1>6

LEMMA StructureStep ==
  ASSUME StructureInv, [Next]_vars
  PROVE  StructureInv'
<1>1. QueueInv /\ GroupInv /\ ContentInv
  BY DEF StructureInv
<1>2. QueueInv' /\ GroupInv'
  BY <1>1, QueueStep
<1>3. ThreadInv' /\ KeptInv' /\ NumbersInv'
  BY StructureWriter, StructureBackground, StructureGone, StructureRecover, StructureOpened,
     StructureElse DEF Next, OpenStep
<1>4. ContentInv'
  <2>1. CASE WriterStep
    BY <2>1, <1>1, ContentWriter
  <2>2. CASE BackgroundStep
    <3>1. Numbers(merge) \subseteq DOMAIN files /\ bgError \in BOOLEAN
      BY DEF StructureInv, KeptInv, TablesKept, ThreadInv
    <3> QED
      BY <2>2, <3>1, <1>1, ContentBackground
  <2>3. CASE OpenStep \/ ProcessCrash \/ MachineCrash
    BY <2>3, <1>1, ContentOpen
  <2> QED
    BY <2>1, <2>2, <2>3, <1>1, ContentElse DEF Next
<1> QED
  BY <1>2, <1>3, <1>4 DEF StructureInv

(***************************************************************************)
(* The structure holds in every reachable state: the queue, the place of   *)
(* the background thread and what it has in its hands, the numbers of      *)
(* files, across failures, crashes and recoveries.                         *)
(***************************************************************************)
THEOREM StructureTheorem == Spec => []StructureInv
BY StructureStart, StructureStep, PTL DEF Spec

(***************************************************************************)
(* No table is deleted that an open iterator, the compaction under way,    *)
(* the current version or the manifest refers to, nor one that is being    *)
(* written: through failing writes of the manifest, crashes anywhere, and  *)
(* however DeleteObsoleteFiles falls between the others' steps.            *)
(***************************************************************************)
THEOREM TablesKeptTheorem == Spec => []TablesKept
<1>1. StructureInv => TablesKept
  BY DEF StructureInv, KeptInv
<1> QED
  BY <1>1, StructureTheorem, PTL

(***************************************************************************)
(* The variables have the values TypeOK says: among others the queue is    *)
(* exactly the calls without an answer, and the log in use exists and is   *)
(* the newest.                                                             *)
(***************************************************************************)
THEOREM TypeCorrect == Spec => []TypeOK
<1>1. ASSUME StructureInv PROVE TypeOK
  <2>1. QueueInv /\ ContentInv /\ ThreadInv /\ NumbersInv
    BY <1>1 DEF StructureInv
  <2>2. /\ kind \in Seq(Kind) /\ Len(kind) <= MaxWrites
        /\ answer \in Seq({"none", "ok", "error", "dead"}) /\ Len(answer) = Len(kind)
        /\ stage \in {"queued", "room", "wait", "log", "sync", "insert", "inserted"}
        /\ writers \in Seq(1..Len(kind))
        /\ stage # "queued" => Len(writers) # 0
        /\ Len(writers) = 0 => ~awake
    <3>1. QueueInv
      BY <2>1
    <3> QED
      BY <3>1 DEF QueueInv
  <2>3. Range(writers) = { c \in DOMAIN answer : answer[c] = "none" }
    <3>1. /\ \A c : c \in Range(writers) <=> \E i \in 1..Len(writers) : writers[i] = c
          /\ Range(writers) \subseteq 1..Len(kind)
      BY <2>2, RangeFacts
    <3>3. DOMAIN answer = 1..Len(kind)
      BY <2>2, LenProperties
    <3>4. \A c \in 1..Len(kind) : answer[c] = "none" <=> \E i \in 1..Len(writers) : writers[i] = c
      BY <2>1 DEF QueueInv
    <3> QED
      BY <3>1, <3>3, <3>4
  <2>4. writers = <<>> => stage = "queued" /\ ~awake
    <3>1. writers = <<>> => Len(writers) = 0
      BY EmptySeq
    <3> QED
      BY <3>1, <2>2
  <2>5. /\ bg \in {"idle", "scheduled", "build", "apply", "merge", "install"}
        /\ mode \in {"up", "down", "replayed", "installed"}
        /\ bg = "idle" => merge = NoMerge /\ (mode = "up" => edit = NoEdit)
    BY <2>1 DEF ThreadInv
  <2>6. bg = "idle" => pending = {}
    BY <2>1, EditFacts DEF ThreadInv
  <2>7. Numbers(current) \cap pending = {}
    BY <2>1 DEF NumbersInv
  <2>8. mode = "up" => logfile \in DOMAIN logs /\ logNumber <= logfile /\ logfile < nextFile
    BY <2>1 DEF NumbersInv, Below
  <2>9. hasImm => logNumber < logfile
    <3>1. ASSUME hasImm PROVE mode = "up"
      BY <2>1, <3>1 DEF ThreadInv
    <3>2. ASSUME mode = "up", hasImm PROVE logNumber < logfile
      BY <2>1, <3>2 DEF NumbersInv
    <3> QED
      BY <3>1, <3>2
  <2> QED
    BY <2>2, <2>3, <2>4, <2>5, <2>6, <2>7, <2>8, <2>9 DEF TypeOK
<1> QED
  BY <1>1, StructureTheorem, PTL

-----------------------------------------------------------------------------
(***************************************************************************)
(* Sequence numbers.                                                       *)
(***************************************************************************)
FileRecords == UNION { files[n] : n \in DOMAIN files }
LogRecords == UNION { Range(logs[n].recs) : n \in DOMAIN logs }

\* Everything that carries a number, in memory or on the disk.
AllRecords == mem \cup imm \cup FileRecords \cup LogRecords

\* No number is in two records.
Apart(S) == \A r, s \in S : r # s => LastOf(r) < s.seq \/ LastOf(s) < r.seq
UpTo(S, n) == \A r \in S : LastOf(r) <= n

\* The record on its way, whose numbers are not given out yet.
Fresh == IF stage \in {"sync", "insert", "inserted"} THEN {Record} ELSE {}

SequenceUp ==
  /\ Apart(AllRecords)
  /\ UpTo(AllRecords \ Fresh, lastSequence)
  /\ UpTo(imm \cup FileRecords, lastSequence)
  /\ (stage # "inserted" => UpTo(mem, lastSequence))

SequenceEdit == edit.last <= lastSequence /\ UpTo(FileRecords, edit.last)

SequenceReplayed ==
  /\ UpTo(Recoverable, edit.last) /\ edit.last = lastSequence
  /\ \A n \in edit.add0 : files[n] \subseteq Recoverable

\* Numbers are given out once: what is about to be numbered is above all
\* that has a number, also what only a crash would bring back.
SequenceInv ==
  /\ Apart(Recoverable)
  /\ UpTo(InTables(manifest), manifest.last)
  /\ (mode = "up" => SequenceUp)
  /\ (bg \in {"apply", "install"} => SequenceEdit)
  /\ (mode = "replayed" => SequenceReplayed)
  /\ (mode = "installed" => UpTo(Recoverable, lastSequence))

LEMMA ApartShrinks ==
  /\ \A S, T : Apart(S) /\ T \subseteq S => Apart(T)
  /\ \A S, T, n : UpTo(S, n) /\ T \subseteq S => UpTo(T, n)
BY DEF Apart, UpTo

\* The next record takes numbers that nothing has.
LEMMA ApartGrows ==
  ASSUME NEW S \in SUBSET Records, NEW n \in Nat, NEW r \in Records, r.seq = n + 1,
         Apart(S), UpTo(S \ {r}, n)
  PROVE  Apart(S \cup {r}) /\ UpTo(S \cup {r}, LastOf(r))
<1>1. \A s \in S \cup {r} : LastOf(s) \in Nat /\ s.seq \in Nat /\ s.seq <= LastOf(s)
  BY RecordFacts
<1>2. ASSUME NEW a \in S \cup {r}, NEW b \in S \cup {r}, a # b
      PROVE  LastOf(a) < b.seq \/ LastOf(b) < a.seq
  <2>1. CASE a \in S /\ b \in S
    BY <2>1, <1>2 DEF Apart
  <2>2. CASE a = r
    <3>1. LastOf(b) <= n
      BY <2>2, <1>2 DEF UpTo
    <3> QED
      BY <3>1, <2>2, <1>1
  <2>3. CASE b = r
    <3>1. LastOf(a) <= n
      BY <2>3, <1>2 DEF UpTo
    <3> QED
      BY <3>1, <2>3, <1>1
  <2> QED
    BY <2>1, <2>2, <2>3
<1>3. ASSUME NEW a \in S \cup {r} PROVE LastOf(a) <= LastOf(r)
  <2>1. CASE a = r
    BY <2>1, <1>1
  <2>2. CASE a # r
    <3>1. LastOf(a) <= n
      BY <2>2 DEF UpTo
    <3> QED
      BY <3>1, <1>1
  <2> QED
    BY <2>1, <2>2
<1> QED
  BY <1>2, <1>3 DEF Apart, UpTo

LEMMA RecoverableFacts ==
  /\ InTables(manifest) \subseteq FileRecords
  /\ Recoverable \subseteq AllRecords
  /\ Recoverable' \subseteq AllRecords'
<1>1. InTables(manifest) \subseteq FileRecords
  BY DEF InTables, FileRecords
<1>2. UNION { Range(logs[n].recs) : n \in LogsNeeded } \subseteq LogRecords
  BY DEF LogsNeeded, LogRecords
<1>3. Recoverable \subseteq AllRecords
  BY <1>1, <1>2 DEF Recoverable, AllRecords
<1>4. InTables(manifest)' \subseteq FileRecords'
  BY DEF InTables, FileRecords
<1>5. UNION { Range(logs'[n].recs) : n \in LogsNeeded' } \subseteq LogRecords'
  BY DEF LogsNeeded, LogRecords
<1>6. Recoverable' \subseteq AllRecords'
  BY <1>4, <1>5 DEF Recoverable, AllRecords
<1> QED
  BY <1>1, <1>3, <1>6

LEMMA AllTyped == ContentInv => AllRecords \subseteq Records
<1>1. SUFFICES ASSUME ContentInv PROVE AllRecords \subseteq Records
  OBVIOUS
<1>2. mem \subseteq Records /\ imm \subseteq Records /\ DiskOK
  BY <1>1 DEF ContentInv
<1>3. FileRecords \subseteq Records
  BY <1>2 DEF DiskOK, FileRecords
<1>4. \A n \in DOMAIN logs : Range(logs[n].recs) \subseteq Records
  BY <1>2, RangeFacts DEF DiskOK
<1> QED
  BY <1>2, <1>3, <1>4 DEF AllRecords, LogRecords

\* What a step that deletes files leaves, and one that does not touch them.
LEMMA FilesShrink ==
  ASSUME DOMAIN files' \subseteq DOMAIN files, \A n \in DOMAIN files' : files'[n] = files[n]
  PROVE  FileRecords' \subseteq FileRecords
BY DEF FileRecords

LEMMA LogsShrink ==
  ASSUME DOMAIN logs' \subseteq DOMAIN logs,
         \A n \in DOMAIN logs' : Range(logs'[n].recs) \subseteq Range(logs[n].recs)
  PROVE  LogRecords' \subseteq LogRecords
BY DEF LogRecords

LEMMA TablesFrame ==
  ASSUME manifest' = manifest,
         \A n \in Numbers(manifest) \cap DOMAIN files' : n \in DOMAIN files /\ files'[n] = files[n]
  PROVE  InTables(manifest)' \subseteq InTables(manifest)
<1>1. Numbers(manifest)' = Numbers(manifest)
  BY DEF Numbers
<1> QED
  BY <1>1 DEF InTables

\* Steps of an open database that number nothing.
LEMMA SequenceFrame ==
  ASSUME SequenceInv, mode = "up", mode' = "up",
         AllRecords' \subseteq AllRecords, imm' \cup FileRecords' \subseteq imm \cup FileRecords,
         mem' \subseteq mem, lastSequence' = lastSequence, Fresh' = Fresh,
         stage' = "inserted" <=> stage = "inserted",
         UpTo(InTables(manifest)', manifest'.last),
         bg' \in {"apply", "install"} => SequenceEdit'
  PROVE  SequenceInv'
<1>1. /\ Apart(AllRecords) /\ UpTo(AllRecords \ Fresh, lastSequence)
      /\ UpTo(imm \cup FileRecords, lastSequence)
      /\ (stage # "inserted" => UpTo(mem, lastSequence))
  BY DEF SequenceInv, SequenceUp
<1>2. Apart(AllRecords')
  BY <1>1, ApartShrinks
<1>3. UpTo(AllRecords' \ Fresh', lastSequence')
  <2>1. AllRecords' \ Fresh' \subseteq AllRecords \ Fresh
    OBVIOUS
  <2> QED
    BY <2>1, <1>1, ApartShrinks
<1>4. UpTo(imm' \cup FileRecords', lastSequence')
  BY <1>1, ApartShrinks
<1>5. stage' # "inserted" => UpTo(mem', lastSequence')
  BY <1>1, ApartShrinks
<1>6. SequenceUp'
  BY <1>2, <1>3, <1>4, <1>5 DEF SequenceUp, Apart, UpTo, LastOf
<1>7. Apart(Recoverable)'
  <2>1. Recoverable' \subseteq AllRecords'
    BY RecoverableFacts
  <2> QED
    BY <2>1, <1>2, ApartShrinks DEF Apart, LastOf
<1>8. UpTo(InTables(manifest), manifest.last)'
  BY DEF UpTo, LastOf
<1> QED
  BY <1>6, <1>7, <1>8 DEF SequenceInv

\* What a writer with a record does.
LEMMA SequenceRecord ==
  ASSUME StructureInv, SequenceInv, mode = "up", mode' = "up",
         stage \in {"log", "sync", "insert", "inserted"},
         AllRecords' \subseteq AllRecords \cup {Record},
         mem' \subseteq mem \cup {Record}, (stage' = "inserted" \/ mem' \subseteq mem),
         imm' \cup FileRecords' \subseteq imm \cup FileRecords, FileRecords' = FileRecords,
         \/ lastSequence' = lastSequence /\ Fresh' = {Record} /\ stage # "inserted"
         \/ lastSequence' = LastOf(Record) /\ Fresh' = {},
         UNCHANGED <<bg, edit, manifest, files>>
  PROVE  SequenceInv'
<1>1. /\ Apart(AllRecords) /\ UpTo(AllRecords \ Fresh, lastSequence)
      /\ UpTo(imm \cup FileRecords, lastSequence)
      /\ (stage # "inserted" => UpTo(mem, lastSequence))
      /\ UpTo(InTables(manifest), manifest.last)
      /\ (bg \in {"apply", "install"} => SequenceEdit)
  BY DEF SequenceInv, SequenceUp
<1>2. AllRecords \subseteq Records /\ lastSequence \in Nat /\ edit.last \in Nat
  BY AllTyped DEF StructureInv, ContentInv, Edits
<1>3. Record \in Records /\ Record.seq = lastSequence + 1 /\ LastOf(Record) \in Nat
      /\ lastSequence < LastOf(Record)
  BY <1>2, RecordOfGroup DEF StructureInv
<1>4. Fresh \subseteq {Record}
  BY DEF Fresh
<1>5. UpTo(AllRecords \ {Record}, lastSequence)
  <2>1. AllRecords \ {Record} \subseteq AllRecords \ Fresh
    BY <1>4
  <2> QED
    BY <2>1, <1>1, ApartShrinks
<1>6. Apart(AllRecords \cup {Record}) /\ UpTo(AllRecords \cup {Record}, LastOf(Record))
  BY <1>1, <1>2, <1>3, <1>5, ApartGrows
<1>7. Apart(AllRecords')
  BY <1>6, ApartShrinks
<1>8. UpTo(AllRecords' \ Fresh', lastSequence')
  <2>1. CASE lastSequence' = lastSequence /\ Fresh' = {Record}
    <3>1. AllRecords' \ {Record} \subseteq AllRecords \ {Record}
      OBVIOUS
    <3> QED
      BY <3>1, <2>1, <1>5, ApartShrinks
  <2>2. CASE lastSequence' = LastOf(Record) /\ Fresh' = {}
    <3>1. AllRecords' \ {} \subseteq AllRecords \cup {Record}
      OBVIOUS
    <3> QED
      BY <3>1, <2>2, <1>6, ApartShrinks
  <2> QED
    BY <2>1, <2>2
<1>9. lastSequence <= lastSequence' /\ lastSequence' \in Nat
  BY <1>2, <1>3
<1>10. imm \cup FileRecords \subseteq Records /\ mem \subseteq Records
  BY <1>2 DEF AllRecords
<1>11. ASSUME NEW S \in SUBSET Records, UpTo(S, lastSequence) PROVE UpTo(S, lastSequence')
  <2>1. \A r \in S : LastOf(r) \in Nat /\ LastOf(r) <= lastSequence
    BY <1>11, RecordFacts DEF UpTo
  <2> QED
    BY <2>1, <1>2, <1>9 DEF UpTo
<1>12. UpTo(imm' \cup FileRecords', lastSequence')
  <2>1. UpTo(imm \cup FileRecords, lastSequence')
    BY <1>1, <1>10, <1>11
  <2> QED
    BY <2>1, ApartShrinks
<1>13. stage' # "inserted" => UpTo(mem', lastSequence')
  <2>1. SUFFICES ASSUME stage' # "inserted" PROVE UpTo(mem', lastSequence')
    OBVIOUS
  <2>2. CASE stage # "inserted"
    <3>1. UpTo(mem, lastSequence')
      BY <2>2, <1>1, <1>10, <1>11
    <3> QED
      BY <3>1, <2>1, ApartShrinks
  <2>3. CASE stage = "inserted"
    <3>1. lastSequence' = LastOf(Record) /\ mem' \subseteq AllRecords \cup {Record}
      BY <2>3 DEF AllRecords
    <3> QED
      BY <3>1, <1>6, ApartShrinks
  <2> QED
    BY <2>2, <2>3
<1>14. SequenceUp'
  BY <1>7, <1>8, <1>12, <1>13 DEF SequenceUp, Apart, UpTo, LastOf
<1>15. Apart(Recoverable)'
  <2>1. Recoverable' \subseteq AllRecords'
    BY RecoverableFacts
  <2> QED
    BY <2>1, <1>7, ApartShrinks DEF Apart, LastOf
<1>16. UpTo(InTables(manifest), manifest.last)'
  <2>1. InTables(manifest)' \subseteq InTables(manifest)
    BY TablesFrame
  <2>2. UpTo(InTables(manifest)', manifest'.last)
    BY <2>1, <1>1, ApartShrinks
  <2> QED
    BY <2>2 DEF UpTo, LastOf
<1>17. bg' \in {"apply", "install"} => SequenceEdit'
  <2>1. SUFFICES ASSUME bg \in {"apply", "install"} PROVE SequenceEdit'
    OBVIOUS
  <2>2. edit.last <= lastSequence /\ UpTo(FileRecords, edit.last)
    BY <2>1, <1>1 DEF SequenceEdit
  <2>3. edit'.last <= lastSequence'
    BY <2>2, <1>2, <1>9
  <2> QED
    BY <2>2, <2>3 DEF SequenceEdit, UpTo, LastOf
<1> QED
  BY <1>14, <1>15, <1>16, <1>17 DEF SequenceInv

LEMMA SequenceWriter ==
  ASSUME StructureInv, SequenceInv, WriterStep
  PROVE  SequenceInv'
<1> USE DEF calls, queue, tables, sets, thread, disk, fate
<1>1. mode = "up" /\ mode' = "up"
  <2>1. stage # "queued" \/ writers # <<>>
    BY DEF WriterStep, Begin, NoRoom, RoomOnly, Room, Wait, Switch, NewLogFails, AddRecord, AddRecordFails,
           SyncLog, SyncFails, Insert, Finish
  <2>2. mode = "up"
    BY <2>1, EmptySeq, SequenceFacts DEF StructureInv, QueueInv
  <2> QED
    BY <2>2 DEF WriterStep, Begin, NoRoom, RoomOnly, Room, Wait, Switch, NewLogFails, AddRecord, AddRecordFails,
           SyncLog, SyncFails, Insert, Finish
<1>2. DiskOK /\ QueueInv /\ GroupInv /\ lastSequence \in Nat
  BY DEF StructureInv, ContentInv
<1>3. /\ UpTo(InTables(manifest), manifest.last)
      /\ (bg \in {"apply", "install"} => SequenceEdit)
      /\ (stage # "inserted" => UpTo(mem, lastSequence))
      /\ UpTo(imm \cup FileRecords, lastSequence)
  BY <1>1 DEF SequenceInv, SequenceUp
<1> DEFINE Same == UNCHANGED <<bg, edit, manifest, files>>
<1>4. ASSUME Same PROVE /\ FileRecords' = FileRecords
                        /\ UpTo(InTables(manifest)', manifest'.last)
                        /\ lastSequence' = lastSequence /\ bg' \in {"apply", "install"} => SequenceEdit'
  <2>1. FileRecords' = FileRecords
    BY <1>4 DEF FileRecords
  <2>2. InTables(manifest)' \subseteq InTables(manifest)
    BY <1>4, TablesFrame
  <2>3. UpTo(InTables(manifest)', manifest'.last)
    BY <2>2, <1>3, <1>4, ApartShrinks
  <2>4. lastSequence' = lastSequence /\ bg' \in {"apply", "install"} => SequenceEdit'
    BY <2>1, <1>3, <1>4 DEF SequenceEdit, UpTo, LastOf
  <2> QED
    BY <2>1, <2>3, <2>4
<1>5. CASE Begin \/ NoRoom \/ RoomOnly \/ Room \/ Wait \/ NewLogFails
  <2>1. /\ Same /\ UNCHANGED <<mem, imm, logs, lastSequence>>
        /\ stage \in {"queued", "room"} /\ stage' \in {"queued", "room", "log", "wait"}
    BY <1>5 DEF Begin, NoRoom, RoomOnly, Room, Wait, NewLogFails, Answered
  <2>2. Fresh' = Fresh
    BY <2>1 DEF Fresh
  <2>3. AllRecords' = AllRecords
    BY <2>1, <1>4 DEF AllRecords, LogRecords
  <2> QED
    BY <2>1, <2>2, <2>3, <1>1, <1>4, SequenceFrame
<1>6. CASE Switch
  <2>1. /\ logs' = Over([n \in {nextFile} |-> EmptyLog], logs)
        /\ imm' = mem /\ mem' = {} /\ stage = "room" /\ stage' = "room" /\ lastSequence' = lastSequence
        /\ edit' = edit /\ bg' \in (IF bg = "idle" THEN {"idle", "scheduled"} ELSE {bg})
        /\ UNCHANGED <<manifest, files>> /\ ~hasImm /\ logNumber' = logNumber
    BY <1>6, ScheduledFacts DEF Switch
  <2>2. nextFile \in Nat \ {0}
    BY <1>1 DEF StructureInv, ContentInv
  <2>3. LogRecords' \subseteq LogRecords
    <3>1. /\ DOMAIN logs' = DOMAIN logs \cup {nextFile} /\ logs'[nextFile] = EmptyLog
          /\ \A n \in DOMAIN logs \ {nextFile} : logs'[n] = logs[n]
      BY <2>1, <2>2, <1>2, DiskNewLog DEF DiskOK
    <3>2. Range(EmptyLog.recs) = {}
      BY EmptySeq, SequenceFacts DEF EmptyLog, Range
    <3> QED
      BY <3>1, <3>2 DEF LogRecords
  <2>4. FileRecords' = FileRecords
    BY <2>1 DEF FileRecords
  <2>5. AllRecords' \subseteq AllRecords
    BY <2>1, <2>3, <2>4 DEF AllRecords
  <2>6. UpTo(imm' \cup FileRecords', lastSequence')
    <3>1. imm = {}
      BY <2>1 DEF StructureInv, ContentInv
    <3>2. UpTo(mem, lastSequence) /\ UpTo(FileRecords, lastSequence)
      BY <2>1, <1>3, <3>1
    <3> QED
      BY <2>1, <2>4, <3>2 DEF UpTo
  <2>7. Fresh' = {} /\ Fresh = {}
    BY <2>1 DEF Fresh
  <2>8. Apart(AllRecords') /\ UpTo(AllRecords' \ Fresh', lastSequence')
    <3>1. Apart(AllRecords) /\ UpTo(AllRecords \ Fresh, lastSequence)
      BY <1>1 DEF SequenceInv, SequenceUp
    <3>2. AllRecords' \ Fresh' \subseteq AllRecords \ Fresh
      BY <2>5, <2>7
    <3> QED
      BY <3>1, <3>2, <2>1, <2>5, ApartShrinks
  <2>9. UpTo(mem', lastSequence')
    BY <2>1 DEF UpTo
  <2>10. SequenceUp'
    BY <2>6, <2>8, <2>9 DEF SequenceUp, Apart, UpTo, LastOf
  <2>11. Apart(Recoverable)'
    <3>1. Recoverable' \subseteq AllRecords'
      BY RecoverableFacts
    <3> QED
      BY <3>1, <2>8, ApartShrinks DEF Apart, LastOf
  <2>12. UpTo(InTables(manifest), manifest.last)'
    <3>1. InTables(manifest)' \subseteq InTables(manifest)
      BY <2>1, TablesFrame
    <3>2. UpTo(InTables(manifest)', manifest'.last)
      BY <3>1, <2>1, <1>3, ApartShrinks
    <3> QED
      BY <3>2 DEF UpTo, LastOf
  <2>13. bg' \in {"apply", "install"} => SequenceEdit'
    BY <2>1, <2>4, <1>3 DEF SequenceEdit, UpTo, LastOf
  <2> QED
    BY <2>10, <2>11, <2>12, <2>13, <1>1 DEF SequenceInv
<1>7. CASE AddRecord \/ AddRecordFails
  <2>1. /\ Same /\ UNCHANGED <<mem, imm>> /\ stage = "log"
        /\ logs' = logs \/ logs' = [logs EXCEPT ![logfile].recs = Append(@, Record)]
    BY <1>7 DEF AddRecord, AddRecordFails
  <2>2. Record \in Records
    BY <2>1, <1>2, RecordOfGroup
  <2>3. LogRecords' \subseteq LogRecords \cup {Record}
    <3>1. CASE logs' = logs
      BY <3>1 DEF LogRecords
    <3>2. CASE logs' = [logs EXCEPT ![logfile].recs = Append(@, Record)]
      <4>1. logfile \in DOMAIN logs
        BY <1>1 DEF StructureInv, NumbersInv
      <4>2. /\ DOMAIN logs' = DOMAIN logs /\ \A n \in DOMAIN logs \ {logfile} : logs'[n] = logs[n]
            /\ logs'[logfile].recs = Append(logs[logfile].recs, Record)
        BY <3>2, <2>1, <2>2, <1>2, <4>1, DiskAppended
      <4>3. Range(logs'[logfile].recs) \subseteq Range(logs[logfile].recs) \cup {Record}
        <5>1. logs[logfile].recs \in Seq(Records)
          BY <4>1, <1>2 DEF DiskOK
        <5> QED
          BY <5>1, <4>2, <2>2, AppendFacts
      <4> QED
        BY <4>1, <4>2, <4>3 DEF LogRecords
    <3> QED
      BY <2>1, <3>1, <3>2
  <2>4. AllRecords' \subseteq AllRecords \cup {Record}
    BY <2>1, <2>3, <1>4 DEF AllRecords
  <2>5. \/ lastSequence' = lastSequence /\ Fresh' = {Record}
        \/ lastSequence' = LastOf(Record) /\ Fresh' = {}
    <3>1. CASE AddRecord
      <4>1. /\ stage' \in {"sync", "insert"} /\ lastSequence' = lastSequence
            /\ UNCHANGED <<kind, writers, group>>
        BY <3>1 DEF AddRecord
      <4> QED
        BY <4>1 DEF Fresh, Record, Batches
    <3>2. CASE AddRecordFails
      BY <3>2 DEF AddRecordFails, Answered, Fresh
    <3> QED
      BY <3>1, <3>2, <1>7
  <2> QED
    BY <2>1, <2>4, <2>5, <1>1, <1>4, SequenceRecord
<1>8. CASE SyncLog \/ SyncFails \/ Insert \/ Finish
  <2>1. /\ Same /\ imm' = imm /\ stage \in {"sync", "insert", "inserted"}
        /\ mem' = mem \/ (mem' = mem \cup {Record} /\ stage' = "inserted")
        /\ logs' = logs \/ (SyncLog /\ logs' = [logs EXCEPT ![logfile].synced = Len(logs[logfile].recs)])
    BY <1>8 DEF SyncLog, SyncFails, Insert, Finish
  <2>2. LogRecords' = LogRecords
    <3>1. CASE logs' = logs
      BY <3>1 DEF LogRecords
    <3>2. CASE logs' = [logs EXCEPT ![logfile].synced = Len(logs[logfile].recs)]
      <4>1. DOMAIN logs' = DOMAIN logs /\ \A n \in DOMAIN logs : logs'[n].recs = logs[n].recs
        BY <3>2, <2>1, <1>2, DiskSynced
      <4> QED
        BY <4>1 DEF LogRecords
    <3> QED
      BY <2>1, <3>1, <3>2
  <2>3. AllRecords' \subseteq AllRecords \cup {Record}
    BY <2>1, <2>2, <1>4 DEF AllRecords
  <2>4. \/ lastSequence' = lastSequence /\ Fresh' = {Record} /\ stage # "inserted"
        \/ lastSequence' = LastOf(Record) /\ Fresh' = {}
    <3>1. CASE SyncLog \/ Insert
      <4>1. /\ stage' \in {"insert", "inserted"} /\ lastSequence' = lastSequence /\ stage # "inserted"
            /\ UNCHANGED <<kind, writers, group>>
        BY <3>1 DEF SyncLog, Insert
      <4> QED
        BY <4>1 DEF Fresh, Record, Batches
    <3>2. CASE SyncFails \/ Finish
      BY <3>2 DEF SyncFails, Finish, Answered, Fresh
    <3> QED
      BY <3>1, <3>2, <1>8
  <2> QED
    BY <2>1, <2>3, <2>4, <1>1, <1>4, SequenceRecord
<1> QED
  BY <1>5, <1>6, <1>7, <1>8 DEF WriterStep

\* The background thread numbers nothing; what it writes to the manifest
\* is a number that covers all tables.
LEMMA SequenceBackground ==
  ASSUME StructureInv, SequenceInv, BackgroundStep
  PROVE  SequenceInv'
<1> USE DEF calls, queue, tables, sets, thread, disk, fate
<1>1. mode = "up" /\ DiskOK /\ edit \in Edits /\ lastSequence \in Nat
      /\ Numbers(merge) \subseteq DOMAIN files /\ merge.out \subseteq DOMAIN files
      /\ DOMAIN files \subseteq Nat /\ nextFile \in Nat /\ bgError \in BOOLEAN
      /\ Below(DOMAIN files, nextFile)
      /\ (Numbers(current) \cup Numbers(manifest)) \cap pending = {}
      /\ merge.out \subseteq pending /\ (bg = "build" => edit.add0 \subseteq pending)
      /\ (~hasImm => imm = {})
  <2>1. bg # "idle"
    BY DEF BackgroundStep, NothingToDo, BeginFlush, BuildTable, BuildTableFails, ApplyFlush, BeginMove,
           BeginMerge, OpenCompactionOutputFile, FinishCompactionOutputFile, InstallCompactionResults,
           MergeFails, ManifestFails
  <2>2. ContentInv
    BY DEF StructureInv
  <2> QED
    BY <2>1, <2>2, ThreadFacts DEF ContentInv
<1>2. /\ UpTo(InTables(manifest), manifest.last)
      /\ (bg \in {"apply", "install"} => SequenceEdit)
      /\ UpTo(imm \cup FileRecords, lastSequence)
  BY <1>1 DEF SequenceInv, SequenceUp
<1>3. Wakes
  BY BackgroundWakes
<1>4. mode' = "up" /\ (stage' = "inserted" <=> stage = "inserted")
      /\ (stage' \in {"sync", "insert", "inserted"} <=> stage \in {"sync", "insert", "inserted"})
      /\ UNCHANGED <<kind, writers, group>>
  BY <1>1, <1>3 DEF Wakes, Woken
<1>5. lastSequence' = lastSequence /\ mem' = mem
  BY DEF BackgroundStep, NothingToDo, BeginFlush, BuildTable, BuildTableFails, ApplyFlush, BeginMove,
         BeginMerge, OpenCompactionOutputFile, FinishCompactionOutputFile, InstallCompactionResults,
         MergeFails, ManifestFails
<1>6. Fresh' = Fresh
  BY <1>4, <1>5 DEF Fresh, Record, Batches
<1>7. UpTo(FileRecords, lastSequence)
  BY <1>2 DEF UpTo
<1> DEFINE Shrunk == /\ DOMAIN files' \subseteq DOMAIN files /\ \A n \in DOMAIN files' : files'[n] = files[n]
                     /\ DOMAIN logs' \subseteq DOMAIN logs /\ \A n \in DOMAIN logs' : logs'[n] = logs[n]
                     /\ imm' \subseteq imm
\* Steps that write no file.
<1>8. ASSUME Shrunk PROVE /\ AllRecords' \subseteq AllRecords
                          /\ FileRecords' \subseteq FileRecords
                          /\ imm' \cup FileRecords' \subseteq imm \cup FileRecords
  <2>1. FileRecords' \subseteq FileRecords
    BY <1>8, FilesShrink
  <2>2. LogRecords' \subseteq LogRecords
    BY <1>8, LogsShrink
  <2> QED
    BY <2>1, <2>2, <1>5, <1>8 DEF AllRecords
<1>9. ASSUME Shrunk, manifest' = manifest PROVE UpTo(InTables(manifest)', manifest'.last)
  <2>1. InTables(manifest)' \subseteq InTables(manifest)
    BY <1>9, TablesFrame
  <2> QED
    BY <2>1, <1>2, <1>9, ApartShrinks
<1>10. CASE NothingToDo \/ BeginFlush \/ BuildTableFails \/ BeginMerge \/ MergeFails
  <2>1. UNCHANGED <<imm, files, logs, manifest>> /\ bg' \notin {"apply", "install"}
    <3>1. CASE NothingToDo
      BY <3>1, IdleFacts DEF NothingToDo
    <3>2. CASE BeginFlush
      BY <3>2 DEF BeginFlush
    <3>3. CASE BuildTableFails
      BY <3>3, FlushedFacts DEF BuildTableFails
    <3>4. CASE BeginMerge
      BY <3>4 DEF BeginMerge
    <3>5. CASE MergeFails
      BY <3>5, IdleFacts DEF MergeFails, Swept
    <3> QED
      BY <3>1, <3>2, <3>3, <3>4, <3>5, <1>10
  <2>2. Shrunk
    BY <2>1
  <2> QED
    BY <2>1, <2>2, <1>1, <1>4, <1>5, <1>6, <1>8, <1>9, SequenceFrame
<1>11. CASE BeginMove
  <2>1. /\ UNCHANGED <<imm, files, logs, manifest>>
        /\ edit' = Edit({}, current.l0, current.l0, logNumber, nextFile)
    BY <1>11 DEF BeginMove
  <2>2. edit'.last = lastSequence
    BY <2>1 DEF Edit
  <2>3. FileRecords' = FileRecords
    BY <2>1 DEF FileRecords
  <2>4. SequenceEdit'
    BY <2>2, <2>3, <1>1, <1>5, <1>7 DEF SequenceEdit, UpTo, LastOf
  <2>5. Shrunk
    BY <2>1
  <2> QED
    BY <2>1, <2>4, <2>5, <1>1, <1>4, <1>5, <1>6, <1>8, <1>9, SequenceFrame
<1>12. CASE BuildTable
  <2> DEFINE add == IF imm = {} THEN {} ELSE edit.add0
  <2>1. /\ files' = Over([n \in add |-> imm], files)
        /\ edit' = Edit(add, {}, {}, logfile, nextFile) /\ bg = "build"
        /\ UNCHANGED <<imm, logs, manifest>>
    BY <1>12 DEF BuildTable
  <2>2. add \subseteq edit.add0
    OBVIOUS
  <2> HIDE DEF add
  <2>3. /\ DOMAIN files' = add \cup DOMAIN files
        /\ \A n \in add : files'[n] = imm
        /\ \A n \in DOMAIN files \ add : files'[n] = files[n]
    <3>1. PICK f : f = [n \in add |-> imm]
      OBVIOUS
    <3>2. DOMAIN f = add /\ \A n \in add : f[n] = imm
      BY <3>1
    <3>3. /\ DOMAIN Over(f, files) = DOMAIN f \cup DOMAIN files
          /\ \A n \in DOMAIN f : Over(f, files)[n] = f[n]
          /\ \A n \in DOMAIN files \ DOMAIN f : Over(f, files)[n] = files[n]
      BY OverFacts
    <3> QED
      BY <3>1, <3>2, <3>3, <2>1
  <2>4. FileRecords' \subseteq FileRecords \cup imm
    BY <2>3 DEF FileRecords
  <2>5. AllRecords' \subseteq AllRecords
    BY <2>1, <2>4, <1>5 DEF AllRecords, LogRecords
  <2>6. UpTo(InTables(manifest)', manifest'.last)
    <3>1. \A n \in Numbers(manifest) : n \notin add
      BY <2>1, <2>2, <1>1
    <3>2. InTables(manifest)' \subseteq InTables(manifest)
      BY <3>1, <2>1, <2>3, TablesFrame
    <3> QED
      BY <3>2, <2>1, <1>2, ApartShrinks
  <2>7. edit'.last = lastSequence
    BY <2>1 DEF Edit
  <2>8. imm' \cup FileRecords' \subseteq imm \cup FileRecords
    BY <2>1, <2>4
  <2>9. SequenceEdit'
    <3>1. UpTo(FileRecords', lastSequence)
      BY <2>4, <1>2, ApartShrinks
    <3> QED
      BY <3>1, <2>7, <1>1, <1>5 DEF SequenceEdit, UpTo, LastOf
  <2> QED
    BY <2>5, <2>6, <2>8, <2>9, <1>1, <1>4, <1>5, <1>6, SequenceFrame
<1>13. CASE OpenCompactionOutputFile
  <2>1. /\ files' = Over([n \in {nextFile} |-> {}], files) /\ bg' = "merge"
        /\ UNCHANGED <<imm, logs, manifest>>
    BY <1>13 DEF OpenCompactionOutputFile
  <2>2. /\ DOMAIN files' = {nextFile} \cup DOMAIN files
        /\ files'[nextFile] = {}
        /\ \A n \in DOMAIN files \ {nextFile} : files'[n] = files[n]
    <3>1. PICK f : f = [n \in {nextFile} |-> {}]
      OBVIOUS
    <3>2. DOMAIN f = {nextFile} /\ f[nextFile] = {}
      BY <3>1
    <3>3. /\ DOMAIN Over(f, files) = DOMAIN f \cup DOMAIN files
          /\ \A n \in DOMAIN f : Over(f, files)[n] = f[n]
          /\ \A n \in DOMAIN files \ DOMAIN f : Over(f, files)[n] = files[n]
      BY OverFacts
    <3> QED
      BY <3>1, <3>2, <3>3, <2>1
  <2>3. nextFile \notin DOMAIN files
    BY <1>1 DEF Below
  <2>4. FileRecords' \subseteq FileRecords
    BY <2>2, <2>3 DEF FileRecords
  <2>5. AllRecords' \subseteq AllRecords
    BY <2>1, <2>4, <1>5 DEF AllRecords, LogRecords
  <2>6. UpTo(InTables(manifest)', manifest'.last)
    <3>1. Numbers(manifest) \subseteq DOMAIN files
      BY DEF StructureInv, KeptInv, TablesKept
    <3>2. InTables(manifest)' \subseteq InTables(manifest)
      BY <3>1, <2>1, <2>2, <2>3, TablesFrame
    <3> QED
      BY <3>2, <2>1, <1>2, ApartShrinks
  <2>7. imm' \cup FileRecords' \subseteq imm \cup FileRecords
    BY <2>1, <2>4
  <2> QED
    BY <2>1, <2>5, <2>6, <2>7, <1>1, <1>4, <1>5, <1>6, SequenceFrame
<1>14. CASE FinishCompactionOutputFile
  <2>1. PICK f \in Shares : files' = Over(f, files)
    BY <1>14 DEF FinishCompactionOutputFile
  <2>2. /\ edit' = Edit({}, merge.out, Numbers(merge), logNumber, nextFile)
        /\ UNCHANGED <<imm, logs, manifest>>
    BY <1>14 DEF FinishCompactionOutputFile
  <2>3. /\ DOMAIN f = merge.out
        /\ \A n \in DOMAIN f : \A r \in f[n] : \E m \in Numbers(merge) : r \in files[m]
    BY SharesFacts DEF StructureInv
  <2>4. /\ DOMAIN files' = DOMAIN f \cup DOMAIN files
        /\ \A n \in DOMAIN f : files'[n] = f[n]
        /\ \A n \in DOMAIN files \ DOMAIN f : files'[n] = files[n]
    <3>1. /\ DOMAIN Over(f, files) = DOMAIN f \cup DOMAIN files
          /\ \A n \in DOMAIN f : Over(f, files)[n] = f[n]
          /\ \A n \in DOMAIN files \ DOMAIN f : Over(f, files)[n] = files[n]
      BY OverFacts
    <3> QED
      BY <2>1, <3>1
  <2>5. FileRecords' \subseteq FileRecords
    <3>1. ASSUME NEW n \in DOMAIN files' PROVE files'[n] \subseteq FileRecords
      <4>1. CASE n \in DOMAIN f
        <5>1. \A r \in f[n] : \E m \in DOMAIN files : r \in files[m]
          BY <4>1, <2>3, <1>1
        <5> QED
          BY <5>1, <4>1, <2>4 DEF FileRecords
      <4>2. CASE n \in DOMAIN files \ DOMAIN f
        BY <4>2, <2>4 DEF FileRecords
      <4> QED
        BY <3>1, <4>1, <4>2, <2>4
    <3>2. FileRecords' = UNION { files'[n] : n \in DOMAIN files' }
      BY DEF FileRecords
    <3> QED
      BY <3>1, <3>2
  <2>6. AllRecords' \subseteq AllRecords
    BY <2>2, <2>5, <1>5 DEF AllRecords, LogRecords
  <2>7. UpTo(InTables(manifest)', manifest'.last)
    <3>1. \A n \in Numbers(manifest) : n \notin merge.out
      BY <1>1
    <3>2. InTables(manifest)' \subseteq InTables(manifest)
      BY <3>1, <2>2, <2>3, <2>4, TablesFrame
    <3> QED
      BY <3>2, <2>2, <1>2, ApartShrinks
  <2>8. edit'.last = lastSequence
    BY <2>2 DEF Edit
  <2>9. SequenceEdit'
    <3>1. UpTo(FileRecords', lastSequence)
      BY <2>5, <1>7, ApartShrinks
    <3> QED
      BY <3>1, <2>8, <1>1, <1>5 DEF SequenceEdit, UpTo, LastOf
  <2>10. imm' \cup FileRecords' \subseteq imm \cup FileRecords
    BY <2>2, <2>5
  <2> QED
    BY <2>6, <2>7, <2>9, <2>10, <1>1, <1>4, <1>5, <1>6, SequenceFrame
<1>15. CASE ApplyFlush \/ InstallCompactionResults \/ ManifestFails
  <2>1. /\ bg \in {"apply", "install"} /\ bg' \notin {"apply", "install"}
        /\ manifest' \in {manifest, Logged(edit)}
    <3>1. CASE ApplyFlush
      BY <3>1, FlushedFacts DEF ApplyFlush
    <3>2. CASE InstallCompactionResults
      BY <3>2, IdleFacts DEF InstallCompactionResults
    <3>3. CASE ManifestFails
      BY <3>3, FlushedFacts, IdleFacts DEF ManifestFails
    <3> QED
      BY <3>1, <3>2, <3>3, <1>15
  <2>2. Shrunk
    <3>1. CASE ApplyFlush
      <4>1. imm' = {} /\ Swept(bgError, Live(current', merge, pending), edit.log)
        BY <3>1 DEF ApplyFlush
      <4> QED
        BY <4>1, <1>1, SweptFacts
    <3>2. CASE InstallCompactionResults
      <4>1. /\ imm' = imm
            /\ UNCHANGED <<files, logs>> \/ Swept(bgError, Live(current', NoMerge, pending'), logNumber')
        BY <3>2 DEF InstallCompactionResults
      <4>2. CASE UNCHANGED <<files, logs>>
        BY <4>1, <4>2
      <4>3. CASE Swept(bgError, Live(current', NoMerge, pending'), logNumber')
        BY <4>1, <4>3, <1>1, SweptFacts
      <4> QED
        BY <4>1, <4>2, <4>3
    <3>3. CASE ManifestFails
      <4>1. imm' = imm /\ UNCHANGED <<files, logs>>
        BY <3>3 DEF ManifestFails, Swept
      <4> QED
        BY <4>1
    <3> QED
      BY <3>1, <3>2, <3>3, <1>15
  <2>3. UpTo(InTables(manifest)', manifest'.last)
    <3>1. CASE manifest' = manifest
      BY <3>1, <2>2, <1>9
    <3>2. CASE manifest' = Logged(edit)
      <4>1. manifest'.last = edit.last
        BY <3>2 DEF Logged
      <4>2. InTables(manifest)' \subseteq FileRecords'
        BY DEF InTables, FileRecords
      <4>3. UpTo(FileRecords, edit.last) /\ FileRecords' \subseteq FileRecords
        BY <2>1, <2>2, <1>2, <1>8 DEF SequenceEdit
      <4> QED
        BY <4>1, <4>2, <4>3, ApartShrinks
    <3> QED
      BY <2>1, <3>1, <3>2
  <2> QED
    BY <2>1, <2>2, <2>3, <1>1, <1>4, <1>5, <1>6, <1>8, SequenceFrame
<1> QED
  BY <1>10, <1>11, <1>12, <1>13, <1>14, <1>15 DEF BackgroundStep

\* A crash leaves no more than there was.
LEMMA SequenceGone ==
  ASSUME StructureInv, SequenceInv, ProcessCrash \/ MachineCrash
  PROVE  SequenceInv'
<1> USE DEF calls, queue, tables, sets, thread, disk, fate
<1>1. DiskOK /\ Apart(Recoverable) /\ UpTo(InTables(manifest), manifest.last)
  BY DEF StructureInv, ContentInv, SequenceInv
<1>2. /\ UNCHANGED <<files, manifest>> /\ DOMAIN logs' = DOMAIN logs
      /\ \A n \in DOMAIN logs : Range(logs'[n].recs) \subseteq Range(logs[n].recs)
  <2>1. CASE ProcessCrash
    BY <2>1 DEF ProcessCrash
  <2>2. CASE MachineCrash
    BY <2>2, <1>1, DiskCut
  <2> QED
    BY <2>1, <2>2
<1>3. mode' = "down" /\ bg' = "idle"
  BY DEF ProcessCrash, MachineCrash, Gone
<1>4. InTables(manifest)' \subseteq InTables(manifest)
  BY <1>2, TablesFrame
<1>5. UNION { Range(logs'[n].recs) : n \in LogsNeeded' } \subseteq UNION { Range(logs[n].recs) : n \in LogsNeeded }
  BY <1>2 DEF LogsNeeded
<1>6. Recoverable' \subseteq Recoverable
  BY <1>4, <1>5 DEF Recoverable
<1>7. Apart(Recoverable)'
  <2>1. Apart(Recoverable')
    BY <1>1, <1>6, ApartShrinks
  <2> QED
    BY <2>1 DEF Apart, LastOf
<1>8. UpTo(InTables(manifest), manifest.last)'
  <2>1. UpTo(InTables(manifest)', manifest'.last)
    BY <1>1, <1>2, <1>4, ApartShrinks
  <2> QED
    BY <2>1 DEF UpTo, LastOf
<1> QED
  BY <1>3, <1>7, <1>8 DEF SequenceInv

\* Recovery counts from the highest number it finds.
LEMMA SequenceRecover ==
  ASSUME StructureInv, SequenceInv, Recover
  PROVE  SequenceInv'
<1> USE DEF calls, queue, tables, sets, thread, disk, fate
<1>1. /\ DiskOK /\ Apart(Recoverable) /\ UpTo(InTables(manifest), manifest.last)
      /\ Numbers(manifest) \subseteq DOMAIN files /\ bg = "idle"
      /\ Below(Numbers(manifest), manifest.next) /\ manifest.log < manifest.next
  BY DEF StructureInv, ContentInv, SequenceInv, Recover, KeptInv, TablesKept, ThreadInv, NumbersInv
<1>2. PICK r : /\ \E k \in Nat : ReplayedTo(r, k) /\ \A n \in DOMAIN logs : n <= k
               /\ files' = Over(r.tabs, files)
               /\ logs' = Over([n \in {r.next} |-> EmptyLog], logs)
               /\ lastSequence' = r.last
               /\ edit' = [add0 |-> DOMAIN r.tabs, add1 |-> {}, del |-> {}, log |-> r.next,
                           last |-> r.last, next |-> r.next + 1]
               /\ \A n \in LogsNeeded : n < r.next /\ \A c \in Range(logs[n].recs) : LastOf(c) <= r.last
  BY <1>1, RecoverFacts
<1>3. mode' = "replayed" /\ bg' = "idle" /\ manifest' = manifest
  BY <1>1 DEF Recover
<1>4. /\ r.next \in Nat /\ manifest.next < r.next /\ manifest.next \in Nat /\ manifest.log \in Nat
      /\ r.last \in Nat /\ manifest.last \in Nat /\ manifest.last <= r.last
      /\ \A t \in DOMAIN r.tabs : /\ t \in Nat /\ manifest.next < t
                                  /\ \E n \in LogsNeeded : r.tabs[t] = Range(logs[n].recs)
  BY <1>1, <1>2 DEF ReplayedTo, DiskOK
<1>5. edit'.add0 = DOMAIN r.tabs /\ edit'.last = r.last
  BY <1>2
<1>6. /\ DOMAIN files' = DOMAIN r.tabs \cup DOMAIN files
      /\ \A n \in DOMAIN r.tabs : files'[n] = r.tabs[n]
      /\ \A n \in DOMAIN files \ DOMAIN r.tabs : files'[n] = files[n]
  <2>1. PICK f : f = r.tabs
    OBVIOUS
  <2>2. /\ DOMAIN Over(f, files) = DOMAIN f \cup DOMAIN files
        /\ \A n \in DOMAIN f : Over(f, files)[n] = f[n]
        /\ \A n \in DOMAIN files \ DOMAIN f : Over(f, files)[n] = files[n]
    BY OverFacts
  <2> QED
    BY <1>2, <2>1, <2>2
<1>7. /\ DOMAIN logs' = DOMAIN logs \cup {r.next} /\ logs'[r.next] = EmptyLog
      /\ \A n \in DOMAIN logs \ {r.next} : logs'[n] = logs[n]
  <2>1. PICK f : f = [n \in {r.next} |-> EmptyLog]
    OBVIOUS
  <2>2. DOMAIN f = {r.next} /\ f[r.next] = EmptyLog
    BY <2>1
  <2>3. /\ DOMAIN Over(f, logs) = DOMAIN f \cup DOMAIN logs
        /\ \A n \in DOMAIN f : Over(f, logs)[n] = f[n]
        /\ \A n \in DOMAIN logs \ DOMAIN f : Over(f, logs)[n] = logs[n]
    BY OverFacts
  <2> QED
    BY <1>2, <2>1, <2>2, <2>3
<1>8. InTables(manifest)' = InTables(manifest)
  <2>1. ASSUME NEW n \in Numbers(manifest)
        PROVE  n \in DOMAIN files /\ n \in DOMAIN files' /\ files'[n] = files[n]
    <3>1. n \in DOMAIN files /\ n \in Nat /\ n < manifest.next
      BY <1>1 DEF DiskOK, Below
    <3>2. n \notin DOMAIN r.tabs
      BY <3>1, <1>4
    <3> QED
      BY <3>1, <3>2, <1>6
  <2>2. Numbers(manifest)' = Numbers(manifest)
    BY <1>3 DEF Numbers
  <2>3. /\ InTables(manifest) = UNION { files[n] : n \in Numbers(manifest) \cap DOMAIN files }
        /\ InTables(manifest)' = UNION { files'[n] : n \in Numbers(manifest)' \cap DOMAIN files' }
    BY DEF InTables
  <2> QED
    BY <2>1, <2>2, <2>3
<1>9. \A n \in LogsNeeded : n \in LogsNeeded' /\ logs'[n] = logs[n]
  <2> SUFFICES ASSUME NEW n \in LogsNeeded PROVE n \in LogsNeeded' /\ logs'[n] = logs[n]
    OBVIOUS
  <2>1. n \in DOMAIN logs /\ n >= manifest.log /\ n < r.next /\ n \in Nat
    BY <1>1, <1>2 DEF LogsNeeded, DiskOK
  <2>2. n # r.next
    BY <2>1, <1>4
  <2> QED
    BY <2>1, <2>2, <1>3, <1>7 DEF LogsNeeded
<1>10. \A n \in LogsNeeded' : n \in LogsNeeded \/ Range(logs'[n].recs) = {}
  <2>1. Range(EmptyLog.recs) = {}
    BY EmptySeq, SequenceFacts DEF EmptyLog, Range
  <2> QED
    BY <2>1, <1>3, <1>7 DEF LogsNeeded
<1>11. UNION { Range(logs'[n].recs) : n \in LogsNeeded' } = UNION { Range(logs[n].recs) : n \in LogsNeeded }
  BY <1>9, <1>10
<1>12. Recoverable' = Recoverable
  BY <1>8, <1>11 DEF Recoverable
<1>13. UpTo(Recoverable, r.last)
  <2>1. \A c \in InTables(manifest) : LastOf(c) \in Nat /\ LastOf(c) <= r.last
    <3>1. InTables(manifest) \subseteq Records
      <4>1. \A n \in DOMAIN files : files[n] \subseteq Records
        BY <1>1 DEF DiskOK
      <4> QED
        BY <4>1 DEF InTables
    <3>2. \A c \in InTables(manifest) : LastOf(c) \in Nat
      BY <3>1, RecordFacts
    <3> QED
      BY <3>2, <1>1, <1>4 DEF UpTo
  <2>2. \A c \in UNION { Range(logs[n].recs) : n \in LogsNeeded } : LastOf(c) <= r.last
    BY <1>2
  <2> QED
    BY <2>1, <2>2 DEF UpTo, Recoverable
<1>14. \A n \in edit'.add0 : files'[n] \subseteq Recoverable
  <2> SUFFICES ASSUME NEW n \in DOMAIN r.tabs PROVE files'[n] \subseteq Recoverable
    BY <1>5
  <2>1. PICK m \in LogsNeeded : r.tabs[n] = Range(logs[m].recs)
    BY <1>4
  <2> QED
    BY <2>1, <1>6 DEF Recoverable
<1>15. SequenceReplayed'
  BY <1>2, <1>5, <1>12, <1>13, <1>14 DEF SequenceReplayed, UpTo, LastOf
<1>16. Apart(Recoverable)' /\ UpTo(InTables(manifest), manifest.last)'
  BY <1>1, <1>3, <1>8, <1>12 DEF Apart, UpTo, LastOf
<1> QED
  BY <1>3, <1>15, <1>16 DEF SequenceInv

LEMMA SequenceOpened ==
  ASSUME StructureInv, SequenceInv, SetCurrentFile \/ Opened
  PROVE  SequenceInv'
<1> USE DEF calls, queue, tables, sets, thread, disk, fate
<1>1. /\ DiskOK /\ edit \in Edits /\ bg = "idle" /\ mem = {} /\ ~hasImm /\ imm = {}
      /\ pending = {} /\ held = {} /\ merge = NoMerge /\ ~bgError
      /\ manifest.l0 = current.l0 /\ manifest.l1 = current.l1
      /\ stage = "queued"
  <2>1. mode \in {"replayed", "installed"}
    BY DEF SetCurrentFile, Opened
  <2>2. QueueInv /\ ContentInv /\ ThreadInv
    BY DEF StructureInv
  <2>3. stage = "queued"
    BY <2>1, <2>2 DEF QueueInv
  <2>4. /\ bg = "idle" /\ mem = {} /\ ~hasImm /\ pending = {} /\ held = {} /\ merge = NoMerge /\ ~bgError
        /\ manifest.l0 = current.l0 /\ manifest.l1 = current.l1
    BY <2>1, <2>2, EditFacts DEF ThreadInv
  <2> QED
    BY <2>2, <2>3, <2>4 DEF ContentInv
<1>2. Apart(Recoverable) /\ UpTo(InTables(manifest), manifest.last)
  BY DEF SequenceInv
<1>3. CASE SetCurrentFile
  <2>1. /\ manifest' = Logged(edit) /\ mode = "replayed" /\ mode' = "installed" /\ bg' = bg
        /\ UNCHANGED <<lastSequence, logs, files>>
    BY <1>3 DEF SetCurrentFile
  <2>2. /\ UpTo(Recoverable, edit.last) /\ edit.last = lastSequence
        /\ \A n \in edit.add0 : files[n] \subseteq Recoverable
    BY <2>1 DEF SequenceInv, SequenceReplayed
  <2>3. edit.add1 = {} /\ manifest.log <= edit.log /\ manifest.log \in Nat /\ edit.log \in Nat
    BY <2>1, <1>1 DEF StructureInv, NumbersInv, DiskOK, Edits
  <2>4. /\ manifest'.l0 = (manifest.l0 \ edit.del) \cup edit.add0
        /\ manifest'.l1 = (manifest.l1 \ edit.del) \cup edit.add1
        /\ manifest'.log = edit.log /\ manifest'.last = edit.last
    BY <2>1, <1>1, LoggedFacts
  <2>5. InTables(manifest)' \subseteq Recoverable
    <3>1. Numbers(manifest') \subseteq Numbers(manifest) \cup edit.add0
      BY <2>3, <2>4, AppliedNumbers
    <3>2. \A n \in Numbers(manifest) \cap DOMAIN files : files[n] \subseteq Recoverable
      BY DEF Recoverable, InTables
    <3>3. \A n \in Numbers(manifest') \cap DOMAIN files : files[n] \subseteq Recoverable
      BY <3>1, <3>2, <2>2
    <3>4. InTables(manifest)' = UNION { files[n] : n \in Numbers(manifest') \cap DOMAIN files }
      BY <2>1 DEF InTables, Numbers
    <3> QED
      BY <3>3, <3>4
  <2>6. LogsNeeded' \subseteq LogsNeeded
    <3> SUFFICES ASSUME NEW n \in LogsNeeded' PROVE n \in LogsNeeded
      OBVIOUS
    <3>1. n \in DOMAIN logs /\ n >= edit.log
      BY <2>1, <2>4 DEF LogsNeeded
    <3>2. n \in Nat
      BY <3>1, <1>1 DEF DiskOK
    <3>3. n >= manifest.log
      BY <3>1, <3>2, <2>3
    <3> QED
      BY <3>1, <3>3 DEF LogsNeeded
  <2>7. Recoverable' \subseteq Recoverable
    <3>1. UNION { Range(logs'[n].recs) : n \in LogsNeeded' } \subseteq UNION { Range(logs[n].recs) : n \in LogsNeeded }
      BY <2>1, <2>6
    <3> QED
      BY <3>1, <2>5 DEF Recoverable
  <2>8. Apart(Recoverable') /\ UpTo(Recoverable', lastSequence)
    BY <1>2, <2>2, <2>7, ApartShrinks
  <2>9. UpTo(InTables(manifest)', edit.last)
    BY <2>2, <2>5, ApartShrinks
  <2>10. Apart(Recoverable)' /\ UpTo(Recoverable, lastSequence)' /\ UpTo(InTables(manifest), manifest.last)'
    BY <2>1, <2>4, <2>8, <2>9 DEF Apart, UpTo, LastOf
  <2> QED
    BY <2>1, <2>10, <1>1 DEF SequenceInv
<1>4. CASE Opened
  <2>1. /\ mode = "installed" /\ mode' = "up" /\ Swept(FALSE, Live(current, NoMerge, pending), logNumber)
        /\ bg' = Scheduled(bg, FALSE, FALSE, current)
        /\ UNCHANGED <<mem, imm, stage, lastSequence, manifest>>
    BY <1>4 DEF Opened
  <2>2. bg' \in {"idle", "scheduled"}
    BY <2>1, <1>1, ScheduledFacts
  <2>3. UpTo(Recoverable, lastSequence)
    BY <2>1 DEF SequenceInv
  <2>4. logNumber = manifest.log
    BY <2>1 DEF StructureInv, NumbersInv
  <2>5. Live(current, NoMerge, pending) = Numbers(manifest)
    BY <1>1, EditFacts DEF Live, Numbers
  <2>6. /\ files' = Restrict(files, DOMAIN files \cap Numbers(manifest))
        /\ logs' = Restrict(logs, { n \in DOMAIN logs : n >= manifest.log })
    BY <2>1, <2>4, <2>5 DEF Swept
  <2>7. /\ DOMAIN files' = DOMAIN files \cap Numbers(manifest) /\ \A n \in DOMAIN files' : files'[n] = files[n]
        /\ DOMAIN logs' = LogsNeeded /\ \A n \in DOMAIN logs' : logs'[n] = logs[n]
    BY <2>6, RestrictFacts DEF LogsNeeded
  <2>8. FileRecords' \subseteq InTables(manifest)
    BY <2>7 DEF FileRecords, InTables
  <2>9. LogRecords' \subseteq UNION { Range(logs[n].recs) : n \in LogsNeeded }
    BY <2>7 DEF LogRecords
  <2>10. AllRecords' \subseteq Recoverable
    BY <2>1, <2>8, <2>9, <1>1 DEF AllRecords, Recoverable
  <2>11. Apart(AllRecords') /\ UpTo(AllRecords', lastSequence)
    BY <2>3, <2>10, <1>2, ApartShrinks
  <2>12. Fresh' = {} /\ mem' = {} /\ imm' \cup FileRecords' \subseteq AllRecords'
    BY <2>1, <1>1 DEF Fresh, AllRecords
  <2>13. UpTo(imm' \cup FileRecords', lastSequence) /\ UpTo(mem', lastSequence)
    BY <2>11, <2>12, ApartShrinks DEF UpTo
  <2>14. SequenceUp'
    BY <2>1, <2>11, <2>12, <2>13 DEF SequenceUp, Apart, UpTo, LastOf
  <2>15. Apart(Recoverable)'
    <3>1. Recoverable' \subseteq AllRecords'
      BY RecoverableFacts
    <3> QED
      BY <3>1, <2>11, ApartShrinks DEF Apart, LastOf
  <2>16. UpTo(InTables(manifest), manifest.last)'
    <3>1. InTables(manifest)' \subseteq InTables(manifest)
      BY <2>1, <2>7, TablesFrame
    <3>2. UpTo(InTables(manifest)', manifest'.last)
      BY <3>1, <2>1, <1>2, ApartShrinks
    <3> QED
      BY <3>2 DEF UpTo, LastOf
  <2> QED
    BY <2>1, <2>2, <2>14, <2>15, <2>16 DEF SequenceInv
<1> QED
  BY <1>3, <1>4

\* A call that joins the queue changes nothing for the record on its way.
LEMMA RecordStays ==
  ASSUME StructureInv, NEW k \in Kind, Write(k)
  PROVE  Fresh' = Fresh
<1>1. /\ kind' = Append(kind, k) /\ writers' = Append(writers, Len(kind) + 1)
      /\ stage' = stage /\ group' = group /\ lastSequence' = lastSequence
  BY DEF Write, tables, sets, thread, disk, fate
<1>2. QueueInv /\ GroupInv
  BY DEF StructureInv
<1>3. CASE stage \notin {"sync", "insert", "inserted"}
  BY <1>1, <1>3 DEF Fresh
<1>4. CASE stage \in {"sync", "insert", "inserted"}
  <2>1. group \in 1..Len(writers)
    BY <1>2, <1>4 DEF GroupInv
  <2>2. kind \in Seq(Kind) /\ writers \in Seq(1..Len(kind)) /\ Len(kind) \in Nat /\ Len(writers) \in Nat
    BY <1>2, SequenceFacts DEF QueueInv
  <2>3. \A i \in 1..Len(kind) : kind'[i] = kind[i]
    BY <1>1, <2>2, AppendFacts
  <2>4. /\ writers' \in Seq(1..Len(kind) + 1) /\ Len(writers') = Len(writers) + 1
        /\ \A i \in 1..Len(writers) : writers'[i] = writers[i]
    <3>1. 1..Len(kind) \subseteq 1..Len(kind) + 1 /\ Len(kind) + 1 \in 1..Len(kind) + 1
      BY <2>2
    <3>2. writers \in Seq(1..Len(kind) + 1)
      BY <2>2, <3>1
    <3> QED
      BY <3>1, <3>2, <1>1, AppendFacts
  <2>5. /\ \A a : a \in Range(SubSeq(writers, 1, group)) <=> \E i \in 1..group : writers[i] = a
        /\ \A a : a \in Range(SubSeq(writers', 1, group)) <=> \E i \in 1..group : writers'[i] = a
    <3>1. group \in 0..Len(writers) /\ group \in 0..Len(writers')
      BY <2>1, <2>2, <2>4
    <3>2. \A a : a \in Range(SubSeq(writers, 1, group)) <=> \E i \in 1..group : writers[i] = a
      BY <2>2, <3>1, FrontRange
    <3>3. PICK w : w = writers'
      OBVIOUS
    <3>4. w \in Seq(1..Len(kind) + 1) /\ group \in 0..Len(w)
      BY <2>4, <3>1, <3>3
    <3>5. \A a : a \in Range(SubSeq(w, 1, group)) <=> \E i \in 1..group : w[i] = a
      BY <3>4, FrontRange
    <3> QED
      BY <3>2, <3>3, <3>5
  <2>6. Range(SubSeq(writers', 1, group)) = Range(SubSeq(writers, 1, group))
    <3>1. \A i \in 1..group : i \in 1..Len(writers)
      BY <2>1, <2>2
    <3>2. \A i \in 1..group : writers'[i] = writers[i]
      BY <3>1, <2>4
    <3>3. \A a : a \in Range(SubSeq(writers', 1, group)) <=> a \in Range(SubSeq(writers, 1, group))
      BY <3>2, <2>5
    <3> QED
      BY <3>3
  <2>7. \A c \in Range(SubSeq(writers, 1, group)) : c \in 1..Len(kind)
    BY <2>1, <2>2, <2>5, SequenceFacts
  <2>8. Batches' = Batches
    BY <1>1, <2>3, <2>6, <2>7 DEF Batches
  <2> QED
    BY <1>1, <2>8 DEF Fresh, Record
<1> QED
  BY <1>3, <1>4

LEMMA SequenceElse ==
  ASSUME StructureInv, SequenceInv,
         \/ \E k \in Kind : Write(k)
         \/ NewIterator \/ DeleteIterator
         \/ UNCHANGED vars
  PROVE  SequenceInv'
<1> USE DEF calls, queue, tables, sets, thread, disk, fate
<1>1. UNCHANGED <<mem, imm, lastSequence, logs, files, manifest, mode, bg, edit, stage>>
  BY DEF Write, NewIterator, DeleteIterator, vars
<1>2. Fresh' = Fresh
  <2>1. CASE \E k \in Kind : Write(k)
    BY <2>1, RecordStays
  <2>2. CASE NewIterator \/ DeleteIterator \/ UNCHANGED vars
    <3>1. UNCHANGED <<kind, writers, stage, group, lastSequence>>
      BY <2>2 DEF NewIterator, DeleteIterator, vars
    <3> QED
      BY <3>1 DEF Fresh, Record, Batches
  <2> QED
    BY <2>1, <2>2
<1>3. FileRecords' = FileRecords /\ LogRecords' = LogRecords
  BY <1>1 DEF FileRecords, LogRecords
<1>4. AllRecords' = AllRecords
  BY <1>1, <1>3 DEF AllRecords
<1>5. InTables(manifest)' = InTables(manifest) /\ LogsNeeded' = LogsNeeded
  BY <1>1 DEF InTables, Numbers, LogsNeeded
<1>6. Recoverable' = Recoverable
  BY <1>1, <1>5 DEF Recoverable
<1>7. SequenceUp' = SequenceUp
  BY <1>1, <1>2, <1>3, <1>4 DEF SequenceUp, Apart, UpTo, LastOf
<1>8. SequenceEdit' = SequenceEdit /\ SequenceReplayed' = SequenceReplayed
  BY <1>1, <1>3, <1>6 DEF SequenceEdit, SequenceReplayed, UpTo, LastOf
<1>9. Apart(Recoverable)' /\ UpTo(InTables(manifest), manifest.last)'
  BY <1>1, <1>5, <1>6 DEF SequenceInv, Apart, UpTo, LastOf
<1>10. mode = "installed" => UpTo(Recoverable, lastSequence)'
  BY <1>1, <1>6 DEF SequenceInv, UpTo, LastOf
<1> QED
  BY <1>1, <1>7, <1>8, <1>9, <1>10 DEF SequenceInv

LEMMA SequenceStart == Init => SequenceInv
<1>1. SUFFICES ASSUME Init PROVE SequenceInv
  OBVIOUS
<1>2. /\ mem = {} /\ imm = {} /\ mode = "up" /\ bg = "idle" /\ DOMAIN files = {}
      /\ logs = [n \in {1} |-> EmptyLog]
  <2>1. files = <<>>
    BY <1>1 DEF Init
  <2> QED
    BY <1>1, <2>1 DEF Init
<1>3. Range(EmptyLog.recs) = {}
  BY EmptySeq, SequenceFacts DEF EmptyLog, Range
<1>4. LogRecords = {} /\ FileRecords = {}
  BY <1>2, <1>3 DEF LogRecords, FileRecords
<1>5. AllRecords = {} /\ Recoverable = {} /\ InTables(manifest) = {}
  BY <1>2, <1>4, RecoverableFacts DEF AllRecords
<1>6. SequenceUp
  BY <1>2, <1>4, <1>5 DEF SequenceUp, Apart, UpTo
<1> QED
  BY <1>2, <1>5, <1>6 DEF SequenceInv, Apart, UpTo

LEMMA SequenceStep ==
  ASSUME StructureInv, SequenceInv, [Next]_vars
  PROVE  SequenceInv'
BY SequenceWriter, SequenceBackground, SequenceGone, SequenceRecover, SequenceOpened, SequenceElse
   DEF Next, OpenStep

(***************************************************************************)
(* A sequence number is given out once: no two records, in memory or found *)
(* by a recovery, share one, whatever fails, crashes or is replayed, and   *)
(* also when a crash brings back records that nobody counted.              *)
(***************************************************************************)
THEOREM SequenceOnceTheorem == Spec => []SequenceOnce
<1>1. SequenceInv /\ StructureInv => SequenceOnce
  <2>1. SUFFICES ASSUME SequenceInv, StructureInv PROVE Apart(mem \cup imm \cup Recoverable)
    BY DEF SequenceOnce, Apart
  <2>2. CASE mode = "up"
    <3>1. Apart(AllRecords)
      BY <2>1, <2>2 DEF SequenceInv, SequenceUp
    <3>2. mem \cup imm \cup Recoverable \subseteq AllRecords
      BY RecoverableFacts DEF AllRecords
    <3> QED
      BY <3>1, <3>2, ApartShrinks
  <2>3. CASE mode # "up"
    <3>1. mem = {} /\ ~hasImm
      BY <2>1, <2>3 DEF StructureInv, ThreadInv
    <3>2. imm = {}
      BY <2>1, <3>1 DEF StructureInv, ContentInv
    <3>3. Apart(Recoverable) /\ mem \cup imm \cup Recoverable = Recoverable
      BY <2>1, <3>1, <3>2 DEF SequenceInv
    <3> QED
      BY <3>3
  <2> QED
    BY <2>2, <2>3
<1> QED
  BY <1>1, StructureStart, StructureStep, SequenceStart, SequenceStep, PTL DEF Spec

-----------------------------------------------------------------------------
(***************************************************************************)
(* What the abstract variables stand for, and the abstract steps.          *)
(***************************************************************************)
Want(c) == [n |-> c, sync |-> kind[c] = "sync"]
CallsOf(recs) == UNION { r.ws : r \in recs }

\* The calls with a batch that no crash has ended.
Alive == { c \in DOMAIN kind : answer[c] # "dead" /\ kind[c] # "force" }

VisibleNow == WritesOf(Visible)
AskedNow == VisibleNow \cup { Want(c) : c \in Alive }
SafeNow == { w \in WritesOf(Safe) : answer[w.n] # "error" }

\* Nothing changes for whoever only knows the promises.
LEMMA StoreVars ==
  UNCHANGED <<AskedNow, VisibleNow, SafeNow, power>> => UNCHANGED Promises!vars
BY DEF Promises!vars, AskedNow, VisibleNow, SafeNow, Alive, Want, WritesOf

\* A write is asked for.
LEMMA StoreAsk ==
  ASSUME NEW w \in [n : Call, sync : BOOLEAN], w \notin AskedNow,
         AskedNow' = AskedNow \cup {w}, UNCHANGED <<VisibleNow, SafeNow, power>>
  PROVE  Promises!Next
BY DEF Promises!Next, Promises!Ask, AskedNow, VisibleNow, SafeNow, Alive, Want, WritesOf

\* Some writes reach the disk.
LEMMA StoreSecure ==
  ASSUME NEW S \in SUBSET AskedNow, SafeNow' = SafeNow \cup S,
         UNCHANGED <<AskedNow, VisibleNow, power>>
  PROVE  Promises!Next
BY DEF Promises!Next, Promises!Secure, AskedNow, VisibleNow, SafeNow, Alive, Want, WritesOf

\* A group of writes takes effect.
LEMMA StoreCommit ==
  ASSUME NEW G \in SUBSET AskedNow, { w \in G : w.sync } \subseteq SafeNow,
         VisibleNow' = VisibleNow \cup G,
         UNCHANGED <<AskedNow, SafeNow, power>>
  PROVE  Promises!Next
BY DEF Promises!Next, Promises!Commit, AskedNow, VisibleNow, SafeNow, Alive, Want, WritesOf

\* A crash, of the process or of the machine.
LEMMA StoreCrash ==
  ASSUME AskedNow' = VisibleNow', VisibleNow' \subseteq AskedNow,
         SafeNow' \subseteq VisibleNow', SafeNow \subseteq SafeNow',
         \/ power' = power /\ VisibleNow \subseteq VisibleNow'
         \/ power' = ~power
  PROVE  Promises!Next
<1>1. PICK kept : kept = VisibleNow'
  OBVIOUS
<1>2. /\ kept \in SUBSET AskedNow /\ SafeNow \subseteq kept
      /\ AskedNow' = kept /\ VisibleNow' = kept
      /\ SafeNow' \in SUBSET kept /\ SafeNow \subseteq SafeNow'
  BY <1>1
<1>3. CASE power' = power /\ VisibleNow \subseteq VisibleNow'
  <2>1. Promises!ProcessCrash
    BY <1>1, <1>2, <1>3
       DEF Promises!ProcessCrash, Promises!Crash, AskedNow, VisibleNow, SafeNow, Alive, Want, WritesOf
  <2> QED
    BY <2>1 DEF Promises!Next
<1>4. CASE power' = ~power
  <2>1. Promises!MachineCrash
    BY <1>1, <1>2, <1>4
       DEF Promises!MachineCrash, Promises!Crash, AskedNow, VisibleNow, SafeNow, Alive, Want, WritesOf
  <2> QED
    BY <2>1 DEF Promises!Next
<1> QED
  BY <1>3, <1>4

-----------------------------------------------------------------------------
(***************************************************************************)
(* Writes are known by the numbers of their calls.                         *)
(***************************************************************************)
\* The calls that are on the disk for good.
KeptCalls == { c \in CallsOf(Safe) : answer[c] # "error" }

\* The three sets of writes, by calls.
LEMMA ByCalls ==
  /\ VisibleNow = { Want(c) : c \in CallsOf(Visible) }
  /\ AskedNow = { Want(c) : c \in Alive \cup CallsOf(Visible) }
  /\ SafeNow = { Want(c) : c \in KeptCalls }
<1>1. VisibleNow = { Want(c) : c \in CallsOf(Visible) }
  BY DEF VisibleNow, WritesOf, CallsOf, Want
<1>2. AskedNow = { Want(c) : c \in Alive \cup CallsOf(Visible) }
  BY <1>1 DEF AskedNow
<1>3. WritesOf(Safe) = { Want(c) : c \in CallsOf(Safe) } /\ \A c : Want(c).n = c
  BY DEF WritesOf, CallsOf, Want
<1>4. SafeNow = { Want(c) : c \in KeptCalls }
  <2>1. ASSUME NEW w \in SafeNow PROVE w \in { Want(c) : c \in KeptCalls }
    BY <2>1, <1>3 DEF SafeNow, KeptCalls
  <2>2. ASSUME NEW c \in KeptCalls PROVE Want(c) \in SafeNow
    BY <2>2, <1>3 DEF SafeNow, KeptCalls
  <2> QED
    BY <2>1, <2>2
<1> QED
  BY <1>1, <1>2, <1>4

\* The same after a step in which nobody joins the queue.
LEMMA ByCallsNext ==
  ASSUME kind' = kind
  PROVE  /\ VisibleNow' = { Want(c) : c \in CallsOf(Visible)' }
         /\ AskedNow' = { Want(c) : c \in Alive' \cup CallsOf(Visible)' }
         /\ SafeNow' = { Want(c) : c \in KeptCalls' }
<1>1. \A c : Want(c)' = Want(c)
  BY DEF Want
<1>2. VisibleNow' = { Want(c) : c \in CallsOf(Visible)' }
  BY DEF VisibleNow, WritesOf, CallsOf, Want
<1>3. AskedNow' = { Want(c) : c \in Alive' \cup CallsOf(Visible)' }
  <2>1. AskedNow' = VisibleNow' \cup { Want(c)' : c \in Alive' }
    BY DEF AskedNow
  <2>2. { Want(c)' : c \in Alive' } = { Want(c) : c \in Alive' }
    BY <1>1
  <2> QED
    BY <1>2, <2>1, <2>2
<1>4. WritesOf(Safe)' = { Want(c) : c \in CallsOf(Safe)' } /\ \A c : Want(c).n = c
  BY DEF WritesOf, CallsOf, Want
<1>5. SafeNow' = { Want(c) : c \in KeptCalls' }
  <2>1. ASSUME NEW w \in SafeNow' PROVE w \in { Want(c) : c \in KeptCalls' }
    BY <2>1, <1>4 DEF SafeNow, KeptCalls
  <2>2. ASSUME NEW c \in KeptCalls' PROVE Want(c) \in SafeNow'
    BY <2>2, <1>4 DEF SafeNow, KeptCalls
  <2> QED
    BY <2>1, <2>2
<1> QED
  BY <1>2, <1>3, <1>5

\* Steps that nobody sees: at most, something reaches the disk.
LEMMA Unseen ==
  ASSUME kind' = kind, Alive' = Alive, CallsOf(Visible)' = CallsOf(Visible), power' = power,
         KeptCalls \subseteq KeptCalls',
         KeptCalls' \subseteq KeptCalls \cup Alive \cup CallsOf(Visible)
  PROVE  Promises!Next
<1>1. PICK S : S = { Want(c) : c \in KeptCalls' \ KeptCalls }
  OBVIOUS
<1>2. S \in SUBSET AskedNow
  <2>1. KeptCalls' \ KeptCalls \subseteq Alive \cup CallsOf(Visible)
    OBVIOUS
  <2> QED
    BY <1>1, <2>1, ByCalls
<1>3. SafeNow' = SafeNow \cup S
  <2>1. KeptCalls' = KeptCalls \cup (KeptCalls' \ KeptCalls)
    OBVIOUS
  <2>2. { Want(c) : c \in KeptCalls' } = { Want(c) : c \in KeptCalls } \cup { Want(c) : c \in KeptCalls' \ KeptCalls }
    BY <2>1
  <2> QED
    BY <1>1, <2>2, ByCalls, ByCallsNext
<1>4. AskedNow' = AskedNow /\ VisibleNow' = VisibleNow
  BY ByCalls, ByCallsNext
<1> QED
  BY <1>2, <1>3, <1>4, StoreSecure

-----------------------------------------------------------------------------
(***************************************************************************)
(* What the steps do to the logs.                                          *)
(***************************************************************************)
Log(n) == Range(logs[n].recs)
Synced(n) == Range(SubSeq(logs[n].recs, 1, logs[n].synced))

\* What a recovery finds, log by log.
LEMMA NeededFacts ==
  /\ Recoverable = InTables(manifest) \cup UNION { Log(n) : n \in LogsNeeded }
  /\ Safe = InTables(manifest) \cup UNION { Synced(n) : n \in LogsNeeded }
  /\ LogRecords = UNION { Log(n) : n \in DOMAIN logs }
BY DEF Recoverable, Safe, LogRecords, Log, Synced

\* A log holds records, and what is synced is part of it.
LEMMA LogFacts ==
  ASSUME DiskOK, NEW n \in DOMAIN logs
  PROVE  /\ logs[n].recs \in Seq(Records) /\ logs[n].synced \in 0..Len(logs[n].recs)
         /\ Synced(n) \subseteq Log(n) /\ Log(n) \subseteq Records
<1>1. logs[n].recs \in Seq(Records) /\ logs[n].synced \in 0..Len(logs[n].recs)
  BY SequenceFacts DEF DiskOK
<1>2. \A a : a \in Synced(n) <=> \E i \in 1..logs[n].synced : logs[n].recs[i] = a
  BY <1>1, FrontRange DEF Synced
<1>3. /\ \A a : a \in Log(n) <=> \E i \in 1..Len(logs[n].recs) : logs[n].recs[i] = a
      /\ Log(n) \subseteq Records
  BY <1>1, RangeFacts DEF Log
<1>4. 1..logs[n].synced \subseteq 1..Len(logs[n].recs)
  BY <1>1, SequenceFacts
<1> QED
  BY <1>1, <1>2, <1>3, <1>4

\* A new log has nothing in it.
LEMMA EmptyLogFacts ==
  Range(EmptyLog.recs) = {} /\ Range(SubSeq(EmptyLog.recs, 1, EmptyLog.synced)) = {}
<1>1. PICK e : e = EmptyLog.recs
  OBVIOUS
<1>2. e \in Seq(Records) /\ Len(e) = 0 /\ EmptyLog.synced = 0
  BY <1>1, EmptySeq DEF EmptyLog
<1>3. Range(e) = {}
  <2>1. \A a : a \in Range(e) <=> \E i \in 1..Len(e) : e[i] = a
    BY <1>2, RangeFacts
  <2>2. \A a : a \notin Range(e)
    BY <2>1, <1>2
  <2> QED
    BY <2>2
<1>4. Range(SubSeq(e, 1, 0)) = {}
  <2>1. \A a : a \in Range(SubSeq(e, 1, 0)) <=> \E i \in 1..0 : e[i] = a
    <3>1. 0 \in 0..Len(e)
      BY <1>2
    <3> QED
      BY <1>2, <3>1, FrontRange
  <2>2. \A a : a \notin Range(SubSeq(e, 1, 0))
    BY <2>1
  <2> QED
    BY <2>2
<1> QED
  BY <1>1, <1>2, <1>3, <1>4

\* A new log.
LEMMA NewLog ==
  ASSUME NEW m, logs' = Over([n \in {m} |-> EmptyLog], logs)
  PROVE  /\ DOMAIN logs' = DOMAIN logs \cup {m}
         /\ Log(m)' = {} /\ Synced(m)' = {}
         /\ \A n \in DOMAIN logs \ {m} : logs'[n] = logs[n] /\ Log(n)' = Log(n) /\ Synced(n)' = Synced(n)
<1>1. PICK f : f = [n \in {m} |-> EmptyLog]
  OBVIOUS
<1>2. DOMAIN f = {m} /\ f[m] = EmptyLog
  BY <1>1
<1>3. /\ DOMAIN Over(f, logs) = DOMAIN f \cup DOMAIN logs
      /\ \A n \in DOMAIN f : Over(f, logs)[n] = f[n]
      /\ \A n \in DOMAIN logs \ DOMAIN f : Over(f, logs)[n] = logs[n]
  BY OverFacts
<1>4. /\ DOMAIN logs' = DOMAIN logs \cup {m} /\ logs'[m] = EmptyLog
      /\ \A n \in DOMAIN logs \ {m} : logs'[n] = logs[n]
  BY <1>1, <1>2, <1>3
<1> QED
  BY <1>4, EmptyLogFacts DEF Log, Synced

\* A record is appended.
LEMMA LogAppended ==
  ASSUME DiskOK, logfile \in DOMAIN logs, NEW r \in Records,
         logs' = [logs EXCEPT ![logfile].recs = Append(@, r)], UNCHANGED <<files, manifest>>
  PROVE  /\ DOMAIN logs' = DOMAIN logs
         /\ \A n \in DOMAIN logs : Synced(n)' = Synced(n)
         /\ \A n \in DOMAIN logs \ {logfile} : Log(n)' = Log(n)
         /\ \A n \in DOMAIN logs : n = logfile => Log(n)' = Log(n) \cup {r}
<1>1. /\ DOMAIN logs' = DOMAIN logs
      /\ \A n \in DOMAIN logs : logs'[n].synced = logs[n].synced
      /\ \A n \in DOMAIN logs \ {logfile} : logs'[n] = logs[n]
      /\ logs'[logfile].recs = Append(logs[logfile].recs, r)
  BY DiskAppended
<1>2. /\ logs[logfile].recs \in Seq(Records) /\ logs[logfile].synced \in 0..Len(logs[logfile].recs)
      /\ Len(logs[logfile].recs) \in Nat
  BY LogFacts, SequenceFacts
<1>3. PICK old, new, k : old = logs[logfile].recs /\ new = Append(old, r) /\ k = logs[logfile].synced
  OBVIOUS
<1>4. /\ new \in Seq(Records) /\ Len(new) = Len(old) + 1 /\ Len(old) \in Nat /\ k \in 0..Len(old)
      /\ \A i \in 1..Len(old) : new[i] = old[i]
      /\ Range(new) = Range(old) \cup {r}
  BY <1>2, <1>3, AppendFacts
<1>5. Range(SubSeq(new, 1, k)) = Range(SubSeq(old, 1, k))
  <2>1. \A a : a \in Range(SubSeq(old, 1, k)) <=> \E i \in 1..k : old[i] = a
    BY <1>2, <1>3, <1>4, FrontRange
  <2>2. k \in 0..Len(new)
    BY <1>4
  <2>3. \A a : a \in Range(SubSeq(new, 1, k)) <=> \E i \in 1..k : new[i] = a
    BY <1>4, <2>2, FrontRange
  <2>4. \A i \in 1..k : new[i] = old[i]
    BY <1>4
  <2>5. \A a : a \in Range(SubSeq(new, 1, k)) <=> a \in Range(SubSeq(old, 1, k))
    BY <2>1, <2>3, <2>4
  <2> QED
    BY <2>5
<1>6. ASSUME NEW n \in DOMAIN logs
      PROVE  Synced(n)' = Synced(n) /\ (n # logfile => Log(n)' = Log(n)) /\ (n = logfile => Log(n)' = Log(n) \cup {r})
  <2>1. CASE n = logfile
    BY <2>1, <1>1, <1>3, <1>4, <1>5 DEF Log, Synced
  <2>2. CASE n # logfile
    BY <2>2, <1>1 DEF Log, Synced
  <2> QED
    BY <2>1, <2>2
<1> QED
  BY <1>1, <1>6

\* The log is synced.
LEMMA LogSynced ==
  ASSUME DiskOK, logfile \in DOMAIN logs,
         logs' = [logs EXCEPT ![logfile].synced = Len(logs[logfile].recs)], UNCHANGED <<files, manifest>>
  PROVE  /\ DOMAIN logs' = DOMAIN logs
         /\ \A n \in DOMAIN logs : Log(n)' = Log(n)
         /\ \A n \in DOMAIN logs \ {logfile} : Synced(n)' = Synced(n)
         /\ \A n \in DOMAIN logs : n = logfile => Synced(n)' = Log(n)
<1>1. /\ DOMAIN logs' = DOMAIN logs
      /\ \A n \in DOMAIN logs : logs'[n].recs = logs[n].recs
      /\ \A n \in DOMAIN logs \ {logfile} : logs'[n] = logs[n]
      /\ logs'[logfile].synced = Len(logs[logfile].recs)
  BY DiskSynced
<1>2. logs[logfile].recs \in Seq(Records) /\ Len(logs[logfile].recs) \in Nat
  BY LogFacts, SequenceFacts
<1>3. PICK q : q = logs[logfile].recs
  OBVIOUS
<1>4. Range(SubSeq(q, 1, Len(q))) = Range(q)
  <2>1. \A a : a \in Range(SubSeq(q, 1, Len(q))) <=> \E i \in 1..Len(q) : q[i] = a
    BY <1>2, <1>3, FrontRange
  <2>2. \A a : a \in Range(q) <=> \E i \in 1..Len(q) : q[i] = a
    BY <1>2, <1>3, RangeFacts
  <2> QED
    BY <2>1, <2>2
<1>5. \A n \in DOMAIN logs : n = logfile => Synced(n)' = Log(n)
  BY <1>1, <1>3, <1>4 DEF Log, Synced
<1> QED
  BY <1>1, <1>5 DEF Log, Synced

-----------------------------------------------------------------------------
(***************************************************************************)
(* The inductive invariant.                                                *)
(***************************************************************************)
\* The calls that have something to write.
Batched == { c \in 1..Len(kind) : kind[c] # "force" }

Settled(r) == \A c \in r.ws : answer[c] # "none"
Failed(r) == \A c \in r.ws : answer[c] = "error"

\* The records that readers or a recovery may find.
Reached == mem \cup imm \cup InTables(manifest) \cup InTables(current) \cup LogRecords

\* Records are of calls, which were answered unless the record is on its way.
CallInv ==
  /\ \A r \in Reached : r.ws \subseteq Batched
  /\ \A r \in Reached \ Fresh : Settled(r)
  /\ mode # "up" => \A c \in 1..Len(kind) : answer[c] = "dead"

\* Where the record on its way is.
WritingInv ==
  /\ stage \in {"sync", "insert", "inserted"} => Record \in Log(logfile)
  /\ stage = "sync" => \A n \in DOMAIN logs : Record \notin Synced(n)
  /\ stage \in {"insert", "inserted"} /\ kind[writers[1]] = "sync" => Record \in Synced(logfile)
  /\ stage = "inserted" => Record \in mem

\* A record in a log that a recovery may read again is in memory or in a
\* table as well, unless its writers were told of an error.
Placed(n, r) ==
  \/ Failed(r)
  \/ n = logfile /\ r \in mem \cup Fresh
  \/ n # logfile /\ r \in imm \cup InTables(manifest)

LoggedInv ==
  mode = "up" =>
    /\ logNumber <= manifest.log /\ manifest.log <= logfile
    /\ mem \subseteq Log(logfile)
    /\ imm \subseteq Recoverable
    /\ \A n \in DOMAIN logs : n >= logNumber => \A r \in Log(n) : Placed(n, r)

\* The manifest on the disk has the contents of the version in memory, and
\* perhaps already those of the memtable that is being written to a table.
TableInv ==
  mode = "up" =>
    /\ InTables(current) \subseteq InTables(manifest)
    /\ InTables(manifest) \subseteq InTables(current) \cup imm

\* An edit replaces tables by others with the same contents, or adds the
\* memtable.
TableSet(N) == UNION { files[n] : n \in N }

EditInv ==
  mode = "up" =>
    /\ bg \notin {"idle", "scheduled"} => Numbers(current) \subseteq Numbers(manifest)
    /\ Numbers(merge) \subseteq Numbers(current)
    /\ bg = "build" => edit.add0 # {}
    /\ bg = "apply" => edit.del = {} /\ TableSet(edit.add0) = imm
    /\ bg = "install" => /\ edit.add0 = {} /\ edit.del \subseteq Numbers(current)
                         /\ TableSet(edit.add1) = TableSet(edit.del)

\* While the database is being opened, the new tables have what the logs had.
OpeningInv ==
  /\ mode = "replayed" =>
       /\ edit.del = {}
       /\ Recoverable \subseteq InTables(manifest) \cup TableSet(edit.add0)
       /\ \A n \in DOMAIN logs : n >= edit.log => Log(n) = {}
  /\ mode = "installed" => \A n \in LogsNeeded : Log(n) = {}

StoreInv == CallInv /\ WritingInv /\ LoggedInv /\ TableInv /\ EditInv /\ OpeningInv

-----------------------------------------------------------------------------
(***************************************************************************)
(* What the background thread does to the contents of the tables.          *)
(***************************************************************************)
LEMMA Contents ==
  /\ TablesKept => /\ InTables(manifest) = TableSet(Numbers(manifest))
                   /\ InTables(current) = TableSet(Numbers(current))
  /\ TablesKept' => /\ InTables(manifest)' = UNION { files'[n] : n \in Numbers(manifest') }
                    /\ InTables(current)' = UNION { files'[n] : n \in Numbers(current') }
<1>1. TablesKept => Numbers(manifest) \cap DOMAIN files = Numbers(manifest)
                    /\ Numbers(current) \cap DOMAIN files = Numbers(current)
  BY DEF TablesKept
<1>2. TablesKept' => Numbers(manifest') \cap DOMAIN files' = Numbers(manifest')
                     /\ Numbers(current') \cap DOMAIN files' = Numbers(current')
  BY DEF TablesKept, Numbers
<1>3. /\ InTables(manifest)' = UNION { files'[n] : n \in Numbers(manifest') \cap DOMAIN files' }
      /\ InTables(current)' = UNION { files'[n] : n \in Numbers(current') \cap DOMAIN files' }
  BY DEF InTables, Numbers
<1>4. TablesKept => /\ InTables(manifest) = TableSet(Numbers(manifest))
                    /\ InTables(current) = TableSet(Numbers(current))
  BY <1>1 DEF InTables, TableSet
<1>5. TablesKept' => /\ InTables(manifest)' = UNION { files'[n] : n \in Numbers(manifest') }
                     /\ InTables(current)' = UNION { files'[n] : n \in Numbers(current') }
  BY <1>2, <1>3
<1> QED
  BY <1>4, <1>5

\* Versions that stay, over files of which some are new.
LEMMA ContentsStay ==
  ASSUME TablesKept, TablesKept', Numbers(manifest') = Numbers(manifest), Numbers(current') = Numbers(current),
         \A n \in Numbers(manifest) \cup Numbers(current) : files'[n] = files[n]
  PROVE  InTables(manifest)' = InTables(manifest) /\ InTables(current)' = InTables(current)
<1>1. { files'[n] : n \in Numbers(manifest') } = { files[n] : n \in Numbers(manifest) }
  OBVIOUS
<1>2. { files'[n] : n \in Numbers(current') } = { files[n] : n \in Numbers(current) }
  OBVIOUS
<1> QED
  BY <1>1, <1>2, Contents DEF TableSet

\* A version with the memtable's table.
LEMMA ContentsAdded ==
  ASSUME NEW M, NEW A, \A n \in M \cup A : files'[n] = files[n]
  PROVE  UNION { files'[n] : n \in M \cup A } = TableSet(M) \cup TableSet(A)
BY DEF TableSet

\* A version with tables replaced.
LEMMA ContentsReplaced ==
  ASSUME NEW M, NEW D \in SUBSET M, NEW A, TableSet(A) = TableSet(D),
         \A n \in (M \ D) \cup A : files'[n] = files[n]
  PROVE  UNION { files'[n] : n \in (M \ D) \cup A } = TableSet(M)
<1>1. UNION { files'[n] : n \in (M \ D) \cup A } = TableSet(M \ D) \cup TableSet(A)
  BY ContentsAdded
<1>2. TableSet(M) = TableSet(M \ D) \cup TableSet(D)
  <2>1. M = (M \ D) \cup D
    OBVIOUS
  <2> QED
    BY <2>1 DEF TableSet
<1> QED
  BY <1>1, <1>2

\* What a step of the background thread comes to.
Finished ==
  \/ /\ InTables(manifest)' = InTables(manifest) /\ InTables(current)' = InTables(current)
     /\ imm' = imm /\ logNumber' = logNumber /\ manifest'.log \in {manifest.log, logNumber}
  \/ /\ InTables(manifest)' = InTables(manifest) \cup imm /\ InTables(current)' = InTables(current)
     /\ imm' = imm /\ logNumber' = logNumber /\ manifest'.log = logfile
  \/ /\ InTables(manifest)' = InTables(manifest) \cup imm /\ InTables(current)' = InTables(current) \cup imm
     /\ imm' = {} /\ logNumber' = logfile /\ manifest'.log = logfile

LogsGo ==
  /\ DOMAIN logs' \subseteq DOMAIN logs
  /\ \A n \in DOMAIN logs' : logs'[n] = logs[n]
  /\ \A n \in DOMAIN logs : n >= manifest'.log => n \in DOMAIN logs'

\* It knows the facts about itself.
LEMMA BackgroundFacts ==
  ASSUME StructureInv, StoreInv, BackgroundStep
  PROVE  /\ mode = "up" /\ bgError \in BOOLEAN /\ bg # "idle" /\ DiskOK /\ TablesKept
         /\ edit \in Edits /\ current \in Versions /\ merge \in Merges
         /\ (Numbers(current) \cup Numbers(manifest)) \cap pending = {}
         /\ pending = merge.out \cup (IF bg = "build" THEN edit.add0 ELSE {})
         /\ logNumber \in Nat /\ logfile \in Nat /\ logNumber <= logfile /\ manifest.log \in Nat
         /\ logNumber <= manifest.log /\ manifest.log <= logfile /\ logfile \in DOMAIN logs
         /\ Below(DOMAIN files, nextFile) /\ nextFile \in Nat /\ DOMAIN files \subseteq Nat
         /\ bg = "apply" => edit.log = logfile /\ edit.add1 = {}
         /\ bg = "install" => edit.log = logNumber
<1>1. bg # "idle"
  BY DEF BackgroundStep, NothingToDo, BeginFlush, BuildTable, BuildTableFails, ApplyFlush, BeginMove,
         BeginMerge, OpenCompactionOutputFile, FinishCompactionOutputFile, InstallCompactionResults,
         MergeFails, ManifestFails
<1>2. mode = "up"
  BY <1>1, ThreadFacts
<1>3. TablesKept
  BY DEF StructureInv, KeptInv
<1>4. logNumber <= manifest.log /\ manifest.log <= logfile
  BY <1>2 DEF StoreInv, LoggedInv
<1>5. (bg = "apply" => edit.log = logfile /\ edit.add1 = {}) /\ (bg = "install" => edit.log = logNumber)
  BY DEF StructureInv, NumbersInv
<1>6. /\ bgError \in BOOLEAN /\ DiskOK /\ edit \in Edits /\ current \in Versions /\ merge \in Merges
      /\ (Numbers(current) \cup Numbers(manifest)) \cap pending = {}
      /\ pending = merge.out \cup (IF bg = "build" THEN edit.add0 ELSE {})
      /\ logNumber \in Nat /\ logfile \in Nat /\ logNumber <= logfile /\ manifest.log \in Nat
      /\ logfile \in DOMAIN logs /\ Below(DOMAIN files, nextFile) /\ nextFile \in Nat /\ DOMAIN files \subseteq Nat
  BY <1>1, ThreadFacts
<1> QED
  BY <1>1, <1>2, <1>3, <1>4, <1>5, <1>6

\* The version and the manifest with an edit, once its files are there.
LEMMA EditApplied ==
  ASSUME StructureInv, StructureInv', StoreInv, BackgroundStep, bg \in {"apply", "install"},
         manifest' = Logged(edit), current' \in {current, Applied(current, edit)},
         DOMAIN files' \subseteq DOMAIN files, \A n \in DOMAIN files' : files'[n] = files[n]
  PROVE  /\ manifest'.log = edit.log
         /\ bg = "apply" => /\ InTables(manifest)' = InTables(manifest) \cup imm
                            /\ current' = current => InTables(current)' = InTables(current)
                            /\ current' = Applied(current, edit) => InTables(current)' = InTables(current) \cup imm
         /\ bg = "install" => /\ InTables(manifest)' = InTables(manifest)
                              /\ InTables(current)' = InTables(current)
<1> DEFINE M == Numbers(manifest)
           K == Numbers(current)
<1>1. /\ mode = "up" /\ DiskOK /\ TablesKept /\ edit \in Edits /\ current \in Versions
      /\ bg = "apply" => edit.add1 = {}
  BY BackgroundFacts
<1>2. TablesKept'
  BY DEF StructureInv, KeptInv
<1>3. K \subseteq M /\ (bg = "apply" => edit.del = {} /\ TableSet(edit.add0) = imm)
      /\ (bg = "install" => /\ edit.add0 = {} /\ edit.del \subseteq K
                            /\ TableSet(edit.add1) = TableSet(edit.del))
  BY <1>1 DEF StoreInv, EditInv
<1>4. /\ manifest'.l0 = (manifest.l0 \ edit.del) \cup edit.add0
      /\ manifest'.l1 = (manifest.l1 \ edit.del) \cup edit.add1
      /\ manifest'.log = edit.log
  BY <1>1, LoggedFacts
<1>5. current' = Applied(current, edit) =>
        /\ current'.l0 = (current.l0 \ edit.del) \cup edit.add0
        /\ current'.l1 = (current.l1 \ edit.del) \cup edit.add1
  BY <1>1, AppliedFacts
<1>6. /\ Numbers(manifest') = (M \ edit.del) \cup (edit.add0 \cup edit.add1)
      /\ current' = Applied(current, edit) =>
           Numbers(current') = (K \ edit.del) \cup (edit.add0 \cup edit.add1)
  BY <1>4, <1>5 DEF Numbers
<1>7. \A n \in Numbers(manifest') \cup Numbers(current') : files'[n] = files[n]
  BY <1>2 DEF TablesKept, Numbers
<1>8. /\ InTables(manifest) = TableSet(M) /\ InTables(current) = TableSet(K)
      /\ InTables(manifest)' = UNION { files'[n] : n \in Numbers(manifest') }
      /\ InTables(current)' = UNION { files'[n] : n \in Numbers(current') }
  BY <1>1, <1>2, Contents
<1>9. current' = current => InTables(current)' = InTables(current)
  <2>1. ASSUME current' = current PROVE InTables(current)' = InTables(current)
    <3>1. Numbers(current') = K
      BY <2>1
    <3>2. { files'[n] : n \in Numbers(current') } = { files[n] : n \in K }
      BY <3>1, <1>7
    <3> QED
      BY <3>2, <1>8 DEF TableSet
  <2> QED
    BY <2>1
<1>10. CASE bg = "apply"
  <2>1. edit.add0 \cup edit.add1 = edit.add0 /\ M \ edit.del = M /\ K \ edit.del = K
    BY <1>1, <1>3, <1>10
  <2>2. Numbers(manifest') = M \cup edit.add0
    BY <2>1, <1>6
  <2>3. UNION { files'[n] : n \in M \cup edit.add0 } = TableSet(M) \cup TableSet(edit.add0)
    <3> HIDE DEF M
    <3> QED
      BY <2>2, <1>7, ContentsAdded
  <2>4. InTables(manifest)' = InTables(manifest) \cup imm
    BY <2>2, <2>3, <1>3, <1>8, <1>10
  <2>5. ASSUME current' = Applied(current, edit) PROVE InTables(current)' = InTables(current) \cup imm
    <3>1. Numbers(current') = K \cup edit.add0
      BY <2>1, <2>5, <1>6
    <3>2. UNION { files'[n] : n \in K \cup edit.add0 } = TableSet(K) \cup TableSet(edit.add0)
      <4> HIDE DEF K
      <4> QED
        BY <3>1, <1>7, ContentsAdded
    <3> QED
      BY <3>1, <3>2, <1>3, <1>8, <1>10
  <2> QED
    BY <2>4, <2>5, <1>4, <1>9, <1>10
<1>11. CASE bg = "install"
  <2>1. edit.add0 \cup edit.add1 = edit.add1 /\ edit.del \subseteq M /\ edit.del \subseteq K
        /\ TableSet(edit.add1) = TableSet(edit.del)
    BY <1>3, <1>11
  <2>2. Numbers(manifest') = (M \ edit.del) \cup edit.add1
    BY <2>1, <1>6
  <2>3. UNION { files'[n] : n \in (M \ edit.del) \cup edit.add1 } = TableSet(M)
    <3> HIDE DEF M
    <3> QED
      BY <2>1, <2>2, <1>7, ContentsReplaced
  <2>4. ASSUME current' = Applied(current, edit) PROVE InTables(current)' = InTables(current)
    <3>1. Numbers(current') = (K \ edit.del) \cup edit.add1
      BY <2>1, <2>4, <1>6
    <3>2. UNION { files'[n] : n \in (K \ edit.del) \cup edit.add1 } = TableSet(K)
      <4> HIDE DEF K
      <4> QED
        BY <2>1, <3>1, <1>7, ContentsReplaced
    <3> QED
      BY <3>1, <3>2, <1>8
  <2> QED
    BY <2>2, <2>3, <2>4, <1>4, <1>8, <1>9, <1>11
<1> QED
  BY <1>10, <1>11

\* Every step of the background thread comes to one of the three things, and
\* deletes no log that recovery needs.
LEMMA BackgroundContents ==
  ASSUME StructureInv, StructureInv', StoreInv, BackgroundStep
  PROVE  Finished /\ LogsGo
<1> USE DEF calls, queue, tables, sets, thread, disk, fate
<1>1. /\ TablesKept /\ TablesKept' /\ bgError \in BOOLEAN
      /\ (Numbers(current) \cup Numbers(manifest)) \cap pending = {}
      /\ pending = merge.out \cup (IF bg = "build" THEN edit.add0 ELSE {})
      /\ Below(DOMAIN files, nextFile) /\ nextFile \in Nat /\ DOMAIN files \subseteq Nat
      /\ bg = "apply" => edit.log = logfile /\ edit.add1 = {}
      /\ bg = "install" => edit.log = logNumber
  BY BackgroundFacts DEF StructureInv, KeptInv
<1>2. Numbers(manifest) \cup Numbers(current) \subseteq DOMAIN files /\ nextFile \notin DOMAIN files
  BY <1>1 DEF TablesKept, Below
\* Steps that leave the versions and the logs alone.
<1>3. ASSUME UNCHANGED <<imm, logs, manifest, current, logNumber>>,
             \A n \in Numbers(manifest) \cup Numbers(current) : files'[n] = files[n]
      PROVE  Finished /\ LogsGo
  <2>1. Numbers(manifest') = Numbers(manifest) /\ Numbers(current') = Numbers(current)
    BY <1>3
  <2>2. InTables(manifest)' = InTables(manifest) /\ InTables(current)' = InTables(current)
    BY <1>1, <1>3, <2>1, ContentsStay
  <2> QED
    BY <1>3, <2>2 DEF Finished, LogsGo
<1>4. CASE NothingToDo \/ BeginFlush \/ BuildTableFails \/ BeginMove \/ BeginMerge \/ MergeFails
  <2>1. UNCHANGED <<imm, logs, manifest, current, logNumber, files>>
    BY <1>4 DEF NothingToDo, BeginFlush, BuildTableFails, BeginMove, BeginMerge, MergeFails, Swept
  <2> QED
    BY <2>1, <1>3
<1>5. CASE BuildTable
  <2>1. PICK add : add = IF imm = {} THEN {} ELSE edit.add0
    OBVIOUS
  <2>2. PICK f : f = [n \in add |-> imm]
    OBVIOUS
  <2>3. files' = Over(f, files) /\ UNCHANGED <<imm, logs, manifest, current, logNumber>> /\ bg = "build"
    BY <1>5, <2>1, <2>2 DEF BuildTable
  <2>4. DOMAIN f = add /\ add \subseteq pending
    BY <2>1, <2>2, <2>3, <1>1
  <2>5. \A n \in Numbers(manifest) \cup Numbers(current) : files'[n] = files[n]
    <3>1. \A n \in DOMAIN files \ DOMAIN f : Over(f, files)[n] = files[n]
      BY OverFacts
    <3> QED
      BY <3>1, <2>3, <2>4, <1>1, <1>2
  <2> QED
    BY <2>3, <2>5, <1>3
<1>6. CASE OpenCompactionOutputFile
  <2>1. PICK f : f = [n \in {nextFile} |-> {}]
    OBVIOUS
  <2>2. files' = Over(f, files) /\ UNCHANGED <<imm, logs, manifest, current, logNumber>>
    BY <1>6, <2>1 DEF OpenCompactionOutputFile
  <2>3. \A n \in Numbers(manifest) \cup Numbers(current) : files'[n] = files[n]
    <3>1. \A n \in DOMAIN files \ DOMAIN f : Over(f, files)[n] = files[n]
      BY OverFacts
    <3>2. DOMAIN f = {nextFile}
      BY <2>1
    <3> QED
      BY <3>1, <3>2, <2>2, <1>2
  <2> QED
    BY <2>2, <2>3, <1>3
<1>7. CASE FinishCompactionOutputFile
  <2>1. PICK f \in Shares : files' = Over(f, files)
    BY <1>7 DEF FinishCompactionOutputFile
  <2>2. UNCHANGED <<imm, logs, manifest, current, logNumber>>
    BY <1>7 DEF FinishCompactionOutputFile
  <2>3. DOMAIN f = merge.out /\ merge.out \subseteq pending
    BY <1>1, SharesFacts DEF StructureInv
  <2>4. \A n \in Numbers(manifest) \cup Numbers(current) : files'[n] = files[n]
    <3>1. \A n \in DOMAIN files \ DOMAIN f : Over(f, files)[n] = files[n]
      BY OverFacts
    <3> QED
      BY <3>1, <2>1, <2>3, <1>1, <1>2
  <2> QED
    BY <2>2, <2>4, <1>3
\* Steps after which the manifest may be another.
<1>8. ASSUME NEW err \in BOOLEAN, NEW live, NEW log, Swept(err, live, log)
      PROVE  /\ DOMAIN files' \subseteq DOMAIN files /\ \A n \in DOMAIN files' : files'[n] = files[n]
             /\ DOMAIN logs' \subseteq DOMAIN logs /\ \A n \in DOMAIN logs' : logs'[n] = logs[n]
             /\ \A n \in DOMAIN logs : n >= log => n \in DOMAIN logs'
  <2>1. /\ DOMAIN files' = IF err THEN DOMAIN files ELSE DOMAIN files \cap live
        /\ \A n \in DOMAIN files' : files'[n] = files[n]
        /\ DOMAIN logs' = IF err THEN DOMAIN logs ELSE { n \in DOMAIN logs : n >= log }
        /\ \A n \in DOMAIN logs' : logs'[n] = logs[n]
    BY <1>8, SweptFacts
  <2> QED
    BY <2>1
<1>9. CASE ApplyFlush
  <2>1. /\ bg = "apply" /\ manifest' = Logged(edit) /\ current' = Applied(current, edit)
        /\ logNumber' = edit.log /\ imm' = {}
        /\ Swept(bgError, Live(current', merge, pending), edit.log)
    BY <1>9 DEF ApplyFlush
  <2>2. /\ manifest'.log = edit.log
        /\ InTables(manifest)' = InTables(manifest) \cup imm
        /\ InTables(current)' = InTables(current) \cup imm
    BY <2>1, <1>1, <1>8, EditApplied
  <2> QED
    BY <2>1, <2>2, <1>1, <1>8 DEF Finished, LogsGo
<1>10. CASE InstallCompactionResults
  <2>1. /\ bg = "install" /\ manifest' = Logged(edit) /\ current' = Applied(current, edit)
        /\ logNumber' = edit.log /\ imm' = imm
        /\ UNCHANGED <<files, logs>> \/ Swept(bgError, Live(current', NoMerge, pending'), logNumber')
    BY <1>10 DEF InstallCompactionResults
  <2>2. /\ DOMAIN files' \subseteq DOMAIN files /\ \A n \in DOMAIN files' : files'[n] = files[n]
        /\ DOMAIN logs' \subseteq DOMAIN logs /\ \A n \in DOMAIN logs' : logs'[n] = logs[n]
        /\ \A n \in DOMAIN logs : n >= logNumber' => n \in DOMAIN logs'
    <3>1. CASE UNCHANGED <<files, logs>>
      BY <3>1
    <3>2. CASE Swept(bgError, Live(current', NoMerge, pending'), logNumber')
      BY <3>2, <1>1, <1>8
    <3> QED
      BY <2>1, <3>1, <3>2
  <2>3. /\ manifest'.log = edit.log
        /\ InTables(manifest)' = InTables(manifest) /\ InTables(current)' = InTables(current)
    BY <2>1, <2>2, EditApplied
  <2> QED
    BY <2>1, <2>2, <2>3, <1>1 DEF Finished, LogsGo
<1>11. CASE ManifestFails
  <2>1. /\ bg \in {"apply", "install"} /\ manifest' \in {manifest, Logged(edit)}
        /\ UNCHANGED <<imm, current, logNumber, files, logs>>
    BY <1>11 DEF ManifestFails, Swept
  <2>2. CASE manifest' = manifest
    BY <2>1, <2>2, <1>3
  <2>3. CASE manifest' = Logged(edit)
    <3>1. /\ manifest'.log = edit.log
          /\ bg = "apply" => /\ InTables(manifest)' = InTables(manifest) \cup imm
                             /\ InTables(current)' = InTables(current)
          /\ bg = "install" => /\ InTables(manifest)' = InTables(manifest)
                               /\ InTables(current)' = InTables(current)
      BY <2>1, <2>3, EditApplied
    <3> QED
      BY <2>1, <3>1, <1>1 DEF Finished, LogsGo
  <2> QED
    BY <2>1, <2>2, <2>3
<1> QED
  BY <1>4, <1>5, <1>6, <1>7, <1>9, <1>10, <1>11 DEF BackgroundStep

-----------------------------------------------------------------------------
(***************************************************************************)
(* What the steps do to the calls and their answers.                       *)
(***************************************************************************)
\* An answer that was given stays, as long as nothing crashes.
AnswersStay ==
  \A c \in 1..Len(kind) :
    c \in 1..Len(kind') /\ kind'[c] = kind[c] /\ (answer[c] = "none" \/ answer'[c] = answer[c])

\* What is found keeps its standing while answers stay.
LEMMA Stays ==
  ASSUME CallInv, AnswersStay
  PROVE  \A r \in Reached : /\ r.ws \subseteq Batched'
                            /\ Settled(r) => Settled(r)'
                            /\ Failed(r) => Failed(r)'
<1> SUFFICES ASSUME NEW r \in Reached
             PROVE  r.ws \subseteq Batched' /\ (Settled(r) => Settled(r)') /\ (Failed(r) => Failed(r)')
  OBVIOUS
<1>1. r.ws \subseteq Batched
  BY DEF CallInv
<1>2. \A c \in r.ws : /\ c \in 1..Len(kind') /\ kind'[c] # "force"
                      /\ answer[c] = "none" \/ answer'[c] = answer[c]
  BY <1>1 DEF Batched, AnswersStay
<1>3. r.ws \subseteq Batched'
  BY <1>2 DEF Batched
<1> QED
  BY <1>2, <1>3 DEF Settled, Failed

\* The same when the group is answered.
LEMMA GroupAnswered ==
  ASSUME QueueInv, NEW n \in 1..Len(writers), NEW st \in {"ok", "error"}, Answered(n, st), kind' = kind
  PROVE  /\ AnswersStay /\ stage' = "queued" /\ Fresh' = {} /\ Alive' = Alive
         /\ DOMAIN answer = 1..Len(kind)
         /\ \A c \in 1..Len(kind) : answer'[c] = answer[c] \/ (answer[c] = "none" /\ answer'[c] = st)
         /\ \A c \in Range(SubSeq(writers, 1, n)) : answer[c] = "none" /\ answer'[c] = st
<1>1. /\ answer' = [c \in DOMAIN answer |->
                      IF c \in Range(SubSeq(writers, 1, n)) THEN st ELSE answer[c]]
      /\ stage' = "queued"
  BY DEF Answered
<1>2. DOMAIN answer = 1..Len(kind) /\ DOMAIN kind = 1..Len(kind) /\ Len(writers) \in Nat
      /\ \A i \in 1..Len(writers) : writers[i] \in 1..Len(kind)
  BY SequenceFacts DEF QueueInv
<1>3. \A c \in Range(SubSeq(writers, 1, n)) : \E i \in 1..Len(writers) : writers[i] = c
  <2>1. n \in 0..Len(writers) /\ 1..n \subseteq 1..Len(writers)
    BY <1>2
  <2>2. \A c : c \in Range(SubSeq(writers, 1, n)) <=> \E i \in 1..n : writers[i] = c
    <3>1. writers \in Seq(1..Len(kind))
      BY DEF QueueInv
    <3> QED
      BY <2>1, <3>1, FrontRange
  <2> QED
    BY <2>1, <2>2
<1>4. \A c \in Range(SubSeq(writers, 1, n)) : c \in 1..Len(kind) /\ answer[c] = "none"
  BY <1>2, <1>3 DEF QueueInv
<1>5. \A c \in 1..Len(kind) : answer'[c] = answer[c] \/ (answer[c] = "none" /\ answer'[c] = st)
  BY <1>1, <1>2, <1>4
<1>6. \A c \in Range(SubSeq(writers, 1, n)) : answer[c] = "none" /\ answer'[c] = st
  BY <1>1, <1>2, <1>4
<1>7. Alive' = Alive
  BY <1>2, <1>5 DEF Alive
<1> QED
  BY <1>1, <1>2, <1>5, <1>6, <1>7 DEF AnswersStay, Fresh

\* A call joins the queue.
LEMMA CallJoins ==
  ASSUME QueueInv, GroupInv, NEW k \in Kind, Write(k)
  PROVE  /\ AnswersStay /\ Len(kind) \in Nat /\ Len(kind) + 1 \in Call
         /\ Len(kind') = Len(kind) + 1 /\ kind'[Len(kind) + 1] = k /\ answer'[Len(kind) + 1] = "none"
         /\ DOMAIN kind = 1..Len(kind) /\ DOMAIN kind' = 1..Len(kind) + 1
         /\ \A c \in 1..Len(kind) : answer'[c] = answer[c]
         /\ Len(writers) # 0 => writers'[1] = writers[1] /\ writers[1] \in 1..Len(kind)
<1>1. /\ kind' = Append(kind, k) /\ answer' = Append(answer, "none")
      /\ writers' = Append(writers, Len(kind) + 1) /\ Len(kind) < MaxWrites
  BY DEF Write
<1>2. /\ kind \in Seq(Kind) /\ answer \in Seq({"none", "ok", "error", "dead"})
      /\ writers \in Seq(1..Len(kind)) /\ Len(answer) = Len(kind) /\ Len(kind) \in Nat /\ Len(writers) \in Nat
      /\ DOMAIN kind = 1..Len(kind) /\ \A i \in 1..Len(writers) : writers[i] \in 1..Len(kind)
  BY SequenceFacts DEF QueueInv
<1>3. /\ kind' \in Seq(Kind) /\ Len(kind') = Len(kind) + 1 /\ kind'[Len(kind) + 1] = k
      /\ \A c \in 1..Len(kind) : kind'[c] = kind[c]
  BY <1>1, <1>2, AppendFacts
<1>4. /\ answer'[Len(kind) + 1] = "none" /\ \A c \in 1..Len(kind) : answer'[c] = answer[c]
  BY <1>1, <1>2, AppendFacts
<1>5. Len(writers) # 0 => writers'[1] = writers[1] /\ writers[1] \in 1..Len(kind)
  <2>1. writers \in Seq(1..Len(kind) + 1) /\ Len(kind) + 1 \in 1..Len(kind) + 1
    <3>1. 1..Len(kind) \subseteq 1..Len(kind) + 1
      BY <1>2
    <3> QED
      BY <3>1, <1>2
  <2>2. \A i \in 1..Len(writers) : writers'[i] = writers[i]
    BY <2>1, <1>1, AppendFacts
  <2> QED
    BY <2>2, <1>2
<1>6. DOMAIN kind' = 1..Len(kind) + 1
  <2>1. DOMAIN kind' = 1..Len(kind')
    BY <1>3, LenProperties
  <2> QED
    BY <2>1, <1>3
<1>7. Len(kind) + 1 \in Call
  BY <1>1, <1>2, BoundsAssumption DEF Call
<1>8. AnswersStay
  BY <1>2, <1>3, <1>4 DEF AnswersStay
<1> QED
  BY <1>2, <1>3, <1>4, <1>5, <1>6, <1>7, <1>8

-----------------------------------------------------------------------------
(***************************************************************************)
(* The invariant is kept by the writers.                                   *)
(***************************************************************************)
Busy == {"sync", "insert", "inserted"}

\* The record on its way goes on, or is in the memtable, or failed.
FreshGoes == \A r \in Fresh : r \in Fresh' \/ (Settled(r)' /\ (r \in mem' \/ Failed(r)'))

\* Steps that only answer, wait or look.
LEMMA StoreFrame ==
  ASSUME StoreInv, AnswersStay, FreshGoes,
         UNCHANGED <<mem, imm, logs, files, manifest, current, logfile, logNumber, bg, edit, merge, mode>>,
         \/ stage' \notin Busy
         \/ stage' = stage /\ Record' = Record /\ kind'[writers'[1]] = kind[writers[1]],
         mode = "up" \/ UNCHANGED <<kind, answer>>
  PROVE  StoreInv'
<1>1. CallInv /\ WritingInv /\ LoggedInv /\ TableInv /\ EditInv /\ OpeningInv
  BY DEF StoreInv
<1>2. /\ InTables(manifest)' = InTables(manifest) /\ InTables(current)' = InTables(current)
      /\ LogsNeeded' = LogsNeeded /\ Numbers(current)' = Numbers(current)
      /\ Numbers(manifest)' = Numbers(manifest) /\ Numbers(merge)' = Numbers(merge)
      /\ \A N : TableSet(N)' = TableSet(N)
      /\ \A n : Log(n)' = Log(n) /\ Synced(n)' = Synced(n)
  BY DEF InTables, LogsNeeded, Numbers, TableSet, Log, Synced
<1>3. LogRecords' = LogRecords /\ Recoverable' = Recoverable
  BY <1>2, NeededFacts DEF LogRecords, Recoverable
<1>4. Reached' = Reached
  BY <1>2, <1>3 DEF Reached
<1>5. \A r \in Reached : /\ r.ws \subseteq Batched'
                         /\ Settled(r) => Settled(r)'
                         /\ Failed(r) => Failed(r)'
  BY <1>1, Stays
<1>6. CallInv'
  <2>1. \A r \in Reached' \ Fresh' : Settled(r)'
    BY <1>1, <1>4, <1>5 DEF CallInv, FreshGoes
  <2>2. mode' # "up" => \A c \in 1..Len(kind') : answer'[c] = "dead"
    BY <1>1 DEF CallInv
  <2> QED
    BY <2>1, <2>2, <1>4, <1>5 DEF CallInv
<1>7. WritingInv'
  <2>1. CASE stage' \notin Busy
    BY <2>1 DEF WritingInv, Busy
  <2>2. CASE stage' = stage /\ Record' = Record /\ kind'[writers'[1]] = kind[writers[1]]
    BY <2>2, <1>1, <1>2 DEF WritingInv
  <2> QED
    BY <2>1, <2>2
<1>8. LoggedInv'
  <2>1. ASSUME mode = "up", NEW n \in DOMAIN logs, n >= logNumber, NEW r \in Log(n) PROVE Placed(n, r)'
    <3>1. Placed(n, r)
      BY <2>1, <1>1 DEF LoggedInv
    <3>2. r \in Reached
      BY NeededFacts DEF Reached
    <3> QED
      BY <3>1, <3>2, <1>2, <1>5 DEF Placed, FreshGoes
  <2> QED
    BY <2>1, <1>1, <1>2, <1>3 DEF LoggedInv
<1>9. TableInv'
  BY <1>1, <1>2 DEF TableInv
<1>10. EditInv'
  BY <1>1, <1>2 DEF EditInv
<1>11. OpeningInv'
  BY <1>1, <1>2, <1>3 DEF OpeningInv
<1> QED
  BY <1>6, <1>7, <1>8, <1>9, <1>10, <1>11 DEF StoreInv

\* Who has the turn, and what that says of the database.
LEMMA WriterFacts ==
  ASSUME StructureInv, StoreInv, stage # "queued" \/ writers # <<>>
  PROVE  /\ mode = "up" /\ QueueInv /\ GroupInv /\ DiskOK /\ lastSequence \in Nat
         /\ logNumber \in Nat /\ logfile \in Nat /\ manifest.log \in Nat /\ nextFile \in Nat
         /\ logNumber <= manifest.log /\ manifest.log <= logfile /\ logfile \in LogsNeeded
         /\ logfile < nextFile /\ nextFile \notin DOMAIN logs /\ DOMAIN logs \subseteq Nat
         /\ (~hasImm => imm = {})
<1>1. QueueInv /\ GroupInv /\ ContentInv /\ NumbersInv
  BY DEF StructureInv
<1>2. mode = "up"
  BY <1>1, EmptySeq, SequenceFacts DEF QueueInv
<1>3. /\ DiskOK /\ lastSequence \in Nat /\ logNumber \in Nat /\ logfile \in Nat /\ nextFile \in Nat
      /\ manifest.log \in Nat /\ DOMAIN logs \subseteq Nat /\ (~hasImm => imm = {})
  BY <1>1 DEF ContentInv, DiskOK
<1>4. logfile \in DOMAIN logs /\ Below(DOMAIN logs, nextFile)
  BY <1>1, <1>2 DEF NumbersInv
<1>5. logNumber <= manifest.log /\ manifest.log <= logfile
  BY <1>2 DEF StoreInv, LoggedInv
<1>6. logfile < nextFile /\ nextFile \notin DOMAIN logs
  BY <1>3, <1>4 DEF Below
<1>7. logfile \in LogsNeeded
  BY <1>3, <1>4, <1>5 DEF LogsNeeded
<1> QED
  BY <1>1, <1>2, <1>3, <1>5, <1>6, <1>7

\* A writer that only waits, or answers calls.
LEMMA StoreQuiet ==
  ASSUME StructureInv, StoreInv,
         \/ Begin \/ NoRoom \/ RoomOnly \/ Room \/ Wait \/ NewLogFails
         \/ SyncFails \/ Finish \/ (AddRecordFails /\ logs' = logs)
  PROVE  StoreInv'
<1> USE DEF calls, queue, tables, sets, thread, disk, fate
<1> DEFINE Same == UNCHANGED <<mem, imm, logs, files, manifest, current, logfile, logNumber, bg, edit, merge, mode>>
<1>1. stage # "queued" \/ writers # <<>>
  BY DEF Begin, NoRoom, RoomOnly, Room, Wait, NewLogFails, SyncFails, Finish, AddRecordFails
<1>2. mode = "up" /\ QueueInv /\ GroupInv /\ lastSequence \in Nat
  BY <1>1, WriterFacts
<1>3. CASE Begin \/ Room \/ Wait
  <2>1. Same /\ UNCHANGED <<kind, answer>> /\ stage \notin Busy /\ stage' \notin Busy
    BY <1>3 DEF Begin, Room, Wait, Busy
  <2>2. Fresh = {} /\ AnswersStay
    BY <2>1 DEF Fresh, Busy, AnswersStay
  <2> QED
    BY <2>1, <2>2, <1>2, StoreFrame DEF FreshGoes
<1>4. CASE NoRoom \/ RoomOnly \/ NewLogFails
  <2>1. /\ Same /\ kind' = kind /\ stage = "room"
        /\ Answered(1, "ok") \/ Answered(1, "error")
    BY <1>4 DEF NoRoom, RoomOnly, NewLogFails
  <2>2. 1 \in 1..Len(writers)
    BY <2>1, <1>2, SequenceFacts DEF QueueInv
  <2>3. AnswersStay /\ stage' = "queued"
    BY <2>1, <2>2, <1>2, GroupAnswered
  <2>4. Fresh = {} /\ stage' \notin Busy
    BY <2>1, <2>3 DEF Fresh, Busy
  <2> QED
    BY <2>1, <2>3, <2>4, <1>2, StoreFrame DEF FreshGoes
<1>5. CASE SyncFails \/ Finish \/ (AddRecordFails /\ logs' = logs)
  <2>1. /\ Same /\ kind' = kind /\ stage \in {"log", "sync", "insert", "inserted"}
        /\ Answered(group, "error") \/ (stage = "inserted" /\ Answered(group, "ok"))
    BY <1>5 DEF SyncFails, Finish, AddRecordFails
  <2>2. group \in 1..Len(writers)
    BY <2>1, <1>2 DEF GroupInv
  <2>3. PICK st \in {"ok", "error"} : Answered(group, st) /\ (st = "ok" => stage = "inserted")
    BY <2>1
  <2>4. /\ AnswersStay /\ stage' = "queued"
        /\ \A c \in Range(SubSeq(writers, 1, group)) : answer'[c] = st
    BY <2>1, <2>2, <2>3, <1>2, GroupAnswered
  <2>5. \A c \in Record.ws : answer'[c] = st
    BY <2>4 DEF Record, Batches
  <2>6. stage = "inserted" => Record \in mem
    BY DEF StoreInv, WritingInv
  <2>7. FreshGoes
    <3> SUFFICES ASSUME NEW r \in Fresh PROVE Settled(r)' /\ (r \in mem' \/ Failed(r)')
      BY DEF FreshGoes
    <3>1. r = Record /\ \A c \in r.ws : answer'[c] = st
      BY <2>5 DEF Fresh
    <3>2. Settled(r)'
      BY <3>1 DEF Settled
    <3>3. st = "error" => Failed(r)'
      BY <3>1 DEF Failed
    <3> QED
      BY <3>1, <3>2, <3>3, <2>1, <2>3, <2>6
  <2> QED
    BY <2>1, <2>4, <2>7, <1>2, StoreFrame DEF Busy
<1> QED
  BY <1>3, <1>4, <1>5

\* A new memtable and a new log.
LEMMA StoreSwitch ==
  ASSUME StructureInv, StoreInv, Switch
  PROVE  StoreInv'
<1>1. /\ stage = "room" /\ ~hasImm /\ logfile' = nextFile
      /\ logs' = Over([n \in {nextFile} |-> EmptyLog], logs)
      /\ imm' = mem /\ mem' = {} /\ bg' = Scheduled(bg, bgError, TRUE, current)
      /\ UNCHANGED <<kind, answer, stage, logNumber, current, merge, edit, mode, files, manifest>>
  BY DEF Switch, calls, fate
<1>2. /\ mode = "up" /\ logNumber \in Nat /\ logfile \in Nat /\ manifest.log \in Nat /\ nextFile \in Nat
      /\ logNumber <= manifest.log /\ manifest.log <= logfile /\ logfile \in LogsNeeded
      /\ logfile < nextFile /\ nextFile \notin DOMAIN logs /\ imm = {}
  BY <1>1, WriterFacts
<1>3. CallInv /\ LoggedInv /\ TableInv /\ EditInv
  BY DEF StoreInv
<1>4. /\ DOMAIN logs' = DOMAIN logs \cup {nextFile}
      /\ \A n : n = nextFile => Log(n)' = {} /\ Synced(n)' = {}
      /\ \A n \in DOMAIN logs : logs'[n] = logs[n] /\ Log(n)' = Log(n) /\ Synced(n)' = Synced(n)
  <2>1. PICK m : m = nextFile
    OBVIOUS
  <2>2. logs' = Over([n \in {m} |-> EmptyLog], logs) /\ m \notin DOMAIN logs
    BY <2>1, <1>1, <1>2
  <2>3. /\ DOMAIN logs' = DOMAIN logs \cup {m}
        /\ Log(m)' = {} /\ Synced(m)' = {}
        /\ \A n \in DOMAIN logs \ {m} : logs'[n] = logs[n] /\ Log(n)' = Log(n) /\ Synced(n)' = Synced(n)
    BY <2>2, NewLog
  <2> QED
    BY <2>1, <2>2, <2>3
<1>5. LogsNeeded' = LogsNeeded \cup {nextFile}
  BY <1>1, <1>2, <1>4 DEF LogsNeeded
<1>6. /\ InTables(manifest)' = InTables(manifest) /\ InTables(current)' = InTables(current)
      /\ Numbers(current)' = Numbers(current) /\ Numbers(manifest)' = Numbers(manifest)
      /\ Numbers(merge)' = Numbers(merge) /\ \A N : TableSet(N)' = TableSet(N)
  BY <1>1 DEF InTables, Numbers, TableSet
<1>7. /\ LogRecords' = UNION { Log(n)' : n \in DOMAIN logs' }
      /\ Recoverable' = InTables(manifest)' \cup UNION { Log(n)' : n \in LogsNeeded' }
  BY DEF LogRecords, Recoverable, Log
<1>8. LogRecords' = LogRecords /\ Recoverable' = Recoverable
  <2>1. \A n \in LogsNeeded : n \in DOMAIN logs
    BY DEF LogsNeeded
  <2> QED
    BY <2>1, <1>4, <1>5, <1>6, <1>7, NeededFacts
<1>9. Fresh = {} /\ Fresh' = {}
  BY <1>1 DEF Fresh
<1>10. CallInv'
  <2>1. Reached' = Reached
    BY <1>1, <1>2, <1>6, <1>8 DEF Reached
  <2> QED
    BY <2>1, <1>1, <1>2, <1>3, <1>9 DEF CallInv, Batched, Settled
<1>11. WritingInv'
  BY <1>1 DEF WritingInv
<1>12. LoggedInv'
  <2>1. logNumber' <= manifest'.log /\ manifest'.log <= logfile'
    BY <1>1, <1>2
  <2>2. imm' \subseteq Recoverable'
    <3>1. mem \subseteq Log(logfile)
      BY <1>2, <1>3 DEF LoggedInv
    <3>2. Log(logfile) \subseteq Recoverable
      BY <1>2, NeededFacts
    <3> QED
      BY <3>1, <3>2, <1>1, <1>8
  <2>3. ASSUME NEW n \in DOMAIN logs', n >= logNumber', NEW r \in Log(n)' PROVE Placed(n, r)'
    <3>1. n \in DOMAIN logs /\ r \in Log(n) /\ n # nextFile
      BY <2>3, <1>2, <1>4
    <3>2. Placed(n, r)
      BY <3>1, <2>3, <1>1, <1>2, <1>3 DEF LoggedInv
    <3>3. Failed(r) => Failed(r)'
      BY <1>1 DEF Failed
    <3> QED
      BY <3>1, <3>2, <3>3, <1>1, <1>2, <1>6, <1>9 DEF Placed
  <2> QED
    BY <2>1, <2>2, <2>3, <1>1 DEF LoggedInv
<1>13. TableInv'
  BY <1>1, <1>2, <1>3, <1>6 DEF TableInv
<1>14. EditInv'
  <2>1. bg' = bg \/ (bg = "idle" /\ bg' = "scheduled")
    BY <1>1, ScheduledFacts
  <2>2. bg \notin {"build", "apply"}
    BY <1>1 DEF StructureInv, ThreadInv
  <2> QED
    BY <2>1, <2>2, <1>1, <1>3, <1>6 DEF EditInv
<1>15. OpeningInv'
  BY <1>1, <1>2 DEF OpeningInv
<1> QED
  BY <1>10, <1>11, <1>12, <1>13, <1>14, <1>15 DEF StoreInv

\* A step that only writes to the log or the memtable.
LEMMA StoreLogged ==
  ASSUME StructureInv, StoreInv, AnswersStay, mode = "up",
         UNCHANGED <<imm, files, manifest, current, logfile, logNumber, bg, edit, merge, mode>>,
         CallInv', WritingInv',
         DOMAIN logs' = DOMAIN logs, mem' \subseteq Log(logfile)',
         \A n \in DOMAIN logs : Log(n) \subseteq Log(n)',
         \A n \in DOMAIN logs : \A r \in Log(n)' : r \in Log(n) \/ Placed(n, r)',
         \A r \in mem \cup Fresh : r \in mem' \cup Fresh'
  PROVE  StoreInv'
<1>1. CallInv /\ LoggedInv /\ TableInv /\ EditInv
  BY DEF StoreInv
<1>2. /\ InTables(manifest)' = InTables(manifest) /\ InTables(current)' = InTables(current)
      /\ Numbers(current)' = Numbers(current) /\ Numbers(manifest)' = Numbers(manifest)
      /\ Numbers(merge)' = Numbers(merge) /\ LogsNeeded' = LogsNeeded
      /\ \A N : TableSet(N)' = TableSet(N)
  BY DEF InTables, Numbers, TableSet, LogsNeeded
<1>3. LoggedInv'
  <2>1. imm' \subseteq Recoverable'
    <3>1. Recoverable' = InTables(manifest)' \cup UNION { Log(n)' : n \in LogsNeeded' }
      BY DEF Recoverable, Log
    <3>2. \A n \in LogsNeeded : n \in DOMAIN logs
      BY DEF LogsNeeded
    <3>3. imm \subseteq Recoverable
      BY <1>1 DEF LoggedInv
    <3> QED
      BY <3>1, <3>2, <3>3, <1>2, NeededFacts
  <2>2. ASSUME NEW n \in DOMAIN logs, n >= logNumber, NEW r \in Log(n)' PROVE Placed(n, r)'
    <3>1. CASE r \in Log(n)
      <4>1. Placed(n, r) /\ r \in Reached
        BY <3>1, <2>2, <1>1, NeededFacts DEF LoggedInv, Reached
      <4>2. Failed(r) => Failed(r)'
        BY <4>1, <1>1, Stays
      <4> QED
        BY <4>1, <4>2, <1>2 DEF Placed
    <3> QED
      BY <3>1, <2>2
  <2> QED
    BY <2>1, <2>2, <1>1 DEF LoggedInv
<1>4. TableInv' /\ EditInv' /\ OpeningInv'
  BY <1>1, <1>2 DEF TableInv, EditInv, OpeningInv
<1> QED
  BY <1>3, <1>4 DEF StoreInv

\* The record is appended to the log, synced, and put in the memtable.
LEMMA StoreRecord ==
  ASSUME StructureInv, SequenceInv, StoreInv,
         AddRecord \/ SyncLog \/ Insert \/ (AddRecordFails /\ logs' # logs)
  PROVE  StoreInv'
<1> USE DEF calls, queue, tables, sets, thread, disk, fate
<1>1. /\ kind' = kind /\ stage \in {"log", "sync", "insert"}
      /\ UNCHANGED <<imm, files, manifest, current, logfile, logNumber, bg, edit, merge, mode>>
  BY DEF AddRecord, SyncLog, Insert, AddRecordFails
<1>2. /\ mode = "up" /\ QueueInv /\ GroupInv /\ DiskOK /\ lastSequence \in Nat /\ logfile \in DOMAIN logs
      /\ group \in 1..Len(writers) /\ Len(writers) # 0
  <2>1. stage # "queued" /\ stage \in {"log", "sync", "insert", "inserted"}
    BY <1>1
  <2>2. mode = "up" /\ QueueInv /\ GroupInv /\ DiskOK /\ lastSequence \in Nat /\ logfile \in LogsNeeded
    BY <2>1, WriterFacts
  <2> QED
    BY <2>1, <2>2 DEF GroupInv, QueueInv, LogsNeeded
<1>3. CallInv /\ WritingInv /\ LoggedInv
  BY DEF StoreInv
<1>4. Record \in Records /\ Record.seq = lastSequence + 1 /\ lastSequence < LastOf(Record)
      /\ Record.ws = Batches /\ Batches \subseteq Batched
  <2>1. stage \in {"log", "sync", "insert", "inserted"}
    BY <1>1
  <2>2. Batches \subseteq 1..Len(kind)
    BY <2>1, <1>2, RecordOfGroup
  <2>3. Batches \subseteq Batched
    BY <2>2 DEF Batches, Batched
  <2> QED
    BY <2>1, <2>3, <1>2, RecordOfGroup
<1>5. First = writers[1]
  BY <1>2, SequenceFacts DEF First, QueueInv
<1>6. InTables(manifest)' = InTables(manifest) /\ InTables(current)' = InTables(current)
  BY <1>1 DEF InTables, Numbers
<1>7. /\ LogRecords' = UNION { Log(n)' : n \in DOMAIN logs' }
      /\ LogRecords = UNION { Log(n) : n \in DOMAIN logs }
  BY DEF LogRecords, Log
\* Nothing that could be found has this record before it is written.
<1>8. stage = "log" => /\ Fresh = {} /\ Record \notin LogRecords
                       /\ \A n \in DOMAIN logs : Record \notin Synced(n)
  <2>1. SUFFICES ASSUME stage = "log" PROVE Fresh = {} /\ Record \notin LogRecords
                                            /\ \A n \in DOMAIN logs : Record \notin Synced(n)
    OBVIOUS
  <2>2. Fresh = {}
    BY <2>1 DEF Fresh
  <2>3. UpTo(AllRecords, lastSequence)
    <3>1. AllRecords \ {} = AllRecords
      OBVIOUS
    <3> QED
      BY <3>1, <2>2, <1>2 DEF SequenceInv, SequenceUp
  <2>4. Record \notin AllRecords
    <3>1. LastOf(Record) \in Nat
      BY <1>4, RecordFacts
    <3> QED
      BY <3>1, <2>3, <1>2, <1>4 DEF UpTo
  <2>5. Record \notin LogRecords
    BY <2>4 DEF AllRecords
  <2>6. \A n \in DOMAIN logs : Synced(n) \subseteq LogRecords
    <3>1. \A n \in DOMAIN logs : Synced(n) \subseteq Log(n)
      BY <1>2, LogFacts
    <3> QED
      BY <3>1, <1>7
  <2> QED
    BY <2>2, <2>5, <2>6
<1>9. CASE AddRecord
  <2>1. /\ stage = "log" /\ logs' = [logs EXCEPT ![logfile].recs = Append(@, Record)]
        /\ stage' = (IF kind[First] = "sync" THEN "sync" ELSE "insert")
        /\ UNCHANGED <<answer, writers, group, mem, lastSequence>>
    BY <1>9 DEF AddRecord
  <2>2. /\ DOMAIN logs' = DOMAIN logs
        /\ \A n \in DOMAIN logs : Synced(n)' = Synced(n)
        /\ \A n \in DOMAIN logs \ {logfile} : Log(n)' = Log(n)
        /\ \A n \in DOMAIN logs : n = logfile => Log(n)' = Log(n) \cup {Record}
    BY <2>1, <1>1, <1>2, <1>4, LogAppended
  <2>3. Record' = Record /\ Fresh' = {Record} /\ AnswersStay
    <3>1. Record' = Record
      BY <2>1, <1>1 DEF Record, Batches
    <3> QED
      BY <3>1, <2>1, <1>1 DEF Fresh, AnswersStay
  <2>4. Reached' \subseteq Reached \cup {Record}
    BY <2>1, <2>2, <1>1, <1>2, <1>6, <1>7 DEF Reached
  <2>5. CallInv'
    <3>1. \A r \in Reached : Settled(r)
      BY <2>1, <1>3, <1>8 DEF CallInv
    <3> QED
      BY <3>1, <2>1, <2>3, <2>4, <1>1, <1>2, <1>3, <1>4 DEF CallInv, Batched, Settled
  <2>6. WritingInv'
    <3>1. Record' \in Log(logfile)'
      <4>1. Log(logfile)' = Log(logfile) \cup {Record} /\ logfile' = logfile
        BY <2>2, <1>1, <1>2 DEF Log
      <4> QED
        BY <4>1, <2>3
    <3>2. \A n \in DOMAIN logs' : Record' \notin Synced(n)'
      BY <2>1, <2>2, <2>3, <1>8
    <3> QED
      BY <3>1, <3>2, <2>1, <1>1, <1>5 DEF WritingInv
  <2>7. mem' \subseteq Log(logfile)'
    <3>1. mem \subseteq Log(logfile) /\ Log(logfile)' = Log(logfile) \cup {Record}
      BY <2>2, <1>1, <1>2, <1>3 DEF LoggedInv, Log
    <3> QED
      BY <3>1, <2>1
  <2>8. \A n \in DOMAIN logs : Log(n) \subseteq Log(n)' /\ \A r \in Log(n)' : r \in Log(n) \/ Placed(n, r)'
    <3> SUFFICES ASSUME NEW n \in DOMAIN logs
                 PROVE  Log(n) \subseteq Log(n)' /\ \A r \in Log(n)' : r \in Log(n) \/ Placed(n, r)'
      OBVIOUS
    <3>1. CASE n = logfile
      <4>1. Log(n)' = Log(n) \cup {Record} /\ n = logfile'
        BY <3>1, <2>2, <1>1
      <4> QED
        BY <4>1, <2>3 DEF Placed
    <3>2. CASE n # logfile
      BY <3>2, <2>2
    <3> QED
      BY <3>1, <3>2
  <2> QED
    BY <2>1, <2>2, <2>3, <2>5, <2>6, <2>7, <2>8, <1>1, <1>2, <1>8, StoreLogged
<1>10. CASE AddRecordFails /\ logs' # logs
  <2>1. /\ stage = "log" /\ logs' = [logs EXCEPT ![logfile].recs = Append(@, Record)]
        /\ mem' = mem /\ Answered(group, "error")
    BY <1>10 DEF AddRecordFails
  <2>2. /\ DOMAIN logs' = DOMAIN logs
        /\ \A n \in DOMAIN logs \ {logfile} : Log(n)' = Log(n)
        /\ \A n \in DOMAIN logs : n = logfile => Log(n)' = Log(n) \cup {Record}
    BY <2>1, <1>1, <1>2, <1>4, LogAppended
  <2>3. /\ AnswersStay /\ stage' = "queued" /\ Fresh' = {}
        /\ \A c \in Range(SubSeq(writers, 1, group)) : answer'[c] = "error"
    BY <2>1, <1>1, <1>2, GroupAnswered
  <2>4. \A r : r = Record => Failed(r)' /\ Settled(r)'
    <3>1. \A c \in Batches : answer'[c] = "error"
      BY <2>3 DEF Batches
    <3>2. \A r : r = Record => \A c \in r.ws : answer'[c] = "error"
      BY <3>1, <1>4
    <3> QED
      BY <3>2 DEF Failed, Settled
  <2>5. Reached' \subseteq Reached \cup {Record}
    BY <2>1, <2>2, <1>1, <1>2, <1>6, <1>7 DEF Reached
  <2>6. CallInv'
    <3>1. \A r \in Reached : Settled(r) /\ r.ws \subseteq Batched' /\ Settled(r)'
      BY <2>1, <2>3, <1>3, <1>8, Stays DEF CallInv
    <3> QED
      BY <3>1, <2>3, <2>4, <2>5, <1>1, <1>2, <1>4 DEF CallInv, Batched
  <2>7. WritingInv'
    BY <2>3 DEF WritingInv
  <2>8. mem' \subseteq Log(logfile)'
    <3>1. mem \subseteq Log(logfile) /\ Log(logfile)' = Log(logfile) \cup {Record}
      BY <2>2, <1>1, <1>2, <1>3 DEF LoggedInv, Log
    <3> QED
      BY <3>1, <2>1
  <2>9. \A n \in DOMAIN logs : Log(n) \subseteq Log(n)' /\ \A r \in Log(n)' : r \in Log(n) \/ Placed(n, r)'
    <3> SUFFICES ASSUME NEW n \in DOMAIN logs
                 PROVE  Log(n) \subseteq Log(n)' /\ \A r \in Log(n)' : r \in Log(n) \/ Placed(n, r)'
      OBVIOUS
    <3>1. CASE n = logfile
      <4>1. Log(n)' = Log(n) \cup {Record}
        BY <3>1, <2>2
      <4> QED
        BY <4>1, <2>4 DEF Placed
    <3>2. CASE n # logfile
      BY <3>2, <2>2
    <3> QED
      BY <3>1, <3>2
  <2> QED
    BY <2>1, <2>2, <2>3, <2>6, <2>7, <2>8, <2>9, <1>1, <1>2, <1>8, StoreLogged
<1>11. CASE SyncLog
  <2>1. /\ stage = "sync" /\ stage' = "insert"
        /\ logs' = [logs EXCEPT ![logfile].synced = Len(logs[logfile].recs)]
        /\ UNCHANGED <<answer, writers, group, mem, lastSequence>>
    BY <1>11 DEF SyncLog
  <2>2. /\ DOMAIN logs' = DOMAIN logs
        /\ \A n \in DOMAIN logs : Log(n)' = Log(n)
        /\ \A n \in DOMAIN logs : n = logfile => Synced(n)' = Log(n)
    BY <2>1, <1>1, <1>2, LogSynced
  <2>3. Record' = Record /\ Fresh' = Fresh /\ AnswersStay
    <3>1. Record' = Record
      BY <2>1, <1>1 DEF Record, Batches
    <3> QED
      BY <3>1, <2>1, <1>1 DEF Fresh, AnswersStay
  <2>4. Reached' = Reached
    BY <2>1, <2>2, <1>1, <1>2, <1>6, <1>7 DEF Reached
  <2>5. CallInv'
    BY <2>1, <2>3, <2>4, <1>1, <1>2, <1>3 DEF CallInv, Batched, Settled
  <2>6. Log(logfile)' = Log(logfile) /\ Synced(logfile)' = Log(logfile)
    BY <2>2, <1>1, <1>2 DEF Log, Synced
  <2>7. WritingInv'
    <3>1. Record \in Log(logfile)
      BY <2>1, <1>3 DEF WritingInv
    <3> QED
      BY <3>1, <2>1, <2>3, <2>6 DEF WritingInv
  <2>8. mem' \subseteq Log(logfile)'
    BY <2>1, <2>6, <1>2, <1>3 DEF LoggedInv
  <2> QED
    BY <2>1, <2>2, <2>3, <2>5, <2>7, <2>8, <1>1, <1>2, StoreLogged
<1>12. CASE Insert
  <2>1. /\ stage = "insert" /\ stage' = "inserted" /\ mem' = mem \cup {Record}
        /\ UNCHANGED <<answer, writers, group, logs, lastSequence>>
    BY <1>12 DEF Insert
  <2>2. Record' = Record /\ Fresh' = {Record} /\ Fresh = {Record} /\ AnswersStay
    <3>1. Record' = Record
      BY <2>1, <1>1 DEF Record, Batches
    <3> QED
      BY <3>1, <2>1, <1>1 DEF Fresh, AnswersStay
  <2>3. /\ \A n \in DOMAIN logs : Log(n)' = Log(n) /\ Synced(n)' = Synced(n)
        /\ Log(logfile)' = Log(logfile) /\ Synced(logfile)' = Synced(logfile)
    BY <2>1, <1>1 DEF Log, Synced
  <2>4. Record \in Log(logfile) /\ Log(logfile) \subseteq LogRecords
    BY <2>1, <1>2, <1>3, <1>7 DEF WritingInv
  <2>5. LogRecords' = LogRecords
    BY <2>1 DEF LogRecords
  <2>6. Reached' = Reached
    BY <2>1, <2>4, <2>5, <1>1, <1>6 DEF Reached
  <2>7. CallInv'
    BY <2>1, <2>2, <2>6, <1>1, <1>2, <1>3 DEF CallInv, Batched, Settled
  <2>8. WritingInv'
    BY <2>1, <2>2, <2>3, <2>4, <1>1, <1>3 DEF WritingInv
  <2>9. mem' \subseteq Log(logfile)'
    BY <2>1, <2>3, <2>4, <1>2, <1>3 DEF LoggedInv
  <2> QED
    BY <2>1, <2>2, <2>3, <2>7, <2>8, <2>9, <1>1, <1>2, StoreLogged
<1> QED
  BY <1>9, <1>10, <1>11, <1>12

-----------------------------------------------------------------------------
(***************************************************************************)
(* The invariant is kept by the background thread.                         *)
(***************************************************************************)
LEMMA BackgroundFrame ==
  ASSUME StructureInv, StructureInv', BackgroundStep
  PROVE  /\ mode' = "up" /\ UNCHANGED <<kind, answer, writers, mem, lastSequence, logfile, power>>
         /\ Fresh' = Fresh /\ Record' = Record
         /\ stage' = stage \/ {stage, stage'} \cap Busy = {}
         /\ logfile \in DOMAIN logs'
<1>1. Wakes
  BY BackgroundWakes
<1>2. UNCHANGED <<mem, lastSequence, logfile, power>>
  BY DEF BackgroundStep, NothingToDo, BeginFlush, BuildTable, BuildTableFails, ApplyFlush, BeginMove,
         BeginMerge, OpenCompactionOutputFile, FinishCompactionOutputFile, InstallCompactionResults,
         MergeFails, ManifestFails, tables, sets, fate
<1>3. mode = "up"
  <2>1. bg # "idle"
    BY DEF BackgroundStep, NothingToDo, BeginFlush, BuildTable, BuildTableFails, ApplyFlush, BeginMove,
           BeginMerge, OpenCompactionOutputFile, FinishCompactionOutputFile, InstallCompactionResults,
           MergeFails, ManifestFails
  <2> QED
    BY <2>1, ThreadFacts
<1>4. UNCHANGED <<kind, answer, writers, group, mode>> /\ (stage' = stage \/ (stage = "wait" /\ stage' = "room"))
  BY <1>1 DEF Wakes, Woken
<1>5. stage' = stage \/ {stage, stage'} \cap Busy = {}
  BY <1>4 DEF Busy
<1>6. Record' = Record
  BY <1>2, <1>4 DEF Record, Batches
<1>7. Fresh' = Fresh
  BY <1>4, <1>6 DEF Fresh
<1>8. logfile \in DOMAIN logs'
  BY <1>2, <1>3, <1>4 DEF StructureInv, NumbersInv
<1> QED
  BY <1>2, <1>3, <1>4, <1>5, <1>6, <1>7, <1>8

\* What recovery would find after it.
LEMMA BackgroundLogs ==
  ASSUME StructureInv, StructureInv', StoreInv, BackgroundStep
  PROVE  /\ DOMAIN logs' \subseteq DOMAIN logs
         /\ \A n \in DOMAIN logs' : Log(n)' = Log(n) /\ Synced(n)' = Synced(n)
         /\ LogsNeeded' = { n \in DOMAIN logs : n >= manifest'.log }
         /\ Recoverable' = InTables(manifest)' \cup UNION { Log(n) : n \in LogsNeeded' }
         /\ Safe' = InTables(manifest)' \cup UNION { Synced(n) : n \in LogsNeeded' }
         /\ LogRecords' \subseteq LogRecords
<1>1. LogsGo
  BY BackgroundContents
<1>2. /\ DOMAIN logs' \subseteq DOMAIN logs
      /\ \A n \in DOMAIN logs' : Log(n)' = Log(n) /\ Synced(n)' = Synced(n)
  BY <1>1 DEF LogsGo, Log, Synced
<1>3. LogsNeeded' = { n \in DOMAIN logs : n >= manifest'.log }
  BY <1>1 DEF LogsNeeded, LogsGo
<1>4. /\ Recoverable' = InTables(manifest)' \cup UNION { Log(n)' : n \in LogsNeeded' }
      /\ Safe' = InTables(manifest)' \cup UNION { Synced(n)' : n \in LogsNeeded' }
      /\ LogRecords' = UNION { Log(n)' : n \in DOMAIN logs' }
  BY DEF Recoverable, Safe, LogRecords, Log, Synced
<1>5. \A n \in LogsNeeded' : n \in DOMAIN logs'
  BY DEF LogsNeeded
<1> QED
  BY <1>2, <1>3, <1>4, <1>5, NeededFacts

\* A step of the background thread, but for the edit it works on.
LEMMA StoreBackground ==
  ASSUME StructureInv, StructureInv', StoreInv, BackgroundStep
  PROVE  CallInv' /\ WritingInv' /\ LoggedInv' /\ TableInv' /\ OpeningInv'
<1>1. /\ mode = "up" /\ DiskOK
      /\ logNumber \in Nat /\ logfile \in Nat /\ manifest.log \in Nat
      /\ logNumber <= manifest.log /\ manifest.log <= logfile /\ logfile \in DOMAIN logs
  BY BackgroundFacts
<1>2. /\ mode' = "up" /\ UNCHANGED <<kind, answer, writers, mem, lastSequence, logfile, power>>
      /\ Fresh' = Fresh /\ Record' = Record
      /\ stage' = stage \/ {stage, stage'} \cap Busy = {}
      /\ logfile \in DOMAIN logs'
  BY BackgroundFrame
<1>3. Finished /\ LogsGo
  BY BackgroundContents
<1>4. /\ DOMAIN logs' \subseteq DOMAIN logs
      /\ \A n \in DOMAIN logs' : Log(n)' = Log(n) /\ Synced(n)' = Synced(n)
      /\ LogsNeeded' = { n \in DOMAIN logs : n >= manifest'.log }
      /\ Recoverable' = InTables(manifest)' \cup UNION { Log(n) : n \in LogsNeeded' }
      /\ LogRecords' \subseteq LogRecords
  BY BackgroundLogs
<1>5. CallInv /\ WritingInv /\ LoggedInv /\ TableInv
  BY DEF StoreInv
<1>6. Log(logfile)' = Log(logfile) /\ Synced(logfile)' = Synced(logfile)
  <2>1. PICK n : n = logfile
    OBVIOUS
  <2>2. Log(n)' = Log(n) /\ Synced(n)' = Synced(n)
    BY <2>1, <1>2, <1>4
  <2> QED
    BY <2>1, <2>2, <1>2 DEF Log, Synced
<1>7. /\ InTables(manifest) \subseteq InTables(manifest)'
      /\ InTables(manifest)' \subseteq InTables(manifest) \cup imm
      /\ InTables(current)' \subseteq InTables(current) \cup imm
      /\ imm' \subseteq imm
      /\ logNumber' \in {logNumber, logfile} /\ manifest'.log \in {manifest.log, logNumber, logfile}
  BY <1>3 DEF Finished
<1>8. CallInv'
  <2>1. Reached' \subseteq Reached
    BY <1>2, <1>4, <1>7 DEF Reached
  <2> QED
    BY <2>1, <1>2, <1>1, <1>5 DEF CallInv, Batched, Settled
<1>9. WritingInv'
  <2>1. CASE stage' \notin Busy
    BY <2>1 DEF WritingInv, Busy
  <2>2. CASE stage' = stage
    <3>1. stage = "sync" => \A n \in DOMAIN logs' : Record \notin Synced(n)'
      BY <1>4, <1>5 DEF WritingInv
    <3> QED
      BY <2>2, <3>1, <1>2, <1>5, <1>6 DEF WritingInv
  <2> QED
    BY <2>1, <2>2, <1>2
<1>10. TableInv'
  BY <1>2, <1>3, <1>5, <1>1 DEF TableInv, Finished
<1>11. OpeningInv'
  BY <1>2 DEF OpeningInv
<1>12. LoggedInv'
  <2>1. /\ logNumber <= manifest.log /\ manifest.log <= logfile
        /\ mem \subseteq Log(logfile) /\ imm \subseteq Recoverable
        /\ \A n \in DOMAIN logs : n >= logNumber => \A r \in Log(n) : Placed(n, r)
    BY <1>1, <1>5 DEF LoggedInv
  <2>2. logNumber' <= manifest'.log /\ manifest'.log <= logfile'
    BY <1>1, <1>2, <1>3 DEF Finished
  <2>3. mem' \subseteq Log(logfile)'
    BY <2>1, <1>2, <1>6
  <2>4. imm' \subseteq Recoverable'
    <3>1. CASE InTables(manifest)' = InTables(manifest) /\ manifest'.log \in {manifest.log, logNumber}
      <4>1. LogsNeeded \subseteq LogsNeeded'
        <5> SUFFICES ASSUME NEW n \in LogsNeeded PROVE n \in LogsNeeded'
          OBVIOUS
        <5>1. n \in DOMAIN logs /\ n \in Nat /\ n >= manifest.log
          BY <1>1 DEF LogsNeeded, DiskOK
        <5>2. n >= manifest'.log
          BY <5>1, <3>1, <1>1
        <5> QED
          BY <5>1, <5>2, <1>4
      <4>2. Recoverable \subseteq Recoverable'
        BY <4>1, <3>1, <1>4, NeededFacts
      <4> QED
        BY <4>2, <2>1, <1>7
    <3>2. CASE InTables(manifest)' = InTables(manifest) \cup imm
      BY <3>2, <1>4, <1>7
    <3> QED
      BY <3>1, <3>2, <1>3 DEF Finished
  <2>5. ASSUME NEW n \in DOMAIN logs', n >= logNumber', NEW r \in Log(n)' PROVE Placed(n, r)'
    <3>1. n \in DOMAIN logs /\ r \in Log(n) /\ n \in Nat
      BY <2>5, <1>1, <1>4 DEF DiskOK
    <3>2. n >= logNumber
      BY <3>1, <2>5, <1>1, <1>7
    <3>3. Placed(n, r)
      BY <2>1, <3>1, <3>2
    <3>4. Failed(r)' = Failed(r)
      BY <1>2 DEF Failed
    <3>5. imm' = imm \/ InTables(manifest)' = InTables(manifest) \cup imm
      BY <1>3 DEF Finished
    <3> QED
      BY <3>3, <3>4, <3>5, <1>2, <1>7 DEF Placed
  <2> QED
    BY <2>2, <2>3, <2>4, <2>5 DEF LoggedInv
<1> QED
  BY <1>8, <1>9, <1>10, <1>11, <1>12

\* The outputs of a compaction have what its inputs had.
LEMMA SharesCover ==
  ASSUME NEW f \in Shares
  PROVE  DOMAIN f = merge.out /\ UNION { f[n] : n \in merge.out } = TableSet(Numbers(merge))
<1>1. PICK to \in [UNION { files[n] : n \in Numbers(merge) } -> merge.out] :
             f = [n \in merge.out |-> { r \in DOMAIN to : to[r] = n }]
  BY DEF Shares
<1>2. DOMAIN to = TableSet(Numbers(merge)) /\ \A r \in DOMAIN to : to[r] \in merge.out
  BY <1>1 DEF TableSet
<1>3. DOMAIN f = merge.out /\ \A n \in merge.out : f[n] = { r \in DOMAIN to : to[r] = n }
  BY <1>1
<1>4. UNION { f[n] : n \in merge.out } = DOMAIN to
  BY <1>2, <1>3
<1> QED
  BY <1>2, <1>3, <1>4

\* The edit the background thread works on.
LEMMA StoreEdit ==
  ASSUME StructureInv, StructureInv', StoreInv, BackgroundStep
  PROVE  EditInv'
<1> USE DEF calls, queue, tables, sets, thread, disk, fate
<1> DEFINE M == Numbers(manifest)
           K == Numbers(current)
           Resting == bg' \in {"idle", "scheduled"}
<1>1. /\ mode = "up" /\ bgError \in BOOLEAN /\ DiskOK /\ TablesKept
      /\ edit \in Edits /\ current \in Versions /\ merge \in Merges
      /\ (K \cup M) \cap pending = {}
      /\ pending = merge.out \cup (IF bg = "build" THEN edit.add0 ELSE {})
      /\ bg = "apply" => edit.log = logfile /\ edit.add1 = {}
      /\ nextFile \in Nat /\ logNumber \in Nat /\ logfile \in Nat
  BY BackgroundFacts
<1>2. /\ bg \notin {"idle", "scheduled"} => K \subseteq M
      /\ Numbers(merge) \subseteq K
      /\ bg = "build" => edit.add0 # {}
      /\ bg = "apply" => edit.del = {} /\ TableSet(edit.add0) = imm
  BY <1>1 DEF StoreInv, EditInv
<1>3. bg = "scheduled" /\ ~bgError => K = M
  BY <1>1 DEF StructureInv, ThreadInv, Numbers
<1>4. Numbers(NoMerge) = {}
  BY DEF NoMerge, Numbers
\* The thread is done, or goes back to its compaction.
<1>5. ASSUME UNCHANGED <<manifest, current>>, merge' \in {merge, NoMerge},
             Resting \/ (bg' = "merge" /\ bg \notin {"idle", "scheduled"})
      PROVE  EditInv'
  <2>1. Numbers(current') = K /\ Numbers(manifest') = M /\ Numbers(merge') \subseteq K
    BY <1>2, <1>4, <1>5
  <2> QED
    BY <2>1, <1>2, <1>5 DEF EditInv, Numbers
<1>6. CASE NothingToDo \/ BuildTableFails \/ MergeFails
  <2>1. CASE NothingToDo
    <3>1. UNCHANGED <<manifest, current, merge>> /\ Resting
      BY <2>1, IdleFacts DEF NothingToDo
    <3> QED
      BY <3>1, <1>5
  <2>2. CASE BuildTableFails
    <3>1. UNCHANGED <<manifest, current, merge>> /\ bg = "build" /\ (bg' = "merge" \/ Resting)
      BY <2>2, FlushedFacts DEF BuildTableFails
    <3> QED
      BY <3>1, <1>5
  <2>3. CASE MergeFails
    <3>1. UNCHANGED <<manifest, current>> /\ merge' = NoMerge /\ Resting
      BY <2>3, IdleFacts DEF MergeFails
    <3> QED
      BY <3>1, <1>5
  <2> QED
    BY <1>6, <2>1, <2>2, <2>3
<1>7. CASE BeginFlush
  <2>1. /\ bg = "merge" \/ (bg = "scheduled" /\ ~bgError)
        /\ bg' = "build" /\ edit' = [NoEdit EXCEPT !.add0 = {nextFile}]
        /\ UNCHANGED <<manifest, current, merge>>
    BY <1>7 DEF BeginFlush
  <2>2. edit'.add0 # {}
    BY <2>1 DEF NoEdit
  <2>3. K \subseteq M
    BY <2>1, <1>2, <1>3
  <2> QED
    BY <2>1, <2>2, <2>3, <1>2 DEF EditInv, Numbers
<1>8. CASE BuildTable
  <2>1. PICK add : add = IF imm = {} THEN {} ELSE edit.add0
    OBVIOUS
  <2>2. PICK f : f = [n \in add |-> imm]
    OBVIOUS
  <2>3. /\ files' = Over(f, files) /\ edit' = Edit(add, {}, {}, logfile, nextFile)
        /\ bg = "build" /\ bg' = "apply" /\ UNCHANGED <<imm, manifest, current, merge>>
    BY <1>8, <2>1, <2>2 DEF BuildTable
  <2>4. edit'.add0 = add /\ edit'.del = {}
    BY <2>3 DEF Edit
  <2>5. \A n \in add : files'[n] = imm
    <3>1. \A n \in DOMAIN f : Over(f, files)[n] = f[n]
      BY OverFacts
    <3> QED
      BY <3>1, <2>2, <2>3
  <2>6. UNION { files'[n] : n \in add } = imm
    <3>1. CASE imm = {}
      BY <3>1, <2>1
    <3>2. CASE imm # {}
      <4>1. add # {}
        BY <3>2, <2>1, <2>3, <1>2
      <4> QED
        BY <4>1, <2>5
    <3> QED
      BY <3>1, <3>2
  <2>7. TableSet(edit.add0)' = imm'
    BY <2>3, <2>4, <2>6 DEF TableSet
  <2> QED
    BY <2>3, <2>4, <2>7, <1>2 DEF EditInv, Numbers
<1>9. CASE BeginMove
  <2>1. /\ bg = "scheduled" /\ ~bgError /\ bg' = "install"
        /\ edit' = Edit({}, current.l0, current.l0, logNumber, nextFile)
        /\ UNCHANGED <<manifest, current, merge>>
    BY <1>9 DEF BeginMove
  <2>2. edit'.add0 = {} /\ edit'.add1 = current.l0 /\ edit'.del = current.l0
    BY <2>1 DEF Edit
  <2>3. K = M
    BY <2>1, <1>3
  <2> QED
    BY <2>1, <2>2, <2>3, <1>2 DEF EditInv, Numbers, TableSet
<1>10. CASE BeginMerge
  <2>1. /\ bg = "scheduled" /\ ~bgError /\ bg' = "merge"
        /\ merge' = [l0 |-> current.l0, l1 |-> current.l1, out |-> {}]
        /\ UNCHANGED <<manifest, current>>
    BY <1>10 DEF BeginMerge
  <2>2. K = M
    BY <2>1, <1>3
  <2>3. Numbers(merge') = K
    BY <2>1 DEF Numbers
  <2> QED
    BY <2>1, <2>2, <2>3 DEF EditInv, Numbers
<1>11. CASE OpenCompactionOutputFile
  <2>1. /\ bg = "merge" /\ bg' = "merge" /\ merge' = [merge EXCEPT !.out = merge.out \cup {nextFile}]
        /\ UNCHANGED <<manifest, current>>
    BY <1>11 DEF OpenCompactionOutputFile
  <2>2. merge'.l0 = merge.l0 /\ merge'.l1 = merge.l1
    BY <2>1, <1>1 DEF Merges
  <2> QED
    BY <2>1, <2>2, <1>2 DEF EditInv, Numbers
<1>12. CASE FinishCompactionOutputFile
  <2>1. PICK f \in Shares : files' = Over(f, files)
    BY <1>12 DEF FinishCompactionOutputFile
  <2>2. /\ bg = "merge" /\ bg' = "install"
        /\ edit' = Edit({}, merge.out, Numbers(merge), logNumber, nextFile)
        /\ UNCHANGED <<manifest, current, merge>>
    BY <1>12 DEF FinishCompactionOutputFile
  <2>3. edit'.add0 = {} /\ edit'.add1 = merge.out /\ edit'.del = Numbers(merge)
    BY <2>2 DEF Edit
  <2>4. DOMAIN f = merge.out /\ UNION { f[n] : n \in merge.out } = TableSet(Numbers(merge))
    BY SharesCover
  <2>5. /\ \A n \in merge.out : files'[n] = f[n]
        /\ \A n \in DOMAIN files \ merge.out : files'[n] = files[n]
    <3>1. /\ \A n \in DOMAIN f : Over(f, files)[n] = f[n]
          /\ \A n \in DOMAIN files \ DOMAIN f : Over(f, files)[n] = files[n]
      BY OverFacts
    <3> QED
      BY <3>1, <2>1, <2>4
  <2>6. \A n \in Numbers(merge) : files'[n] = files[n]
    <3>1. \A n \in Numbers(merge) : n \in DOMAIN files /\ n \notin merge.out
      BY <1>1, <1>2 DEF TablesKept
    <3> QED
      BY <3>1, <2>5
  <2>7. /\ UNION { files'[n] : n \in merge.out } = UNION { f[n] : n \in merge.out }
        /\ UNION { files'[n] : n \in Numbers(merge) } = TableSet(Numbers(merge))
    BY <2>5, <2>6 DEF TableSet
  <2>8. TableSet(edit.add1)' = TableSet(edit.del)'
    BY <2>3, <2>4, <2>7 DEF TableSet
  <2> QED
    BY <2>2, <2>3, <2>8, <1>2 DEF EditInv, Numbers
<1>13. CASE ApplyFlush
  <2>1. /\ bg = "apply" /\ manifest' = Logged(edit) /\ current' = Applied(current, edit)
        /\ merge' = merge /\ (bg' = "merge" \/ Resting)
    BY <1>13, FlushedFacts DEF ApplyFlush
  <2>2. /\ manifest'.l0 = (manifest.l0 \ edit.del) \cup edit.add0
        /\ manifest'.l1 = (manifest.l1 \ edit.del) \cup edit.add1
        /\ current'.l0 = (current.l0 \ edit.del) \cup edit.add0
        /\ current'.l1 = (current.l1 \ edit.del) \cup edit.add1
    BY <2>1, <1>1, LoggedFacts, AppliedFacts
  <2>3. Numbers(manifest') = M \cup edit.add0 /\ Numbers(current') = K \cup edit.add0
    BY <2>1, <2>2, <1>1, <1>2 DEF Numbers
  <2>4. K \subseteq M
    BY <2>1, <1>2
  <2> QED
    BY <2>1, <2>3, <2>4, <1>2 DEF EditInv, Numbers
<1>14. CASE InstallCompactionResults
  <2>1. merge' = NoMerge /\ Resting
    BY <1>14, IdleFacts DEF InstallCompactionResults
  <2>2. Numbers(merge') \subseteq Numbers(current')
    BY <2>1, <1>4
  <2> QED
    BY <2>1, <2>2 DEF EditInv, Numbers
<1>15. CASE ManifestFails
  <2>1. /\ bg \in {"apply", "install"} /\ manifest' \in {manifest, Logged(edit)}
        /\ current' = current /\ merge' \in {merge, NoMerge}
        /\ Resting \/ (bg' = "merge" /\ bg = "apply")
    BY <1>15, FlushedFacts, IdleFacts DEF ManifestFails
  <2>2. Numbers(merge') \subseteq K
    BY <2>1, <1>2, <1>4
  <2>3. bg = "apply" => K \subseteq Numbers(manifest')
    <3>1. CASE manifest' = manifest
      BY <3>1, <1>2
    <3>2. CASE manifest' = Logged(edit)
      <4>1. /\ manifest'.l0 = (manifest.l0 \ edit.del) \cup edit.add0
            /\ manifest'.l1 = (manifest.l1 \ edit.del) \cup edit.add1
        BY <3>2, <1>1, LoggedFacts
      <4> QED
        BY <4>1, <1>2 DEF Numbers
    <3> QED
      BY <2>1, <3>1, <3>2
  <2> QED
    BY <2>1, <2>2, <2>3 DEF EditInv, Numbers
<1> QED
  BY <1>6, <1>7, <1>8, <1>9, <1>10, <1>11, <1>12, <1>13, <1>14, <1>15 DEF BackgroundStep

-----------------------------------------------------------------------------
(***************************************************************************)
(* The invariant is kept by crashes, and by opening the database.          *)
(***************************************************************************)
LEMMA StoreElse ==
  ASSUME StructureInv, StoreInv,
         \/ \E k \in Kind : Write(k)
         \/ NewIterator \/ DeleteIterator
         \/ UNCHANGED vars
  PROVE  StoreInv'
<1> USE DEF calls, queue, tables, sets, thread, disk, fate
<1>1. UNCHANGED <<mem, imm, logs, files, manifest, current, logfile, logNumber, bg, edit, merge, mode, stage>>
  BY DEF Write, NewIterator, DeleteIterator, vars
<1>2. CASE \E k \in Kind : Write(k)
  <2>1. PICK k \in Kind : Write(k)
    BY <1>2
  <2>2. Fresh' = Fresh /\ mode = "up"
    BY <2>1, RecordStays DEF Write
  <2>3. /\ AnswersStay
        /\ Len(writers) # 0 => writers'[1] = writers[1] /\ writers[1] \in 1..Len(kind)
    BY <2>1, CallJoins DEF StructureInv
  <2>4. stage \in Busy => Record' = Record /\ kind'[writers'[1]] = kind[writers[1]]
    <3>1. SUFFICES ASSUME stage \in Busy PROVE Record' = Record /\ kind'[writers'[1]] = kind[writers[1]]
      OBVIOUS
    <3>2. Fresh = {Record} /\ Fresh' = {Record'}
      BY <3>1, <1>1 DEF Fresh, Busy
    <3>3. Record' = Record
      BY <3>2, <2>2
    <3>4. Len(writers) # 0
      BY <3>1 DEF StructureInv, QueueInv, Busy
    <3> QED
      BY <3>3, <3>4, <2>3 DEF AnswersStay
  <2>5. stage' \notin Busy \/ (stage' = stage /\ Record' = Record /\ kind'[writers'[1]] = kind[writers[1]])
    BY <2>4, <1>1
  <2> QED
    BY <2>2, <2>3, <2>5, <1>1, StoreFrame DEF FreshGoes
<1>3. CASE NewIterator \/ DeleteIterator \/ UNCHANGED vars
  <2>1. UNCHANGED <<kind, answer, writers, group, lastSequence>>
    BY <1>3 DEF NewIterator, DeleteIterator, vars
  <2>2. AnswersStay /\ Record' = Record
    BY <2>1 DEF AnswersStay, Record, Batches
  <2>3. Fresh' = Fresh
    BY <2>2, <1>1 DEF Fresh
  <2>4. kind'[writers'[1]] = kind[writers[1]] /\ FreshGoes
    BY <2>1, <2>3 DEF FreshGoes
  <2> QED
    BY <2>1, <2>2, <2>4, <1>1, StoreFrame
<1> QED
  BY <1>2, <1>3

\* What is left after a crash.
LEMMA CrashContents ==
  ASSUME StructureInv, ProcessCrash \/ MachineCrash
  PROVE  /\ mode' = "down" /\ kind' = kind /\ stage' = "queued"
         /\ DOMAIN answer = 1..Len(kind) /\ DOMAIN kind = 1..Len(kind)
         /\ \A c \in 1..Len(kind) : answer'[c] = "dead"
         /\ mem' = {} /\ imm' = {} /\ InTables(current)' = {}
         /\ InTables(manifest)' = InTables(manifest) /\ LogRecords' \subseteq LogRecords
         /\ LogsNeeded' = LogsNeeded
         /\ \A n \in DOMAIN logs : Log(n)' \subseteq Log(n) /\ Synced(n) \subseteq Synced(n)'
                                   /\ Synced(n)' \subseteq Log(n)'
         /\ ProcessCrash => power' = power /\ \A n \in DOMAIN logs : Log(n)' = Log(n)
         /\ MachineCrash => power' = ~power
<1>1. QueueInv /\ DiskOK
  BY DEF StructureInv, ContentInv
<1>2. Gone
  BY DEF ProcessCrash, MachineCrash
<1>3. /\ mode' = "down" /\ kind' = kind /\ stage' = "queued" /\ mem' = {} /\ imm' = {}
      /\ answer' = [c \in DOMAIN answer |-> "dead"] /\ current' = [l0 |-> {}, l1 |-> {}]
  BY <1>2 DEF Gone
<1>4. DOMAIN answer = 1..Len(kind) /\ DOMAIN kind = 1..Len(kind)
  BY <1>1, SequenceFacts DEF QueueInv
<1>5. \A c \in 1..Len(kind) : answer'[c] = "dead"
  BY <1>3, <1>4
<1>6. InTables(current)' = {}
  BY <1>3 DEF InTables, Numbers
<1>7. UNCHANGED <<files, manifest>> /\ DOMAIN logs' = DOMAIN logs
  BY <1>1, DiskCut DEF ProcessCrash, disk
<1>8. InTables(manifest)' = InTables(manifest) /\ LogsNeeded' = LogsNeeded
  BY <1>7 DEF InTables, Numbers, LogsNeeded
<1>9. ASSUME NEW n \in DOMAIN logs
      PROVE  /\ Log(n)' \subseteq Log(n) /\ Synced(n) \subseteq Synced(n)' /\ Synced(n)' \subseteq Log(n)'
             /\ ProcessCrash => Log(n)' = Log(n)
  <2>1. CASE ProcessCrash
    <3>1. logs' = logs
      BY <2>1 DEF ProcessCrash, disk
    <3>2. Log(n)' = Log(n) /\ Synced(n)' = Synced(n)
      BY <3>1 DEF Log, Synced
    <3> QED
      BY <3>2, <1>1, LogFacts
  <2>2. CASE MachineCrash /\ ~ProcessCrash
    <3>1. PICK k \in logs[n].synced..Len(logs[n].recs) :
            logs'[n].recs = SubSeq(logs[n].recs, 1, k) /\ logs'[n].synced = k
      BY <2>2, <1>1, DiskCut
    <3>2. PICK old, new : old = logs[n].recs /\ new = logs'[n].recs
      OBVIOUS
    <3>3. /\ old \in Seq(Records) /\ Len(old) \in Nat /\ logs[n].synced \in 0..Len(old)
          /\ k \in 0..Len(old) /\ logs[n].synced <= k
      BY <3>1, <3>2, <1>1, LogFacts, SequenceFacts
    <3>4. /\ new = SubSeq(old, 1, k) /\ new \in Seq(Records) /\ Len(new) = k
          /\ \A i \in 1..k : new[i] = old[i]
      BY <3>1, <3>2, <3>3, SubSeqFacts
    <3>5. \A a : a \in Log(n)' <=> \E i \in 1..k : old[i] = a
      BY <3>2, <3>3, <3>4, FrontRange DEF Log
    <3>6. \A a : a \in Log(n) <=> \E i \in 1..Len(old) : old[i] = a
      BY <3>2, <3>3, RangeFacts DEF Log
    <3>7. \A a : a \in Synced(n) <=> \E i \in 1..logs[n].synced : old[i] = a
      BY <3>2, <3>3, FrontRange DEF Synced
    <3>8. \A a : a \in Synced(n)' <=> \E i \in 1..k : new[i] = a
      <4>1. new \in Seq(Records) /\ k \in 0..Len(new)
        BY <3>3, <3>4
      <4>2. \A a : a \in Range(SubSeq(new, 1, k)) <=> \E i \in 1..k : new[i] = a
        BY <4>1, FrontRange
      <4>3. Synced(n)' = Range(SubSeq(logs'[n].recs, 1, logs'[n].synced))
        BY DEF Synced
      <4>4. logs'[n].recs = new /\ logs'[n].synced = k
        BY <3>1, <3>2
      <4>5. Synced(n)' = Range(SubSeq(new, 1, k))
        BY <4>3, <4>4
      <4> QED
        BY <4>2, <4>5
    <3>9. 1..k \subseteq 1..Len(old) /\ 1..logs[n].synced \subseteq 1..k
      BY <3>3
    <3> QED
      BY <2>2, <3>4, <3>5, <3>6, <3>7, <3>8, <3>9
  <2> QED
    BY <2>1, <2>2
<1>10. LogRecords' \subseteq LogRecords
  <2>1. LogRecords' = UNION { Log(n)' : n \in DOMAIN logs' }
    BY DEF LogRecords, Log
  <2> QED
    BY <2>1, <1>7, <1>9, NeededFacts
<1>11. ProcessCrash => power' = power
  BY DEF ProcessCrash
<1>12. MachineCrash => power' = ~power
  BY DEF MachineCrash
<1> QED
  BY <1>3, <1>4, <1>5, <1>6, <1>8, <1>9, <1>10, <1>11, <1>12

\* A crash.
LEMMA StoreGone ==
  ASSUME StructureInv, StoreInv, ProcessCrash \/ MachineCrash
  PROVE  StoreInv'
<1>1. /\ mode' = "down" /\ kind' = kind /\ stage' = "queued"
      /\ \A c \in 1..Len(kind) : answer'[c] = "dead"
      /\ mem' = {} /\ imm' = {} /\ InTables(current)' = {}
      /\ InTables(manifest)' = InTables(manifest) /\ LogRecords' \subseteq LogRecords
  BY CrashContents
<1>2. Reached' \subseteq Reached
  BY <1>1 DEF Reached
<1>3. \A r \in Reached : r.ws \subseteq Batched /\ \A c \in r.ws : answer'[c] = "dead"
  BY <1>1 DEF StoreInv, CallInv, Batched
<1>4. CallInv'
  BY <1>1, <1>2, <1>3 DEF CallInv, Batched, Settled
<1> QED
  BY <1>1, <1>4 DEF StoreInv, WritingInv, LoggedInv, TableInv, EditInv, OpeningInv

\* What recovery has found and written.
LEMMA RecoverContents ==
  ASSUME StructureInv, Recover
  PROVE  /\ InTables(manifest)' = InTables(manifest) /\ InTables(current)' = InTables(manifest)
         /\ LogRecords' \subseteq LogRecords /\ Recoverable' = Recoverable /\ Safe' = Safe
         /\ edit'.del = {}
         /\ Recoverable \subseteq InTables(manifest) \cup UNION { files'[n] : n \in edit'.add0 }
         /\ \A n \in DOMAIN logs' : n >= edit'.log => Log(n)' = {}
<1>1. /\ DiskOK /\ Numbers(manifest) \subseteq DOMAIN files
      /\ Below(Numbers(manifest), manifest.next) /\ manifest.log < manifest.next
  BY DEF StructureInv, ContentInv, Recover, NumbersInv
<1>2. PICK r : /\ \E k \in Nat : ReplayedTo(r, k)
               /\ files' = Over(r.tabs, files)
               /\ logs' = Over([n \in {r.next} |-> EmptyLog], logs)
               /\ edit' = [add0 |-> DOMAIN r.tabs, add1 |-> {}, del |-> {}, log |-> r.next,
                           last |-> r.last, next |-> r.next + 1]
               /\ \A n \in LogsNeeded : /\ n < r.next
                                        /\ \A c \in Range(logs[n].recs) : \E t \in DOMAIN r.tabs : c \in r.tabs[t]
  BY <1>1, RecoverFacts
<1>3. current' = [l0 |-> manifest.l0, l1 |-> manifest.l1] /\ manifest' = manifest
  BY DEF Recover
<1>4. /\ r.next \in Nat /\ manifest.next < r.next /\ manifest.next \in Nat /\ manifest.log \in Nat
      /\ \A t \in DOMAIN r.tabs : t \in Nat /\ manifest.next < t
      /\ DOMAIN files \subseteq Nat /\ DOMAIN logs \subseteq Nat
  BY <1>1, <1>2 DEF ReplayedTo, DiskOK
<1>5. /\ DOMAIN files' = DOMAIN r.tabs \cup DOMAIN files
      /\ \A n \in DOMAIN r.tabs : files'[n] = r.tabs[n]
      /\ \A n \in DOMAIN files \ DOMAIN r.tabs : files'[n] = files[n]
  <2>1. PICK f : f = r.tabs
    OBVIOUS
  <2>2. /\ DOMAIN Over(f, files) = DOMAIN f \cup DOMAIN files
        /\ \A n \in DOMAIN f : Over(f, files)[n] = f[n]
        /\ \A n \in DOMAIN files \ DOMAIN f : Over(f, files)[n] = files[n]
    BY OverFacts
  <2> QED
    BY <1>2, <2>1, <2>2
<1>6. PICK m : m = r.next
  OBVIOUS
<1>7. /\ DOMAIN logs' = DOMAIN logs \cup {m}
      /\ Log(m)' = {} /\ Synced(m)' = {}
      /\ \A n \in DOMAIN logs \ {m} : logs'[n] = logs[n] /\ Log(n)' = Log(n) /\ Synced(n)' = Synced(n)
  <2>1. logs' = Over([n \in {m} |-> EmptyLog], logs)
    BY <1>2, <1>6
  <2> QED
    BY <2>1, NewLog
<1>8. ASSUME NEW n \in DOMAIN logs PROVE n < m /\ n # m
  <2>1. n \in Nat
    BY <1>4
  <2>2. CASE n >= manifest.log
    <3>1. n \in LogsNeeded
      BY <2>2 DEF LogsNeeded
    <3>2. n < r.next
      BY <3>1, <1>2
    <3> QED
      BY <3>2, <2>1, <1>4, <1>6
  <2>3. CASE ~(n >= manifest.log)
    BY <2>1, <2>3, <1>1, <1>4, <1>6
  <2> QED
    BY <2>2, <2>3
<1>9. LogsNeeded' = LogsNeeded \cup {m}
  <2>1. m >= manifest.log
    BY <1>1, <1>4, <1>6
  <2> QED
    BY <2>1, <1>3, <1>7, <1>8 DEF LogsNeeded
<1>10. \A n \in Numbers(manifest) : n \in DOMAIN files' /\ files'[n] = files[n]
  <2> SUFFICES ASSUME NEW n \in Numbers(manifest) PROVE n \in DOMAIN files' /\ files'[n] = files[n]
    OBVIOUS
  <2>1. n \in DOMAIN files /\ n \in Nat /\ n < manifest.next
    BY <1>1, <1>4 DEF Below
  <2>2. n \notin DOMAIN r.tabs
    BY <2>1, <1>4
  <2> QED
    BY <2>1, <2>2, <1>5
<1>11. InTables(manifest)' = InTables(manifest) /\ InTables(current)' = InTables(manifest)
  <2>1. Numbers(manifest') = Numbers(manifest) /\ Numbers(current') = Numbers(manifest)
    BY <1>3 DEF Numbers
  <2>2. /\ InTables(manifest) = UNION { files[n] : n \in Numbers(manifest) \cap DOMAIN files }
        /\ InTables(manifest)' = UNION { files'[n] : n \in Numbers(manifest') \cap DOMAIN files' }
        /\ InTables(current)' = UNION { files'[n] : n \in Numbers(current') \cap DOMAIN files' }
    BY DEF InTables, Numbers
  <2>3. Numbers(manifest) \cap DOMAIN files = Numbers(manifest) /\ Numbers(manifest) \cap DOMAIN files' = Numbers(manifest)
    BY <1>1, <1>10
  <2>4. { files'[n] : n \in Numbers(manifest) } = { files[n] : n \in Numbers(manifest) }
    BY <1>10
  <2> QED
    BY <2>1, <2>2, <2>3, <2>4
<1>12. \A n \in LogsNeeded : n \in DOMAIN logs
  BY DEF LogsNeeded
<1>13. /\ Recoverable' = InTables(manifest)' \cup UNION { Log(n)' : n \in LogsNeeded' }
       /\ Safe' = InTables(manifest)' \cup UNION { Synced(n)' : n \in LogsNeeded' }
       /\ LogRecords' = UNION { Log(n)' : n \in DOMAIN logs' }
  BY DEF Recoverable, Safe, LogRecords, Log, Synced
<1>14. Recoverable' = Recoverable /\ Safe' = Safe
  <2>1. \A n \in LogsNeeded : Log(n)' = Log(n) /\ Synced(n)' = Synced(n)
    BY <1>7, <1>8, <1>12
  <2>2. /\ UNION { Log(n)' : n \in LogsNeeded' } = UNION { Log(n) : n \in LogsNeeded }
        /\ UNION { Synced(n)' : n \in LogsNeeded' } = UNION { Synced(n) : n \in LogsNeeded }
    BY <2>1, <1>7, <1>9
  <2> QED
    BY <2>2, <1>11, <1>13, NeededFacts
<1>15. LogRecords' \subseteq LogRecords
  BY <1>7, <1>13, NeededFacts
<1>16. edit'.del = {} /\ edit'.add0 = DOMAIN r.tabs /\ edit'.log = m
  BY <1>2, <1>6
<1>17. Recoverable \subseteq InTables(manifest) \cup UNION { files'[n] : n \in edit'.add0 }
  <2>1. \A n \in LogsNeeded : \A c \in Log(n) : \E t \in DOMAIN r.tabs : c \in files'[t]
    BY <1>2, <1>5 DEF Log
  <2> QED
    BY <2>1, <1>16, NeededFacts
<1>18. \A n \in DOMAIN logs' : n >= edit'.log => Log(n)' = {}
  <2> SUFFICES ASSUME NEW n \in DOMAIN logs', n >= m PROVE Log(n)' = {}
    BY <1>16
  <2>1. n \notin DOMAIN logs
    BY <1>4, <1>6, <1>8
  <2> QED
    BY <2>1, <1>7
<1> QED
  BY <1>11, <1>14, <1>15, <1>16, <1>17, <1>18

\* The logs are replayed.
LEMMA StoreRecover ==
  ASSUME StructureInv, StoreInv, Recover
  PROVE  StoreInv'
<1>1. /\ InTables(manifest)' = InTables(manifest) /\ InTables(current)' = InTables(manifest)
      /\ LogRecords' \subseteq LogRecords /\ Recoverable' = Recoverable
      /\ edit'.del = {}
      /\ Recoverable \subseteq InTables(manifest) \cup UNION { files'[n] : n \in edit'.add0 }
      /\ \A n \in DOMAIN logs' : n >= edit'.log => Log(n)' = {}
  BY RecoverContents
<1>2. mode = "down" /\ mode' = "replayed" /\ UNCHANGED <<kind, answer, stage, mem, imm>>
  BY DEF Recover, calls, queue, tables
<1>3. stage = "queued"
  BY <1>2 DEF StructureInv, QueueInv
<1>4. Fresh = {} /\ Fresh' = {} /\ Reached' \subseteq Reached
  BY <1>1, <1>2, <1>3 DEF Fresh, Reached
<1>5. CallInv'
  BY <1>2, <1>4 DEF StoreInv, CallInv, Batched, Settled
<1>6. OpeningInv'
  <2>1. TableSet(edit.add0)' = UNION { files'[n] : n \in edit'.add0 }
    BY DEF TableSet
  <2> QED
    BY <2>1, <1>1, <1>2 DEF OpeningInv
<1> QED
  BY <1>2, <1>3, <1>5, <1>6 DEF StoreInv, WritingInv, LoggedInv, TableInv, EditInv

\* What the new manifest adds up to.
LEMMA CurrentContents ==
  ASSUME StructureInv, StructureInv', SequenceInv, StoreInv, SetCurrentFile
  PROVE  /\ InTables(manifest)' = Recoverable /\ InTables(current)' = Recoverable
         /\ Recoverable' = Recoverable /\ Safe' = Recoverable
         /\ LogRecords' = LogRecords /\ \A n \in LogsNeeded' : Log(n)' = {}
<1>1. /\ DiskOK /\ edit \in Edits /\ current \in Versions /\ TablesKept /\ TablesKept'
      /\ mode = "replayed" /\ manifest' = Logged(edit) /\ current' = Applied(current, edit)
      /\ UNCHANGED <<logs, files>>
  BY DEF StructureInv, ContentInv, KeptInv, SetCurrentFile
<1>2. manifest.l0 = current.l0 /\ manifest.l1 = current.l1 /\ edit.add1 = {}
  BY <1>1 DEF StructureInv, ThreadInv, NumbersInv
<1>3. /\ edit.del = {}
      /\ Recoverable \subseteq InTables(manifest) \cup TableSet(edit.add0)
      /\ \A n \in DOMAIN logs : n >= edit.log => Log(n) = {}
  BY <1>1 DEF StoreInv, OpeningInv
<1>4. \A n \in edit.add0 : files[n] \subseteq Recoverable
  BY <1>1 DEF SequenceInv, SequenceReplayed
<1>5. /\ manifest'.l0 = (manifest.l0 \ edit.del) \cup edit.add0
      /\ manifest'.l1 = (manifest.l1 \ edit.del) \cup edit.add1
      /\ current'.l0 = (current.l0 \ edit.del) \cup edit.add0
      /\ current'.l1 = (current.l1 \ edit.del) \cup edit.add1
      /\ manifest'.log = edit.log
  BY <1>1, LoggedFacts, AppliedFacts
<1>6. Numbers(manifest') = Numbers(manifest) \cup edit.add0 /\ Numbers(current') = Numbers(manifest')
  BY <1>2, <1>3, <1>5 DEF Numbers
<1>7. InTables(manifest)' = InTables(manifest) \cup TableSet(edit.add0) /\ InTables(current)' = InTables(manifest)'
  <2>1. /\ InTables(manifest) = TableSet(Numbers(manifest))
        /\ InTables(manifest)' = UNION { files'[n] : n \in Numbers(manifest') }
        /\ InTables(current)' = UNION { files'[n] : n \in Numbers(current') }
    BY <1>1, Contents
  <2>2. UNION { files'[n] : n \in Numbers(manifest) \cup edit.add0 }
          = TableSet(Numbers(manifest)) \cup TableSet(edit.add0)
    BY <1>1 DEF TableSet
  <2> QED
    BY <2>1, <2>2, <1>6
<1>8. InTables(manifest)' = Recoverable
  <2>1. TableSet(edit.add0) \subseteq Recoverable
    BY <1>4 DEF TableSet
  <2> QED
    BY <2>1, <1>3, <1>7, NeededFacts
<1>9. \A n \in LogsNeeded' : Log(n)' = {} /\ Synced(n)' = {}
  <2> SUFFICES ASSUME NEW n \in LogsNeeded' PROVE Log(n)' = {} /\ Synced(n)' = {}
    OBVIOUS
  <2>1. n \in DOMAIN logs /\ n >= edit.log
    BY <1>1, <1>5 DEF LogsNeeded
  <2>2. Log(n) = {} /\ Synced(n) \subseteq Log(n)
    BY <2>1, <1>1, <1>3, LogFacts
  <2>3. Log(n)' = Log(n) /\ Synced(n)' = Synced(n)
    BY <1>1 DEF Log, Synced
  <2> QED
    BY <2>2, <2>3
<1>10. /\ Recoverable' = InTables(manifest)' \cup UNION { Log(n)' : n \in LogsNeeded' }
       /\ Safe' = InTables(manifest)' \cup UNION { Synced(n)' : n \in LogsNeeded' }
  BY DEF Recoverable, Safe, Log, Synced
<1>11. LogRecords' = LogRecords
  BY <1>1 DEF LogRecords
<1> QED
  BY <1>7, <1>8, <1>9, <1>10, <1>11

\* The new manifest takes effect.
LEMMA StoreCurrent ==
  ASSUME StructureInv, StructureInv', SequenceInv, StoreInv, SetCurrentFile
  PROVE  StoreInv'
<1>1. /\ InTables(manifest)' = Recoverable /\ InTables(current)' = Recoverable
      /\ LogRecords' = LogRecords /\ \A n \in LogsNeeded' : Log(n)' = {}
  BY CurrentContents
<1>2. mode = "replayed" /\ mode' = "installed" /\ UNCHANGED <<kind, answer, stage, mem, imm>>
  BY DEF SetCurrentFile, calls, queue, tables
<1>3. stage = "queued"
  BY <1>2 DEF StructureInv, QueueInv
<1>4. Recoverable \subseteq Reached
  <2>1. LogsNeeded \subseteq DOMAIN logs
    BY DEF LogsNeeded
  <2> QED
    BY <2>1, NeededFacts DEF Reached
<1>5. Fresh = {} /\ Fresh' = {} /\ Reached' \subseteq Reached
  BY <1>1, <1>2, <1>3, <1>4 DEF Fresh, Reached
<1>6. CallInv'
  BY <1>2, <1>5 DEF StoreInv, CallInv, Batched, Settled
<1> QED
  BY <1>1, <1>2, <1>3, <1>6 DEF StoreInv, WritingInv, LoggedInv, TableInv, EditInv, OpeningInv

\* The database is open.
LEMMA OpenedContents ==
  ASSUME StructureInv, StructureInv', StoreInv, Opened
  PROVE  /\ mem' = {} /\ imm' = {} /\ mode = "installed" /\ mode' = "up"
         /\ bg' \in {"idle", "scheduled"} /\ merge' = NoMerge
         /\ UNCHANGED <<kind, answer, stage, lastSequence, logfile, logNumber, manifest, power>>
         /\ stage = "queued" /\ logNumber = manifest.log /\ logfile = logNumber /\ logNumber \in Nat
         /\ InTables(manifest)' = InTables(manifest) /\ InTables(current)' = InTables(manifest)
         /\ Recoverable = InTables(manifest) /\ Safe = InTables(manifest)
         /\ \A n \in DOMAIN logs' : Log(n)' = {} /\ Synced(n)' = {}
         /\ LogRecords' = {} /\ Safe' = InTables(manifest)
<1>1. /\ mode = "installed" /\ mode' = "up" /\ Swept(FALSE, Live(current, NoMerge, pending), logNumber)
      /\ bg' = Scheduled(bg, FALSE, FALSE, current)
      /\ UNCHANGED <<kind, answer, stage, mem, imm, lastSequence, logfile, logNumber, current, merge, manifest, power>>
  BY DEF Opened, calls, queue, tables, sets, fate
<1>2. /\ DiskOK /\ bg = "idle" /\ mem = {} /\ ~hasImm /\ imm = {} /\ merge = NoMerge
      /\ manifest.l0 = current.l0 /\ manifest.l1 = current.l1 /\ stage = "queued"
      /\ logNumber = manifest.log /\ logfile = logNumber /\ logNumber \in Nat
      /\ TablesKept /\ TablesKept'
  BY <1>1 DEF StructureInv, QueueInv, ContentInv, ThreadInv, KeptInv, NumbersInv
<1>3. bg' \in {"idle", "scheduled"}
  BY <1>1, <1>2, ScheduledFacts
<1>4. /\ \A n \in DOMAIN files' : files'[n] = files[n]
      /\ DOMAIN logs' = { n \in DOMAIN logs : n >= logNumber }
      /\ \A n \in DOMAIN logs' : logs'[n] = logs[n]
  BY <1>1, SweptFacts
<1>5. \A n \in LogsNeeded : Log(n) = {} /\ Synced(n) = {}
  <2>1. \A n \in LogsNeeded : Log(n) = {}
    BY <1>1 DEF StoreInv, OpeningInv
  <2>2. \A n \in LogsNeeded : Synced(n) \subseteq Log(n)
    BY <1>2, LogFacts DEF LogsNeeded
  <2> QED
    BY <2>1, <2>2
<1>6. DOMAIN logs' = LogsNeeded /\ \A n \in DOMAIN logs' : Log(n)' = {} /\ Synced(n)' = {}
  <2>1. DOMAIN logs' = LogsNeeded
    BY <1>2, <1>4 DEF LogsNeeded
  <2>2. \A n \in DOMAIN logs' : Log(n)' = Log(n) /\ Synced(n)' = Synced(n)
    BY <1>4 DEF Log, Synced
  <2> QED
    BY <2>1, <2>2, <1>5
<1>7. InTables(manifest)' = InTables(manifest) /\ InTables(current)' = InTables(manifest)
  <2>1. Numbers(manifest') = Numbers(manifest) /\ Numbers(current') = Numbers(manifest)
        /\ Numbers(current) = Numbers(manifest)
    BY <1>1, <1>2 DEF Numbers
  <2>2. \A n \in Numbers(manifest) : files'[n] = files[n]
    BY <2>1, <1>2, <1>4 DEF TablesKept, Numbers
  <2>3. InTables(manifest)' = InTables(manifest) /\ InTables(current)' = InTables(current)
    BY <2>1, <2>2, <1>2, ContentsStay
  <2> QED
    BY <2>1, <2>3 DEF InTables
<1>8. Recoverable = InTables(manifest) /\ Safe = InTables(manifest)
  BY <1>5, NeededFacts
<1>9. /\ LogRecords' = UNION { Log(n)' : n \in DOMAIN logs' }
      /\ Safe' = InTables(manifest)' \cup UNION { Synced(n)' : n \in LogsNeeded' }
      /\ LogsNeeded' \subseteq DOMAIN logs'
  BY DEF LogRecords, Safe, Log, Synced, LogsNeeded
<1>10. LogRecords' = {} /\ Safe' = InTables(manifest)
  BY <1>6, <1>7, <1>9
<1> QED
  BY <1>1, <1>2, <1>3, <1>6, <1>7, <1>8, <1>10

\* The database is open.
LEMMA StoreOpened ==
  ASSUME StructureInv, StructureInv', StoreInv, Opened
  PROVE  StoreInv'
<1>1. /\ mem' = {} /\ imm' = {} /\ mode = "installed" /\ mode' = "up"
      /\ bg' \in {"idle", "scheduled"} /\ merge' = NoMerge
      /\ UNCHANGED <<kind, answer, stage, lastSequence, logfile, logNumber, manifest, power>>
      /\ stage = "queued" /\ logNumber = manifest.log /\ logfile = logNumber /\ logNumber \in Nat
      /\ InTables(manifest)' = InTables(manifest) /\ InTables(current)' = InTables(manifest)
      /\ \A n \in DOMAIN logs' : Log(n)' = {} /\ Synced(n)' = {}
      /\ LogRecords' = {}
  BY OpenedContents
<1>2. Fresh = {} /\ Fresh' = {} /\ Reached' \subseteq Reached
  BY <1>1 DEF Fresh, Reached
<1>3. CallInv'
  BY <1>1, <1>2 DEF StoreInv, CallInv, Batched, Settled
<1>4. WritingInv'
  BY <1>1 DEF WritingInv
<1>5. LoggedInv'
  BY <1>1 DEF LoggedInv
<1>6. TableInv'
  BY <1>1 DEF TableInv
<1>7. EditInv'
  BY <1>1 DEF EditInv, NoMerge, Numbers
<1>8. OpeningInv'
  BY <1>1 DEF OpeningInv
<1> QED
  BY <1>3, <1>4, <1>5, <1>6, <1>7, <1>8 DEF StoreInv

\* A database that was created.
LEMMA StoreStart == Init => StoreInv
<1>1. SUFFICES ASSUME Init PROVE StoreInv
  OBVIOUS
<1>2. /\ mem = {} /\ imm = {} /\ mode = "up" /\ bg = "idle" /\ merge = NoMerge /\ stage = "queued"
      /\ logs = [n \in {1} |-> EmptyLog] /\ logfile = 1 /\ logNumber = 1
      /\ manifest = [l0 |-> {}, l1 |-> {}, log |-> 1, last |-> 0, next |-> 2]
      /\ current = [l0 |-> {}, l1 |-> {}]
  BY <1>1 DEF Init
<1>3. InTables(manifest) = {} /\ InTables(current) = {} /\ Numbers(merge) = {}
  BY <1>2 DEF InTables, Numbers, NoMerge
<1>4. \A n \in DOMAIN logs : Log(n) = {}
  BY <1>2, EmptyLogFacts DEF Log
<1>5. LogRecords = {}
  BY <1>4, NeededFacts
<1>6. Reached = {}
  BY <1>2, <1>3, <1>5 DEF Reached
<1> QED
  BY <1>2, <1>3, <1>4, <1>6
     DEF StoreInv, CallInv, WritingInv, LoggedInv, TableInv, EditInv, OpeningInv

\* The invariant is inductive.
LEMMA StoreStep ==
  ASSUME StructureInv, StructureInv', SequenceInv, StoreInv, [Next]_vars
  PROVE  StoreInv'
<1>1. CASE WriterStep
  <2>1. CASE AddRecordFails
    BY <2>1, StoreQuiet, StoreRecord
  <2> QED
    BY <1>1, <2>1, StoreQuiet, StoreRecord, StoreSwitch DEF WriterStep
<1>2. CASE BackgroundStep
  BY <1>2, StoreBackground, StoreEdit DEF StoreInv
<1>3. CASE OpenStep
  BY <1>3, StoreRecover, StoreCurrent, StoreOpened DEF OpenStep
<1>4. CASE ProcessCrash \/ MachineCrash
  BY <1>4, StoreGone
<1> QED
  BY <1>1, <1>2, <1>3, <1>4, StoreElse DEF Next

-----------------------------------------------------------------------------
(***************************************************************************)
(* What a reader finds, and what is on the disk, in terms of calls.        *)
(***************************************************************************)
LEMMA Seen ==
  StructureInv /\ SequenceInv /\ mode = "up" =>
    /\ Visible = (mem \ Fresh) \cup imm \cup InTables(current)
    /\ \A r \in Fresh : r \notin imm \cup InTables(current) \cup InTables(manifest)
<1> SUFFICES ASSUME StructureInv, SequenceInv, mode = "up"
             PROVE  /\ Visible = (mem \ Fresh) \cup imm \cup InTables(current)
                    /\ \A r \in Fresh : r \notin imm \cup InTables(current) \cup InTables(manifest)
  OBVIOUS
<1>1. /\ UpTo(AllRecords \ Fresh, lastSequence) /\ UpTo(imm \cup FileRecords, lastSequence)
      /\ lastSequence \in Nat /\ AllRecords \subseteq Records
  BY AllTyped DEF SequenceInv, SequenceUp, StructureInv, ContentInv
<1>2. InTables(current) \cup InTables(manifest) \subseteq FileRecords
  BY DEF InTables, FileRecords
<1>3. ASSUME NEW r \in Fresh PROVE r.seq = lastSequence + 1 /\ lastSequence < LastOf(r) /\ LastOf(r) \in Nat
  <2>1. r = Record /\ stage \in {"log", "sync", "insert", "inserted"}
    BY <1>3 DEF Fresh
  <2> QED
    BY <2>1, <1>1, RecordOfGroup DEF StructureInv
<1>4. ASSUME NEW r \in (mem \ Fresh) \cup imm \cup InTables(current) PROVE r.seq <= lastSequence
  <2>1. r \in Records /\ LastOf(r) <= lastSequence
    BY <1>1, <1>2 DEF AllRecords, UpTo
  <2> QED
    BY <2>1, <1>1, RecordFacts
<1>5. ASSUME NEW r \in Fresh PROVE r \notin imm \cup InTables(current) \cup InTables(manifest)
  <2>1. r \in imm \cup FileRecords => LastOf(r) <= lastSequence
    BY <1>1 DEF UpTo
  <2> QED
    BY <2>1, <1>1, <1>2, <1>3
<1>6. ASSUME NEW r \in mem \cap Fresh PROVE ~(r.seq <= lastSequence)
  BY <1>1, <1>3
<1>7. Visible = { r \in mem \cup imm \cup InTables(current) : r.seq <= lastSequence }
  BY DEF Visible
<1> QED
  BY <1>4, <1>5, <1>6, <1>7

\* What a reader finds after a step.
LEMMA SeenNext ==
  StructureInv' /\ SequenceInv' /\ mode' = "up" =>
    Visible' = (mem' \ Fresh') \cup imm' \cup InTables(current)'
<1>1. (StructureInv /\ SequenceInv /\ mode = "up" => Visible = (mem \ Fresh) \cup imm \cup InTables(current))'
  BY Seen, PTL
<1> QED
  BY <1>1

\* Whatever readers, or a recovery, may find was asked for.
LEMMA Sought ==
  ASSUME StructureInv, SequenceInv, StoreInv, mode = "up"
  PROVE  /\ \A r \in mem \cup imm \cup InTables(manifest) \cup InTables(current) \cup Fresh :
              r.ws \subseteq Alive \cup CallsOf(Visible)
         /\ \A n \in DOMAIN logs : n >= logNumber =>
              \A r \in Log(n) : r.ws \subseteq Alive \cup CallsOf(Visible)
         /\ \A r \in Recoverable : r.ws \subseteq Alive \cup CallsOf(Visible)
<1>1. Visible = (mem \ Fresh) \cup imm \cup InTables(current)
  BY Seen
<1>2. CallInv /\ LoggedInv /\ TableInv
  BY DEF StoreInv
<1>3. QueueInv /\ GroupInv /\ lastSequence \in Nat /\ DOMAIN kind = 1..Len(kind)
  BY SequenceFacts DEF StructureInv, QueueInv, ContentInv
<1>4. ASSUME NEW r \in Fresh PROVE r.ws \subseteq Alive
  <2>1. r = Record /\ stage \in {"log", "sync", "insert", "inserted"}
    BY <1>4 DEF Fresh
  <2>2. Record.ws = Batches /\ Batches \subseteq 1..Len(kind) /\ group \in 1..Len(writers)
    BY <2>1, <1>3, RecordOfGroup DEF GroupInv
  <2>3. \A c \in Range(SubSeq(writers, 1, group)) : \E i \in 1..Len(writers) : writers[i] = c
    <3>1. /\ writers \in Seq(1..Len(kind)) /\ Len(writers) \in Nat
      BY <1>3, SequenceFacts DEF QueueInv
    <3>2. group \in 0..Len(writers) /\ 1..group \subseteq 1..Len(writers)
      BY <3>1, <2>2
    <3>3. \A c : c \in Range(SubSeq(writers, 1, group)) <=> \E i \in 1..group : writers[i] = c
      BY <3>1, <3>2, FrontRange
    <3> QED
      BY <3>2, <3>3
  <2>4. \A c \in Batches : answer[c] = "none" /\ kind[c] # "force" /\ c \in DOMAIN kind
    BY <2>2, <2>3, <1>3 DEF Batches, QueueInv
  <2> QED
    BY <2>1, <2>2, <2>4 DEF Alive
<1>5. ASSUME NEW r \in Reached, Failed(r) PROVE r.ws \subseteq Alive
  BY <1>2, <1>3, <1>5 DEF CallInv, Batched, Failed, Alive
<1>6. \A r \in Visible : r.ws \subseteq CallsOf(Visible)
  BY DEF CallsOf
<1>7. \A r \in mem \cup imm \cup InTables(manifest) \cup InTables(current) \cup Fresh :
        r.ws \subseteq Alive \cup CallsOf(Visible)
  BY <1>1, <1>2, <1>4, <1>6 DEF TableInv
<1>8. ASSUME NEW n \in DOMAIN logs, n >= logNumber, NEW r \in Log(n)
      PROVE  r.ws \subseteq Alive \cup CallsOf(Visible)
  <2>1. Placed(n, r) /\ r \in Reached
    BY <1>2, <1>8, NeededFacts DEF LoggedInv, Reached
  <2> QED
    BY <2>1, <1>5, <1>7 DEF Placed
<1>9. \A n \in LogsNeeded : n \in DOMAIN logs /\ n >= logNumber
  <2>1. logNumber <= manifest.log /\ logNumber \in Nat /\ manifest.log \in Nat /\ DOMAIN logs \subseteq Nat
    BY <1>2 DEF LoggedInv, StructureInv, ContentInv, DiskOK
  <2> QED
    BY <2>1 DEF LogsNeeded
<1>10. \A r \in Recoverable : r.ws \subseteq Alive \cup CallsOf(Visible)
  BY <1>7, <1>8, <1>9, NeededFacts
<1> QED
  BY <1>7, <1>8, <1>10

\* What is safe would be found by a recovery.
LEMMA SafeFacts ==
  ASSUME StructureInv
  PROVE  Safe \subseteq Recoverable /\ Recoverable \subseteq Reached
<1>1. DiskOK
  BY DEF StructureInv, ContentInv
<1>2. \A n \in LogsNeeded : n \in DOMAIN logs /\ Synced(n) \subseteq Log(n)
  BY <1>1, LogFacts DEF LogsNeeded
<1> QED
  BY <1>2, NeededFacts DEF Reached

\* What is on the disk for good was answered, until a synced record is there.
LEMMA SafeSettled ==
  ASSUME StructureInv, SequenceInv, StoreInv, mode = "up", stage \notin {"insert", "inserted"}
  PROVE  \A r \in Safe : Settled(r)
<1> SUFFICES ASSUME NEW r \in Safe PROVE Settled(r)
  OBVIOUS
<1>1. r \in Reached
  BY SafeFacts
<1>2. r \notin Fresh
  <2> SUFFICES ASSUME r \in Fresh PROVE FALSE
    OBVIOUS
  <2>1. r = Record /\ stage = "sync"
    BY DEF Fresh
  <2>2. r \notin InTables(manifest)
    BY Seen
  <2>3. \A n \in LogsNeeded : r \notin Synced(n)
    BY <2>1 DEF StoreInv, WritingInv, LogsNeeded
  <2> QED
    BY <2>2, <2>3, NeededFacts
<1> QED
  BY <1>1, <1>2 DEF StoreInv, CallInv

\* What is safe after a step, log by log.
LEMMA SafeNext == Safe' = InTables(manifest)' \cup UNION { Synced(n)' : n \in LogsNeeded' }
BY DEF Safe, Synced

\* Readers find the same when records only change memtables.
LEMMA SeenStays ==
  ASSUME mode = "up", mode' = "up", mem' \cup imm' = mem \cup imm,
         UNCHANGED <<files, current, lastSequence>>
  PROVE  Visible' = Visible
BY DEF Visible, InTables, Numbers

\* Before it is in the memtable, the record on its way is not there.
LEMMA NotYet ==
  ASSUME StructureInv, SequenceInv, mode = "up", stage # "inserted"
  PROVE  mem \ Fresh = mem
<1>1. UpTo(mem, lastSequence) /\ mem \subseteq Records /\ lastSequence \in Nat
  BY DEF SequenceInv, SequenceUp, StructureInv, ContentInv
<1>2. ASSUME NEW r \in Fresh PROVE lastSequence < LastOf(r) /\ LastOf(r) \in Nat
  <2>1. r = Record /\ stage \in {"log", "sync", "insert", "inserted"}
    BY <1>2 DEF Fresh
  <2> QED
    BY <2>1, <1>1, RecordOfGroup DEF StructureInv
<1>3. \A r \in Fresh : r \notin mem
  BY <1>1, <1>2 DEF UpTo
<1> QED
  BY <1>3

-----------------------------------------------------------------------------
(***************************************************************************)
(* The steps of the writers are steps of Store.                            *)
(***************************************************************************)
LEMMA Untouched ==
  ASSUME UNCHANGED <<kind, answer, power, Visible, Safe>>
  PROVE  Promises!Next
<1>1. Alive' = Alive /\ KeptCalls' = KeptCalls /\ CallsOf(Visible)' = CallsOf(Visible)
  BY DEF Alive, KeptCalls, CallsOf
<1> QED
  BY <1>1, Unseen

\* A step that changes neither records nor answers.
LEMMA ShowsWait ==
  ASSUME Begin \/ Room \/ Wait \/ NewIterator \/ DeleteIterator \/ UNCHANGED vars
  PROVE  Promises!Next
<1>1. UNCHANGED <<kind, answer, power, mode, mem, imm, lastSequence, files, current, logs, manifest>>
  BY DEF Begin, Room, Wait, NewIterator, DeleteIterator, vars, calls, queue, tables, sets, thread, disk, fate
<1>2. Visible' = Visible /\ Safe' = Safe
  BY <1>1 DEF Visible, Recoverable, Safe, InTables, Numbers, LogsNeeded
<1> QED
  BY <1>1, <1>2, Untouched

\* A new log and memtable: what was found and what was safe still is.
LEMMA ShowsSwitch ==
  ASSUME StructureInv, StoreInv, Switch
  PROVE  Promises!Next
<1>1. /\ stage = "room" /\ ~hasImm /\ imm' = mem /\ mem' = {}
      /\ logs' = Over([n \in {nextFile} |-> EmptyLog], logs)
      /\ UNCHANGED <<kind, answer, power, mode, lastSequence, files, current, manifest>>
  BY DEF Switch, calls, fate
<1>2. mode = "up" /\ imm = {} /\ nextFile \notin DOMAIN logs
  BY <1>1, WriterFacts
<1>3. Visible' = Visible
  BY <1>1, <1>2, SeenStays
<1>4. PICK m : m = nextFile
  OBVIOUS
<1>5. logs' = Over([n \in {m} |-> EmptyLog], logs) /\ m \notin DOMAIN logs
  BY <1>1, <1>2, <1>4
<1>6. /\ DOMAIN logs' = DOMAIN logs \cup {m} /\ Synced(m)' = {}
      /\ \A n \in DOMAIN logs \ {m} : Synced(n)' = Synced(n)
  BY <1>5, NewLog
<1>7. InTables(manifest)' = InTables(manifest)
  BY <1>1 DEF InTables, Numbers
<1>8. LogsNeeded \subseteq LogsNeeded' /\ LogsNeeded' \subseteq LogsNeeded \cup {m} /\ m \notin LogsNeeded
  BY <1>1, <1>5, <1>6 DEF LogsNeeded
<1>9. \A n \in LogsNeeded : Synced(n)' = Synced(n)
  BY <1>5, <1>6 DEF LogsNeeded
<1>10. Safe' = Safe
  BY <1>6, <1>7, <1>8, <1>9, SafeNext, NeededFacts
<1> QED
  BY <1>1, <1>3, <1>10, Untouched

\* What is appended to a log is not safe yet.
LEMMA SafeAppended ==
  ASSUME StructureInv, StoreInv, stage = "log", UNCHANGED <<files, manifest>>,
         logs' = logs \/ logs' = [logs EXCEPT ![logfile].recs = Append(@, Record)]
  PROVE  Safe' = Safe
<1>1. QueueInv /\ GroupInv /\ DiskOK /\ lastSequence \in Nat /\ logfile \in DOMAIN logs
  BY WriterFacts DEF LogsNeeded
<1>2. InTables(manifest)' = InTables(manifest)
  BY DEF InTables, Numbers
<1>3. CASE logs' = logs
  BY <1>2, <1>3, SafeNext, NeededFacts DEF LogsNeeded, Synced
<1>4. CASE logs' = [logs EXCEPT ![logfile].recs = Append(@, Record)]
  <2>1. PICK r : r = Record
    OBVIOUS
  <2>2. r \in Records
    BY <2>1, <1>1, RecordOfGroup
  <2>3. DOMAIN logs' = DOMAIN logs /\ \A n \in DOMAIN logs : Synced(n)' = Synced(n)
    BY <2>1, <2>2, <1>1, <1>4, LogAppended
  <2>4. LogsNeeded' = LogsNeeded /\ LogsNeeded \subseteq DOMAIN logs
    BY <2>3 DEF LogsNeeded
  <2> QED
    BY <2>3, <2>4, <1>2, SafeNext, NeededFacts
<1> QED
  BY <1>3, <1>4

\* A record goes to the log or to the memtable, and nobody sees it yet.
LEMMA ShowsRecord ==
  ASSUME StructureInv, StoreInv, AddRecord \/ Insert
  PROVE  Promises!Next
<1>1. /\ stage \in {"log", "insert"} /\ mode' = mode
      /\ UNCHANGED <<kind, answer, power, imm, lastSequence, files, current, manifest>>
  BY DEF AddRecord, Insert, calls, sets, fate, tables, disk
<1>2. mode = "up" /\ QueueInv /\ GroupInv /\ lastSequence \in Nat
  BY <1>1, WriterFacts
<1>3. CASE AddRecord
  <2>1. /\ stage = "log" /\ mem' = mem
        /\ logs' = [logs EXCEPT ![logfile].recs = Append(@, Record)]
    BY <1>3 DEF AddRecord, tables
  <2>2. Safe' = Safe
    BY <2>1, <1>1, SafeAppended
  <2>3. Visible' = Visible
    BY <2>1, <1>1, <1>2, SeenStays
  <2> QED
    BY <2>2, <2>3, <1>1, Untouched
<1>4. CASE Insert
  <2>1. mem' = mem \cup {Record} /\ logs' = logs /\ stage = "insert"
    BY <1>4 DEF Insert, disk
  <2>2. Record.seq = lastSequence + 1
    BY <2>1, <1>2, RecordOfGroup
  <2>3. ~(Record.seq <= lastSequence)
    BY <2>2, <1>2
  <2>4. InTables(current)' = InTables(current)
    BY <1>1 DEF InTables, Numbers
  <2>5. /\ Visible = { r \in mem \cup imm \cup InTables(current) : r.seq <= lastSequence }
        /\ Visible' = { r \in mem' \cup imm' \cup InTables(current)' : r.seq <= lastSequence' }
    BY <1>1, <1>2 DEF Visible
  <2>6. Visible' = Visible
    BY <2>1, <2>3, <2>4, <2>5, <1>1
  <2>7. Safe' = Safe
    BY <2>1, <1>1 DEF Safe, InTables, Numbers, LogsNeeded
  <2> QED
    BY <2>6, <2>7, <1>1, Untouched
<1> QED
  BY <1>3, <1>4

\* A call that is told of an error, or had nothing to write: readers find
\* nothing new, and nothing that was safe is given up.
LEMMA ShowsAnswer ==
  ASSUME StructureInv, StructureInv', SequenceInv, SequenceInv', StoreInv,
         NoRoom \/ RoomOnly \/ NewLogFails \/ AddRecordFails \/ SyncFails
  PROVE  Promises!Next
<1>1. /\ stage \in {"room", "log", "sync"}
      /\ UNCHANGED <<kind, power, mode, mem, imm, files, current, manifest>>
  BY DEF NoRoom, RoomOnly, NewLogFails, AddRecordFails, SyncFails, tables, sets, disk, fate
<1>2. mode = "up" /\ QueueInv /\ GroupInv
  BY <1>1, WriterFacts
<1>3. PICK n \in 1..Len(writers), st \in {"ok", "error"} : Answered(n, st)
  <2>1. 1 \in 1..Len(writers)
    BY <1>1, <1>2, SequenceFacts DEF QueueInv
  <2>2. stage \in {"log", "sync"} => group \in 1..Len(writers)
    BY <1>2 DEF GroupInv
  <2> QED
    BY <2>1, <2>2 DEF NoRoom, RoomOnly, NewLogFails, AddRecordFails, SyncFails
<1>4. /\ Fresh' = {} /\ Alive' = Alive
      /\ \A c \in 1..Len(kind) : answer'[c] = answer[c] \/ answer[c] = "none"
  BY <1>1, <1>2, <1>3, GroupAnswered
<1>5. Safe' = Safe
  <2>1. CASE AddRecordFails
    <3>1. /\ stage = "log"
          /\ logs' = logs \/ logs' = [logs EXCEPT ![logfile].recs = Append(@, Record)]
      BY <2>1 DEF AddRecordFails
    <3> QED
      BY <3>1, <1>1, SafeAppended
  <2>2. CASE ~AddRecordFails
    <3>1. logs' = logs
      BY <2>2 DEF NoRoom, RoomOnly, NewLogFails, SyncFails, disk
    <3> QED
      BY <3>1, <1>1 DEF Safe, InTables, Numbers, LogsNeeded
  <2> QED
    BY <2>1, <2>2
<1>6. Visible' = Visible
  <2>1. InTables(current)' = InTables(current)
    BY <1>1 DEF InTables, Numbers
  <2>2. Visible = mem \cup imm \cup InTables(current)
    BY <1>1, <1>2, Seen, NotYet
  <2>3. Visible' = mem' \cup imm' \cup InTables(current)'
    BY <1>1, <1>2, <1>4, SeenNext
  <2> QED
    BY <2>1, <2>2, <2>3, <1>1
<1>7. KeptCalls' = KeptCalls
  <2>1. \A r \in Safe : Settled(r)
    BY <1>1, <1>2, SafeSettled
  <2>2. \A r \in Safe : r.ws \subseteq 1..Len(kind)
    BY SafeFacts DEF StoreInv, CallInv, Batched
  <2>3. \A c \in CallsOf(Safe) : answer'[c] = answer[c]
    BY <2>1, <2>2, <1>4 DEF CallsOf, Settled
  <2>4. CallsOf(Safe)' = CallsOf(Safe)
    BY <1>5 DEF CallsOf
  <2> QED
    BY <2>3, <2>4 DEF KeptCalls
<1> QED
  BY <1>1, <1>4, <1>6, <1>7, Unseen DEF CallsOf

\* Syncing the log secures all that is in it.
LEMMA ShowsSync ==
  ASSUME StructureInv, SequenceInv, StoreInv, SyncLog
  PROVE  Promises!Next
<1>1. /\ stage = "sync" /\ logs' = [logs EXCEPT ![logfile].synced = Len(logs[logfile].recs)]
      /\ UNCHANGED <<kind, answer, power, mode, mem, imm, lastSequence, files, current, manifest>>
  BY DEF SyncLog, calls, tables, sets, fate
<1>2. /\ mode = "up" /\ DiskOK /\ logfile \in LogsNeeded /\ logfile \in DOMAIN logs
      /\ logNumber <= logfile
  <2>1. /\ mode = "up" /\ DiskOK /\ logfile \in LogsNeeded
        /\ logNumber \in Nat /\ logfile \in Nat /\ manifest.log \in Nat
        /\ logNumber <= manifest.log /\ manifest.log <= logfile
    BY <1>1, WriterFacts
  <2> QED
    BY <2>1 DEF LogsNeeded
<1>3. /\ DOMAIN logs' = DOMAIN logs
      /\ \A n \in DOMAIN logs \ {logfile} : Synced(n)' = Synced(n)
      /\ \A n \in DOMAIN logs : n = logfile => Synced(n)' = Log(n)
  BY <1>1, <1>2, LogSynced
<1>4. LogsNeeded' = LogsNeeded /\ LogsNeeded \subseteq DOMAIN logs
  BY <1>1, <1>3 DEF LogsNeeded
<1>5. InTables(manifest)' = InTables(manifest)
  BY <1>1 DEF InTables, Numbers
<1>6. Safe \subseteq Safe' /\ Safe' \subseteq Safe \cup Log(logfile)
  <2>1. \A n \in DOMAIN logs : Synced(n) \subseteq Synced(n)' /\ Synced(n)' \subseteq Synced(n) \cup Log(logfile)
    BY <1>2, <1>3, LogFacts
  <2> QED
    BY <2>1, <1>4, <1>5, SafeNext, NeededFacts
<1>7. Visible' = Visible
  BY <1>1, <1>2, SeenStays
<1>8. \A r \in Log(logfile) : r.ws \subseteq Alive \cup CallsOf(Visible)
  BY <1>2, StructureInv, Sought DEF StructureInv, ContentInv
<1>9. /\ KeptCalls \subseteq KeptCalls'
      /\ KeptCalls' \subseteq KeptCalls \cup Alive \cup CallsOf(Visible)
  BY <1>1, <1>6, <1>8 DEF KeptCalls, CallsOf
<1>10. Alive' = Alive /\ CallsOf(Visible)' = CallsOf(Visible)
  BY <1>1, <1>7 DEF Alive, CallsOf
<1> QED
  BY <1>1, <1>9, <1>10, Unseen

\* A group takes effect; the writes of it that asked for it are safe.
LEMMA ShowsFinish ==
  ASSUME StructureInv, StructureInv', SequenceInv, SequenceInv', StoreInv, Finish
  PROVE  Promises!Next
<1>1. /\ stage = "inserted" /\ Answered(group, "ok")
      /\ UNCHANGED <<kind, power, mode, mem, imm, files, current, manifest, logs>>
  BY DEF Finish, tables, sets, disk, fate
<1>2. mode = "up" /\ QueueInv /\ GroupInv /\ lastSequence \in Nat /\ logfile \in LogsNeeded
  BY <1>1, WriterFacts
<1>3. group \in 1..Len(writers) /\ Record \in mem /\ Fresh = {Record} /\ Record.ws = Batches
  BY <1>1, <1>2 DEF GroupInv, StoreInv, WritingInv, Fresh, Record
<1>4. /\ Fresh' = {} /\ Alive' = Alive
      /\ \A c \in 1..Len(kind) : answer'[c] = answer[c] \/ (answer[c] = "none" /\ answer'[c] = "ok")
      /\ \A c \in Range(SubSeq(writers, 1, group)) : answer[c] = "none"
  BY <1>1, <1>2, <1>3, GroupAnswered
<1>5. Visible' = Visible \cup {Record}
  <2>1. InTables(current)' = InTables(current)
    BY <1>1 DEF InTables, Numbers
  <2>2. Visible = (mem \ {Record}) \cup imm \cup InTables(current)
    BY <1>2, <1>3, Seen
  <2>3. Visible' = mem' \cup imm' \cup InTables(current)'
    BY <1>1, <1>2, <1>4, SeenNext
  <2> QED
    BY <2>1, <2>2, <2>3, <1>1, <1>3
<1>6. CallsOf(Visible)' = CallsOf(Visible) \cup Batches
  BY <1>3, <1>5 DEF CallsOf
<1>7. Batches \subseteq Alive \cup CallsOf(Visible)
  BY <1>2, <1>3, Sought
<1>8. KeptCalls' = KeptCalls
  <2>1. Safe' = Safe
    BY <1>1 DEF Safe, InTables, Numbers, LogsNeeded
  <2>2. \A r \in Safe : r.ws \subseteq 1..Len(kind)
    BY SafeFacts DEF StoreInv, CallInv, Batched
  <2>3. \A c \in CallsOf(Safe) : answer'[c] = "error" <=> answer[c] = "error"
    BY <2>2, <1>4 DEF CallsOf
  <2>4. CallsOf(Safe)' = CallsOf(Safe)
    BY <2>1 DEF CallsOf
  <2> QED
    BY <2>3, <2>4 DEF KeptCalls
<1>9. ASSUME NEW c \in Batches, kind[c] = "sync" PROVE c \in KeptCalls
  <2>1. writers \in Seq(1..Len(kind)) /\ Len(writers) \in Nat
    BY <1>2, SequenceFacts DEF QueueInv
  <2>2. group \in 0..Len(writers)
    BY <2>1, <1>3
  <2>3. PICK i \in 1..group : writers[i] = c
    <3>1. \A a : a \in Range(SubSeq(writers, 1, group)) <=> \E i \in 1..group : writers[i] = a
      BY <2>1, <2>2, FrontRange
    <3> QED
      BY <3>1, <1>9 DEF Batches
  <2>4. kind[writers[1]] = "sync"
    <3>1. i = 1 \/ i \in 2..group
      BY <2>1, <2>2
    <3> QED
      BY <3>1, <2>3, <1>1, <1>2, <1>9 DEF GroupInv
  <2>5. Record \in Synced(logfile)
    BY <2>4, <1>1 DEF StoreInv, WritingInv
  <2>6. Record \in Safe
    BY <2>5, <1>2, NeededFacts
  <2>7. answer[c] # "error"
    BY <1>4, <1>9 DEF Batches
  <2> QED
    BY <2>6, <2>7, <1>3, <1>9 DEF KeptCalls, CallsOf
<1>10. PICK G : G = { Want(c) : c \in Batches }
  OBVIOUS
<1>11. G \in SUBSET AskedNow
  BY <1>7, <1>10, ByCalls
<1>12. { w \in G : w.sync } \subseteq SafeNow
  <2> SUFFICES ASSUME NEW c \in Batches, Want(c).sync PROVE Want(c) \in SafeNow
    BY <1>10
  <2>1. kind[c] = "sync"
    BY DEF Want
  <2> QED
    BY <2>1, <1>9, ByCalls
<1>13. VisibleNow' = VisibleNow \cup G
  BY <1>1, <1>6, <1>10, ByCalls, ByCallsNext
<1>14. SafeNow' = SafeNow
  BY <1>1, <1>8, ByCalls, ByCallsNext
<1>15. AskedNow' = AskedNow
  <2>1. Alive' \cup CallsOf(Visible)' = Alive \cup CallsOf(Visible)
    BY <1>4, <1>6, <1>7
  <2> QED
    BY <2>1, <1>1, ByCalls, ByCallsNext
<1> QED
  BY <1>1, <1>11, <1>12, <1>13, <1>14, <1>15, StoreCommit

\* The three sets of writes after a step.
LEMMA ByCallsThen ==
  /\ VisibleNow' = { Want(c)' : c \in CallsOf(Visible)' }
  /\ AskedNow' = { Want(c)' : c \in Alive' \cup CallsOf(Visible)' }
  /\ SafeNow' = { Want(c)' : c \in KeptCalls' }
<1>1. (/\ VisibleNow = { Want(c) : c \in CallsOf(Visible) }
       /\ AskedNow = { Want(c) : c \in Alive \cup CallsOf(Visible) }
       /\ SafeNow = { Want(c) : c \in KeptCalls })'
  BY ByCalls, PTL
<1> QED
  BY <1>1

\* A call with something to write may take effect from now on.
LEMMA ShowsWrite ==
  ASSUME StructureInv, SequenceInv, StoreInv, NEW k \in Kind, Write(k)
  PROVE  Promises!Next \/ UNCHANGED Promises!vars
<1>1. /\ mode = "up" /\ kind' = Append(kind, k) /\ answer' = Append(answer, "none")
      /\ UNCHANGED <<power, mode, mem, imm, lastSequence, files, current, logs, manifest>>
  BY DEF Write, tables, sets, disk, fate
<1>2. PICK new : new = Len(kind) + 1
  OBVIOUS
<1>3. /\ AnswersStay /\ Len(kind) \in Nat /\ new \in Call /\ new \notin 1..Len(kind)
      /\ kind'[new] = k /\ answer'[new] = "none"
      /\ DOMAIN kind = 1..Len(kind) /\ DOMAIN kind' = 1..new
      /\ 1..new = (1..Len(kind)) \cup {new}
      /\ \A c \in 1..Len(kind) : answer'[c] = answer[c] /\ kind'[c] = kind[c]
  BY <1>2, CallJoins DEF StructureInv, AnswersStay
<1>4. Visible' = Visible /\ Safe' = Safe
  BY <1>1 DEF Visible, Safe, InTables, Numbers, LogsNeeded, Recoverable
<1>5. CallsOf(Visible) \subseteq 1..Len(kind) /\ CallsOf(Safe) \subseteq 1..Len(kind)
  <2>1. Visible \subseteq Reached
    BY <1>1 DEF Visible, Reached
  <2> QED
    BY <2>1, SafeFacts DEF StoreInv, CallInv, Batched, CallsOf
<1>6. /\ CallsOf(Visible)' = CallsOf(Visible) /\ KeptCalls' = KeptCalls
      /\ KeptCalls \subseteq 1..Len(kind) /\ Alive \subseteq 1..Len(kind)
  <2>1. CallsOf(Safe)' = CallsOf(Safe) /\ CallsOf(Visible)' = CallsOf(Visible)
    BY <1>4 DEF CallsOf
  <2> QED
    BY <2>1, <1>3, <1>5 DEF KeptCalls, Alive
<1>7. Alive' = IF k = "force" THEN Alive ELSE Alive \cup {new}
  BY <1>3 DEF Alive
<1>8. \A c \in 1..Len(kind) : Want(c)' = Want(c)
  BY <1>3 DEF Want
<1>9. VisibleNow' = VisibleNow
  BY <1>5, <1>6, <1>8, ByCalls, ByCallsThen
<1>10. SafeNow' = SafeNow
  BY <1>6, <1>8, ByCalls, ByCallsThen
<1>11. { Want(c)' : c \in Alive \cup CallsOf(Visible) } = AskedNow
  BY <1>5, <1>6, <1>8, ByCalls
<1>12. CASE k = "force"
  <2>1. AskedNow' = AskedNow
    BY <1>6, <1>7, <1>11, <1>12, ByCallsThen
  <2> QED
    BY <2>1, <1>1, <1>9, <1>10, StoreVars
<1>13. CASE k # "force"
  <2>1. PICK w : w = [n |-> new, sync |-> k = "sync"]
    OBVIOUS
  <2>2. w \in [n : Call, sync : BOOLEAN]
    BY <2>1, <1>3
  <2>3. \A c : c = new => Want(c)' = w
    BY <2>1, <1>3 DEF Want
  <2>4. w \notin AskedNow
    <3>1. \A c \in 1..Len(kind) : Want(c).n = c /\ w.n = new /\ c # new
      BY <2>1, <1>3 DEF Want
    <3>2. \A c \in 1..Len(kind) : Want(c) # w
      BY <3>1
    <3> QED
      BY <3>2, <1>5, <1>6, ByCalls
  <2>5. AskedNow' = AskedNow \cup {w}
    <3>1. Alive' \cup CallsOf(Visible)' = (Alive \cup CallsOf(Visible)) \cup {new}
      BY <1>6, <1>7, <1>13
    <3>2. AskedNow' = { Want(c)' : c \in (Alive \cup CallsOf(Visible)) \cup {new} }
      BY <3>1, ByCallsThen
    <3>3. { Want(c)' : c \in (Alive \cup CallsOf(Visible)) \cup {new} }
            = { Want(c)' : c \in Alive \cup CallsOf(Visible) } \cup {w}
      BY <2>3
    <3> QED
      BY <3>2, <3>3, <1>11
  <2> QED
    BY <2>2, <2>4, <2>5, <1>1, <1>9, <1>10, StoreAsk
<1> QED
  BY <1>12, <1>13

-----------------------------------------------------------------------------
(***************************************************************************)
(* The other steps are steps of Store.                                     *)
(***************************************************************************)
\* A table takes the place of the memtable, or of other tables.  Logs go
\* when what they had is in a table, or was never promised.
LEMMA ShowsBackground ==
  ASSUME StructureInv, StructureInv', SequenceInv, SequenceInv', StoreInv, BackgroundStep
  PROVE  Promises!Next
<1>1. /\ mode = "up" /\ logNumber \in Nat /\ logfile \in Nat /\ manifest.log \in Nat
      /\ logNumber <= manifest.log /\ manifest.log <= logfile /\ DiskOK
  BY BackgroundFacts
<1>2. /\ mode' = "up" /\ UNCHANGED <<kind, answer, mem, power>> /\ Fresh' = Fresh
  BY BackgroundFrame
<1>3. Finished
  BY BackgroundContents
<1>4. /\ LogsNeeded' = { n \in DOMAIN logs : n >= manifest'.log }
      /\ Safe' = InTables(manifest)' \cup UNION { Synced(n) : n \in LogsNeeded' }
  BY BackgroundLogs
<1>5. Visible' = Visible
  <2>1. Visible = (mem \ Fresh) \cup imm \cup InTables(current)
    BY <1>1, Seen
  <2>2. Visible' = (mem' \ Fresh') \cup imm' \cup InTables(current)'
    BY <1>2, SeenNext
  <2> QED
    BY <2>1, <2>2, <1>2, <1>3 DEF Finished
<1>6. manifest'.log \in {manifest.log, logNumber, logfile} /\ manifest'.log >= logNumber
  BY <1>1, <1>3 DEF Finished
<1>7. ASSUME NEW r \in Safe PROVE r \in Safe' \/ Failed(r)
  <2>1. InTables(manifest) \subseteq InTables(manifest)'
    BY <1>3 DEF Finished
  <2>2. CASE r \in InTables(manifest)
    BY <2>1, <2>2, <1>4
  <2>3. ASSUME NEW n \in LogsNeeded, r \in Synced(n) PROVE r \in Safe' \/ Failed(r)
    <3>1. n \in DOMAIN logs /\ n >= manifest.log /\ n \in Nat
      BY <1>1 DEF LogsNeeded, DiskOK
    <3>2. CASE n >= manifest'.log
      BY <3>1, <3>2, <2>3, <1>4
    <3>3. CASE ~(n >= manifest'.log)
      <4>1. manifest'.log \notin {manifest.log, logNumber}
        BY <3>1, <3>3, <1>1, <1>6
      <4>2. manifest'.log = logfile /\ InTables(manifest)' = InTables(manifest) \cup imm
        BY <4>1, <1>3 DEF Finished
      <4>3. n # logfile /\ n >= logNumber
        BY <4>2, <3>1, <3>3, <1>1
      <4>4. r \in Log(n)
        BY <3>1, <2>3, <1>1, LogFacts
      <4>5. Placed(n, r)
        BY <4>3, <4>4, <3>1, <1>1 DEF StoreInv, LoggedInv
      <4> QED
        BY <4>2, <4>3, <4>5, <1>4 DEF Placed
    <3> QED
      BY <3>2, <3>3
  <2> QED
    BY <2>2, <2>3, NeededFacts
<1>8. ASSUME NEW r \in Safe' PROVE r.ws \subseteq Alive \cup CallsOf(Visible)
  <2>1. InTables(manifest)' \subseteq InTables(manifest) \cup imm
    BY <1>3 DEF Finished
  <2>2. CASE r \in InTables(manifest)'
    BY <2>1, <2>2, <1>1, Sought
  <2>3. ASSUME NEW n \in LogsNeeded', r \in Synced(n) PROVE r.ws \subseteq Alive \cup CallsOf(Visible)
    <3>1. n \in DOMAIN logs /\ n >= logNumber
      <4>1. n \in DOMAIN logs /\ n >= manifest'.log /\ n \in Nat /\ manifest'.log \in Nat
        BY <1>1, <1>4, <1>6 DEF DiskOK
      <4> QED
        BY <4>1, <1>1, <1>6
    <3>2. r \in Log(n)
      BY <3>1, <2>3, <1>1, LogFacts
    <3> QED
      BY <3>1, <3>2, <1>1, Sought
  <2> QED
    BY <2>2, <2>3, <1>4
<1>9. KeptCalls \subseteq KeptCalls'
  <2> SUFFICES ASSUME NEW r \in Safe, NEW c \in r.ws, answer[c] # "error" PROVE c \in KeptCalls'
    BY DEF KeptCalls, CallsOf
  <2>1. r \in Safe'
    BY <1>7 DEF Failed
  <2> QED
    BY <2>1, <1>2 DEF KeptCalls, CallsOf
<1>10. KeptCalls' \subseteq KeptCalls \cup Alive \cup CallsOf(Visible)
  BY <1>8 DEF KeptCalls, CallsOf
<1>11. Alive' = Alive /\ CallsOf(Visible)' = CallsOf(Visible)
  BY <1>2, <1>5 DEF Alive, CallsOf
<1> QED
  BY <1>2, <1>9, <1>10, <1>11, Unseen

\* A crash keeps what readers found if only the process is gone, and in any
\* case what was safe.
LEMMA ShowsCrash ==
  ASSUME StructureInv, SequenceInv, StoreInv, ProcessCrash \/ MachineCrash
  PROVE  Promises!Next
<1>1. /\ mode' = "down" /\ kind' = kind
      /\ DOMAIN kind = 1..Len(kind) /\ \A c \in 1..Len(kind) : answer'[c] = "dead"
      /\ InTables(manifest)' = InTables(manifest) /\ LogsNeeded' = LogsNeeded
      /\ \A n \in DOMAIN logs : Log(n)' \subseteq Log(n) /\ Synced(n) \subseteq Synced(n)'
                                /\ Synced(n)' \subseteq Log(n)'
      /\ ProcessCrash => power' = power /\ \A n \in DOMAIN logs : Log(n)' = Log(n)
      /\ MachineCrash => power' = ~power
  BY CrashContents
<1>2. LogsNeeded \subseteq DOMAIN logs
  BY DEF LogsNeeded
<1>3. Recoverable' = InTables(manifest)' \cup UNION { Log(n)' : n \in LogsNeeded' }
  BY DEF Recoverable, Log
<1>4. Visible' = Recoverable' /\ Recoverable' \subseteq Recoverable
  <2>1. Recoverable' \subseteq Recoverable
    BY <1>1, <1>2, <1>3, NeededFacts
  <2> QED
    BY <2>1, <1>1 DEF Visible
<1>5. Safe \subseteq Safe' /\ Safe' \subseteq Recoverable'
  BY <1>1, <1>2, <1>3, SafeNext, NeededFacts
<1>6. \A r \in Recoverable : r.ws \subseteq 1..Len(kind)
  BY SafeFacts DEF StoreInv, CallInv, Batched
<1>7. Alive' = {}
  BY <1>1 DEF Alive
<1>8. \A r \in Recoverable : r.ws \subseteq Alive \cup CallsOf(Visible)
  <2>1. CASE mode = "up"
    BY <2>1, Sought
  <2>2. CASE mode # "up"
    <3>1. Visible = Recoverable
      BY <2>2 DEF Visible
    <3> QED
      BY <3>1 DEF CallsOf
  <2> QED
    BY <2>1, <2>2
<1>9. ProcessCrash => Visible \subseteq Visible'
  <2>1. SUFFICES ASSUME ProcessCrash PROVE Visible \subseteq Visible'
    OBVIOUS
  <2>2. Recoverable' = Recoverable
    BY <2>1, <1>1, <1>2, <1>3, NeededFacts
  <2>3. CASE mode = "up"
    <3>1. Visible \subseteq mem \cup imm \cup InTables(current)
      BY <2>3, Seen
    <3>2. mem \subseteq Log(logfile) /\ imm \subseteq Recoverable /\ InTables(current) \subseteq InTables(manifest)
      BY <2>3 DEF StoreInv, LoggedInv, TableInv
    <3>3. logfile \in LogsNeeded
      <4>1. manifest.log <= logfile /\ logfile \in DOMAIN logs /\ manifest.log \in Nat /\ logfile \in Nat
        BY <2>3 DEF StoreInv, LoggedInv, StructureInv, NumbersInv, ContentInv, DiskOK
      <4> QED
        BY <4>1 DEF LogsNeeded
    <3>4. mem \cup InTables(current) \subseteq Recoverable
      BY <3>2, <3>3, NeededFacts
    <3> QED
      BY <3>1, <3>2, <3>4, <2>2, <1>4
  <2>4. CASE mode # "up"
    BY <2>4, <2>2, <1>4 DEF Visible
  <2> QED
    BY <2>3, <2>4
<1>10. AskedNow' = VisibleNow'
  <2>1. Alive' \cup CallsOf(Visible)' = CallsOf(Visible)'
    BY <1>7
  <2> QED
    BY <2>1, <1>1, ByCallsNext
<1>11. VisibleNow' \subseteq AskedNow
  <2>1. CallsOf(Visible)' \subseteq Alive \cup CallsOf(Visible)
    BY <1>4, <1>8 DEF CallsOf
  <2> QED
    BY <2>1, <1>1, ByCalls, ByCallsNext
<1>12. SafeNow' \subseteq VisibleNow'
  <2>1. KeptCalls' \subseteq CallsOf(Visible)'
    BY <1>4, <1>5 DEF KeptCalls, CallsOf
  <2> QED
    BY <2>1, <1>1, ByCallsNext
<1>13. SafeNow \subseteq SafeNow'
  <2>1. \A c \in CallsOf(Safe) : answer'[c] = "dead"
    BY <1>1, <1>6, SafeFacts DEF CallsOf
  <2>2. CallsOf(Safe) \subseteq CallsOf(Safe)'
    BY <1>5 DEF CallsOf
  <2>3. KeptCalls \subseteq KeptCalls'
    BY <2>1, <2>2 DEF KeptCalls
  <2> QED
    BY <2>3, <1>1, ByCalls, ByCallsNext
<1>14. ProcessCrash => VisibleNow \subseteq VisibleNow'
  <2>1. SUFFICES ASSUME ProcessCrash PROVE VisibleNow \subseteq VisibleNow'
    OBVIOUS
  <2>2. CallsOf(Visible) \subseteq CallsOf(Visible)'
    BY <2>1, <1>9 DEF CallsOf
  <2> QED
    BY <2>2, <1>1, ByCalls, ByCallsNext
<1> QED
  BY <1>1, <1>10, <1>11, <1>12, <1>13, <1>14, StoreCrash

\* Recovery finds what there is and writes it to tables, after which it is
\* safe; readers then find the same.
LEMMA ShowsOpen ==
  ASSUME StructureInv, StructureInv', SequenceInv, SequenceInv', StoreInv, OpenStep
  PROVE  Promises!Next
<1>1. UNCHANGED <<kind, answer, power>>
  BY DEF OpenStep, Recover, SetCurrentFile, Opened, calls, fate
<1>2. CASE Recover
  <2>1. Recoverable' = Recoverable /\ Safe' = Safe
    BY <1>2, RecoverContents
  <2>2. mode # "up" /\ mode' # "up"
    BY <1>2 DEF Recover
  <2>3. Visible' = Visible
    BY <2>1, <2>2 DEF Visible
  <2> QED
    BY <2>1, <2>3, <1>1, Untouched
<1>3. CASE SetCurrentFile
  <2>1. Recoverable' = Recoverable /\ Safe' = Recoverable
    BY <1>3, CurrentContents
  <2>2. mode # "up" /\ mode' # "up"
    BY <1>3 DEF SetCurrentFile
  <2>3. Visible = Recoverable /\ Visible' = Recoverable
    BY <2>1, <2>2 DEF Visible
  <2>4. /\ Alive' = Alive /\ CallsOf(Visible)' = CallsOf(Visible)
        /\ KeptCalls \subseteq KeptCalls' /\ KeptCalls' \subseteq CallsOf(Visible)
    BY <2>1, <2>3, <1>1, SafeFacts DEF Alive, KeptCalls, CallsOf
  <2> QED
    BY <2>4, <1>1, Unseen
<1>4. CASE Opened
  <2>1. /\ mem' = {} /\ imm' = {} /\ mode # "up" /\ mode' = "up"
        /\ InTables(current)' = InTables(manifest)
        /\ Recoverable = InTables(manifest) /\ Safe = InTables(manifest) /\ Safe' = InTables(manifest)
    BY <1>4, OpenedContents
  <2>2. Visible' = InTables(manifest) /\ Visible = InTables(manifest)
    BY <2>1, SeenNext DEF Visible
  <2> QED
    BY <2>1, <2>2, <1>1, Untouched
<1> QED
  BY <1>2, <1>3, <1>4 DEF OpenStep

\* The initial states of LevelDB are those of Store.
LEMMA ShowsStart == Init => Promises!Init
<1>1. SUFFICES ASSUME Init PROVE Promises!Init
  OBVIOUS
<1>2. /\ mem = {} /\ imm = {} /\ mode = "up" /\ kind = <<>> /\ power = TRUE
      /\ logs = [n \in {1} |-> EmptyLog] /\ files = <<>>
  BY <1>1 DEF Init
<1>3. DOMAIN files = {} /\ DOMAIN kind = {}
  BY <1>2
<1>4. InTables(manifest) = {} /\ InTables(current) = {}
  BY <1>3 DEF InTables
<1>5. \A n \in DOMAIN logs : Synced(n) = {}
  BY <1>2, EmptyLogFacts DEF Synced
<1>6. Safe = {}
  BY <1>4, <1>5, NeededFacts DEF LogsNeeded
<1>7. Visible = {}
  BY <1>2, <1>4 DEF Visible
<1>8. Alive = {} /\ CallsOf(Visible) = {} /\ KeptCalls = {}
  BY <1>3, <1>6, <1>7 DEF Alive, CallsOf, KeptCalls
<1>9. AskedNow = {} /\ VisibleNow = {} /\ SafeNow = {}
  BY <1>8, ByCalls
<1> QED
  BY <1>2, <1>9 DEF Promises!Init, AskedNow, VisibleNow, SafeNow, Alive, Want, WritesOf

\* Every step of LevelDB is a step of Store, or a stutter.
LEMMA ShowsStep ==
  ASSUME StructureInv, StructureInv', SequenceInv, SequenceInv', StoreInv, [Next]_vars
  PROVE  [Promises!Next]_(Promises!vars)
<1>1. CASE UNCHANGED vars \/ NewIterator \/ DeleteIterator
  BY <1>1, ShowsWait
<1>2. ASSUME NEW k \in Kind, Write(k) PROVE Promises!Next \/ UNCHANGED Promises!vars
  BY <1>2, ShowsWrite
<1>3. CASE WriterStep
  BY <1>3, ShowsWait, ShowsSwitch, ShowsRecord, ShowsAnswer, ShowsSync, ShowsFinish DEF WriterStep
<1>4. CASE BackgroundStep
  BY <1>4, ShowsBackground
<1>5. CASE OpenStep
  BY <1>5, ShowsOpen
<1>6. CASE ProcessCrash \/ MachineCrash
  BY <1>6, ShowsCrash
<1> QED
  BY <1>1, <1>2, <1>3, <1>4, <1>5, <1>6 DEF Next

(***************************************************************************)
(* LevelDB keeps its promises (module Store), whatever the number of       *)
(* calls, crashes, failures and tables: a group of writes takes effect at  *)
(* once, a synced one is on the disk before it is answered, what readers   *)
(* found survives a process crash, what was safe survives any crash, and   *)
(* a write that was lost stays lost.                                       *)
(***************************************************************************)
THEOREM StoreTheorem == Spec => IsStore
<1>1. Init => Promises!Init
  BY ShowsStart
<1>2. StructureInv /\ StructureInv' /\ SequenceInv /\ SequenceInv' /\ StoreInv /\ [Next]_vars
        => [Promises!Next]_(Promises!vars)
  BY ShowsStep
<1>3. Init => StoreInv /\ SequenceInv
  BY StoreStart, SequenceStart
<1>4. StructureInv /\ StructureInv' /\ SequenceInv /\ StoreInv /\ [Next]_vars => StoreInv' /\ SequenceInv'
  BY StoreStep, SequenceStep
<1> QED
  BY <1>1, <1>2, <1>3, <1>4, StructureTheorem, PTL DEF Spec, IsStore, Promises!Spec
=============================================================================
