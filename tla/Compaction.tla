------------------------------ MODULE Compaction ------------------------------
(***************************************************************************)
(* Which table goes to which level, and which entries a compaction may     *)
(* drop: version_set.cc and DoCompactionWork of the vendored LevelDB.      *)
(*                                                                         *)
(* Readers search the levels from the top and stop at the first entry they *)
(* find (Version::Get).  That is right only as long as an entry is never   *)
(* above a newer one of the same key.  Flushes that skip levels,           *)
(* compactions that pick one table of a level or those of a range, moved   *)
(* tables and dropped entries must all keep it so, also when a flush comes *)
(* in the middle of a compaction.                                          *)
(*                                                                         *)
(* The two memtables are one set, as a flush is done by the same thread as *)
(* a compaction.  Sizes are left out: whatever the code decides by a size  *)
(* is a choice.  Module LevelDB has the files, the manifest and crashes.   *)
(***************************************************************************)
EXTENDS Integers, Sequences, FiniteSets, SequencesExt, FiniteSetsExt

CONSTANTS
  MaxKey,         \* the user keys are 1..MaxKey, in this order
  MaxWrites,      \* writes
  MaxSnapshots,   \* snapshots taken
  LastLevel,      \* the last level: kNumLevels - 1
  MaxMemLevel     \* kMaxMemCompactLevel

ASSUME CompactionAssumption ==
  /\ {MaxKey, MaxWrites, MaxSnapshots} \subseteq Nat
  /\ LastLevel \in Nat /\ MaxMemLevel \in 0..LastLevel /\ LastLevel > 0

Key == 1..MaxKey
Level == 0..LastLevel

VARIABLES
  history,      \* all entries written: history[n] has sequence number n
  mem,          \* entries not flushed yet
  level0,       \* tables of level 0, oldest first; a table is a set of entries
  below,        \* below[l]: the tables of level l
  snapshots,    \* sequence numbers of the snapshots in use
  taken,        \* how many snapshots were taken
  compaction,   \* the compaction under way
  cutInside,    \* two entries of one key went to different tables of a level
  intruded      \* a flush skipped levels in the middle of a range compaction

vars == <<history, mem, level0, below, snapshots, taken, compaction, cutInside, intruded>>

NoCompaction == [level |-> -1, manual |-> FALSE]
Idle == compaction = NoCompaction
LastSequence == Len(history)

Init ==
  /\ history = <<>> /\ mem = {}
  /\ level0 = <<>> /\ below = [l \in 1..LastLevel |-> {}]
  /\ snapshots = {} /\ taken = 0
  /\ compaction = NoCompaction /\ cutInside = FALSE /\ intruded = FALSE

-----------------------------------------------------------------------------
\* The order of entries: by key, newest first.
Before(d, e) == d.key < e.key \/ (d.key = e.key /\ d.seq > e.seq)

\* Tables.
Tables(l) == IF l = 0 THEN Range(level0) ELSE below[l]
Smallest(S) == Min({ e.key : e \in UNION S })   \* user keys of a set of tables
Largest(S) == Max({ e.key : e \in UNION S })
Meets(t, lo, hi) == Smallest({t}) <= hi /\ Largest({t}) >= lo

OverlapInLevel(l, lo, hi) == \E t \in Tables(l) : Meets(t, lo, hi)

\* The smallest range around lo..hi that contains every table it meets.
Widened(S, lo, hi) ==
  LET Closed(r) == \A t \in S : Meets(t, r[1], r[2]) =>
                                  r[1] <= Smallest({t}) /\ Largest({t}) <= r[2]
      around == { r \in (1..lo) \X (hi..MaxKey) : Closed(r) }
  IN  CHOOSE r \in around : \A q \in around : q[1] <= r[1] /\ r[2] <= q[2]

\* On level 0, where tables overlap each other, a table that is found widens
\* the range.
GetOverlappingInputs(l, lo, hi) ==
  LET r == IF l = 0 THEN Widened(Tables(0), lo, hi) ELSE <<lo, hi>>
  IN  { t \in Tables(l) : Meets(t, r[1], r[2]) }

Within(l, S) == GetOverlappingInputs(l, Smallest(S), Largest(S))

\* Faulty variant: a flush looks at level 0 only.
FlushAnywhere(l, lo, hi) == ~OverlapInLevel(0, lo, hi)

\* A table may skip a level if nothing there, or above, overlaps it.
Free(l, lo, hi) == \A k \in 0..l : ~OverlapInLevel(k, lo, hi)

\* The levels a flushed table may go to.  It goes on as long as it may,
\* unless it would overlap too much of the level after the next.
PickLevelForMemTableOutput(lo, hi) ==
  { l \in 0..MaxMemLevel :
      /\ l = 0 \/ Free(l, lo, hi)
      /\ \/ l = MaxMemLevel
         \/ ~Free(l + 1, lo, hi)
         \/ l + 2 <= LastLevel /\ OverlapInLevel(l + 2, lo, hi) }

-----------------------------------------------------------------------------
(***************************************************************************)
(* Writes, snapshots, flushes.                                             *)
(***************************************************************************)
Write(k, del) ==
  LET e == [key |-> k, seq |-> LastSequence + 1, del |-> del]
  IN  /\ LastSequence < MaxWrites
      /\ history' = Append(history, e)
      /\ mem' = mem \cup {e}
      /\ UNCHANGED <<level0, below, snapshots, taken, compaction, cutInside, intruded>>

GetSnapshot ==
  /\ taken < MaxSnapshots
  /\ taken' = taken + 1
  /\ snapshots' = snapshots \cup {LastSequence}
  /\ UNCHANGED <<history, mem, level0, below, compaction, cutInside, intruded>>

ReleaseSnapshot(s) ==
  /\ s \in snapshots
  /\ snapshots' = snapshots \ {s}
  /\ UNCHANGED <<history, mem, level0, below, taken, compaction, cutInside, intruded>>

\* CompactMemTable, by itself or in the middle of a compaction.
CompactMemTable ==
  /\ mem # {}
  /\ \E l \in PickLevelForMemTableOutput(Smallest({mem}), Largest({mem})) :
       IF l = 0 THEN level0' = Append(level0, mem) /\ UNCHANGED below
                ELSE below' = [below EXCEPT ![l] = @ \cup {mem}] /\ UNCHANGED level0
  /\ intruded' = (intruded \/ (compaction.manual /\ UNCHANGED level0))
  /\ mem' = {}
  /\ UNCHANGED <<history, snapshots, taken, compaction, cutInside>>

(***************************************************************************)
(* Compactions.                                                            *)
(***************************************************************************)
\* What PickCompaction takes of the level once it has chosen a table.
Picked(l, t) == IF l = 0 THEN Within(0, {t}) ELSE {t}

\* SetupOtherInputs: the tables of the next level, and more of this level if
\* that needs no more of the next; the last is left alone if it gets big.
OtherInputs(l, in0) ==
  LET in1  == Within(l + 1, in0)
      more == Within(l, in0 \cup in1)
  IN  { <<in0, in1>> } \cup
      IF in1 # {} /\ Cardinality(more) > Cardinality(in0)
           /\ Cardinality(Within(l + 1, more)) = Cardinality(in1)
        THEN { <<more, in1>> } ELSE {}

\* The tables of q that are not in S, in the same order.
Without(q, S) ==
  LET Kept[n \in 0..Len(q)] ==
        IF n = 0 THEN <<>>
        ELSE IF q[n] \in S THEN Kept[n - 1]
        ELSE Append(Kept[n - 1], q[n])
  IN  Kept[Len(q)]

\* Tables are taken from level l and the next, and others put in the next.
Replaced(l, in0, in1, out) ==
  LET next == (below[l + 1] \ in1) \cup out
  IN  IF l = 0
        THEN /\ level0' = Without(level0, in0)
             /\ below' = [below EXCEPT ![1] = next]
        ELSE /\ level0' = level0
             /\ below' = [below EXCEPT ![l] = @ \ in0, ![l + 1] = next]

\* A single table with nothing to merge it with is moved, unless it would
\* overlap too much of the level after the next.
MoveTable(l, t) ==
  /\ Idle /\ Within(l + 1, Picked(l, t)) = {} /\ Picked(l, t) = {t}
  /\ Replaced(l, {t}, {}, {t})
  /\ UNCHANGED <<history, mem, snapshots, taken, compaction, cutInside, intruded>>

\* DoCompactionWork up to where it releases the mutex.
Started(l, ins, manual) ==
  compaction' =
    [ level    |-> l, manual |-> manual, in0 |-> ins[1], in1 |-> ins[2],
      smallest |-> IF snapshots = {} THEN LastSequence ELSE Min(snapshots),
      deeper   |-> UNION { below[k] : k \in (l + 2)..LastLevel } ]

\* A compaction of what PickCompaction takes, unless the table is moved.
StartCompaction(l, t) ==
  /\ Idle
  /\ \E ins \in OtherInputs(l, Picked(l, t)) :
       /\ Cardinality(ins[1]) = 1 /\ ins[2] = {} =>
            l + 2 <= LastLevel /\ OverlapInLevel(l + 2, Smallest(ins[1]), Largest(ins[1]))
       /\ Started(l, ins, FALSE)
  /\ UNCHANGED <<history, mem, level0, below, snapshots, taken, cutInside, intruded>>

\* The first tables of a range, as many as are not too big together; on level
\* 0 all of them.
FirstOf(l, S) ==
  IF l = 0 THEN {S} \ {{}}
  ELSE { { t \in S : \E d \in t : \A e \in u \ t : Before(d, e) } \cup {u} : u \in S }

\* A compaction of the tables of a range that somebody asked for; these are
\* never moved.
CompactRange(l, lo, hi) ==
  /\ Idle
  /\ \E in0 \in FirstOf(l, GetOverlappingInputs(l, lo, hi)) :
       \E ins \in OtherInputs(l, in0) : Started(l, ins, TRUE)
  /\ UNCHANGED <<history, mem, level0, below, snapshots, taken, cutInside, intruded>>

\* No table below the output has the key in its range, in the version the
\* compaction started from.
IsBaseLevelForKey(k) == \A t \in compaction.deeper : ~Meets(t, k, k)

\* Faulty variant: a deletion is dropped though older entries are below.
DroppedEarly(S) ==
  { e \in S :
      \/ \E n \in S : n.key = e.key /\ n.seq > e.seq /\ n.seq <= compaction.smallest
      \/ e.del /\ e.seq <= compaction.smallest }

\* The entries of the inputs that are dropped: hidden by a newer one that
\* every snapshot sees, or a deletion with nothing left to delete.
Dropped(S) ==
  { e \in S :
      \/ \E n \in S : n.key = e.key /\ n.seq > e.seq /\ n.seq <= compaction.smallest
      \/ e.del /\ e.seq <= compaction.smallest /\ IsBaseLevelForKey(e.key) }

\* The ways to cut the entries into tables, by size and by what the tables
\* overlap on the level after the next: anywhere, between two keys or not.
Outputs(S) ==
  LET ends == { e \in S : \E d \in S : Before(e, d) }
      TableOf(e, cuts) == { d \in S : \A c \in cuts : Before(c, d) <=> Before(c, e) }
  IN  { { TableOf(e, cuts) : e \in S } : cuts \in SUBSET ends }

\* No two tables have entries of one key.
KeysWhole(out) == \A t, u \in out : t # u => \A d \in t, e \in u : d.key # e.key

\* The outputs replace the inputs in the version that is current by now.
InstallCompactionResults ==
  LET S == UNION (compaction.in0 \cup compaction.in1)
  IN  /\ ~Idle
      /\ \E out \in Outputs(S \ Dropped(S)) :
           /\ Replaced(compaction.level, compaction.in0, compaction.in1, out)
           /\ cutInside' = (cutInside \/ ~KeysWhole(out))
      /\ compaction' = NoCompaction
      /\ UNCHANGED <<history, mem, snapshots, taken, intruded>>

Next ==
  \/ \E k \in Key, del \in BOOLEAN : Write(k, del)
  \/ GetSnapshot
  \/ \E s \in snapshots : ReleaseSnapshot(s)
  \/ CompactMemTable
  \/ \E l \in 0..(LastLevel - 1), lo, hi \in Key : CompactRange(l, lo, hi)
  \/ \E l \in 0..(LastLevel - 1) : \E t \in Tables(l) : MoveTable(l, t) \/ StartCompaction(l, t)
  \/ InstallCompactionResults

Spec == Init /\ [][Next]_vars

-----------------------------------------------------------------------------
(***************************************************************************)
(* Reading.                                                                *)
(***************************************************************************)
Absent == [key |-> 0, seq |-> 0, del |-> TRUE]

\* The newest entry of a key in S that a snapshot sees.
Newest(S, k, s) ==
  LET seen == { e \in S : e.key = k /\ e.seq <= s }
  IN  IF seen = {} THEN Absent ELSE CHOOSE e \in seen : \A d \in seen : d.seq <= e.seq

\* FindFile: the first table of a level with an entry at or after the key as
\* of the snapshot.
FindFile(l, k, s) ==
  LET Reaches(t) == \E e \in t : e.key > k \/ (e.key = k /\ e.seq <= s)
      First(t) == CHOOSE e \in t : \A d \in t : ~Before(d, e)
      cands == { t \in below[l] : Reaches(t) }
  IN  { t \in cands : \A u \in cands \ {t} : Before(First(t), First(u)) }

\* Where Version::Get looks, in this order.
Searched(k, s) ==
  <<mem>> \o Reverse(level0)
    \o [l \in 1..LastLevel |-> UNION FindFile(l, k, s)]

\* DBImpl::Get: the first place that has an entry decides.
Get(k, s) ==
  LET found == { n \in DOMAIN Searched(k, s) : Newest(Searched(k, s)[n], k, s) # Absent }
  IN  IF found = {} THEN Absent ELSE Newest(Searched(k, s)[Min(found)], k, s)

Result(e) == IF e.del THEN 0 ELSE e.seq

TypeOK ==
  /\ \A n \in DOMAIN history : history[n].seq = n /\ history[n].key \in Key
  /\ snapshots \subseteq 0..LastSequence
  /\ \A l \in Level : \A t \in Tables(l) : t # {} /\ t \subseteq Range(history)
  /\ ~Idle => /\ compaction.in0 \subseteq Tables(compaction.level)
              /\ compaction.in1 \subseteq Tables(compaction.level + 1)

(***************************************************************************)
(* On every level but the first the tables follow each other without       *)
(* overlap, as MaybeAddFile asserts ("Must not overlap"): a flush that     *)
(* skips to a level while a compaction into it is under way does not land  *)
(* between the outputs.  A compaction of a range is the exception: between *)
(* its inputs there may be a gap, and a flush that fits into the gap may   *)
(* go to the level of the outputs and be inside one of them in the end.    *)
(***************************************************************************)
LevelsDisjoint ==
  ~intruded =>
    \A l \in 1..LastLevel : \A t, u \in below[l] :
      t # u => (\A d \in t, e \in u : Before(d, e)) \/ (\A d \in t, e \in u : Before(e, d))

(***************************************************************************)
(* A reader finds the last value written before its snapshot, or nothing   *)
(* if that was a deletion: whatever was flushed, moved, merged and dropped *)
(* meanwhile.  It holds as long as every compaction put all entries of a   *)
(* key into one table and levels are disjoint.                             *)
(***************************************************************************)
FindsNewest ==
  \A k \in Key : \A s \in snapshots \cup {LastSequence} :
    Result(Get(k, s)) = Result(Newest(Range(history), k, s))

ReadsRight == ~cutInside /\ ~intruded => FindsNewest

(***************************************************************************)
(* "Entries never hop across levels.  Therefore we are guaranteed that if  *)
(* we find data in an smaller level, later levels are irrelevant"          *)
(* (Version::Get).  It does not hold: of two entries of one key that a     *)
(* snapshot keeps, and that are cut into two tables, the newer one's table *)
(* can be moved or compacted to the next level alone, and the older one is *)
(* found first from then on.                                               *)
(***************************************************************************)
LaterLevelsIrrelevant == FindsNewest
=============================================================================
