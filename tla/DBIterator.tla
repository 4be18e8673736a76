------------------------------ MODULE DBIterator ------------------------------
(***************************************************************************)
(* The iterator a user of the database gets (db/db_iter.cc): it shows the  *)
(* values of a snapshot, key by key, over the iterator of all entries,     *)
(* while others write.  Forward that iterator stands at the entry shown;   *)
(* backward it stands before all entries of the key shown, and the entry   *)
(* shown has been saved.                                                   *)
(***************************************************************************)
EXTENDS MergingIterator, Sequences, FiniteSetsExt

CONSTANTS
  MaxKey,       \* the user keys are 1..MaxKey
  MaxEntries,   \* entries in the database
  MaxWrites     \* those written while the iterator is in use

Key == 1..MaxKey
NoKey == 0

VARIABLES
  sequence,     \* sequence_, of the snapshot
  written,      \* how many entries have been written
  iter,         \* iter_, the iterator of all entries
  direction, valid,
  saved,        \* the entry whose key and value are saved, or None
  at            \* the key at which a user should be, or NoKey

vars == <<entries, sequence, written, iter, direction, valid, saved, at>>

Visible(e) == e.seq <= sequence

\* What a database may hold: the entries of some writes, in any children.
Histories == UNION { [1..n -> [key : Key, del : BOOLEAN, child : Child]] : n \in 0..(MaxEntries - MaxWrites) }

Init ==
  /\ \E h \in Histories :
       /\ entries = { [key |-> h[n].key, seq |-> n, del |-> h[n].del, child |-> h[n].child] : n \in DOMAIN h }
       /\ sequence \in 0..Len(h) /\ written = Len(h)
  /\ iter = Unpositioned /\ direction = "forward" /\ valid = FALSE
  /\ saved = None /\ at = NoKey

\* Somebody writes.
Write(k, del) ==
  /\ written < MaxEntries /\ at # NoKey
  /\ written' = written + 1
  /\ entries' = entries \cup { [key |-> k, seq |-> written', del |-> del, child |-> Memtable] }
  /\ UNCHANGED <<sequence, iter, direction, valid, saved, at>>

-----------------------------------------------------------------------------
\* What a user should see: the keys whose newest visible entry is a value.
NewestOf(k) == FirstOf({ e \in entries : e.key = k /\ Visible(e) })
Live == { k \in Key : NewestOf(k) # None /\ ~NewestOf(k).del }
Least(K) == IF K = {} THEN NoKey ELSE Min(K)
Greatest(K) == IF K = {} THEN NoKey ELSE Max(K)

-----------------------------------------------------------------------------
\* Where the iterator of all entries may be.
Position == [at : [Child -> entries \cup {None}], forward : BOOLEAN, current : Child \cup {0}]

\* The loop of FindNextUserEntry: on to the first visible value whose key is
\* after the one to skip, which a visible deletion changes.
Passed(e, skip) == ~Visible(e) \/ e.del \/ e.key <= skip

Forth(start, after) ==
  LET Loop[s \in [m : Position, skip : Key \cup {NoKey}]] ==
        LET e == Current(s.m) IN
        IF e = None \/ ~Passed(e, s.skip) THEN s.m
        ELSE Loop[[m |-> MergeNext(s.m), skip |-> IF Visible(e) /\ e.del THEN e.key ELSE s.skip]]
  IN  Loop[[m |-> start, skip |-> after]]

\* The loop of FindPrevUserEntry: back to a visible entry of another key than
\* that of the value saved; a deletion drops what is saved.
Ended(e, kept) == e = None \/ (Visible(e) /\ kept # None /\ e.key < kept.key)
Kept(e, kept) == IF ~Visible(e) THEN kept ELSE IF e.del THEN None ELSE e

Back(start) ==
  LET Loop[s \in [m : Position, kept : entries \cup {None}]] ==
        LET e == Current(s.m) IN
        IF Ended(e, s.kept) THEN [iter |-> s.m, saved |-> s.kept]
        ELSE Loop[[m |-> MergePrev(s.m), kept |-> Kept(e, s.kept)]]
  IN  Loop[[m |-> start, kept |-> None]]

\* The loop of Prev: back to an entry of a smaller key.
BeforeKey(start, k) ==
  LET Loop[m \in Position] ==
        IF Current(m) = None \/ Current(m).key < k THEN m ELSE Loop[MergePrev(m)]
  IN  Loop[start]

Invalid(m) == valid' = FALSE /\ iter' = m /\ saved' = None /\ direction' = "forward"

FindNextUserEntry(m, skip) ==
  /\ iter' = Forth(m, skip) /\ valid' = (Current(iter') # None)
  /\ direction' = "forward" /\ saved' = None

FindPrevUserEntry(m) ==
  LET found == Back(m)
  IN  /\ iter' = found.iter /\ saved' = found.saved
      /\ valid' = (saved' # None)
      /\ direction' = IF saved' = None THEN "forward" ELSE "reverse"

-----------------------------------------------------------------------------
\* The operations.  With an invalid iterator FindNextUserEntry is not called,
\* which makes no difference.
SeekToFirst ==
  /\ FindNextUserEntry(MergeSeekToFirst, NoKey)
  /\ at' = Least(Live)
  /\ UNCHANGED <<entries, sequence, written>>

SeekToLast ==
  /\ FindPrevUserEntry(MergeSeekToLast)
  /\ at' = Greatest(Live)
  /\ UNCHANGED <<entries, sequence, written>>

Seek(k) ==
  /\ FindNextUserEntry(MergeSeek([key |-> k, seq |-> sequence]), NoKey)
  /\ at' = Least({ l \in Live : l >= k })
  /\ UNCHANGED <<entries, sequence, written>>

\* Next.  After a step back, iter_ is before the entries of the key shown.
NextKey ==
  /\ valid
  /\ IF direction = "forward" THEN FindNextUserEntry(iter, Current(iter).key)
     ELSE LET m == IF Current(iter) = None THEN MergeSeekToFirst ELSE MergeNext(iter)
          IN  IF Current(m) = None THEN Invalid(m) ELSE FindNextUserEntry(m, saved.key)
  /\ at' = Least({ l \in Live : l > at })
  /\ UNCHANGED <<entries, sequence, written>>

\* Prev.  After a step forward, iter_ first leaves the entries of its key.
PrevKey ==
  /\ valid
  /\ IF direction = "reverse" THEN FindPrevUserEntry(iter)
     ELSE LET m == BeforeKey(iter, Current(iter).key)
          IN  IF Current(m) = None THEN Invalid(m) ELSE FindPrevUserEntry(m)
  /\ at' = Greatest({ l \in Live : l < at })
  /\ UNCHANGED <<entries, sequence, written>>

Next ==
  \/ SeekToFirst \/ SeekToLast \/ NextKey \/ PrevKey
  \/ \E k \in Key : Seek(k) \/ \E del \in BOOLEAN : Write(k, del)

Spec == Init /\ [][Next]_vars

-----------------------------------------------------------------------------
(***************************************************************************)
(* However a user moves, to and fro, and whatever is written meanwhile,    *)
(* the iterator is at the key where the user should be, with the newest    *)
(* value the snapshot sees, and is invalid exactly at the ends: old        *)
(* values, deletions and entries written later are never shown, and no key *)
(* is shown twice or passed over.                                          *)
(***************************************************************************)
ShowsSnapshot ==
  /\ valid <=> at # NoKey
  /\ valid => NewestOf(at) = IF direction = "forward" THEN Current(iter) ELSE saved
=============================================================================
