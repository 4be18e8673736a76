---------------------------- MODULE MergingIterator ----------------------------
(***************************************************************************)
(* The iterator over every entry of the database (table/merger.cc): it     *)
(* merges the memtables and the tables, its children, each in order.       *)
(* Children move only when the iterator needs them to: after a change of   *)
(* direction all are positioned again.  The memtable may get new entries   *)
(* meanwhile.                                                              *)
(***************************************************************************)
EXTENDS Integers, FiniteSets

CONSTANTS
  Child,        \* the memtable and the other children
  Memtable

VARIABLE
  entries       \* all entries: the key, sequence number, type and child

None == [key |-> 0]     \* a child, or the iterator, is at no entry

\* The order of entries: by key, the newest of a key first.
Before(d, e) == d.key < e.key \/ (d.key = e.key /\ d.seq > e.seq)

FirstOf(S) == IF S = {} THEN None ELSE CHOOSE e \in S : \A d \in S \ {e} : Before(e, d)
LastOf(S) == IF S = {} THEN None ELSE CHOOSE e \in S : \A d \in S \ {e} : Before(d, e)

\* The iterator: where its children are, the current one, its direction.
Current(m) == IF m.current = 0 THEN None ELSE m.at[m.current]

In(c) == { e \in entries : e.child = c }
ChildSeek(c, e) == FirstOf({ d \in In(c) : ~Before(d, e) })
ChildNext(c, e) == FirstOf({ d \in In(c) : Before(e, d) })
ChildPrev(c, e) == LastOf({ d \in In(c) : Before(d, e) })

\* FindSmallest, FindLargest.
Smallest(at) ==
  LET here == { at[c] : c \in Child } \ {None}
  IN  [at |-> at, forward |-> TRUE, current |-> IF here = {} THEN 0 ELSE FirstOf(here).child]

Largest(at) ==
  LET here == { at[c] : c \in Child } \ {None}
  IN  [at |-> at, forward |-> FALSE, current |-> IF here = {} THEN 0 ELSE LastOf(here).child]

Unpositioned == [at |-> [c \in Child |-> None], forward |-> TRUE, current |-> 0]

MergeSeekToFirst == Smallest([c \in Child |-> FirstOf(In(c))])
MergeSeekToLast == Largest([c \in Child |-> LastOf(In(c))])
MergeSeek(e) == Smallest([c \in Child |-> ChildSeek(c, e)])

\* Faulty variant: after a step back the children go on from where they are.
NextWithoutSeek(m) ==
  Smallest([m.at EXCEPT ![m.current] = ChildNext(m.current, Current(m))])

MergeNext(m) ==
  LET After(c) == IF m.forward THEN m.at[c]
                  ELSE LET e == ChildSeek(c, Current(m))
                       IN  IF e = Current(m) THEN ChildNext(c, e) ELSE e
  IN  Smallest([c \in Child |-> IF c = m.current THEN ChildNext(c, Current(m)) ELSE After(c)])

MergePrev(m) ==
  LET Ahead(c) == IF ~m.forward THEN m.at[c]
                  ELSE LET e == ChildSeek(c, Current(m))
                       IN  IF e = None THEN LastOf(In(c)) ELSE ChildPrev(c, e)
  IN  Largest([c \in Child |-> IF c = m.current THEN ChildPrev(c, Current(m)) ELSE Ahead(c)])
=============================================================================
