------------------------------- MODULE SkipList -------------------------------
(***************************************************************************)
(* The memtable's skip list (db/skiplist.h): one inserter at a time, which *)
(* holds the mutex or the role of the front writer, and readers without    *)
(* any lock, of which one is enough as they do not change anything.        *)
(*                                                                         *)
(* Memory is the sequence of stores of the inserter.  A reader sees        *)
(* everything up to some store; of what comes later it may see or not see  *)
(* any store, but an acquire load that sees a release store sees           *)
(* everything before it as well.  A load without a barrier (max_height_)   *)
(* tells nothing of other stores.                                          *)
(***************************************************************************)
EXTENDS Integers, Sequences, FiniteSets, FiniteSetsExt

CONSTANTS
  MaxKey,       \* the keys are 1..MaxKey
  MaxHeight,    \* kMaxHeight
  MaxReads      \* searches of the reader

HeadNode == 0              \* head_
Null == MaxKey + 1      \* NULL, which sorts after all keys
Key == 1..MaxKey
MaxHeightPlace == <<HeadNode, MaxHeight>>     \* the place of max_height_

VARIABLES
  stores,       \* the stores so far: the place, which is a pointer <<node, level>>
                \* or max_height_, and the value
  pending,      \* the stores Insert has yet to make
  reader        \* the search under way, or the result of the last

vars == <<stores, pending, reader>>

\* The value of a place after the first v stores.
Value(place, v) ==
  LET at == { i \in 1..v : stores[i].place = place }
  IN  IF at = {} THEN (IF place = MaxHeightPlace THEN 1 ELSE Null) ELSE stores[Max(at)].value

Now(place) == Value(place, Len(stores))

\* What a load of a place may give a reader that sees the first v stores:
\* what it sees there, or any later store; and how much it sees then.
Loads(place, v) ==
  { [value |-> Value(place, v), view |-> v] } \cup
  { [value |-> stores[i].value, view |-> i] :
      i \in { j \in (v + 1)..Len(stores) : stores[j].place = place } }

\* The keys that are linked on the lowest level after the first v stores.
Linked(v) == { stores[i].value : i \in { j \in 1..v : stores[j].place[2] = 0 } } \cap Key

Init ==
  /\ stores = <<>> /\ pending = <<>>
  /\ reader = [step |-> "idle", left |-> MaxReads, view |-> 0]

-----------------------------------------------------------------------------
(***************************************************************************)
(* Insert.                                                                 *)
(***************************************************************************)
\* prev[level] of FindGreaterOrEqual, which the inserter runs undisturbed.
Prev(k, level) ==
  LET Reached[n \in 0..MaxKey] ==
        LET next == Now(<<n, level>>) IN IF next < k THEN Reached[next] ELSE n
  IN  Reached[HeadNode]

\* Faulty variant: the new node is linked before it has its own link.
LinksPublishedFirst(k, level) ==
  << [place |-> <<Prev(k, level), level>>, value |-> k],
     [place |-> <<k, level>>, value |-> Now(<<Prev(k, level), level>>)] >>

\* The node gets its link of a level, and is linked there.
Links(k, level) ==
  << [place |-> <<k, level>>, value |-> Now(<<Prev(k, level), level>>)],
     [place |-> <<Prev(k, level), level>>, value |-> k] >>

\* The levels from the lowest up.
LinksUpTo(k, height) ==
  LET Up[l \in 0..height] == IF l = 0 THEN <<>> ELSE Up[l - 1] \o Links(k, l - 1) IN Up[height]

\* A key that is not in the list is inserted with some height.
Insert(k, height) ==
  /\ pending = <<>> /\ k \notin Linked(Len(stores))
  /\ pending' = (IF height > Now(MaxHeightPlace) THEN << [place |-> MaxHeightPlace, value |-> height] >> ELSE <<>>)
                  \o LinksUpTo(k, height)
  /\ UNCHANGED <<stores, reader>>

Store ==
  /\ pending # <<>>
  /\ stores' = Append(stores, Head(pending))
  /\ pending' = Tail(pending)
  /\ UNCHANGED reader

-----------------------------------------------------------------------------
(***************************************************************************)
(* Searches.  They differ in what they go past and what they return:       *)
(* "geq", Seek and Get: the first node at or after the key;                *)
(* "less", Prev: the last node before it; the last of all if it is Null.   *)
(***************************************************************************)
\* A search begins.  The reader has synchronized with the inserter some time
\* before.  It may read an old height, or the new one while the links are made.
Begin(kind, k) ==
  /\ reader.step # "search" /\ reader.left > 0
  /\ \E v \in reader.view..Len(stores) : \E h \in Loads(MaxHeightPlace, v) :
       reader' = [step |-> "search", left |-> reader.left - 1, kind |-> kind, key |-> k,
                  began |-> v, view |-> v, node |-> HeadNode, level |-> h.value - 1]
  /\ UNCHANGED <<stores, pending>>

\* Iterator::Next: one load of the lowest link of the node it is at.
IteratorNext ==
  /\ reader.step = "done" /\ reader.left > 0 /\ reader.node \in Key
  /\ reader' = [reader EXCEPT !.step = "search", !.left = @ - 1, !.kind = "geq",
                  !.key = reader.node + 1, !.began = reader.view, !.level = 0]
  /\ UNCHANGED <<stores, pending>>

\* One turn of the loop: go on to the next node, go down a level, or return.
Search ==
  /\ reader.step = "search"
  /\ \E next \in Loads(<<reader.node, reader.level>>, reader.view) :
       reader' = IF next.value < reader.key
                   THEN [reader EXCEPT !.node = next.value, !.view = next.view]
                 ELSE IF reader.level > 0
                   THEN [reader EXCEPT !.level = @ - 1, !.view = next.view]
                 ELSE [reader EXCEPT !.step = "done", !.view = next.view,
                         !.node = IF reader.kind = "geq" THEN next.value ELSE @]
  /\ UNCHANGED <<stores, pending>>

Next ==
  \/ \E k \in Key, height \in 1..MaxHeight : Insert(k, height)
  \/ Store
  \/ \E k \in Key : Begin("geq", k)
  \/ \E k \in Key \cup {Null} : Begin("less", k)
  \/ IteratorNext
  \/ Search

Spec == Init /\ [][Next]_vars

-----------------------------------------------------------------------------
(***************************************************************************)
(* A search returns a key on the right side of what it was asked for, and  *)
(* passes over no key that was in the list when it began, whatever is      *)
(* inserted at the same time.  What it returns is really in the list.      *)
(***************************************************************************)
SearchRight ==
  reader.step = "done" =>
    /\ reader.node \in Linked(Len(stores)) \cup {HeadNode, Null}
    /\ IF reader.kind = "geq"
         THEN reader.node >= reader.key
              /\ \A k \in Linked(reader.began) : k >= reader.key => reader.node <= k
         ELSE reader.node < reader.key
              /\ \A k \in Linked(reader.began) : k < reader.key => k <= reader.node
=============================================================================
