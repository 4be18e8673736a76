------------------------------ MODULE TableCache ------------------------------
(***************************************************************************)
(* The cache of open tables (db/table_cache.cc over the LRUCache of        *)
(* util/cache.cc): readers share tables, open those the cache does not     *)
(* have, and let go of them.                                               *)
(*                                                                         *)
(* A look into the cache is atomic, but a table is opened without a lock:  *)
(* two readers may open the same, and the one that comes second replaces   *)
(* the entry the first is using.  One shard is modelled; the hash table is *)
(* a function, the list of entries in use is what is in neither list.      *)
(***************************************************************************)
EXTENDS Naturals, Sequences, FiniteSets, SequencesExt

CONSTANTS
  Table, Reader,
  Capacity      \* of the shard; not 0, which turns the cache off

Larger(a, b) == IF a > b THEN a ELSE b
Bound == Larger(Capacity, Cardinality(Reader)) + Cardinality(Reader)
Slot == 1..(Bound + 1)      \* places for entries; one is free until Bound is broken
None == 0

VARIABLES
  cache,        \* what the mutex protects: entry[s], the entries, with refs 0 when
                \* deleted; table[t], the hash table; lru, oldest first
  reader        \* reader[r]: the table it wants, and the handle it has

vars == <<cache, reader>>

Init ==
  /\ cache = [ entry |-> [s \in Slot |-> [table |-> None, refs |-> 0, inCache |-> FALSE]],
               table |-> [t \in Table |-> None], lru |-> <<>> ]
  /\ reader = [r \in Reader |-> [step |-> "idle", table |-> None, handle |-> None]]

-----------------------------------------------------------------------------
(***************************************************************************)
(* LRUCache.                                                               *)
(***************************************************************************)
Open(c) == { s \in Slot : c.entry[s].refs > 0 }
Usage(c) == Cardinality({ s \in Slot : c.entry[s].inCache })

\* Faulty variant: a handle is given out that is not counted.
RefForgotten(c, s) == [c EXCEPT !.lru = RemoveFirst(@, s)]

Ref(c, s) == [c EXCEPT !.entry[s].refs = @ + 1, !.lru = RemoveFirst(@, s)]

\* The last reference deletes the entry; if the last but the cache's own goes
\* the entry is the newest of those not in use.
Unref(c, s) ==
  LET e == c.entry[s]
  IN  [c EXCEPT !.entry[s].refs = @ - 1,
                !.lru = IF e.inCache /\ e.refs = 2 THEN Append(@, s) ELSE @]

\* An entry that is no longer in the hash table loses the cache's reference.
FinishErase(c, s) ==
  Unref([c EXCEPT !.entry[s].inCache = FALSE, !.lru = RemoveFirst(@, s)], s)

Erase(c, t) ==
  LET s == c.table[t]
  IN  IF s = None THEN c ELSE FinishErase([c EXCEPT !.table[t] = None], s)

\* The oldest entries not in use go until the rest fits, or all are in use:
\* FinishErase of what the hash table has for their keys.
Shrunk(c) ==
  LET over == IF Usage(c) > Capacity THEN Usage(c) - Capacity ELSE 0
      count == IF over < Len(c.lru) THEN over ELSE Len(c.lru)
      gone == { c.table[c.entry[c.lru[i]].table] : i \in 1..count }
  IN  [c EXCEPT !.entry = [s \in Slot |-> IF s \in gone
                             THEN [table |-> c.entry[s].table, refs |-> c.entry[s].refs - 1, inCache |-> FALSE]
                             ELSE c.entry[s]],
                !.table = [t \in Table |-> IF c.table[t] \in gone THEN None ELSE c.table[t]],
                !.lru = SubSeq(c.lru, count + 1, Len(c.lru))]

\* A new entry, with a reference for the cache and one for the caller, in the
\* place of the one the hash table has for the table.
Insert(c, t, s) ==
  Shrunk([Erase(c, t) EXCEPT
            !.entry[s] = [table |-> t, refs |-> 2, inCache |-> TRUE],
            !.table[t] = s])

-----------------------------------------------------------------------------
(***************************************************************************)
(* TableCache.                                                             *)
(***************************************************************************)
\* FindTable: Lookup; if the table is not there the file is opened.
FindTable(r, t) ==
  /\ reader[r].step = "idle"
  /\ LET s == cache.table[t] IN
     IF s # None
       THEN /\ cache' = Ref(cache, s)
            /\ reader' = [reader EXCEPT ![r] = [step |-> "using", table |-> t, handle |-> s]]
       ELSE /\ reader' = [reader EXCEPT ![r] = [step |-> "opening", table |-> t, handle |-> None]]
            /\ UNCHANGED cache

\* The table is open: Insert, whatever was inserted meanwhile.
Opened(r) ==
  /\ reader[r].step = "opening"
  /\ LET s == CHOOSE s \in Slot : s \notin Open(cache)
     IN  /\ cache' = Insert(cache, reader[r].table, s)
         /\ reader' = [reader EXCEPT ![r] = [step |-> "using", table |-> reader[r].table, handle |-> s]]

\* It cannot be opened, which the cache does not remember.
OpenFails(r) ==
  /\ reader[r].step = "opening"
  /\ reader' = [reader EXCEPT ![r] = [step |-> "idle", table |-> None, handle |-> None]]
  /\ UNCHANGED cache

\* Release, at the end of Get or when the iterator is deleted.
Release(r) ==
  /\ reader[r].step = "using"
  /\ cache' = Unref(cache, reader[r].handle)
  /\ reader' = [reader EXCEPT ![r] = [step |-> "idle", table |-> None, handle |-> None]]

\* Evict, when a file is deleted that no version has any more.
Evict(t) ==
  /\ \A r \in Reader : reader[r].table # t
  /\ cache.table[t] # None
  /\ cache' = Erase(cache, t)
  /\ UNCHANGED reader

Next ==
  \/ \E r \in Reader : (\E t \in Table : FindTable(r, t)) \/ Opened(r) \/ OpenFails(r) \/ Release(r)
  \/ \E t \in Table : Evict(t)

Spec == Init /\ [][Next]_vars

-----------------------------------------------------------------------------
(***************************************************************************)
(* A reader's handle is the table it asked for, and is not closed while    *)
(* the reader has it, although others replace it, evict it, or fill the    *)
(* cache; and when nobody uses a table, nothing but the cache keeps it     *)
(* open.                                                                   *)
(***************************************************************************)
HandlesOpen ==
  /\ \A r \in Reader : reader[r].step = "using" =>
       reader[r].handle \in Open(cache) /\ cache.entry[reader[r].handle].table = reader[r].table
  /\ \A s \in Open(cache) :
       (\A r \in Reader : reader[r].handle # s) => cache.table[cache.entry[s].table] = s

(***************************************************************************)
(* The tables that are open, or being opened, are no more than the         *)
(* capacity, or than there are readers if these are more, and one for each *)
(* reader: entries that were replaced while in use do not pile up.         *)
(***************************************************************************)
OpenBounded ==
  Cardinality(Open(cache)) + Cardinality({ r \in Reader : reader[r].step = "opening" }) <= Bound
=============================================================================
