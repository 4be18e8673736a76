----------------------------- MODULE SortedTable -----------------------------
(***************************************************************************)
(* The files of LevelDB that hold its sorted entries (table/): a builder   *)
(* writes blocks of prefix-compressed keys, an index with one shortened    *)
(* key for each block, and filters; readers search the index, then one     *)
(* block, or go through all of them in either direction.                   *)
(*                                                                         *)
(* A key is a string of bytes, of which the last stands for the sequence   *)
(* number and the type.  The place of an entry in its block stands for its *)
(* offset, and the number of a block for its handle.  Checksums, the       *)
(* encoding of numbers and the compression of whole blocks are left out.   *)
(***************************************************************************)
EXTENDS Naturals, Sequences, FiniteSets, SequencesExt, FiniteSetsExt

CONSTANTS
  UserKey,      \* strings of bytes
  TopByte,      \* 0xff
  MaxSequence,  \* kMaxSequenceNumber; entries have smaller numbers
  MaxEntries,
  Interval,     \* block_restart_interval
  BlockBytes,   \* how long a block of the file may be
  FilterBase    \* kFilterBase

VARIABLES
  entries,      \* the keys the builder was given, in order
  table,        \* TableBuilder::Rep, and then the file
  iter,         \* an iterator over the finished table
  at            \* the entry it should be at, or 0

vars == <<entries, table, iter, at>>

(***************************************************************************)
(* Keys.                                                                   *)
(***************************************************************************)
InternalKey == { Append(u, s) : u \in UserKey, s \in 1..(MaxSequence - 1) }

Smaller(m, n) == IF m < n THEN m ELSE n

\* How many bytes two strings have in common at the front.
Shared(a, b) == Max({ n \in 0..Smaller(Len(a), Len(b)) : SubSeq(a, 1, n) = SubSeq(b, 1, n) })

BytesLess(a, b) ==
  LET n == Shared(a, b) IN n < Len(b) /\ (n < Len(a) => a[n + 1] < b[n + 1])

\* InternalKeyComparator: by user key, the newest first.
Less(a, b) ==
  \/ BytesLess(Front(a), Front(b))
  \/ Front(a) = Front(b) /\ Last(a) > Last(b)

\* A user key cut after byte n, which is incremented.
Bumped(a, n) == [SubSeq(a, 1, n) EXCEPT ![n] = @ + 1]

\* BytewiseComparatorImpl::FindShortestSeparator
UserSeparator(a, limit) ==
  LET n == Shared(a, limit) + 1
  IN  IF n <= Smaller(Len(a), Len(limit)) /\ a[n] < TopByte /\ a[n] + 1 < limit[n]
        THEN Bumped(a, n) ELSE a

\* BytewiseComparatorImpl::FindShortSuccessor
UserSuccessor(a) ==
  LET low == { n \in DOMAIN a : a[n] # TopByte }
  IN  IF low = {} THEN a ELSE Bumped(a, Min(low))

\* A key whose user part became shorter but larger gets the largest number.
Shortened(key, u) ==
  IF Len(u) < Len(Front(key)) /\ BytesLess(Front(key), u) THEN Append(u, MaxSequence) ELSE key

\* InternalKeyComparator::FindShortestSeparator and FindShortSuccessor
Separator(key, limit) == Shortened(key, UserSeparator(Front(key), Front(limit)))
Successor(key) == Shortened(key, UserSuccessor(Front(key)))

(***************************************************************************)
(* Blocks.  A block iterator has the place of its entry, or 0, the last    *)
(* restart point it knows of, and the key put together so far.             *)
(***************************************************************************)
NewBlock == [entries |-> <<>>, restarts |-> <<1>>, counter |-> 0, last |-> <<>>]

\* BlockBuilder::Add
BlockAdd(b, interval, key, value) ==
  LET again == b.counter = interval
      n == IF again THEN 0 ELSE Shared(b.last, key)
  IN  [ entries |-> Append(b.entries,
                      [shared |-> n, delta |-> SubSeq(key, n + 1, Len(key)), value |-> value]),
        restarts |-> IF again THEN Append(b.restarts, Len(b.entries) + 1) ELSE b.restarts,
        counter |-> IF again THEN 1 ELSE b.counter + 1,
        last |-> key ]

Invalid == [at |-> 0, restart |-> 0, key |-> <<>>]

\* ParseNextKey, at place p.  The restart point lags behind by one at a
\* restart point that is reached from the left.
ParseNextKey(b, it, p) ==
  LET e == b.entries[p] IN
  [ at |-> p,
    restart |-> Max({it.restart} \cup { r \in DOMAIN b.restarts : b.restarts[r] < p }),
    key |-> SubSeq(it.key, 1, e.shared) \o e.delta ]

\* From restart point r on up to place p.
ParseTo(b, r, p) ==
  FoldLeft(LAMBDA it, q : ParseNextKey(b, it, q), [Invalid EXCEPT !.restart = r],
           [i \in 1..(p + 1 - b.restarts[r]) |-> b.restarts[r] + i - 1])

BlockFirst(b) == ParseTo(b, 1, 1)
BlockLast(b) == ParseTo(b, Len(b.restarts), Len(b.entries))
BlockNext(b, it) == IF it.at = Len(b.entries) THEN Invalid ELSE ParseNextKey(b, it, it.at + 1)

BlockPrev(b, it) ==
  LET before == { r \in 1..it.restart : b.restarts[r] < it.at }
  IN  IF before = {} THEN Invalid ELSE ParseTo(b, Max(before), it.at - 1)

\* The restart point from which to look for a key, by binary search.
RestartFor(b, target) ==
  LET n == Len(b.restarts)
      search[lr \in (1..n) \X (1..n)] ==
        LET left == lr[1]
            right == lr[2]
            mid == (left + right + 1) \div 2
        IN  IF left >= right THEN left
            ELSE IF Less(b.entries[b.restarts[mid]].delta, target) THEN search[<<mid, right>>]
            ELSE search[<<left, mid - 1>>]
  IN  search[<<1, n>>]

BlockSeek(b, target) ==
  LET r == RestartFor(b, target)
      found == { p \in b.restarts[r]..Len(b.entries) : ~Less(ParseTo(b, r, p).key, target) }
  IN  IF found = {} THEN Invalid ELSE ParseTo(b, r, Min(found))

(***************************************************************************)
(* The builder.                                                            *)
(***************************************************************************)
\* FilterBlockBuilder::StartBlock: filters for all of the file before the
\* block; the first of them gets the keys.
StartBlock(filters, keys, offset) ==
  [i \in 1..Max({Len(filters), offset \div FilterBase}) |->
     IF i <= Len(filters) THEN filters[i] ELSE IF i = Len(filters) + 1 THEN keys ELSE {}]

\* Flush: a block of some length is written.
Flushed(t, size) ==
  LET filters == StartBlock(t.filters, t.keys, t.offset + size) IN
  [t EXCEPT !.blocks = Append(@, [data |-> t.data, offset |-> t.offset]),
            !.data = NewBlock,
            !.pending = TRUE,
            !.offset = @ + size,
            !.filters = filters,
            !.keys = IF Len(filters) > Len(t.filters) THEN {} ELSE @]

\* The index entry of the block written last.
Indexed(t, key) ==
  IF t.pending THEN [t EXCEPT !.index = BlockAdd(@, 1, key, Len(t.blocks)), !.pending = FALSE]
               ELSE t

NoIterator == [index |-> Invalid, block |-> 0, data |-> Invalid, failed |-> FALSE, error |-> FALSE]

Init ==
  /\ entries = <<>>
  /\ table = [data |-> NewBlock, blocks |-> <<>>, index |-> NewBlock, pending |-> FALSE,
              offset |-> 0, filters |-> <<>>, keys |-> {}, finished |-> FALSE]
  /\ iter = NoIterator /\ at = 0

\* TableBuilder::Add; the block may be long enough then.
Add(key) ==
  /\ ~table.finished /\ Len(entries) < MaxEntries
  /\ entries # <<>> => Less(Last(entries), key)
  /\ entries' = Append(entries, key)
  /\ LET indexed == IF table.pending THEN Indexed(table, Separator(Last(entries), key)) ELSE table
         added == [indexed EXCEPT !.keys = @ \cup {Front(key)},
                                  !.data = BlockAdd(@, Interval, key, Len(entries'))]
     IN  table' \in {added} \cup { Flushed(added, size) : size \in BlockBytes }
  /\ UNCHANGED <<iter, at>>

\* TableBuilder::Finish, of a table that has entries.
Finish ==
  /\ ~table.finished /\ entries # <<>>
  /\ \E size \in BlockBytes :
       LET t == IF table.data.entries = <<>> THEN table ELSE Flushed(table, size)
           filters == IF t.keys = {} THEN t.filters ELSE Append(t.filters, t.keys)
       IN  table' = [Indexed(t, Successor(Last(entries))) EXCEPT
                       !.filters = filters, !.keys = {}, !.finished = TRUE]
  /\ UNCHANGED <<entries, iter, at>>

(***************************************************************************)
(* TwoLevelIterator: a block iterator over the index, and one over the     *)
(* block the index entry names, if that could be read.                     *)
(***************************************************************************)
Data(it) == table.blocks[it.block].data
Valid(it) == it.data.at # 0
\* status()
Failed(it) == it.error \/ it.failed

\* Faulty variant: the error of a block that could not be read is dropped.
SetDataForgets(it, block, failed) ==
  [it EXCEPT !.block = block, !.data = Invalid, !.failed = failed]

\* SetDataIterator
SetData(it, block, failed) ==
  [it EXCEPT !.block = block, !.data = Invalid, !.failed = failed, !.error = @ \/ it.failed]

\* InitDataBlock, when the blocks in bad cannot be read.
InitData(it, bad) ==
  IF it.index.at = 0 THEN SetData(it, 0, FALSE)
  ELSE LET b == table.index.entries[it.index.at].value
       IN  IF b = it.block THEN it ELSE SetData(it, b, b \in bad)

InBlock(it, F(_)) ==
  IF it.block = 0 \/ it.failed THEN it ELSE [it EXCEPT !.data = F(Data(it))]

\* SkipEmptyDataBlocksForward and SkipEmptyDataBlocksBackward
Skipped(it, Move(_), Start(_), bad) ==
  FoldLeft(LAMBDA i, n :
             IF Valid(i) THEN i
             ELSE IF i.index.at = 0 THEN SetData(i, 0, FALSE)
             ELSE InBlock(InitData([i EXCEPT !.index = Move(@)], bad), Start),
           it, [n \in 1..(Len(table.blocks) + 1) |-> n])

IndexNext(i) == BlockNext(table.index, i)
IndexPrev(i) == BlockPrev(table.index, i)
Forward(it, bad) == Skipped(it, IndexNext, BlockFirst, bad)
Backward(it, bad) == Skipped(it, IndexPrev, BlockLast, bad)

\* The iterator moves to it, and should be at place p, if it had no error.
Moved(it, p) ==
  /\ iter' = it
  /\ at' = IF Failed(it) THEN 0 ELSE p
  /\ UNCHANGED <<entries, table>>

\* The entry a search for a key should find.
PlaceOf(target) == Min({ p \in DOMAIN entries : ~Less(entries[p], target) } \cup {Len(entries) + 1})
Place(p) == IF p \in DOMAIN entries THEN p ELSE 0

SeekToFirst(bad) ==
  Moved(Forward(InBlock(InitData([iter EXCEPT !.index = BlockFirst(table.index)], bad),
                        BlockFirst), bad), 1)

SeekToLast(bad) ==
  Moved(Backward(InBlock(InitData([iter EXCEPT !.index = BlockLast(table.index)], bad),
                         BlockLast), bad), Len(entries))

Seek(target, bad) ==
  LET found(b) == BlockSeek(b, target) IN
  Moved(Forward(InBlock(InitData([iter EXCEPT !.index = BlockSeek(table.index, target)], bad),
                        found), bad), Place(PlaceOf(target)))

MoveNext(bad) ==
  LET next(b) == BlockNext(b, iter.data) IN
  Valid(iter) /\ Moved(Forward(InBlock(iter, next), bad), Place(at + 1))

MovePrev(bad) ==
  LET prev(b) == BlockPrev(b, iter.data) IN
  Valid(iter) /\ Moved(Backward(InBlock(iter, prev), bad), Place(at - 1))

Iterate ==
  /\ table.finished
  /\ \E bad \in {{}} \cup { {b} : b \in DOMAIN table.blocks } :
       \/ SeekToFirst(bad) \/ SeekToLast(bad) \/ MoveNext(bad) \/ MovePrev(bad)
       \/ \E target \in InternalKey : Seek(target, bad)

Next == (\E key \in InternalKey : Add(key)) \/ Finish \/ Iterate

Spec == Init /\ [][Next]_vars

-----------------------------------------------------------------------------
\* FilterBlockReader::KeyMayMatch; a filter that matches no other keys.
KeyMayMatch(offset, key) ==
  LET i == offset \div FilterBase + 1
  IN  i \in DOMAIN table.filters => Front(key) \in table.filters[i]

\* Table::InternalGet: what it passes to the saver, or 0.
InternalGet(target) ==
  LET i == BlockSeek(table.index, target)
      b == table.blocks[table.index.entries[i.at].value]
      found == BlockSeek(b.data, target)
  IN  IF i.at = 0 \/ ~KeyMayMatch(b.offset, target) \/ found.at = 0 THEN 0
      ELSE b.data.entries[found.at].value

(***************************************************************************)
(* A search finds the newest entry of a user key that is old enough, if    *)
(* there is one, although the keys of the index are not those of entries,  *)
(* and filters follow offsets in the file and not blocks.                  *)
(***************************************************************************)
GetFinds ==
  table.finished /\ iter = NoIterator =>
    \A target \in InternalKey :
      LET p == Place(PlaceOf(target)) IN
      p # 0 /\ Front(entries[p]) = Front(target) => InternalGet(target) = p

(***************************************************************************)
(* The iterator is at the entry where its moves lead, with the key put     *)
(* together right from what restart point ever, or it reports an error: a  *)
(* block that cannot be read is skipped, but never silently.               *)
(***************************************************************************)
RowsComplete ==
  table.finished /\ ~Failed(iter) =>
    /\ Valid(iter) <=> at # 0
    /\ at # 0 => iter.data.key = entries[at] /\ Data(iter).entries[iter.data.at].value = at
==============================================================================
