----------------------------------- MODULE Parts -----------------------------------
(***************************************************************************)
(* The smaller parts, each alone: a behaviour is one of the part chosen at *)
(* the start, and the variables of the others stay 0.                      *)
(***************************************************************************)
EXTENDS Compaction

CONSTANTS
  MaxPicks, MaxFaults,                          \* Pictures
  Person, Record, Whose, Text, Matching, MaxQueries,      \* SearchList
  MaxHeight, MaxReads,                          \* SkipList; the keys are those of Compaction
  BlockSize, HeaderSize, MaxRecords, MaxSize,   \* LogFormat
  IterKeys, IterEntries, IterWrites, Child, Memtable,     \* DBIterator
  Table, Reader, Capacity,                      \* TableCache
  UserKey, TopByte, MaxSequence, TableEntries, Interval, BlockBytes, FilterBase   \* SortedTable

ASSUME SkipListAssumption == MaxHeight \in Nat \ {0} /\ MaxReads \in Nat
ASSUME TableCacheAssumption == IsFiniteSet(Reader) /\ Capacity \in Nat \ {0}
ASSUME LogAssumption ==
  HeaderSize \in Nat \ {0} /\ BlockSize \in Nat /\ BlockSize > HeaderSize /\ MaxSize \in Nat
ASSUME IteratorAssumption ==
  /\ IsFiniteSet(Child) /\ 0 \notin Child /\ Memtable \in Child
  /\ IterKeys \in Nat /\ IterEntries \in Nat /\ IterWrites \in Nat

VARIABLES part,
  task, stored, message, record, together, failed,
  sScreen, sRecords, sQuery, sArray, sList, sKnown, sReading, sWaiting, sCached, sAsked,
  stores, pending, search,
  fFile, fBlockOffset, fFragments, fEnds, fFailed,
  iEntries, iSequence, iWritten, iIter, iDirection, iValid, iSaved, iAt,
  cache, reader,
  bEntries, bTable, bIter, bAt

cVars == vars
pVars == <<task, stored, message, record, together, failed>>
sVars == <<sScreen, sRecords, sQuery, sArray, sList, sKnown, sReading, sWaiting, sCached, sAsked>>
kVars == <<stores, pending, search>>
fVars == <<fFile, fBlockOffset, fFragments, fEnds, fFailed>>
iVars == <<iEntries, iSequence, iWritten, iIter, iDirection, iValid, iSaved, iAt>>
tVars == <<cache, reader>>
bVars == <<bEntries, bTable, bIter, bAt>>
partsVars == <<part, cVars, pVars, sVars, kVars, fVars, iVars, tVars, bVars>>

Pics == INSTANCE Pictures
People == INSTANCE SearchList WITH
       screen <- sScreen, records <- sRecords, query <- sQuery, array <- sArray, list <- sList,
       known <- sKnown, reading <- sReading, waiting <- sWaiting, cached <- sCached, asked <- sAsked
Skip == INSTANCE SkipList WITH reader <- search
Log == INSTANCE LogFormat WITH
       file <- fFile, blockOffset <- fBlockOffset, fragments <- fFragments, ends <- fEnds,
       failed <- fFailed
Iter == INSTANCE DBIterator WITH MaxKey <- IterKeys, MaxEntries <- IterEntries, MaxWrites <- IterWrites,
       entries <- iEntries, sequence <- iSequence, written <- iWritten, iter <- iIter,
       direction <- iDirection, valid <- iValid, saved <- iSaved, at <- iAt
Tabs == INSTANCE TableCache
Blocks == INSTANCE SortedTable WITH MaxEntries <- TableEntries,
       entries <- bEntries, table <- bTable, iter <- bIter, at <- bAt

cOff == /\ history = 0 /\ mem = 0 /\ level0 = 0 /\ below = 0 /\ snapshots = 0 /\ taken = 0
        /\ compaction = 0 /\ cutInside = 0 /\ intruded = 0
pOff == /\ task = 0 /\ stored = 0 /\ message = 0 /\ record = 0 /\ together = 0 /\ failed = 0
sOff == /\ sScreen = 0 /\ sRecords = 0 /\ sQuery = 0 /\ sArray = 0 /\ sList = 0 /\ sKnown = 0
        /\ sReading = 0 /\ sWaiting = 0 /\ sCached = 0 /\ sAsked = 0
kOff == stores = 0 /\ pending = 0 /\ search = 0
fOff == fFile = 0 /\ fBlockOffset = 0 /\ fFragments = 0 /\ fEnds = 0 /\ fFailed = 0
iOff == /\ iEntries = 0 /\ iSequence = 0 /\ iWritten = 0 /\ iIter = 0 /\ iDirection = 0 /\ iValid = 0
        /\ iSaved = 0 /\ iAt = 0
tOff == cache = 0 /\ reader = 0
bOff == bEntries = 0 /\ bTable = 0 /\ bIter = 0 /\ bAt = 0

PartsInit ==
  \/ part = "compaction" /\ Init /\ pOff /\ sOff /\ kOff /\ fOff /\ iOff /\ tOff /\ bOff
  \/ part = "pictures" /\ Pics!Init /\ cOff /\ sOff /\ kOff /\ fOff /\ iOff /\ tOff /\ bOff
  \/ part = "search" /\ People!Init /\ cOff /\ pOff /\ kOff /\ fOff /\ iOff /\ tOff /\ bOff
  \/ part = "skiplist" /\ Skip!Init /\ cOff /\ pOff /\ sOff /\ fOff /\ iOff /\ tOff /\ bOff
  \/ part = "log" /\ Log!Init /\ cOff /\ pOff /\ sOff /\ kOff /\ iOff /\ tOff /\ bOff
  \/ part = "iterator" /\ Iter!Init /\ cOff /\ pOff /\ sOff /\ kOff /\ fOff /\ tOff /\ bOff
  \/ part = "tables" /\ Tabs!Init /\ cOff /\ pOff /\ sOff /\ kOff /\ fOff /\ iOff /\ bOff
  \/ part = "blocks" /\ Blocks!Init /\ cOff /\ pOff /\ sOff /\ kOff /\ fOff /\ iOff /\ tOff

PartsNext ==
  \/ part = "compaction" /\ Next /\ UNCHANGED <<part, pVars, sVars, kVars, fVars, iVars, tVars, bVars>>
  \/ part = "pictures" /\ Pics!Next /\ UNCHANGED <<part, cVars, sVars, kVars, fVars, iVars, tVars, bVars>>
  \/ part = "search" /\ People!Next /\ UNCHANGED <<part, cVars, pVars, kVars, fVars, iVars, tVars, bVars>>
  \/ part = "skiplist" /\ Skip!Next /\ UNCHANGED <<part, cVars, pVars, sVars, fVars, iVars, tVars, bVars>>
  \/ part = "log" /\ Log!Next /\ UNCHANGED <<part, cVars, pVars, sVars, kVars, iVars, tVars, bVars>>
  \/ part = "iterator" /\ Iter!Next /\ UNCHANGED <<part, cVars, pVars, sVars, kVars, fVars, tVars, bVars>>
  \/ part = "tables" /\ Tabs!Next /\ UNCHANGED <<part, cVars, pVars, sVars, kVars, fVars, iVars, bVars>>
  \/ part = "blocks" /\ Blocks!Next /\ UNCHANGED <<part, cVars, pVars, sVars, kVars, fVars, iVars, tVars>>

PartsSpec == PartsInit /\ [][PartsNext]_partsVars

-----------------------------------------------------------------------------
\* The levels of the database are free of overlaps (MaybeAddFile), unless a
\* flush came into the gap of a range compaction.
Levels == part = "compaction" => LevelsDisjoint

\* Every snapshot is read right, while no compaction has cut inside a key and
\* no flush came into the gap of a range compaction.
Snapshots == part = "compaction" => ReadsRight

\* No message has the address of an older picture than its own.
NoOlderPicture == part = "pictures" => Pics!NoOlderPicture

\* The profile has the address of a picture that exists.
ProfileAlive == part = "pictures" => Pics!ProfileAlive

\* A list of people that has come to rest is the whole result of a query.
ListSettled == part = "search" => People!Settled

\* A lock-free search passes over nothing that was there.
SearchRight == part = "skiplist" => Skip!SearchRight

\* A log that was cut anywhere is read up to there.
LogRead == part = "log" => Log!RecordsRead

\* An iterator shows its snapshot, in both directions.
Iteration == part = "iterator" => Iter!ShowsSnapshot

\* A table in use is open, and the tables that are open are bounded.
TablesOpen == part = "tables" => Tabs!HandlesOpen /\ Tabs!OpenBounded

\* A search of a table finds what the table has, and an iterator leaves
\* nothing out, unless it says so.
TableRead == part = "blocks" => Blocks!GetFinds /\ Blocks!RowsComplete
=============================================================================
