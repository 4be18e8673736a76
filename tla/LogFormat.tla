------------------------------ MODULE LogFormat ------------------------------
(***************************************************************************)
(* The format of the log and the manifest (log_writer.cc, log_reader.cc).  *)
(*                                                                         *)
(* A file is a sequence of blocks.  A record is written in fragments, each *)
(* a header and some of the record, that do not cross the end of a block.  *)
(* What a crash leaves is the file up to some byte; an append that fails   *)
(* may leave some of its bytes, and the writer goes on as if it had left   *)
(* all of them.                                                            *)
(*                                                                         *)
(* Of a byte the model keeps which fragment it belongs to, and its place   *)
(* in it: a checksum is right if and only if the bytes are those of one    *)
(* whole fragment.  A zero is a byte of the trailer of a block.            *)
(***************************************************************************)
EXTENDS Naturals, Sequences

CONSTANTS
  BlockSize, HeaderSize,
  MaxRecords,   \* records added
  MaxSize       \* bytes of a record

VARIABLES
  file,         \* the bytes written
  blockOffset,  \* block_offset_
  fragments,    \* the fragments emitted: the record, the type, the payload's size
  ends,         \* ends[n]: the length of the file once record n was added, or Lost
  failed        \* the record whose append failed, or NoRecord

vars == <<file, blockOffset, fragments, ends, failed>>

Zero == [frag |-> 0, at |-> 0]
Lost == 0
NoRecord == 0

Init == file = <<>> /\ blockOffset = 0 /\ fragments = <<>> /\ ends = <<>> /\ failed = NoRecord

-----------------------------------------------------------------------------
(***************************************************************************)
(* The writer.                                                             *)
(***************************************************************************)
Lesser(a, b) == IF a < b THEN a ELSE b

\* Faulty variant: the trailer of a block is not filled.
TrailerSkipped(offset) == 0

\* The zeros before the next fragment: less than a header is left.
Trailer(offset) ==
  IF BlockSize - offset < HeaderSize THEN BlockSize - offset ELSE 0

\* The next fragment of a record of which something is left, at a place in a
\* block, with the trailer before it.
Piece(s) ==
  LET start == IF BlockSize - s.at < HeaderSize THEN 0 ELSE s.at
      len == Lesser(s.left, BlockSize - start - HeaderSize)
      end == len = s.left
      type == IF s.begin /\ end THEN "full" ELSE IF s.begin THEN "first"
              ELSE IF end THEN "last" ELSE "middle"
  IN  [trailer |-> Trailer(s.at), type |-> type, len |-> len, offset |-> start + HeaderSize + len]

\* The fragments of a record of some size that starts at an offset in a
\* block: at least one, and an empty one if just a header fits.
Fragmented(size, offset) ==
  LET From[s \in [left : 0..size, at : 0..BlockSize, begin : BOOLEAN]] ==
        IF Piece(s).len = s.left THEN <<Piece(s)>>
        ELSE <<Piece(s)>> \o
             From[[left |-> s.left - Piece(s).len, at |-> Piece(s).offset, begin |-> FALSE]]
  IN  From[[left |-> size, at |-> offset, begin |-> TRUE]]

\* The bytes of fragment f, which is the n-th emitted.
Bytes(f, n) ==
  [i \in 1..f.trailer |-> Zero] \o [i \in 1..(HeaderSize + f.len) |-> [frag |-> n, at |-> i]]

AllBytes(fs) ==
  LET Upto[i \in 0..Len(fs)] == IF i = 0 THEN <<>> ELSE Upto[i - 1] \o Bytes(fs[i], Len(fragments) + i)
  IN  Upto[Len(fs)]

\* EmitPhysicalRecord for some fragments of the next record.
Emitted(fs) ==
  /\ fragments' = fragments \o [i \in DOMAIN fs |->
                                  [record |-> Len(ends) + 1, type |-> fs[i].type, len |-> fs[i].len]]
  /\ blockOffset' = fs[Len(fs)].offset

AddRecord(size) ==
  LET fs == Fragmented(size, blockOffset) IN
  /\ Len(ends) < MaxRecords
  /\ file' = file \o AllBytes(fs)
  /\ Emitted(fs)
  /\ ends' = Append(ends, Len(file'))
  /\ UNCHANGED failed

\* An append fails, with fewer of the bytes in the file; the rest of the
\* record is not emitted.
AddRecordFails(size) ==
  LET fs == Fragmented(size, blockOffset) IN
  /\ Len(ends) < MaxRecords /\ failed = NoRecord
  /\ \E i \in DOMAIN fs :
       LET some == SubSeq(fs, 1, i)
           whole == Len(AllBytes(SubSeq(fs, 1, i - 1)))
       IN  \E n \in whole..(Len(AllBytes(some)) - 1) :
             /\ file' = file \o SubSeq(AllBytes(some), 1, n)
             /\ Emitted(some)
  /\ ends' = Append(ends, Lost)
  /\ failed' = Len(ends')

Next == \E size \in 0..MaxSize : AddRecord(size) \/ AddRecordFails(size)

Spec == Init /\ [][Next]_vars

-----------------------------------------------------------------------------
(***************************************************************************)
(* The reader.                                                             *)
(***************************************************************************)
Bad == 0

\* ReadPhysicalRecord, over and over: the numbers of the fragments found in
\* the first n bytes, and Bad where the rest of a block is dropped.  At the
\* end of the file nothing is reported.
Physical(n) ==
  LET BlockEnd(p) == Lesser(n, (p \div BlockSize + 1) * BlockSize)
      Whole(p, f) ==
        /\ p + HeaderSize + fragments[f].len <= BlockEnd(p)
        /\ \A i \in 1..(HeaderSize + fragments[f].len) : file[p + i] = [frag |-> f, at |-> i]
      From[p \in 0..n] ==
        IF p = n THEN <<>>
        ELSE LET f == file[p + 1].frag
                 last == BlockEnd(p) = n /\ n % BlockSize # 0    \* eof_
             IN  IF BlockEnd(p) - p >= HeaderSize /\ f # 0 /\ Whole(p, f)
                   THEN <<f>> \o From[p + HeaderSize + fragments[f].len]
                 ELSE IF last THEN <<>>
                 ELSE IF BlockEnd(p) - p < HeaderSize THEN From[BlockEnd(p)]
                 ELSE <<Bad>> \o From[BlockEnd(p)]
  IN  From[0]

Type(f) == IF f = Bad THEN "bad" ELSE fragments[f].type

\* Faulty variant: the end of the file ends a record as well.
SpansToTheEnd(phys) ==
  { s \in (DOMAIN phys) \X (DOMAIN phys) :
      \/ s[1] = s[2] /\ Type(phys[s[1]]) = "full"
      \/ /\ s[1] <= s[2] /\ Type(phys[s[1]]) = "first"
         /\ Type(phys[s[2]]) = "last" \/ s[2] = Len(phys)
         /\ \A m \in (s[1] + 1)..(s[2] - 1) : Type(phys[m]) = "middle" }

\* ReadRecord, over and over: a record is a full fragment, or a first one
\* and middle ones up to a last one.
Spans(phys) ==
  { s \in (DOMAIN phys) \X (DOMAIN phys) :
      \/ s[1] = s[2] /\ Type(phys[s[1]]) = "full"
      \/ /\ s[1] < s[2] /\ Type(phys[s[1]]) = "first" /\ Type(phys[s[2]]) = "last"
         /\ \A m \in (s[1] + 1)..(s[2] - 1) : Type(phys[m]) = "middle" }

\* What the reader returns for the first n bytes, in order.
Read(n) ==
  LET phys == Physical(n)
  IN  [i \in { s[1] : s \in Spans(phys) } |->
         { phys[m] : m \in i..(CHOOSE j \in DOMAIN phys : <<i, j>> \in Spans(phys)) }]

-----------------------------------------------------------------------------
FragmentsOf(r) == { f \in DOMAIN fragments : fragments[f].record = r }
Added(n) == { r \in DOMAIN ends : ends[r] # Lost /\ ends[r] <= n }

(***************************************************************************)
(* Wherever a crash cuts the file, the reader returns records that were    *)
(* added, whole, each once and in order, and all that were added before    *)
(* the cut: with no append failed, exactly those.  After an append failed  *)
(* the records added later may be lost, as the reader's blocks and the     *)
(* writer's are no longer the same, but none is returned that was not      *)
(* added, and none before the failure is missing.                          *)
(***************************************************************************)
RecordsRead ==
  \A n \in 0..Len(file) :
    LET read == Read(n)
        RecordAt(i) == CHOOSE r \in DOMAIN ends : read[i] = FragmentsOf(r)
    IN  /\ \A i \in DOMAIN read : \E r \in Added(n) : read[i] = FragmentsOf(r)
        /\ \A i, j \in DOMAIN read : i < j => RecordAt(i) < RecordAt(j)
        /\ \A r \in Added(n) : (failed = NoRecord \/ r < failed) => \E i \in DOMAIN read : read[i] = FragmentsOf(r)
=============================================================================
