------------------------------- MODULE LevelDB -------------------------------
(***************************************************************************)
(* DBImpl of the vendored LevelDB: concurrent writers in a queue, the log, *)
(* the two memtables, the background thread that turns them into tables    *)
(* and merges tables, the manifest, crashes, and recovery.                 *)
(*                                                                         *)
(* A step is what a thread does between two points where it releases the   *)
(* mutex, or one call to the file system made without it.  Keys and values *)
(* are left out: a record of the log is a group of writes under a sequence *)
(* number, and a table is the set of records it was built from.  Which     *)
(* entries of a table may be dropped, and on which level it belongs, is    *)
(* the subject of module Compaction.                                       *)
(***************************************************************************)
EXTENDS Integers, Sequences, FiniteSets, FiniteSetsExt, Functions

CONSTANTS
  MaxWrites,    \* calls of Write
  MaxTroubles,  \* crashes, of an open database or of one being opened, and
                \* calls to the file system that fail
  MaxOutputs,   \* tables a compaction may write
  L0Trigger,    \* kL0_CompactionTrigger
  L0Stop        \* kL0_StopWritesTrigger

ASSUME BoundsAssumption ==
  /\ {MaxWrites, MaxTroubles} \subseteq Nat /\ MaxOutputs \in Nat \ {0}
  /\ L0Trigger \in 1..L0Stop

Call == 1..MaxWrites
\* A call of Write: with sync, without, or with no batch at all.
Kind == {"sync", "plain", "force"}

VARIABLES
  kind,         \* kind[n]: what call n asked for, in the order of the calls
  answer,       \* answer[n]: "none" yet, "ok" or "error"; "dead" after a crash
  writers,      \* writers_: calls that wait for their turn, or have it
  awake,        \* the first of them was signalled, or found nobody before it
  stage,        \* where it is: before and in MakeRoomForWrite, then with the
                \* mutex released
  force,        \* it still has to make MakeRoomForWrite switch memtables
  group,        \* how many of the writers it answers
  mem,          \* mem_: a set of records
  imm,          \* imm_: a set of records, or {} when there is none
  hasImm,       \* has_imm_
  lastSequence, \* versions_->LastSequence()
  logfile,      \* logfile_number_
  logNumber,    \* versions_->LogNumber()
  nextFile,     \* versions_->next_file_number_
  current,      \* versions_->current(): tables on level 0, and below it
  held,         \* the version of an open iterator
  pending,      \* pending_outputs_
  bg,           \* where the background thread is
  merge,        \* the compaction under way, if any
  edit,         \* the edit that LogAndApply is writing, or Open collects
  bgError,      \* bg_error_ is set
  mode,         \* "up", or how far DB::Open has come after a crash
  logs,         \* disk: logs[n] has its records, and how many are synced
  files,        \* disk: files[n] is the content of table n
  manifest,     \* disk: what the manifest that CURRENT names adds up to
  power,        \* flips when the machine crashes
  troubles      \* how many crashes and failed calls there were

calls   == <<kind, answer>>
queue   == <<writers, awake, stage, force, group>>
tables  == <<mem, imm, hasImm>>
sets    == <<logfile, logNumber, nextFile, current>>
thread  == <<bg, merge, edit, pending>>
disk    == <<logs, files, manifest>>
fate    == <<power, troubles>>
vars    == <<calls, queue, tables, lastSequence, sets, held, thread, bgError,
             mode, disk, fate>>

NoMerge == [l0 |-> {}, l1 |-> {}, out |-> {}]
NoEdit == [add0 |-> {}, add1 |-> {}, del |-> {}, log |-> 0, last |-> 0, next |-> 0]
Numbers(v) == v.l0 \cup v.l1
EmptyLog == [recs |-> <<>>, synced |-> 0]

\* A directory in which new files were written, some perhaps over old ones.
Over(new, old) ==
  [n \in DOMAIN new \cup DOMAIN old |-> IF n \in DOMAIN new THEN new[n] ELSE old[n]]

\* The database was created and opened: log 1, and no tables.
Init ==
  /\ kind = <<>> /\ answer = <<>>
  /\ writers = <<>> /\ awake = FALSE /\ stage = "queued" /\ force = FALSE /\ group = 0
  /\ mem = {} /\ imm = {} /\ hasImm = FALSE
  /\ lastSequence = 0
  /\ logfile = 1 /\ logNumber = 1 /\ nextFile = 2
  /\ current = [l0 |-> {}, l1 |-> {}]
  /\ held = {} /\ pending = {}
  /\ bg = "idle" /\ merge = NoMerge /\ edit = NoEdit
  /\ bgError = FALSE /\ mode = "up"
  /\ logs = [n \in {1} |-> EmptyLog]
  /\ files = <<>>
  /\ manifest = [l0 |-> {}, l1 |-> {}, log |-> 1, last |-> 0, next |-> 2]
  /\ power = TRUE /\ troubles = 0

-----------------------------------------------------------------------------
\* What the front of the queue is.
First == Head(writers)

NeedsCompaction == Cardinality(current.l0) >= L0Trigger

\* MaybeScheduleCompaction, given what it looks at.
Scheduled(b, err, hasimm, v) ==
  IF b # "idle" \/ err \/ ~(hasimm \/ Cardinality(v.l0) >= L0Trigger)
    THEN b ELSE "scheduled"

\* Faulty variant: the thread does not look for more work.
NotRescheduled(err, hasimm, v) == "idle"

\* The background thread is done: bg_compaction_scheduled_ is cleared, and
\* set again if there is more to do.  It wakes whoever waits in
\* MakeRoomForWrite.
Rescheduled(err, hasimm, v) == Scheduled("idle", err, hasimm, v)

\* A writer that waits in MakeRoomForWrite is woken.
Woken(s) == IF s = "wait" THEN "room" ELSE s

(***************************************************************************)
(* Writers.                                                                *)
(***************************************************************************)
\* DBImpl::Write up to the first wait: a call joins the queue.
Write(k) ==
  /\ mode = "up" /\ Len(kind) < MaxWrites
  /\ kind' = Append(kind, k)
  /\ answer' = Append(answer, "none")
  /\ writers' = Append(writers, Len(kind) + 1)
  /\ awake' = (awake \/ writers = <<>>)
  /\ UNCHANGED <<stage, force, group, tables, lastSequence, sets, held, thread,
                 bgError, mode, disk, fate>>

\* It has the front of the queue and enters MakeRoomForWrite.
Begin ==
  /\ writers # <<>> /\ awake /\ stage = "queued"
  /\ stage' = "room"
  /\ force' = (kind[First] = "force")
  /\ UNCHANGED <<calls, writers, awake, group, tables, lastSequence, sets, held,
                 thread, bgError, mode, disk, fate>>

\* Faulty variant: a sync write joins whatever group there is.
GroupsMixed == 1..Len(writers)

\* The calls that may be answered together with the first: the first one's
\* write and what follows it, up to a sync write if the first is none.
Groups ==
  { n \in 1..Len(writers) :
      kind[First] = "sync" \/ \A i \in 2..n : kind[writers[i]] # "sync" }

\* Faulty variant: a call that others wrote for is not told that it is done.
AnsweredFirst(n, status) ==
  /\ answer' = [answer EXCEPT ![Head(writers)] = status]
  /\ writers' = SubSeq(writers, n + 1, Len(writers))
  /\ awake' = (n < Len(writers))
  /\ stage' = "queued" /\ group' = 0 /\ force' = FALSE

\* The first n calls are answered, and the next one is signalled.
Answered(n, status) ==
  /\ answer' = [c \in DOMAIN answer |->
                  IF c \in Range(SubSeq(writers, 1, n)) THEN status ELSE answer[c]]
  /\ writers' = SubSeq(writers, n + 1, Len(writers))
  /\ awake' = (n < Len(writers))
  /\ stage' = "queued" /\ group' = 0 /\ force' = FALSE

\* MakeRoomForWrite finds an error from before: only this call is answered.
NoRoom ==
  /\ stage = "room" /\ bgError
  /\ Answered(1, "error")
  /\ UNCHANGED <<kind, tables, lastSequence, sets, held, thread, bgError, mode,
                 disk, fate>>

\* MakeRoomForWrite finds room.  A call without a batch is done;
RoomOnly ==
  /\ stage = "room" /\ ~bgError /\ ~force
  /\ kind[First] = "force"
  /\ Answered(1, "ok")
  /\ UNCHANGED <<kind, tables, lastSequence, sets, held, thread, bgError, mode,
                 disk, fate>>

\* for others BuildBatchGroup collects what to write.  It may stop early
\* because the batch gets big.
Room ==
  /\ stage = "room" /\ ~bgError /\ ~force
  /\ kind[First] # "force"
  /\ group' \in Groups
  /\ stage' = "log"
  /\ UNCHANGED <<calls, writers, awake, force, tables, lastSequence, sets, held,
                 thread, bgError, mode, disk, fate>>

\* MakeRoomForWrite finds the memtable full, or was told to switch, but
\* cannot: it waits for the background thread.
Wait ==
  /\ stage = "room" /\ ~bgError
  /\ force \/ mem # {}
  /\ hasImm \/ Cardinality(current.l0) >= L0Stop
  /\ stage' = "wait"
  /\ UNCHANGED <<calls, writers, awake, force, group, tables, lastSequence, sets,
                 held, thread, bgError, mode, disk, fate>>

\* It switches to a new memtable and a new log.
Switch ==
  /\ stage = "room" /\ ~bgError
  /\ force \/ mem # {}
  /\ ~hasImm /\ Cardinality(current.l0) < L0Stop
  /\ logfile' = nextFile /\ nextFile' = nextFile + 1
  /\ logs' = Over([n \in {nextFile} |-> EmptyLog], logs)
  /\ imm' = mem /\ hasImm' = TRUE /\ mem' = {}
  /\ force' = FALSE
  /\ bg' = Scheduled(bg, bgError, TRUE, current)
  /\ UNCHANGED <<calls, writers, awake, stage, group, lastSequence, logNumber,
                 current, held, merge, edit, pending, bgError, mode, files,
                 manifest, fate>>

\* The new log cannot be created: its number is given back.
NewLogFails ==
  /\ stage = "room" /\ ~bgError /\ troubles < MaxTroubles
  /\ force \/ mem # {}
  /\ ~hasImm /\ Cardinality(current.l0) < L0Stop
  /\ troubles' = troubles + 1
  /\ Answered(1, "error")
  /\ UNCHANGED <<kind, tables, lastSequence, sets, held, thread, bgError, mode,
                 disk, power>>

\* What the group writes, under the next sequence number.
Batches == { c \in Range(SubSeq(writers, 1, group)) : kind[c] # "force" }
Record == [seq |-> lastSequence + 1, ws |-> Batches]
LastOf(r) == r.seq + Cardinality(r.ws) - 1

\* The mutex is released: the record goes to the log.
AddRecord ==
  /\ stage = "log"
  /\ logs' = [logs EXCEPT ![logfile].recs = Append(@, Record)]
  /\ stage' = IF kind[First] = "sync" THEN "sync" ELSE "insert"
  /\ UNCHANGED <<calls, writers, awake, force, group, tables, lastSequence, sets,
                 held, thread, bgError, mode, files, manifest, fate>>

\* Appending fails, with the record in the log or not (a torn one is left
\* out, see README).  Its sequence numbers are gone, and no error is kept.
AddRecordFails ==
  /\ stage = "log" /\ troubles < MaxTroubles
  /\ troubles' = troubles + 1
  /\ \/ UNCHANGED logs
     \/ logs' = [logs EXCEPT ![logfile].recs = Append(@, Record)]
  /\ lastSequence' = LastOf(Record)
  /\ Answered(group, "error")
  /\ UNCHANGED <<kind, tables, sets, held, thread, bgError, mode, files, manifest,
                 power>>

\* The log is synced.
SyncLog ==
  /\ stage = "sync"
  /\ logs' = [logs EXCEPT ![logfile].synced = Len(logs[logfile].recs)]
  /\ stage' = "insert"
  /\ UNCHANGED <<calls, writers, awake, force, group, tables, lastSequence, sets,
                 held, thread, bgError, mode, files, manifest, fate>>

\* Or the sync fails, and the record may or may not be on the disk.
SyncFails ==
  /\ stage = "sync" /\ troubles < MaxTroubles
  /\ troubles' = troubles + 1
  /\ bgError' = TRUE
  /\ lastSequence' = LastOf(Record)
  /\ Answered(group, "error")
  /\ UNCHANGED <<kind, tables, sets, held, thread, mode, disk, power>>

\* The record goes to the memtable.
Insert ==
  /\ stage = "insert"
  /\ mem' = mem \cup {Record}
  /\ stage' = "inserted"
  /\ UNCHANGED <<calls, writers, awake, force, group, imm, hasImm, lastSequence,
                 sets, held, thread, bgError, mode, disk, fate>>

\* The mutex is taken again: readers see the writes from now on.
Finish ==
  /\ stage = "inserted"
  /\ lastSequence' = LastOf(Record)
  /\ Answered(group, "ok")
  /\ UNCHANGED <<kind, tables, sets, held, thread, bgError, mode, disk, fate>>

(***************************************************************************)
(* The background thread.                                                  *)
(***************************************************************************)
\* VersionSet::Builder: what an edit makes of a version.
Applied(v, e) == [v EXCEPT !.l0 = (@ \ e.del) \cup e.add0, !.l1 = (@ \ e.del) \cup e.add1]

\* The manifest with one more record.
Logged(e) ==
  [l0 |-> Applied(manifest, e).l0, l1 |-> Applied(manifest, e).l1,
   log |-> e.log, last |-> e.last, next |-> e.next]

\* An edit, with what LogAndApply adds to it before it releases the mutex.
Edit(add0, add1, del, log, next) ==
  [add0 |-> add0, add1 |-> add1, del |-> del, log |-> log,
   last |-> lastSequence, next |-> next]

\* DeleteObsoleteFiles, given the live tables and the first log needed.
Swept(err, live, log) ==
  IF err THEN UNCHANGED <<files, logs>>
  ELSE /\ files' = Restrict(files, DOMAIN files \cap live)
       /\ logs' = Restrict(logs, { n \in DOMAIN logs : n >= log })

\* Faulty variant: tables still being written are not protected.
LiveVersions(v, m, p) == Numbers(v) \cup held \cup Numbers(m)

\* The tables of all versions somebody refers to, and those being written.
Live(v, m, p) == Numbers(v) \cup held \cup Numbers(m) \cup p

\* BackgroundCall returns.
Idle(err, hasimm, v) == bg' = Rescheduled(err, hasimm, v) /\ stage' = Woken(stage)

\* BackgroundCall finds nothing to do.
NothingToDo ==
  /\ bg = "scheduled"
  /\ bgError \/ ~(hasImm \/ NeedsCompaction)
  /\ Idle(bgError, hasImm, current)
  /\ UNCHANGED <<calls, writers, awake, force, group, tables, lastSequence, sets,
                 held, merge, edit, pending, bgError, mode, disk, fate>>

\* CompactMemTable, up to the unlock in WriteLevel0Table: by itself, or
\* between two keys of a compaction, even after an error.
BeginFlush ==
  /\ bg = "merge" \/ (bg = "scheduled" /\ ~bgError)
  /\ hasImm
  /\ bg' = "build"
  /\ edit' = [NoEdit EXCEPT !.add0 = {nextFile}]
  /\ pending' = pending \cup {nextFile}
  /\ nextFile' = nextFile + 1
  /\ UNCHANGED <<calls, queue, tables, lastSequence, logfile, logNumber, current,
                 held, merge, bgError, mode, disk, fate>>

\* The end of CompactMemTable: back to the compaction it interrupted, or
\* out of BackgroundCall.  Either wakes the writers.
Flushed(err, hasimm, v) ==
  IF merge # NoMerge THEN bg' = "merge" /\ stage' = Woken(stage)
                     ELSE Idle(err, hasimm, v)

\* BuildTable succeeds; it leaves no table if there was nothing in the
\* memtable.  LogAndApply takes down what it will write.
BuildTable ==
  /\ bg = "build"
  /\ LET add == IF imm = {} THEN {} ELSE edit.add0
     IN  /\ files' = Over([n \in add |-> imm], files)
         /\ edit' = Edit(add, {}, {}, logfile, nextFile)
  /\ pending' = pending \ edit.add0
  /\ bg' = "apply"
  /\ UNCHANGED <<calls, queue, tables, lastSequence, sets, held, merge, bgError,
                 mode, logs, manifest, fate>>

BuildTableFails ==
  /\ bg = "build" /\ troubles < MaxTroubles
  /\ troubles' = troubles + 1
  /\ bgError' = TRUE
  /\ pending' = pending \ edit.add0
  /\ edit' = NoEdit
  /\ Flushed(TRUE, hasImm, current)
  /\ UNCHANGED <<calls, writers, awake, force, group, tables, lastSequence, sets,
                 held, merge, mode, disk, power>>

\* LogAndApply has written and synced the manifest: the table replaces the
\* memtable, and the logs before the current one are no longer needed.
ApplyFlush ==
  /\ bg = "apply"
  /\ manifest' = Logged(edit)
  /\ current' = Applied(current, edit)
  /\ logNumber' = edit.log
  /\ imm' = {} /\ hasImm' = FALSE
  /\ Swept(bgError, Live(current', merge, pending), edit.log)
  /\ edit' = NoEdit
  /\ Flushed(bgError, FALSE, current')
  /\ UNCHANGED <<calls, writers, awake, force, group, mem, lastSequence, logfile,
                 nextFile, held, merge, pending, bgError, mode, fate>>

\* A single table with nothing below it is only moved down.
IsTrivialMove == Cardinality(current.l0) = 1 /\ current.l1 = {}

BeginMove ==
  /\ bg = "scheduled" /\ ~bgError /\ ~hasImm /\ NeedsCompaction
  /\ IsTrivialMove
  /\ edit' = Edit({}, current.l0, current.l0, logNumber, nextFile)
  /\ bg' = "install"
  /\ UNCHANGED <<calls, queue, tables, lastSequence, sets, held, merge, pending,
                 bgError, mode, disk, fate>>

\* Any other compaction of level 0 into the level below starts.
BeginMerge ==
  /\ bg = "scheduled" /\ ~bgError /\ ~hasImm /\ NeedsCompaction
  /\ ~IsTrivialMove
  /\ merge' = [l0 |-> current.l0, l1 |-> current.l1, out |-> {}]
  /\ bg' = "merge"
  /\ UNCHANGED <<calls, queue, tables, lastSequence, sets, held, edit, pending,
                 bgError, mode, disk, fate>>

\* The compaction starts a table: its first, or one more because the one
\* before is big enough.
OpenCompactionOutputFile ==
  /\ bg = "merge" /\ Cardinality(merge.out) < MaxOutputs
  /\ merge' = [merge EXCEPT !.out = @ \cup {nextFile}]
  /\ pending' = pending \cup {nextFile}
  /\ files' = Over([n \in {nextFile} |-> {}], files)
  /\ nextFile' = nextFile + 1
  /\ UNCHANGED <<calls, queue, tables, lastSequence, logfile, logNumber, current,
                 held, bg, edit, bgError, mode, logs, manifest, fate>>

\* What the tables of a compaction may get of the records of its inputs:
\* each record goes to one of them.
Shares ==
  { [n \in merge.out |-> { r \in DOMAIN to : to[r] = n }] :
      to \in [UNION { files[n] : n \in Numbers(merge) } -> merge.out] }

\* The last output is complete; InstallCompactionResults starts.
FinishCompactionOutputFile ==
  /\ bg = "merge" /\ merge.out # {}
  /\ \E f \in Shares : files' = Over(f, files)
  /\ edit' = Edit({}, merge.out, Numbers(merge), logNumber, nextFile)
  /\ bg' = "install"
  /\ UNCHANGED <<calls, queue, tables, lastSequence, sets, held, merge, pending,
                 bgError, mode, logs, manifest, fate>>

\* LogAndApply has written the manifest; CleanupCompaction, and out of
\* BackgroundCall.
InstallCompactionResults ==
  /\ bg = "install"
  /\ manifest' = Logged(edit)
  /\ current' = Applied(current, edit)
  /\ logNumber' = edit.log
  /\ pending' = pending \ merge.out
  /\ IF merge = NoMerge THEN UNCHANGED <<files, logs>>
     ELSE Swept(bgError, Live(current', NoMerge, pending'), logNumber')
  /\ merge' = NoMerge /\ edit' = NoEdit
  /\ Idle(bgError, hasImm, current')
  /\ UNCHANGED <<calls, writers, awake, force, group, tables, lastSequence,
                 logfile, nextFile, held, bgError, mode, fate>>

\* Writing the output fails.
MergeFails ==
  /\ bg = "merge" /\ merge.out # {} /\ troubles < MaxTroubles
  /\ troubles' = troubles + 1
  /\ bgError' = TRUE
  /\ pending' = pending \ merge.out
  /\ Swept(TRUE, {}, 0)
  /\ merge' = NoMerge
  /\ Idle(TRUE, hasImm, current)
  /\ UNCHANGED <<calls, writers, awake, force, group, tables, lastSequence, sets,
                 held, edit, mode, manifest, power>>

\* Writing the manifest fails: its last record may or may not be there.
ManifestFails ==
  /\ bg \in {"apply", "install"} /\ troubles < MaxTroubles
  /\ troubles' = troubles + 1
  /\ bgError' = TRUE
  /\ manifest' \in {manifest, Logged(edit)}
  /\ edit' = NoEdit
  /\ IF bg = "apply"
       THEN /\ Flushed(TRUE, hasImm, current)
            /\ UNCHANGED <<merge, pending, files, logs>>
       ELSE /\ pending' = pending \ merge.out
            /\ Swept(TRUE, Live(current, NoMerge, pending'), logNumber)
            /\ merge' = NoMerge
            /\ Idle(TRUE, hasImm, current)
  /\ UNCHANGED <<calls, writers, awake, force, group, tables, lastSequence, sets,
                 held, mode, power>>

(***************************************************************************)
(* Readers.                                                                *)
(***************************************************************************)
\* An iterator refers to the current version until it is deleted.
NewIterator ==
  /\ mode = "up" /\ held = {} /\ Numbers(current) # {}
  /\ held' = Numbers(current)
  /\ UNCHANGED <<calls, queue, tables, lastSequence, sets, thread, bgError, mode,
                 disk, fate>>

DeleteIterator ==
  /\ held # {}
  /\ held' = {}
  /\ UNCHANGED <<calls, queue, tables, lastSequence, sets, thread, bgError, mode,
                 disk, fate>>

(***************************************************************************)
(* Crashes and recovery.                                                   *)
(***************************************************************************)
\* What the process had in memory is gone, and with it whoever waited.
Gone ==
  /\ troubles < MaxTroubles
  /\ troubles' = troubles + 1
  /\ kind' = kind /\ answer' = [c \in DOMAIN answer |-> "dead"]
  /\ writers' = <<>> /\ awake' = FALSE /\ stage' = "queued" /\ force' = FALSE /\ group' = 0
  /\ mem' = {} /\ imm' = {} /\ hasImm' = FALSE
  /\ lastSequence' = 0 /\ logfile' = 0 /\ logNumber' = 0 /\ nextFile' = 0
  /\ current' = [l0 |-> {}, l1 |-> {}]
  /\ held' = {} /\ pending' = {}
  /\ bg' = "idle" /\ merge' = NoMerge /\ edit' = NoEdit
  /\ bgError' = FALSE
  /\ mode' = "down"

\* The process crashes: what it has written is in the system's buffers.
ProcessCrash == Gone /\ UNCHANGED <<disk, power>>

\* The machine crashes: of each log, what was not synced is there up to
\* some point.
MachineCrash ==
  /\ Gone /\ power' = ~power
  /\ \E cut \in [DOMAIN logs -> 0..MaxWrites] :
       /\ \A n \in DOMAIN logs : cut[n] \in logs[n].synced..Len(logs[n].recs)
       /\ logs' = [n \in DOMAIN logs |->
                     [recs |-> SubSeq(logs[n].recs, 1, cut[n]), synced |-> cut[n]]]
  /\ UNCHANGED <<files, manifest>>

\* Faulty variant: the sequence numbers found in logs do not count.
RecoverLogFileStale(r, n) ==
  LET recs == Range(logs[n].recs)
      next == IF recs = {} THEN r.next ELSE r.next + 1
  IN  [ tabs |-> IF recs = {} THEN r.tabs ELSE Over([t \in {r.next} |-> recs], r.tabs),
        next |-> Max({next, n + 1}),
        last |-> r.last ]

\* RecoverLogFile for one log: its records become a table on level 0, and
\* its number counts as used.
RecoverLogFile(r, n) ==
  LET recs == Range(logs[n].recs)
      next == IF recs = {} THEN r.next ELSE r.next + 1
  IN  [ tabs |-> IF recs = {} THEN r.tabs ELSE Over([t \in {r.next} |-> recs], r.tabs),
        next |-> Max({next, n + 1}),
        last |-> Max({r.last} \cup { LastOf(c) : c \in recs }) ]

\* The logs from the manifest's on are replayed, oldest first.  The first
\* number the manifest leaves free goes to the new manifest.
Replay ==
  LET top == Max(DOMAIN logs \cup {0})
      replay[n \in 0..top] ==
        IF n = 0 THEN [tabs |-> <<>>, next |-> manifest.next + 1, last |-> manifest.last]
        ELSE IF n \in DOMAIN logs /\ n >= manifest.log THEN RecoverLogFile(replay[n - 1], n)
        ELSE replay[n - 1]
  IN  replay[top]

\* DBImpl::Recover, and the new log of DB::Open.
Recover ==
  /\ mode = "down"
  /\ Numbers(manifest) \subseteq DOMAIN files
  /\ LET r == Replay
     IN  /\ files' = Over(r.tabs, files)
         /\ logs' = Over([n \in {r.next} |-> EmptyLog], logs)
         /\ logfile' = r.next /\ nextFile' = r.next + 1
         /\ lastSequence' = r.last
         /\ edit' = [add0 |-> DOMAIN r.tabs, add1 |-> {}, del |-> {}, log |-> r.next,
                     last |-> r.last, next |-> r.next + 1]
  /\ current' = [l0 |-> manifest.l0, l1 |-> manifest.l1]
  /\ logNumber' = manifest.log
  /\ mode' = "replayed"
  /\ UNCHANGED <<calls, queue, tables, held, bg, merge, pending, bgError, manifest,
                 fate>>

\* LogAndApply writes a new manifest and makes CURRENT name it.
SetCurrentFile ==
  /\ mode = "replayed"
  /\ manifest' = Logged(edit)
  /\ current' = Applied(current, edit)
  /\ logNumber' = edit.log
  /\ edit' = NoEdit
  /\ mode' = "installed"
  /\ UNCHANGED <<calls, queue, tables, lastSequence, logfile, nextFile, held, bg,
                 merge, pending, bgError, logs, files, fate>>

\* DB::Open is done.
Opened ==
  /\ mode = "installed"
  /\ Swept(FALSE, Live(current, NoMerge, pending), logNumber)
  /\ bg' = Scheduled(bg, FALSE, FALSE, current)
  /\ mode' = "up"
  /\ UNCHANGED <<calls, queue, tables, lastSequence, sets, held, merge, edit,
                 pending, bgError, manifest, fate>>

-----------------------------------------------------------------------------
WriterStep ==
  \/ Begin \/ NoRoom \/ RoomOnly \/ Room \/ Wait \/ Switch \/ NewLogFails
  \/ AddRecord \/ AddRecordFails \/ SyncLog \/ SyncFails \/ Insert \/ Finish

BackgroundStep ==
  \/ NothingToDo \/ BeginFlush \/ BuildTable \/ BuildTableFails \/ ApplyFlush
  \/ BeginMove \/ BeginMerge \/ OpenCompactionOutputFile \/ FinishCompactionOutputFile
  \/ InstallCompactionResults \/ MergeFails \/ ManifestFails

OpenStep == Recover \/ SetCurrentFile \/ Opened

Next ==
  \/ \E k \in Kind : Write(k)
  \/ WriterStep \/ BackgroundStep \/ OpenStep
  \/ NewIterator \/ DeleteIterator
  \/ ProcessCrash \/ MachineCrash

Spec == Init /\ [][Next]_vars

\* The threads go on: a writer that may, and the background thread.
Fairness == WF_vars(WriterStep) /\ WF_vars(BackgroundStep)

FairSpec == Spec /\ Fairness

-----------------------------------------------------------------------------
WritesOf(recs) == { [n |-> c, sync |-> kind[c] = "sync"] : c \in UNION { r.ws : r \in recs } }
InTables(v) == UNION { files[n] : n \in Numbers(v) \cap DOMAIN files }
LogsNeeded == { n \in DOMAIN logs : n >= manifest.log }

\* What opening the database would find now,
Recoverable == InTables(manifest) \cup UNION { Range(logs[n].recs) : n \in LogsNeeded }

\* and what it would find whatever the machine loses.
Safe ==
  InTables(manifest)
    \cup UNION { Range(SubSeq(logs[n].recs, 1, logs[n].synced)) : n \in LogsNeeded }

\* What a reader finds.
Visible ==
  IF mode = "up"
    THEN { r \in mem \cup imm \cup InTables(current) : r.seq <= lastSequence }
    ELSE Recoverable

TypeOK ==
  /\ kind \in Seq(Kind) /\ Len(kind) <= MaxWrites
  /\ answer \in Seq({"none", "ok", "error", "dead"}) /\ Len(answer) = Len(kind)
  /\ Range(writers) = { c \in DOMAIN answer : answer[c] = "none" }
  /\ stage \in {"queued", "room", "wait", "log", "sync", "insert", "inserted"}
  /\ writers = <<>> => stage = "queued" /\ ~awake
  /\ bg \in {"idle", "scheduled", "build", "apply", "merge", "install"}
  /\ mode \in {"up", "down", "replayed", "installed"}
  /\ Numbers(current) \cap pending = {}
  /\ bg = "idle" => pending = {} /\ merge = NoMerge /\ (mode = "up" => edit = NoEdit)
  /\ mode = "up" => logfile \in DOMAIN logs /\ logNumber <= logfile /\ logfile < nextFile
  /\ hasImm => logNumber < logfile

(***************************************************************************)
(* LevelDB keeps its promises, see module Store: through groups, memtable  *)
(* switches, flushes, compactions, deleted files, failing syncs, crashes   *)
(* at any point, and crashes during recovery.                              *)
(***************************************************************************)
Promises == INSTANCE Store WITH
  Request <- [n : Call, sync : BOOLEAN],
  asked <- WritesOf(Visible)
             \cup { [n |-> c, sync |-> kind[c] = "sync"] :
                      c \in { c \in DOMAIN kind : answer[c] # "dead" /\ kind[c] # "force" } },
  visible <- WritesOf(Visible),
  safe <- { w \in WritesOf(Safe) : answer[w.n] # "error" },
  power <- power

IsStore == Promises!Spec

(***************************************************************************)
(* No table is deleted that an open iterator, the compaction under way,    *)
(* the current version or the manifest refers to, even when nobody knows   *)
(* which record of the manifest is the last on the disk, and a table that  *)
(* is being written is not deleted under the writer's hands.               *)
(***************************************************************************)
TablesKept ==
  /\ Numbers(manifest) \cup Numbers(current) \cup held \cup Numbers(merge) \subseteq DOMAIN files
  /\ merge.out \subseteq DOMAIN files

(***************************************************************************)
(* A sequence number is given out once: what recovery finds in logs the    *)
(* manifest does not know counts, so that no later write takes the number  *)
(* of one that is there already.                                           *)
(***************************************************************************)
SequenceOnce ==
  \A r, s \in mem \cup imm \cup Recoverable :
    r # s => LastOf(r) < s.seq \/ LastOf(s) < r.seq

(***************************************************************************)
(* Every call of Write is answered, or ended by a crash: no writer waits   *)
(* for a signal nobody sends, not even when the memtable is full, level 0  *)
(* is full, or the background thread gave up with an error.  As there are  *)
(* MaxWrites calls at most, the queue is then empty in the end.            *)
(***************************************************************************)
WriteReturns == []<>(writers = <<>>)
=============================================================================
