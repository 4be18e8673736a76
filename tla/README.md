# FLChat: a TLA+ verification project

FLChat (`src/FLChat/FLChat`, about 3400 lines of Swift) is an iOS chat
application: people sign in, look each other up, send and accept friend
requests, and exchange messages and pictures. It has no server of its own. All
shared state is in Firebase (Realtime Database, Auth, Storage), and everything
the program does to it happens in client code that runs concurrently on many
devices, each with a queue of writes that are applied later, sent again after a
reconnect, and lost when the process dies.

The rest of `src` is the vendored Firebase, Facebook and Google libraries. Most
of it are headers of binary frameworks. Where there is source with state and
concurrency of its own, it is LevelDB, which the Realtime Database client brings
along for its persistence on disk; the app leaves that switched off, so
LevelDB is linked and not exercised. The project covers the app itself first
and LevelDB's core second.

The tests of the app are empty templates and `src/README.md` is one sentence.

## 1. Inventory

| component | state | operations | interacts through |
|---|---|---|---|
| Friend requests (`SelectNewUserFriendVC`, `AllRequestFriendsVC`, `SelectAllRequestVC`, `DataService` 189-395) | `friend_request`, `user_friend_request`, `friends`, `user_friends`; observers left behind by each accept | send, list received, accept, remove | four tables written by both devices; observers that remove what the other one writes |
| Chat messages (`MessageVC.handleSend`) | `messages`, `users_messages` | send | three writes per message, the last two from the completion of the first |
| Chat screen (`MessageVC`, `HomeVC.didSelectItemAt`) | observers and their arrays, `messagesArray`, the redraw timer, the rows of the list | open, appear, notice, read, redraw, close | observers of `users_messages`, single reads of `messages` |
| Sessions and profile (`LogInVC`, `AppDelegate`, `SettingsVC`, `User`) | the flag `isLoggedIn`, the user of Firebase Auth, `User.instance`, `users/uid` | sign in (three ways), register, read the profile, change a setting, sign out | a flag and a key chain that outlive the process; late answers |
| Pictures in storage (`MessageVC` 158-197, `SettingsVC` 184-227) | one file per user and purpose | upload, then ask for the address | one path reused by every upload |
| Search lists (`HomeVC`, `AddNewFriendsVC`, `AllRequestFriendsVC`, `MyRequestFriendsVC`, `DataService` 80-256) | `usersArray` and the observers of all queries so far | appear, type, results arrive | observers that are never removed |
| Images in cells (`imageView+Extention`, the cells) | cache by URL, the image of a reused cell | load, deliver late | the cell that asked shows something else by then |
| Outstanding writes (`FPersistentConnection`, `FSyncTree`, vendored) | queue of puts, listens, overlay on reads | put, ack, disconnect, restore | used by all of the above |
| LevelDB: writers, background thread, recovery (`db_impl.cc`, `builder.cc`) | queue of writers, memtables, log, versions, manifest, files, error | write, switch, flush, merge, move, delete files, iterate, crash, open | one mutex, released around every call to the file system; two condition variables |
| LevelDB: levels and compaction (`version_set.cc`, `DoCompactionWork`) | tables of each level, snapshots | flush to a level, pick, cut, drop, move, get | a compaction and the flushes in the middle of it |
| LevelDB: log format (`log_writer.cc`, `log_reader.cc`) | offset in the block | add a record, read back | a file cut anywhere |
| LevelDB: skip list (`skiplist.h`) | nodes, height | insert, search, next | readers without a lock |
| LevelDB: iterators (`merger.cc`, `db_iter.cc`) | children, direction, saved key | seek, next, previous | writes under way |
| LevelDB: table cache (`table_cache.cc`, `cache.cc`) | entries with references, hash table, LRU list | find, open, release, evict | readers that open the same table |
| LevelDB: tables (`table/*.cc`, `comparator.cc`) | blocks, index, filters | build, get, iterate | an index built of keys that do not exist |
| LevelDB: encodings, environment, C interface, repair, tools | | | |
| nanopb | a stream | encode, decode | |
| Views, layout, value classes, headers | none that others depend on | | |
| Files outside the build | | | `SellectAllRequestVC`, `SelectedUserVC`, `MessageTVC`, `selectAllRequestFriendsVC`, `AutentificationUser`, `AllUsers`, one of two `ShowHideKeyboard`s |

What is hard, and what correctness means for each part:

- **Friend requests.** Sending is three writes, accepting three and then three
  removals, each chain driven by completion blocks that ignore errors. The
  screen tells the user of success in the middle of it. Accepting leaves
  observers behind that remove whole index paths whenever the other side
  writes. Correct: the four tables agree up to what is still on its way, a
  half-done accept can be repeated, removals never lose a request of people who
  are not friends, alerts are true, everything comes to rest.
- **Messages.** Correct: never a duplicate or an overtaking between two people,
  entries that lead to messages, no message that only the recipient has.
- **Chat screen.** Each appearance adds an observer with an array of its own and
  all of them replace the one array on the screen. Leaving the screen removes none;
  they read on, and the next screen joins their reads. Correct: each message once,
  in order while the chat has one observer and the connection holds, all of them
  in the end, and never a row without a message.
- **Sessions.** The flag that leads home at the next start is set before the
  user's record exists. Answers arrive after sign-out. Correct: a home screen
  always has a user, records are whole, a profile is the user's own.
- **Pictures.** Every upload replaces the one before it at the same path, and the
  address is asked for after an upload that failed, too. Correct: no message
  shows an older picture than its own; the profile has an address that is alive.
- **Search lists.** Answers to earlier queries replace the list of a later one.
  Friends are found by friends record, and two people may have several. Correct: a list
  at rest is the whole result of one query, with a row for each record that matches.
- **LevelDB.** Group commit, a background thread, files deleted while others use
  them, errors and crashes at every call. Correct: what `WriteOptions` promises,
  no table deleted that somebody needs, every caller answered; a reader finds
  the newest value its snapshot sees, whatever was moved, merged and dropped; an
  iterator shows the snapshot in both directions or reports an error.

`PROJECT.json` lists these dangers one by one under `hazards`, each at its
line, with the properties that catch it or a note on why none does.

## 2. Modules

| module | models | status |
|---|---|---|
| `FriendRequests` | friend requests | complete |
| `FriendRequestsProofs` | its inductive invariant and proofs | complete |
| `Courier` | what the recipient of messages may rely on, abstractly | complete |
| `Messages` | sending messages; implements `Courier` | complete |
| `Conversation` | the chat screen, on top of `Messages` | complete |
| `ConversationProofs` | the invariants of `Messages`, that it refines `Courier`, and the screen's safety properties, proved | complete |
| `Session` | signing in, registering, profile, signing out | settings abstracted to one |
| `SessionProofs` | its safety properties, proved; two of them for one device | complete |
| `Pictures` | uploads of both kinds | complete |
| `SearchList` | the searched lists of friends and of all users | without the lists of requests |
| `Store` | what LevelDB promises whoever writes, abstractly | complete |
| `LevelDB` | `DBImpl`: writers, background thread, files, recovery; implements `Store` | see section 8 |
| `LevelDBProofs` | its safety properties, and that it implements `Store`, proved | complete |
| `PartsProofs` | the safety properties of `Pictures`, `SkipList`, `Compaction`, `SearchList` and `TableCache` in `Parts`, proved | complete |
| `LoopProofs` | those of `LogFormat`, and of `DBIterator` with `MergingIterator`, in `Parts`, proved: the parts whose loops are recursive functions | complete |
| `NumberFacts` | induction, minima and maxima, for the proofs | complete |
| `Compaction` | which table goes where, what may be dropped, reading | see section 8 |
| `CompactionProofs` | that levels stay disjoint and reads find the newest, proved | complete |
| `LogFormat` | blocks and fragments of the log | without an initial offset |
| `SkipList` | the memtable's list and its readers | complete |
| `MergingIterator`, `DBIterator` | iterators over all entries, and the user's | without errors of children |
| `TableCache` | one shard of the LRU cache of open tables | without resizing |
| `SortedTable` | building, searching and iterating a table | without corruption and the block cache |
| `MCFriendRequests`, `MCConversation`, `MCSession`, `MCLevelDB`, `MCCompaction` | instances for TLC, some with symmetry | |
| `Parts` | the eight small parts put together: one behaviour is one part | complete |
| `MCParts` | an instance of `Parts` for TLC | |

### The client of the Realtime Database

The modules of the app share one picture of the vendored client. `puts[u]` is the
FIFO `outstandingPuts` of user `u`: an operation appends its writes (`putInternal`,
FPersistentConnection.m:614), the server processes them in order (`Apply`), and the
answer comes back as a step of its own (`Ack`), which runs the completion block.
Losing the connection loses answers on the way and makes the client send every
unanswered write again, oldest first (`restoreState` 836-845), although the
server may have processed it; reads are asked again in the order of a dictionary
(831-834). A killed process loses its queue: the app does not turn on disk
persistence. A device sees the server's data overlaid with its own outstanding
writes (`FSyncTree`).

`FriendRequests` counts how many outstanding writes the server has processed
(`applied`), because its completion blocks ignore the server's answer.
`Messages` keeps the answers themselves (`answers`), because its completion
block looks at them.

### FriendRequests

A request is identified by sender, recipient and the number of the sender's tap
(for the key of `childByAutoId`); the same key names the friends record an
accept makes. Actions: `SendRequest` (the send button: two writes at once),
`ShowRequest` (the list of received requests learns of a sender), `Accept` (the
button: the record and the accepter's list entry at once), `Ack` (an answer, with
what the completion block does: the second index entry and the "sent" alert, the
second list entry and the "added" alert, the observers for removal),
`OuterFires` and `InnerFires` (the two levels of observers of
`removeFriendRequestsFromDatabase`, DataService.swift:260-271), `Apply`,
`Reject`, `Disconnect`, `Kill`.

### Messages and Courier

`Send` writes the record; `Ack` of an accepted record issues the two entries;
`Refuse` is a write the server turns down. `Courier` has two actions, `Post` and
`Deliver`: a message may be delivered only if it is newer than what the recipient
has of that sender, so each sender's messages arrive in order and once, and some
perhaps never. `Messages` implements it with
`posted <- sent` and `delivered <-` the messages in the recipient's entries.

### Conversation

Extends `Messages` with one open chat screen per user. `Open` and `Reappear` are
`viewDidAppear` (it runs again when the picture picker closes); each adds an
observer with an empty array. `Notice` is its `childAdded` event; the read it
starts is shared between observers that read the same message (`asked`). `Read`
is the answer: every reader appends the message to its own array and makes that
array the one on the screen, and the redraw timer starts anew. `Reload` is the
timer. `Close` only dismisses the screen (`backBtnPressed`): nothing removes its
observers, so they stay in `observers`, marked `left`, are still told of entries and
go on reading, and what they have asked the server stays in `asked`, where the
observers of the next screen of that chat join it. What they add is for a screen nobody
sees. Only a kill ends them.

### Session

`Tap` is one of the three buttons; `tasks` are the sign-ins and registrations
under way; `SignedIn` is the completion of an authentication (the flag, then a
read or a registration), `Registered` the end of the upload of the default
picture, which writes the record from `User.instance`. `reads` are the
outstanding reads of records, `ReadAnswered` fills in `User.instance`, and
`ReadCrashes` is the same answer with a field missing: the force-unwrap ends the
process, and `Launch` starts it again. `ChangeName` stands for the five settings
that can be changed alone. Two history variables carry the conditions of the
properties: `crossed`, the user went on while a sign-in was under way, and
`abandoned`, a registration that failed or died.

### Pictures

A pick is a task that goes through `put`, `asked`, `answered`. `Store` is the
upload reaching the storage, possibly after the request has failed or the
process is gone; `PutFails` goes on to ask for the address like `PutDone`, as the
code does; `Finish` sends the message or updates the record. Addresses are named
by the pick that was uploaded.

### SearchList

`SearchFriends` is `getAllFrinds`: a new observer with an array of its own, told at
once of what the client has; `ChildAdded`, `RecordRead` and `CopyRead` are the three
levels of its callbacks, each for all queries that wait. They are about friends
records, not people: two people who accepted several requests have several records, each
with a copy of the profile, and each copy is an entry of its own in the array.
`Whose` says whose profile a record has. `SearchUsers` and
`UsersRead` are the single read of `getUsersFromDatabase`, where a user is one record.
`Settled` compares the number of a person's rows with that of his records that match.

### LevelDB and Store

An action is what a thread does between two releases of the mutex, or one call
to the file system made without it. A call of `Write` joins the queue (`Write`);
the front writer goes through `MakeRoomForWrite` (`NoRoom`, `RoomOnly`, `Room`,
`Wait`, `Switch`), the log (`AddRecord`), the sync, the memtable (`Insert`) and
`Finish`, which answers the group. The background thread is `BeginFlush` to
`ApplyFlush`, `BeginMove`, and `BeginMerge` to `InstallCompactionResults`; a flush may
interrupt a merge, as `CompactMemTable` is called from inside it. Every call to
the file system has a failing twin. `ProcessCrash` loses memory, `MachineCrash` also
unsynced tails of logs; `Recover`, `SetCurrentFile` and `Opened` are `DB::Open` in
three steps, between which it may crash again. A record stands for the writes of
a group, a table for the set of records it has.

`Store` says what is promised: writes take effect in groups; one that asked for
it is on the disk before it counts as done; a process crash loses nothing done, a
machine crash nothing that is on the disk; what was lost stays lost. The
refinement maps `visible` to what a reader finds (or would find after opening)
and `safe` to what tables and synced prefixes of needed logs hold.

### Compaction

Entries `(key, sequence, deletion)` in a memtable, on level 0 and on levels below.
`Free` and `PickLevelForMemTableOutput` place a flush; a compaction takes what
`PickCompaction` and `SetupOtherInputs` take, drops what `DoCompactionWork` drops,
and cuts its output anywhere. `CompactRange` starts one from the tables of a range, or
the first of them (`FirstOf`), which are never moved. Sizes, scores, seeks and compaction pointers only
choose between these, so each choice is open. `Get` reads like `DBImpl::Get` and
`Version::Get`: the first place with an entry decides.

### The smaller parts of LevelDB

- `LogFormat`: a byte is its place in a fragment; the checksum is right if and only if
  the bytes are those of one whole fragment. The reader is `ReadPhysicalRecord` and
  `ReadRecord` as operators, applied to every prefix of the file.
- `SkipList`: memory is the sequence of the inserter's stores; a reader has a point
  up to which it sees everything and may or may not see what comes later, but an
  acquire load that sees a release store sees all before it. This is what
  `AtomicPointer` promises, and no more.
- `MergingIterator` and `DBIterator`: the operators of `merger.cc` over ordered
  children, and `DBIter` on top, with entries written meanwhile. A reference
  position (`at`) moves along with the user's calls.
- `TableCache`: `FindTable` looks the table up under the mutex, `Opened` inserts it
  after it was opened without it, and `Shrunk` evicts: the loop at the end of `Insert` in
  one step, since what it takes are the oldest entries not in use, as many as are over
  the capacity. An entry is a place (`Slot`) that is free when it has no references;
  there is one more of them than `OpenBounded` allows, so a leak shows as a violation.
- `SortedTable`: `Add` and `Finish` build blocks of keys that share prefixes, an
  index with `FindShortestSeparator`'s keys, and filters for stretches of the file.
  `InternalGet` searches; `SeekToFirst`, `SeekToLast`, `Seek`, `MoveNext` and `MovePrev` are the
  two-level iterator, for which any one block may be unreadable during any call.

## 3. What the runs show

| run | question | answer |
|---|---|---|
| `FriendRequests_safety` | do the tables agree through crossing requests, one drop, one kill, one refused write? | yes, as long as nothing is refused; removals touch friends only |
| `FriendRequests_progress` | do requests and accepts complete, with a lost connection too, and do the observers of two devices come to rest? | yes |
| `FriendRequests_sent_alert` | is "successfully sent" true? | **no**: the recipient's entry is not even sent yet |
| `Conversation_safety` | do entries lead to messages, has the sender what the recipient has, is the transport a courier; duplicates, reads in vain, disorder on the screen? | yes, the courier until something is refused; no disorder when a chat appears for the first time in the process, on a connection that held; duplicates never |
| `Conversation_progress` | does a message arrive, and does everything get on the screen and stay there? | yes, if nobody is killed and nothing refused |
| `Conversation_rows` | does every row the list knows have a message? | **no**, after the screen appeared again |
| `Session_device` | with two sign-ins at once, kills, failed uploads and drops: is there a user behind the home screen, is a chosen name kept, is `User.instance` the record, does a registration complete? | yes, each under the condition its comment names |
| `Session_partial` | is every record in `users` whole? | **no**, for a new Google user, or after a kill during registration |
| `Session_names` | does a new user start with the defaults? | **no**, a late answer brings back the previous user's |
| `LevelDB` | does LevelDB keep `Store`'s promises through failing calls and crashes, also while it is opened; are tables kept, sequence numbers unique, all calls answered? | yes |
| `Compaction_cut` | are later levels irrelevant once a level has an entry? | **no**, after a compaction cut between two entries of a key |
| `Parts` | are levels disjoint and snapshots read right; pictures; lists; skip list; log; iterators; table cache; tables? | yes, `Snapshots` while no compaction has cut inside a key, and both with the condition on ranges below |

The runs marked **no** are the findings of `PROJECT.json`, each against a line of
the repository that says otherwise.

In the `Parts` run a behaviour is one part, chosen at the start; the variables of
the other parts stay 0. The parts share nothing, so this is eight checks in one
state space, and each property begins with the part it is about.

Some limits of what holds, met while modelling and kept as conditions of the
properties:

- `IsCourier` needs a server that refuses nothing. An entry that is refused, loses
  its answer, and is accepted when sent again is overtaken by a later message.
- `OrderOfSender` needs a screen that appeared once: a second observer shares
  reads the first has under way, out of its own order. It also needs a
  connection that held, because reads are asked again in dictionary order.
- `NameKept` is about e-mail users. Facebook users are registered again each time
  they sign in, and lose name, phone and picture.
- `HomeKnowsUser` and `NameKept` allow two sign-ins at once, but not that the user
  signs out or changes the name while one is under way (`crossed`).
- `RegistrationCompletes` excepts accounts whose own registration was given up
  (`abandoned`): the code never takes one up again.
- The safety properties of `FriendRequests` need a server that refuses nothing
  (`AllAccepted`): the completion blocks report success after an error, and the
  alert "You have successfully added the user" can then be false.
- `ProfileIsOwn` needs a device with one user, for the reason `Session_names`
  shows.
- `NoOlderPicture` allows a newer picture than the message's own, and says nothing
  after an upload that failed; `ProfileAlive` needs one upload at a time.
- `ListSettled` does not say which query the list of friends is the result of: it
  need not be the last.
- `IsStore` speaks of each synced write. A new log replaces the old one without
  syncing it, so a synced write may survive a machine crash that loses earlier,
  unsynced ones.
- `Levels` and `Snapshots` need that no flush skipped levels in the middle of a
  compaction of a range (`intruded`). The tables of a range may have a gap between
  them; a flush whose keys fit into the gap overlaps nothing, may go to the level of
  the outputs, and lies inside an output when that is installed, against the
  assertion of `MaybeAddFile` ("Must not overlap"). It takes five writes, of keys 1, 3,
  1, 3 and 2, more than `Parts` has: with the bound raised and the condition taken
  out of `LevelsDisjoint`, TLC finds it.
- `LogRead`: after an append that failed, the writer's blocks and the reader's may
  differ, and later records, acknowledged, may not be read.

Each property of a passing run has a mutant in `PROJECT.json`: a plausible
mistake in a modelled operation (the definitions marked "Faulty variant"), with
which TLC finds the property violated.

## 4. Bounds

- Two users suffice for friend requests and messages: every table is keyed by a
  pair, and no step looks at a third person. `FriendRequests` has two taps per user,
  so that requests of one pair cross and repeat, which is what the removal
  observers react to. `Conversation` has two messages and two appearances, so that
  one sender has two under way to one recipient, or two messages cross, and one
  screen can have two observers, or a screen that was left one and the next another. One fault of each kind already puts a crash, a
  drop and a refusal between any two steps.
- `Session_device` needs no counters for faults: its state is finite with two
  outstanding writes and two sign-ins at once, and faults happen any number of
  times. Two accounts, one of each kind that registers differently.
- `LevelDB`: three calls, so that one leads, one may join its group and one comes
  after; two troubles, so that a crash can follow a failed call or another crash
  during recovery; merging from one table on and blocking at two, so that writers
  wait for both reasons; two outputs per compaction. A memtable counts as full
  whenever it has something, or not, by choice.
- `Compaction`: three writes of three keys with one snapshot on four of the seven levels
  (`MaxMemLevel` is the code's 2); the violation needs four writes of two keys.
- `SkipList`: three keys of height up to two and two searches, so that a search passes
  a node that is half linked. `LogFormat`: blocks of five bytes with headers of two
  (the code: 32768 and 7), three records of up to seven bytes, so that every
  remainder of a block occurs, with empty fragments and trailers, and a record
  spans three blocks. `DBIterator`: two keys, five entries of which two are written
  while the iterator is in use, two children. `TableCache`: three tables, two readers,
  capacity two. `SortedTable`: three entries out of ten, of five user keys with
  two sequence numbers, blocks of one to three entries, filters that cover one
  block or several. `Pictures`: three picks, two faults. `SearchList`: three records of
  two people, one of whom was befriended twice, two texts, three queries.

`CHECK_DEADLOCK FALSE` is set everywhere because all modules may come to rest:
users stop tapping, calls are used up and queues run empty.

## 5. Fairness

The liveness runs assume weak fairness of the steps that need no user: the
server processes, answers arrive, timers fire, observers are told. The client
library reconnects by itself and resends, and the run loop of a live process
serves its callbacks, which is what justifies it. Lost connections are bounded
in `FriendRequests` and `Conversation`. In `Session`, where they are not, `Ack` and the
end of a registration are strongly fair: a connection holds, now and then, until
an answer is through. Nobody has to tap anything.

In `LevelDB` the fairness is that threads go on: weakly fair are a step of the front
writer and a step of the background thread. Failing calls and crashes are
bounded by `MaxTroubles` and need not happen; opening the database after a crash
is the user's business and not fair. `WriteReturns` is about the condition
variables: nobody waits for a signal that is not sent.

## 6. Proofs

The theorems below hold for every value of the constants that meets the `ASSUME`s of
the modules: that bounds are natural numbers, that a compaction may write a table,
that level 0 is merged before it is full, and, in `Session`, that nobody has both an
e-mail and a Facebook account under one identity. Each of the properties was
checked by TLC on the instance of its run first, and so was each inductive
invariant.

The proofs need induction over natural numbers in a few places: recovery replays
logs one after the other, the largest file number has to exist.
`NumberFacts` has what they cite: `NaturalInduction` about sets of
numbers (in place of a theorem with a predicate as its parameter), and maxima and
minima of bounded sets.

### FriendRequestsProofs

`TypeCorrect`, and the six safety properties of `FriendRequests_safety`
(`DanglingTheorem`, `RecipientTheorem`, `RetryTheorem`, `ListsTheorem`,
`AddedAlertTheorem`, `RemovalTheorem`).

None of these properties is inductive, because what a table will say next is
decided by writes that wait in some queue, perhaps for the second time. The
invariant `IInv` therefore says, of every outstanding write, what it relies on
(`Ready`: e.g. an index entry for the sender's own side has its record stored, or
ahead of it in the same queue, or the two are friends) and, of every write that was
processed without the client knowing, what it has brought about (`Done`). All
these facts have the form "... or the two are friends", and being on each other's
lists is never undone; this is why resending an old write does no harm, and why
the removal observers may remove whole paths. With `applied` reset by
`Disconnect`, `Ready` alone must carry the resent writes. `Kept` collects what
no step undoes; one lemma per action shows that it keeps `IInv`.

### ConversationProofs

The first half proves `TypeCorrect`, `EntriesTheorem`, `SenderTheorem` and
`CourierTheorem` of `Messages`. `RecordInv` makes `EntriesLead` inductive: a record that
was accepted, known to the client or not, is stored, and so is the record of every
outstanding entry, because entries are only issued for accepted records and
records are never removed. `SideInv` does the same for `SenderHasIt` while nothing
was refused: an outstanding entry for the recipient has the sender's stored, or
ahead of it in the same queue, and a sender's entry that was processed is stored;
a lost connection makes answered writes unanswered but keeps their order.

`CourierTheorem` is the refinement: every step of `Messages` is a step of `Courier` or
leaves its variables alone. What has to be known for it is that the next entry
the server stores for a recipient is new and of the oldest message under way that
is not skipped. `OrderInv` has it: messages are numbered in the order of sending,
and the entries in a sender's queue, resent ones included, stand in that order,
those already stored before those that are not.

The second half puts the screens on top. `ChatImplementsMessages` shows that they change
nothing below, so that the three theorems above hold for the system with screens,
which is the one the run checks (`ChatEntriesLead`, `ChatSenderHasIt`, `ChatIsCourier`).
`ChatTypeCorrect`, `ShownOnceTheorem` and `ReadingTheorem` rest on `ScreenInv`: what an
observer has told its array, and what it is still reading, are apart and without
repetition, however many observers one screen, or several, have gathered, and each read
is of a message with a record. `OrderTheorem` needs more. `PlaceInv`
says that messages are numbered in the order of sending and that an entry is filed
under the two people of its message. `TalkInv` is about all observers of the process,
those of screens that were left included: only those of the open screen are not
left, each has noticed messages of its own two people only, and what the server is
asked for some observer has noticed. So observers of other chats ask for other messages. `ViewInv` says, while
the chat has one observer, no connection was lost and nothing was refused, that what
becomes visible is newer than whatever that observer has noticed of the same
sender, and that its questions stand in the order of sending and are for newer messages
than those it shows. Without the conditions the property is false: leave a screen on
which the first message is answered and the second is not, open it again, and the
new observer asks for the first anew, behind the pending question for the second.

### SessionProofs

`TypeCorrect`; `HomeHasUser`, from `FlagInv`: the flag has to stand for a user through
every sign-in, so the sign-ins that lead home carry it too. `ProfileOfUser` and
`ChosenNameKept` assume one device, and say so in the theorem: with two devices an
old write of the one is resent over the name the other has chosen. `ShownInv` says of
the profile that it is the record with the outstanding changes on top, or that a
read is under way (every way home leaves one behind). `ChosenInv` says of each
outstanding write with another name that one with the chosen name is behind it,
or that nothing has been chosen.

### LevelDBProofs

About any number of calls, crashes, failing calls and tables:
`TypeCorrect`, `TablesKeptTheorem` and `SequenceOnceTheorem`.
`ReplayFacts` says what the recursive `Replay` makes of any logs.

`StructureInv` is the inductive invariant behind the first two:
the queue is the unanswered calls in order, and a group is at its front
(`QueueInv`, `GroupInv`); contents and numbers have their types (`ContentInv`);
`ThreadInv` says, for each place where the background thread releases the mutex,
what it has in its hands; `KeptInv` adds to `TablesKept` the tables an edit is about
to install; `NumbersInv` says that a file number is given out once, across the
manifest on the disk, an edit that is being written and may or may not reach the
disk, and a crash. The case that matters is the failing manifest: the code then
does not know which version is on the disk, and `TablesKept` survives because
`bgError` keeps `DeleteObsoleteFiles` from deleting anything. `Swept` alone would not
keep it.

`SequenceInv` adds the sequence numbers. The record being written has its numbers before
`lastSequence` counts them, so it is set apart (`Fresh`); a failed append may leave a
record in the log that nobody ever counted in memory, and it is the replay, not
the manifest, that counts it again (`SequenceReplayed`).

The second half of the module is about `Store`. `StoreTheorem`: `LevelDB` implements `Store`, for any number of calls, crashes, failing
calls and tables. It rests on `StructureInv` and `SequenceInv`, and on `StoreInv`, which
says where the contents are:

- `CallInv`: every record anybody may find is of calls that were answered, unless it is
  the one on its way; so an error, once told, is about a known record, and what is safe
  cannot be taken back by a late error.
- `WritingInv`: where the record on its way is, by stage; a synced one is in the synced
  part of its log before it goes to the memtable.
- `LoggedInv`: the memtable is in the current log, and the one before it in a log or
  table that recovery reads; conversely every record of a log that recovery may
  still read is in memory or in a table, or was answered with an error. The second half
  is what makes deleting a log, or moving the manifest's log number, harmless.
- `TableInv`: the manifest on the disk has what the version in memory has, and perhaps
  the memtable as well: that is all that is unknown after a failed write of it.
- `EditInv`: an edit replaces tables by others with the same contents, or adds the
  memtable's table.
- `OpeningInv`: between replaying the logs and installing the new manifest, the new
  tables have what the logs had, so a crash in between loses nothing.

`StoreStep` is the induction. The refinement then goes action by action: most steps
are unseen (`Unseen`: readers find the same, and at most more is safe); a call joining
the queue is `Ask`, a synced log, a table on the disk or a new manifest is `Secure`, the
end of a group is `Commit`, a crash is one of the two crashes. `Sought` is the lemma
they share: whatever a recovery may find was asked for, and not lost before.

### CompactionProofs

About `Compaction`, for any number of keys, levels, writes and snapshots; the only
assumption on the constants is that they are numbers and that there is a level below the
first. Neither property is inductive; `CompactionInv` is, and has four parts. TLC
checked it on a small instance before it was proved.

- `DisjointCore`: the tables below level 0 are side by side (`Side`), and so are the
  tables that stay on the level of the outputs and the entries that will be put there.
  The second conjunct is what a flush in the middle of a compaction could break.
  `Connected` prevents it: what `PickCompaction` and `SetupOtherInputs` take leaves no
  gap, so a table that meets none of the inputs is before or after all of them
  (`BesideInputs`). The inputs of a range compaction need not be connected, which is
  why `intruded` is there.
- `AgeInv`: the memtable is newer than every table, and level 0 is in the order of age.
- `OrderInv`, as long as no compaction cut inside a key: of two entries of a key the
  newer is on the higher level, two tables of a level share no key, and what arrived
  in the meantime next to the inputs or below them shares no key with
  them (`TaskOrdered`): `deeper`, the levels below as they were when the compaction
  began, is as good as the levels at its end.
- `Complete`: the tables and the memtable together answer every read like all that was
  ever written. `CompleteInstall` is the argument for dropping: what is dropped is hidden by
  an entry that stays, up to one that is a deletion; and if that deletion
  goes too, nothing older is left of its key (`NothingLeft`), so that both answers are "nothing".

`GetFirst` finishes: the places `Version::Get` looks into hold all that is stored of the key
(`PlaceFound`), and the newer entries first (`PlacesNewer`), so the first place that has one
has the newest. `LevelsTheorem` and `ReadsTheorem` are the results; `PartsProofs` has them for the
specification that is checked, as `LevelsStayApart` and `ReadersFindNewest`.

### PartsProofs

About `PartsSpec`, the specification the run `Parts` checks: a behaviour is that of one part, so an
invariant of a part alone is one of `PartsSpec` under the condition that it is that part.

`Pictures`, for any number of picks, failed calls and kills (`PicturesInv`): the
uploads of a kind stand in the storage once each, in the order they arrived, and
an address that was given out is that of the pick's own upload or of one that
came after it (`AddressInv`). From this follows `MessageOwnPicture`. For
`ProfileHasPicture`, `ProfileInv` adds that as long as no two uploads were under way
together they are stored in the order of the picks, and the record has the address
of the last one that was done.

`SkipList`, for any number of keys, levels, inserts and searches (`SkipInv`;
that there is a level and the others are numbers is assumed of the constants). `ViewInv` is
about every prefix of the inserter's stores, since a reader may be as far
behind as it likes: links lead forward to nodes linked on the lowest level, and
there they pass over none. A new node is linked there by one store. `PendingInv` says
what the inserter has still to do at each step of `Insert`: the node has its own
link before the store that makes it reachable, and afterwards only links of
upper levels are left, which no search relies on to find anything. `PrevIs` is the lemma
about `FindGreaterOrEqual`: walking a level ends at a linked node before the key whose
next one is not before it. `SearchInv` follows a search: it is at a
linked node before its key, and only on the lowest level does it end.
`SearchFinds` is the property.

`SearchList`, for any number of people, records, texts and queries (`PeopleInv`). `ArrayInv` says
exactly what a query has found, whatever the order of the answers: the records the client
knows, that match, and that it does not wait for at either of the two reads; each record
once, because no query waits for the same one at both. `ListInv` says the list of
friends is always the array of some query, and `UsersInv` that the list of
users is the newest query's, whose answer comes last. `ListIsSettled` follows when
nobody waits for anything: then the rows of a person and the records of his that match are
in a bijection (`TimesOf`).

`TableCache`, for any number of tables, any finite number of readers and any capacity but 0
(`TabsInv`). `CacheInv` relates the cache to the number of readers that use an entry:
the hash table and the cached entries point to each other, the references are
those of the readers and one of the cache, and the list has just what is cached
and not in use. It is shown operation by operation of `LRUCache`, for any such
numbers, and only then for the readers. `InsertKeeps` is the one for `Insert`, where
a reader that comes second takes the entry the first is using out of the hash
table, but not from the first. The bound needs a conjunct of its own: more is cached than the
capacity only when all of it is in use, and then it is no more than
there are readers. That there is always a free place for `Opened` follows from the
bound. `TablesStayOpen` is the property.

### LoopProofs

About `PartsSpec` too: the two parts whose loops are recursive functions in the model.

`LogFormat`, for any number of records and any sizes of them, of a header and of a block
that is larger than a header. The writer's loop and the reader's are recursive functions;
that they exist, and what their values satisfy, is `RecursionExists`: a function
whose argument gets smaller can be defined by recursion. From there on the proofs are inductions
over the natural numbers, written as sets that contain 0 and the successor of each member.
`LogInv` says there are places of the fragments in the file, and at most one torn one, such that

- `Laid`: every fragment but the torn one is there as a whole at its place, they follow each
  other, and the last byte of the torn one is nowhere; up to the torn one fragments stay in their
  block, and what lies between two is the trailer of a block;
- `Recorded`: the fragments of a record stand together, a fragment is marked as a first one
  exactly where a record begins, as a last one only where it ends, and there always unless
  the append failed;
- `Ended`: where a record ends in the file, and that the torn fragment is the last of the record
  whose append failed.

`LaidRun` shows that the writer keeps the first, piece by piece, `RecordedMore` and `EndedMore`
the others. After a failure the writer's blocks are no longer the reader's, so `Laid` then promises
only the order. For the reader `PhysicalInv` shows, from the end of the cut file backwards, that
it finds whole fragments only, in their order, that it skips less than a header between two
unless it reports a bad one (`ScanInv`), and that up to the torn fragment it finds all (`AllRead`).
A fragment that it skipped would not fit between the two, since it has a header; so a span from
a first fragment to a last one is all of one record (`SpanIs`), and `LogIsRead` follows.

`DBIterator` with `MergingIterator` below it, for any number of keys and entries, any number
written meanwhile, and any finite number of children; 0, which stands for no child, is none
of them, and the memtable is one. The iterator has three loops over positions, recursive functions
in the model, and that they stop is part of the argument: a position has a rank, the pairs of
a child and an entry that is not before it (`AheadRank`; `BehindRank` backwards), or more than
all of them while the direction is still to change, and every step makes it smaller (`NextTurn`,
`PrevTurn`). `LoopExists` then gives the function, and `LoopEnds` that what every turn keeps
holds where it stops. The entries a snapshot does not see make the merging iterator
inexact, since they may come into the memtable behind a child or in front of it. So it is described as
far as the snapshot can tell: `Onward` and `Homeward` say that the other children are at the
first visible entry after the current one, or at an invisible one before that, and the same
backwards; `MovesOn` and `MovesBack` show that a step keeps this in either direction, with the
new positions of all children after a turn. The loops keep

- `ForthGood`: the newest entry of every live key beyond the one shown is still ahead, and not
  hidden by the key to skip, and visible entries that were passed are of keys up to that;
- `BackGood`: the newest entry of every live key below is saved or still behind, and nothing
  visible lies between what is saved and the current entry.

`IterInv` says that at a valid iterator the entry shown is the first visible one of its key and
no deletion (`Displayed`), at which forward it stands (`Onward`), while backward it stands
between the keys below and the entries of the key shown (`BackAt`): what `Next` needs
when it turns. `EntriesStay` is why writes change nothing. `IteratorShows` is the property.

What the proofs assume of the constants of `Parts` is `CompactionAssumption`,
`SkipListAssumption`, `TableCacheAssumption`, `LogAssumption` and `IteratorAssumption`, each as
above; the constants of the other parts are arbitrary.

Only model-checked, and why:

- All liveness properties, and what rests on `ENABLED`: out of the prover's reach.
- `TableRead` of `SortedTable`: the property says what a search and an iterator return from a table that folds over
  the entries build; the provers have no theorems about folds, and the loops over blocks
  would each need what the loops of `DBIterator` needed.
- The properties the violation runs refute.

## 7. Abstractions

- Texts, time stamps, picture data, and the copies of profiles in requests and
  friends records are left out; a key is what identifies them.
- An observer's event is evaluated on the current server state overlaid with the
  device's own outstanding writes; that the event travels is a delay of the step.
- In `FriendRequests`, several registrations of one observer collapse into one;
  their reactions are idempotent.
- `Kill` is a kill and a restart; in `FriendRequests`, `Messages` and `Conversation`
  with the same user signed in.
- A connection that is replaced is dead for the server: writes of the old one do
  not arrive after those of the new one.
- The rules of the database are not in the repository. A write may be refused at
  any time, within the bound, in `FriendRequests` and `Messages`; `Session` has no
  refused writes.
- Completion of an authentication is one step: the user of Firebase Auth and the
  completion block that force-unwraps it do not come apart.
- In `LevelDB`, a failed append of the log leaves the record or not; one that leaves a
  part of it is in `LogFormat`. Tables and the manifest are synced when they are
  installed, as in the code, so a machine crash cuts logs only.
- In `SortedTable` the place of an entry stands for its offset, the length of a block is
  a choice, and a filter matches the keys it was built from and no others. Only its
  iterator meets blocks that cannot be read; `InternalGet` does not.
- In `LogFormat` an append that fails is one of a fragment. The append of the zeros before it,
  whose status `AddRecord` does not look at (`log_writer.cc:53`), fails only with it: that
  the zeros are missing and the fragment is there does not occur.
- In `Pictures` the property on chats is about uploads without an error, and what is older is
  what was stored earlier, not what was picked earlier.

## 8. Not modelled

- LevelDB: compactions asked for by key range are in `Compaction`, but not in `LevelDB`
  (the client of the Realtime Database does not ask for them); compactions
  triggered by seeks are not in `LevelDB` either, nor are reusing the last log
  (`reuse_logs`, off by default), destroying the database while in use, the
  one-millisecond sleep of a slowed-down writer. A call without a batch comes from
  the range compaction only; as part of another writer's group it is answered
  without a memtable switch, and the model has it.
- The block cache, corrupted bytes, checksums, number encodings, Bloom filters: data
  formats without control of their own.
- Environment, C interface, repair, tools of LevelDB; nanopb: wrappers, code
  nobody in the repository calls, and a codec.
- The lists of requests (`DataService` 130-187): like the list of friends, they keep
  observers for good, and list a person twice whose request was sent again.
- Images in cells: no state but the picture of a cell depends on them.
- Views, value classes, headers of binary frameworks: no behaviour.
- Authentication, transactions, queries and the disk persistence of the Firebase
  client: the first three are external or unused, the last switched off.

The largest part of the C-family lines in `src` are such headers; of the lines
that have behaviour, the Swift of the app and the core of LevelDB are covered.

## 9. Plan

Done: `FriendRequests`, `Courier` and `Messages`, `Conversation`, `Session`, `LevelDB` with
proofs of their safety properties; `Store`, and that `LevelDB` implements it; `Pictures` and
`SkipList`, `SearchList`, `Compaction`, `TableCache`, `LogFormat` and `DBIterator` with proofs;
`SortedTable`.
Left, in this order:

1. Proofs: `SortedTable`, with theorems about folds.
2. `PutQueue`: the client library's queue by itself, with request numbers and
   `putsToAck`, refining the FIFO the modules above assume.
3. The lists of requests, in `SearchList`.
4. `ImageCell`: late images in reused cells, with the cache.
