------------------------------- MODULE Pictures -------------------------------
(***************************************************************************)
(* Pictures a user picks for a chat (MessageVC) or as the profile's        *)
(* (SettingsVC).                                                           *)
(*                                                                         *)
(* All of one kind go to the same path of the storage.  An upload that     *)
(* ended, well or not, asks for the address of what is stored there by     *)
(* then; the address goes into a message, or into the user's record.  The  *)
(* storage gives every upload an address of its own, and the address of    *)
(* what it replaced is dead: addresses are named by the pick that was      *)
(* uploaded.  What happens to a message once it is written is the subject  *)
(* of module Messages, and what of a write to the record that of Session.  *)
(***************************************************************************)
EXTENDS Naturals, Sequences, SequencesExt

CONSTANTS
  MaxPicks,     \* pictures picked
  MaxFaults     \* failed requests, and kills of the process

Kind == {"chat", "profile"}
None == 0

VARIABLES
  task,       \* task[n]: how far the upload of pick n is
  stored,     \* storage: stored[k] are the uploads of kind k, in order
  message,    \* database: the address in the message of pick n, or None
  record,     \* database: the address in the user's record
  together,   \* two uploads for the profile were under way at once
  failed      \* how many requests failed, and kills

vars == <<task, stored, message, record, together, failed>>

Pick == DOMAIN task
UnderWay(n) == task[n].step \notin {"done", "lost"}
Stored(n) == n \in ToSet(stored[task[n].kind])

Init ==
  /\ task = <<>> /\ message = <<>>
  /\ stored = [k \in Kind |-> <<>>] /\ record = None
  /\ together = FALSE /\ failed = 0

\* Faulty variant: the address is asked for while the picture is uploaded.
AskAtOnce(k) == [kind |-> k, step |-> "asked", address |-> None, error |-> FALSE]

\* uploadToStorageUsingImage, uploadNewUserImageIntoDB: putData.
Upload(k) == [kind |-> k, step |-> "put", address |-> None, error |-> FALSE]

\* The picker is done.  Another upload may still be under way.
PickImage(k) ==
  /\ Len(task) < MaxPicks
  /\ task' = Append(task, Upload(k))
  /\ message' = Append(message, None)
  /\ together' = (together \/ (k = "profile" /\ \E n \in Pick :
                                 task[n].kind = "profile" /\ UnderWay(n)))
  /\ UNCHANGED <<stored, record, failed>>

\* The storage has the picture, in the place of what was there.  It may get
\* it after the request has failed, or after the process is gone.
Store(n) ==
  /\ ~Stored(n)
  /\ stored' = [stored EXCEPT ![task[n].kind] = Append(@, n)]
  /\ UNCHANGED <<task, message, record, together, failed>>

\* The completion of putData: it asks for the address.
PutDone(n) ==
  /\ task[n].step = "put" /\ Stored(n)
  /\ task' = [task EXCEPT ![n].step = "asked"]
  /\ UNCHANGED <<stored, message, record, together, failed>>

\* After an error, it asks all the same.
PutFails(n) ==
  /\ task[n].step = "put" /\ failed < MaxFaults
  /\ failed' = failed + 1
  /\ task' = [task EXCEPT ![n].step = "asked", ![n].error = TRUE]
  /\ UNCHANGED <<stored, message, record, together>>

\* The storage answers with the address of what it has now.
AddressRead(n) ==
  /\ task[n].step = "asked" /\ stored[task[n].kind] # <<>>
  /\ task' = [task EXCEPT ![n].step = "answered", ![n].address = Last(stored[task[n].kind])]
  /\ UNCHANGED <<stored, message, record, together, failed>>

\* There is nothing, or the request fails: that is the end of it.
NoAddress(n) ==
  /\ task[n].step = "asked"
  /\ \/ stored[task[n].kind] = <<>> /\ UNCHANGED failed
     \/ failed < MaxFaults /\ failed' = failed + 1
  /\ task' = [task EXCEPT ![n].step = "lost"]
  /\ UNCHANGED <<stored, message, record, together>>

\* handleSend with the address that came.
HandleSend(n) == message' = [message EXCEPT ![n] = task[n].address] /\ UNCHANGED record

\* Faulty variant: the record keeps a picture it has.
UpdateOnce(n) ==
  /\ record' = IF record = None THEN task[n].address ELSE record
  /\ UNCHANGED message

\* updateUserIntoDatabaseWithUID with the address that came.
UpdateRecord(n) == record' = task[n].address /\ UNCHANGED message

\* The completion of downloadURL.
Finish(n) ==
  /\ task[n].step = "answered"
  /\ IF task[n].kind = "chat" THEN HandleSend(n) ELSE UpdateRecord(n)
  /\ task' = [task EXCEPT ![n].step = "done"]
  /\ UNCHANGED <<stored, together, failed>>

\* The process is killed, and the completions with it.
Kill ==
  /\ failed < MaxFaults /\ \E n \in Pick : UnderWay(n)
  /\ failed' = failed + 1
  /\ task' = [n \in Pick |-> IF UnderWay(n) THEN [task[n] EXCEPT !.step = "lost"] ELSE task[n]]
  /\ UNCHANGED <<stored, message, record, together>>

Next ==
  \/ \E k \in Kind : PickImage(k)
  \/ \E n \in Pick :
       Store(n) \/ PutDone(n) \/ PutFails(n) \/ AddressRead(n) \/ NoAddress(n) \/ Finish(n)
  \/ Kill

Spec == Init /\ [][Next]_vars

-----------------------------------------------------------------------------
TypeOK ==
  /\ \A n \in Pick : /\ task[n].kind \in Kind
                     /\ task[n].step \in {"put", "asked", "answered", "done", "lost"}
                     /\ task[n].address \in Pick \cup {None}
  /\ DOMAIN message = Pick
  /\ \A k \in Kind : IsInjective(stored[k])

(***************************************************************************)
(* A message is never written with the address of an older picture than    *)
(* its own, if its own was uploaded without an error: older is what was    *)
(* stored before.  It may be a newer one: of two pictures sent in quick    *)
(* succession both messages may get the second.  After an error the        *)
(* message gets whatever was there before.                                 *)
(***************************************************************************)
At(k, n) == CHOOSE i \in DOMAIN stored[k] : stored[k][i] = n

NoOlderPicture ==
  \A n \in Pick : message[n] # None /\ ~task[n].error =>
    Stored(n) /\ At("chat", message[n]) >= At("chat", n)

(***************************************************************************)
(* Pictures picked for the profile one after the other, each when the last *)
(* was done, leave the record with the address of what is stored: it is    *)
(* not dead, whatever happens to pictures of chats.  Two at once may leave *)
(* it with the dead address of the first.                                  *)
(***************************************************************************)
ProfileAlive ==
  (~together /\ \A n \in Pick : task[n].kind = "profile" => task[n].step = "done" /\ ~task[n].error) =>
    \/ stored["profile"] = <<>>
    \/ record = Last(stored["profile"])
=============================================================================
