---------------------------- MODULE Conversation ----------------------------
(***************************************************************************)
(* The chat screen (MessageVC) on top of Messages.  Each time the screen   *)
(* appears, and it appears again when the picture picker on top of it is   *)
(* closed, it registers one more observer on its side of users_messages,   *)
(* with an array of its own.  An observer that notices an entry reads the  *)
(* message; when the answer comes it adds it to its array and makes this   *)
(* array the one on the screen.  The list is redrawn 0.1 s later.          *)
(* Leaving the screen removes none of its observers.  They go on reading   *)
(* until the process ends; what they add is for a screen nobody sees, but  *)
(* a question one of them asked answers the observers of the next screen.  *)
(***************************************************************************)
EXTENDS Messages, Functions

CONSTANTS
  Nobody,       \* no chat screen is open
  MaxAppears    \* bound: appearances of chat screens, all users together

ASSUME ConversationAssumption == Nobody \notin User /\ MaxAppears \in Nat

\* Whom an observer is about, whether its screen was left, the entries it was
\* told of, the messages it waits for, and those it has.
Observer ==
  [peer : User, left : BOOLEAN, noticed : SUBSET Msg, reading : SUBSET Msg, array : Seq(Msg)]

VARIABLES
  chat,         \* chat[u]: whom the open chat screen of u is about
  observers,    \* observers[u]: the observers of the process, oldest first
  asked,        \* asked[u]: messages the server is asked for, each once
                \* however many observers read it
  shown,        \* shown[u]: messagesArray of the screen
  rows,         \* rows[u]: how many rows the list has
  reload,       \* reload[u]: the redraw timer is running
  appears,      \* appearances so far
  losses        \* losses[u]: connections u has lost

screen   == <<chat, observers, asked, shown, rows, reload>>
chatVars == <<vars, screen, appears, losses>>

-----------------------------------------------------------------------------
\* Faulty variant: the new observer goes on with the array on the screen.
SharedArray(u, p) ==
  [peer |-> p, left |-> FALSE, noticed |-> {}, reading |-> {}, array |-> shown[u]]

NewObserver(u, p) ==
  [peer |-> p, left |-> FALSE, noticed |-> {}, reading |-> {}, array |-> <<>>]

ChatInit ==
  /\ Init
  /\ chat = [u \in User |-> Nobody]
  /\ observers = [u \in User |-> <<>>]
  /\ asked = [u \in User |-> <<>>]
  /\ shown = [u \in User |-> <<>>]
  /\ rows = [u \in User |-> 0]
  /\ reload = [u \in User |-> FALSE]
  /\ appears = 0
  /\ losses = [u \in User |-> 0]

\* A friend is tapped on the home screen.
Open(u, p) ==
  /\ u # p /\ chat[u] = Nobody
  /\ appears < MaxAppears
  /\ chat' = [chat EXCEPT ![u] = p]
  /\ observers' = [observers EXCEPT ![u] = Append(@, NewObserver(u, p))]
  /\ appears' = appears + 1
  /\ UNCHANGED <<vars, asked, shown, rows, reload, losses>>

\* The picture picker is closed: the screen appears again.
Reappear(u) ==
  /\ chat[u] # Nobody
  /\ appears < MaxAppears
  /\ observers' = [observers EXCEPT ![u] = Append(@, NewObserver(u, chat[u]))]
  /\ appears' = appears + 1
  /\ UNCHANGED <<vars, chat, asked, shown, rows, reload, losses>>

\* No screen to see: the next one is another object.
Blank(u) ==
  /\ chat' = [chat EXCEPT ![u] = Nobody]
  /\ shown' = [shown EXCEPT ![u] = <<>>]
  /\ rows' = [rows EXCEPT ![u] = 0]
  /\ reload' = [reload EXCEPT ![u] = FALSE]

\* The screen is left.  It is only dismissed: its observers stay, and so do
\* the questions they asked.
Close(u) ==
  /\ chat[u] # Nobody
  /\ Blank(u)
  /\ observers' = [observers EXCEPT ![u] = [i \in DOMAIN @ |-> [@[i] EXCEPT !.left = TRUE]]]
  /\ UNCHANGED <<vars, asked, appears, losses>>

\* A message is written on the open screen.
ChatSend(u) ==
  /\ chat[u] # Nobody
  /\ Send(u, chat[u])
  /\ UNCHANGED <<screen, appears, losses>>

-----------------------------------------------------------------------------
\* The entries u's device has: the server's, and its own outstanding ones.
Visible(u, p) ==
  entries[u][p] \cup { m \in Msg : m.from = u /\ m.to = p /\ OwnPut(m) \in Range(puts[u]) }

(***************************************************************************)
(* Observer i learns of an entry and starts to read the message.  Entries  *)
(* it learns of together come in the order of their keys, which for one    *)
(* sender is the order of sending; the clocks of two devices may differ.   *)
(***************************************************************************)
Notice(u, i) ==
  /\ i \in DOMAIN observers[u]
  /\ LET new == Visible(u, observers[u][i].peer) \ observers[u][i].noticed
     IN  \E m \in new :
           /\ \A l \in new : l.from = m.from => m.n <= l.n
           /\ observers' = [observers EXCEPT ![u][i].noticed = @ \cup {m},
                                             ![u][i].reading = @ \cup {m}]
           /\ asked' = [asked EXCEPT ![u] = IF m \in Range(@) THEN @ ELSE Append(@, m)]
  /\ UNCHANGED <<vars, chat, shown, rows, reload, appears, losses>>

\* Faulty variants: the message goes on top; the array is shown without it.
OnTop(a, m) == <<m>> \o a
Without(a, m) == a

With(a, m) == Append(a, m)

(***************************************************************************)
(* The answer to the oldest question.  Every observer that reads the       *)
(* message adds it to its array, and those of the open screen show the     *)
(* array; the youngest of them comes last.  The redraw timer starts anew.  *)
(* A missing record is passed over.                                        *)
(***************************************************************************)
Read(u) ==
  /\ asked[u] # <<>>
  /\ LET m == Head(asked[u])
         readers == { i \in DOMAIN observers[u] : m \in observers[u][i].reading }
         showing == { i \in readers : ~observers[u][i].left }
         got(i) == [ observers[u][i] EXCEPT
                       !.reading = @ \ {m},
                       !.array   = IF m \in messages THEN With(@, m) ELSE @ ]
     IN  /\ observers' = [observers EXCEPT ![u] =
                            [i \in DOMAIN @ |-> IF i \in readers THEN got(i) ELSE @[i]]]
         /\ IF m \in messages /\ showing # {}
            THEN \E i \in showing :
                   /\ \A j \in showing : j <= i
                   /\ shown' = [shown EXCEPT ![u] = got(i).array]
                   /\ reload' = [reload EXCEPT ![u] = TRUE]
            ELSE UNCHANGED <<shown, reload>>
  /\ asked' = [asked EXCEPT ![u] = Tail(@)]
  /\ UNCHANGED <<vars, chat, rows, appears, losses>>

\* Faulty variant: the list is filled only while it is empty.
ReloadOnce(u) ==
  /\ reload[u]
  /\ rows' = [rows EXCEPT ![u] = IF @ = 0 THEN Len(shown[u]) ELSE @]
  /\ reload' = [reload EXCEPT ![u] = FALSE]
  /\ UNCHANGED <<vars, chat, observers, asked, shown, appears, losses>>

\* The timer fires: the list takes its rows from the array on the screen.
Reload(u) ==
  /\ reload[u]
  /\ rows' = [rows EXCEPT ![u] = Len(shown[u])]
  /\ reload' = [reload EXCEPT ![u] = FALSE]
  /\ UNCHANGED <<vars, chat, observers, asked, shown, appears, losses>>

-----------------------------------------------------------------------------
\* On a new connection the server is asked again, in any order: what a device
\* listens to is kept in a dictionary.
ChatDisconnect(u) ==
  /\ Disconnect(u)
  /\ \E order \in Bijection(DOMAIN asked[u], DOMAIN asked[u]) :
       asked' = [asked EXCEPT ![u] = [i \in DOMAIN @ |-> @[order[i]]]]
  /\ losses' = [losses EXCEPT ![u] = @ + 1]
  /\ UNCHANGED <<chat, observers, shown, rows, reload, appears>>

ChatKill(u) ==
  /\ Kill(u)
  /\ Blank(u)
  /\ observers' = [observers EXCEPT ![u] = <<>>]
  /\ asked' = [asked EXCEPT ![u] = <<>>]
  /\ UNCHANGED <<appears, losses>>

\* The steps of Messages in which the screen takes no part.
Transport(u) ==
  /\ Apply(u) \/ Refuse(u) \/ Ack(u)
  /\ UNCHANGED <<screen, appears, losses>>

ChatNext ==
  \E u \in User :
    \/ \E p \in User : Open(u, p)
    \/ Reappear(u)
    \/ Close(u)
    \/ ChatSend(u)
    \/ \E i \in 1..MaxAppears : Notice(u, i)
    \/ Read(u)
    \/ Reload(u)
    \/ Transport(u)
    \/ ChatDisconnect(u)
    \/ ChatKill(u)

ChatSpec == ChatInit /\ [][ChatNext]_chatVars

ChatFairness ==
  \A u \in User :
    /\ WF_chatVars(Transport(u))
    /\ \A i \in 1..MaxAppears : WF_chatVars(Notice(u, i))
    /\ WF_chatVars(Read(u))
    /\ WF_chatVars(Reload(u))

FairChatSpec == ChatSpec /\ ChatFairness

-----------------------------------------------------------------------------
ChatTypeOK ==
  /\ TypeOK
  /\ chat \in [User -> User \cup {Nobody}]
  /\ observers \in [User -> Seq(Observer)]
  /\ asked \in [User -> Seq(Msg)]
  /\ shown \in [User -> Seq(Msg)]
  /\ rows \in [User -> Nat]
  /\ reload \in [User -> BOOLEAN]
  /\ appears \in 0..MaxAppears
  /\ losses \in [User -> 0..MaxDrops]

(***************************************************************************)
(* No message is on the screen twice, however often the screen appeared    *)
(* and whatever writes were sent again.                                    *)
(***************************************************************************)
ShownOnce == \A u \in User : \A i, j \in DOMAIN shown[u] : shown[u][i] = shown[u][j] => i = j

(***************************************************************************)
(* The early return for a missing record is never taken: what an observer  *)
(* reads is there, be it noticed in the user's own outstanding write.      *)
(***************************************************************************)
ReadingFinds == \A u \in User : Range(asked[u]) \subseteq messages

(***************************************************************************)
(* On the first appearance of a chat in the process and on a connection    *)
(* that held, messages of one sender stand in the order of sending.  Both  *)
(* conditions matter.  A second observer of the chat, of the same screen   *)
(* or of one that was opened after the first was left, asks anew for what  *)
(* the first has, and joins what it still waits for, which then comes      *)
(* first; and a new connection asks in another order.                      *)
(***************************************************************************)
FirstOfChat(u) ==
  \A i, j \in DOMAIN observers[u] :
    (observers[u][i].peer = chat[u] /\ observers[u][j].peer = chat[u]) => i = j

OrderOfSender ==
  \A u \in User :
    (FirstOfChat(u) /\ losses[u] = 0 /\ refusals = 0) =>
      \A i, j \in DOMAIN shown[u] :
        (i < j /\ shown[u][i].from = shown[u][j].from) => shown[u][i].n < shown[u][j].n

\* The list asks for a row only if there is one: messagesArray[indexPath.row].
RowsInBounds == \A u \in User : rows[u] <= Len(shown[u])

(***************************************************************************)
(* A message that stays in users_messages while the recipient, or the      *)
(* sender, keeps the chat open is on that screen for good in the end,      *)
(* although every observer replaces the array on the screen by its own.    *)
(***************************************************************************)
StaysShown(m, u, p) ==
  <>[](chat[u] = p /\ m \in entries[u][p]) => <>[](m \in Range(shown[u]))

EventuallyShown ==
  \A m \in Msg : StaysShown(m, m.to, m.from) /\ StaysShown(m, m.from, m.to)

\* And the list has a row for every message in the end.
EventuallyDrawn == <>[](\A u \in User : rows[u] = Len(shown[u]))
=============================================================================
