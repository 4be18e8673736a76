------------------------------ MODULE Messages ------------------------------
(***************************************************************************)
(* Sending chat messages (MessageVC.handleSend): the record is written     *)
(* under messages, and when the server has taken it an entry is written    *)
(* under the sender's side of users_messages and then one under the        *)
(* recipient's, neither of them followed by anything.  A refused record is *)
(* printed and forgotten; so is, without a word, a refused entry.          *)
(*                                                                         *)
(* The clients are the same FIFOs of outstanding writes as in              *)
(* FriendRequests, but here the answers differ: the completion block of    *)
(* the record does what the server said.                                   *)
(***************************************************************************)
EXTENDS Naturals, Sequences

CONSTANTS
  User,         \* the people, each signed in on one device
  MaxSends,     \* bound: messages, all users together
  MaxDrops,     \* bound: lost connections, all users together
  MaxKills,     \* bound: killed processes, all users together
  MaxRefusals   \* bound: writes the server refuses, all users together

ASSUME BoundsAssumption ==
  /\ MaxSends \in Nat
  /\ MaxDrops \in Nat
  /\ MaxKills \in Nat
  /\ MaxRefusals \in Nat

(***************************************************************************)
(* Messages are numbered as they are sent.  Their keys, which are made by  *)
(* childByAutoId, grow with n on one device; two devices are not compared. *)
(* The text or the picture in a message plays no part.                     *)
(***************************************************************************)
Msg == { m \in [from : User, to : User, n : 1..MaxSends] : m.from # m.to }

Put == [op : {"record", "own", "peer"}, msg : Msg]

VARIABLES
  messages,     \* messages: the ones that have a record
  entries,      \* users_messages/owner/peer: set of messages
  puts,         \* puts[u]: writes of u outstanding, oldest first
  answers,      \* answers[u]: what the server has answered, TRUE or FALSE,
                \* to the first of them, without u knowing yet
  sends,        \* how many messages were sent
  sent,         \* the messages sent, by anybody
  drops, kills, refusals

server  == <<messages, entries>>
queues  == <<puts, answers>>
budgets == <<drops, kills, refusals>>
vars    == <<server, queues, sends, sent, budgets>>

-----------------------------------------------------------------------------
RecordPut(m) == [op |-> "record", msg |-> m]
OwnPut(m)    == [op |-> "own",    msg |-> m]
PeerPut(m)   == [op |-> "peer",   msg |-> m]

Init ==
  /\ messages = {}
  /\ entries = [a \in User |-> [b \in User |-> {}]]
  /\ puts = [u \in User |-> <<>>]
  /\ answers = [u \in User |-> <<>>]
  /\ sends = 0
  /\ sent = {}
  /\ drops = 0 /\ kills = 0 /\ refusals = 0

\* Faulty variant of FirstWrites: the record is not waited for.
WritesAtOnce(m) == <<RecordPut(m), OwnPut(m), PeerPut(m)>>

\* What is written when a message is sent.
FirstWrites(m) == <<RecordPut(m)>>

\* The user sends a message to p.
Send(u, p) ==
  /\ u # p
  /\ sends < MaxSends
  /\ LET m == [from |-> u, to |-> p, n |-> sends + 1]
     IN  /\ puts' = [puts EXCEPT ![u] = @ \o FirstWrites(m)]
         /\ sent' = sent \cup {m}
  /\ sends' = sends + 1
  /\ UNCHANGED <<server, answers, budgets>>

-----------------------------------------------------------------------------
\* The next write of u the server has not answered on this connection.
Sending(u) == puts[u][Len(answers[u]) + 1]

Store(w) ==
  \/ /\ w.op = "record"
     /\ messages' = messages \cup {w.msg}
     /\ UNCHANGED entries
  \/ /\ w.op = "own"
     /\ entries' = [entries EXCEPT ![w.msg.from][w.msg.to] = @ \cup {w.msg}]
     /\ UNCHANGED messages
  \/ /\ w.op = "peer"
     /\ entries' = [entries EXCEPT ![w.msg.to][w.msg.from] = @ \cup {w.msg}]
     /\ UNCHANGED messages

Apply(u) ==
  /\ Len(answers[u]) < Len(puts[u])
  /\ Store(Sending(u))
  /\ answers' = [answers EXCEPT ![u] = Append(@, TRUE)]
  /\ UNCHANGED <<puts, sends, sent, budgets>>

Refuse(u) ==
  /\ Len(answers[u]) < Len(puts[u])
  /\ refusals < MaxRefusals
  /\ answers' = [answers EXCEPT ![u] = Append(@, FALSE)]
  /\ refusals' = refusals + 1
  /\ UNCHANGED <<server, puts, sends, sent, drops, kills>>

\* Faulty variants of Entries: the error is not looked at; the recipient's
\* entry comes first.
EntriesAnyway(w, ok) ==
  IF w.op = "record" THEN <<OwnPut(w.msg), PeerPut(w.msg)>> ELSE <<>>
EntriesSwapped(w, ok) ==
  IF w.op = "record" /\ ok THEN <<PeerPut(w.msg), OwnPut(w.msg)>> ELSE <<>>

\* What the completion block of a write issues.
Entries(w, ok) ==
  IF w.op = "record" /\ ok THEN <<OwnPut(w.msg), PeerPut(w.msg)>> ELSE <<>>

\* u learns the server's answer to its oldest outstanding write.
Ack(u) ==
  /\ answers[u] # <<>>
  /\ puts' = [puts EXCEPT ![u] = Tail(@) \o Entries(Head(@), Head(answers[u]))]
  /\ answers' = [answers EXCEPT ![u] = Tail(@)]
  /\ UNCHANGED <<server, sends, sent, budgets>>

-----------------------------------------------------------------------------
\* Faulty variants of Unanswered: newest first; none.
NewestFirst(q) == [i \in DOMAIN q |-> q[Len(q) + 1 - i]]
Forgotten(q) == <<>>

\* On a new connection all unanswered writes are sent again, oldest first.
Unanswered(q) == q

\* Faulty variant of DropAnswers: they pass for answers on the next one.
KeepAnswers(u) == UNCHANGED answers

\* The answers on the way are lost with the connection.
DropAnswers(u) == answers' = [answers EXCEPT ![u] = <<>>]

\* The connection is lost.
Disconnect(u) ==
  /\ drops < MaxDrops
  /\ puts' = [puts EXCEPT ![u] = Unanswered(@)]
  /\ DropAnswers(u)
  /\ drops' = drops + 1
  /\ UNCHANGED <<server, sends, sent, kills, refusals>>

\* The process is killed and started again, signed in as before.
Kill(u) ==
  /\ kills < MaxKills
  /\ puts' = [puts EXCEPT ![u] = <<>>]
  /\ DropAnswers(u)
  /\ kills' = kills + 1
  /\ UNCHANGED <<server, sends, sent, drops, refusals>>

Next ==
  \E u \in User :
    \/ \E p \in User : Send(u, p)
    \/ Apply(u)
    \/ Refuse(u)
    \/ Ack(u)
    \/ Disconnect(u)
    \/ Kill(u)

Spec == Init /\ [][Next]_vars

\* Connections and run loops make progress; nobody has to send.
Fairness == \A u \in User : WF_vars(Apply(u)) /\ WF_vars(Ack(u))

FairSpec == Spec /\ Fairness

-----------------------------------------------------------------------------
TypeOK ==
  /\ messages \subseteq Msg
  /\ entries \in [User -> [User -> SUBSET Msg]]
  /\ puts \in [User -> Seq(Put)]
  /\ answers \in [User -> Seq(BOOLEAN)]
  /\ \A u \in User : Len(answers[u]) <= Len(puts[u])
  /\ sends \in 0..MaxSends
  /\ sent \subseteq Msg
  /\ drops \in 0..MaxDrops /\ kills \in 0..MaxKills /\ refusals \in 0..MaxRefusals

(***************************************************************************)
(* An entry always leads to a message, so the reader's early return on a   *)
(* missing record never drops one: entries are written only when the       *)
(* server has taken the record.                                            *)
(***************************************************************************)
EntriesLead == \A a, b \in User : entries[a][b] \subseteq messages

(***************************************************************************)
(* The recipient never has a message its sender does not have, as long as  *)
(* no write is refused: interrupted anywhere, the two sides differ only by *)
(* what the recipient still lacks.                                         *)
(***************************************************************************)
SenderHasIt ==
  refusals = 0 => \A a, b \in User : \A m \in entries[a][b] : m \in entries[m.from][m.to]

(***************************************************************************)
(* The transport of messages is a courier: lossy, but without duplicates,  *)
(* inventions or overtaking within what one sender sends to one recipient, *)
(* although writes are resent and every message takes three of them.  This *)
(* needs a server that refuses nothing: an entry that is refused, has the  *)
(* answer lost, and is accepted when it is sent again can be overtaken.    *)
(***************************************************************************)
TheCourier == INSTANCE Courier WITH
  posted <- sent, delivered <- { m \in sent : m \in entries[m.to][m.from] }

IsCourier ==
  /\ TheCourier!Init
  /\ [][refusals' = 0 => TheCourier!Next \/ UNCHANGED TheCourier!vars]_vars

-----------------------------------------------------------------------------
(***************************************************************************)
(* A message that was sent reaches both sides, however often connections   *)
(* are lost, unless a process is killed or a write refused.                *)
(***************************************************************************)
MessageArrives ==
  \A m \in Msg :
    m \in sent ~> \/ m \in entries[m.from][m.to] /\ m \in entries[m.to][m.from]
                 \/ kills > 0 \/ refusals > 0
=============================================================================
