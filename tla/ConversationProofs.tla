------------------------- MODULE ConversationProofs -------------------------
(***************************************************************************)
(* Proofs about Messages and about Conversation, for any set of users and  *)
(* any bounds.                                                             *)
(***************************************************************************)
EXTENDS Conversation, SequenceTheorems, TLAPS

-----------------------------------------------------------------------------
(***************************************************************************)
(* Messages.                                                               *)
(***************************************************************************)
LEMMA Lengths ==
  ASSUME TypeOK, NEW u \in User
  PROVE  /\ puts[u] \in Seq(Put) /\ answers[u] \in Seq(BOOLEAN)
         /\ Len(puts[u]) \in Nat /\ Len(answers[u]) \in Nat
         /\ Len(answers[u]) <= Len(puts[u])
         /\ \A i \in 1..Len(puts[u]) : puts[u][i] \in Put
         /\ \A i \in 1..Len(answers[u]) : answers[u][i] \in BOOLEAN
  <1>1. puts[u] \in Seq(Put) /\ answers[u] \in Seq(BOOLEAN) /\ Len(answers[u]) <= Len(puts[u])
    BY DEF TypeOK
  <1> QED
    BY <1>1, LenProperties, ElementOfSeq

\* A write of a message is a write.
LEMMA PutTypes ==
  ASSUME NEW m \in Msg
  PROVE  /\ m.from \in User /\ m.to \in User /\ m.from # m.to /\ m.n \in 1..MaxSends
         /\ RecordPut(m) \in Put /\ OwnPut(m) \in Put /\ PeerPut(m) \in Put
         /\ RecordPut(m).op = "record" /\ RecordPut(m).msg = m
         /\ OwnPut(m).op = "own" /\ OwnPut(m).msg = m
         /\ PeerPut(m).op = "peer" /\ PeerPut(m).msg = m
  BY DEF Msg, Put, RecordPut, OwnPut, PeerPut

LEMMA PutParts ==
  ASSUME NEW w \in Put
  PROVE  /\ w.msg \in Msg /\ w.op \in {"record", "own", "peer"}
         /\ w.msg.from \in User /\ w.msg.to \in User
         /\ w.op = "own" => w = OwnPut(w.msg)
  BY DEF Put, Msg, OwnPut

\* Writing one message adds its record at the end of one queue.
LEMMA SendShape ==
  ASSUME TypeOK, NEW u \in User, NEW p \in User, Send(u, p)
  PROVE  \E m \in Msg :
           /\ m = [from |-> u, to |-> p, n |-> sends + 1]
           /\ sent' = sent \cup {m} /\ sends' = sends + 1 /\ sends < MaxSends
           /\ puts' \in [User -> Seq(Put)]
           /\ Len(puts'[u]) = Len(puts[u]) + 1
           /\ \A i \in 1..Len(puts[u]) : puts'[u][i] = puts[u][i]
           /\ puts'[u][Len(puts[u]) + 1] = RecordPut(m)
           /\ \A v \in User \ {u} : puts'[v] = puts[v]
  <1>1. sends \in Nat /\ sends < MaxSends /\ sends + 1 \in 1..MaxSends
    BY BoundsAssumption DEF TypeOK, Send
  <1> DEFINE m == [from |-> u, to |-> p, n |-> sends + 1]
  <1>2. m \in Msg
    BY <1>1 DEF Msg, Send
  <1>3. FirstWrites(m) = <<RecordPut(m)>>
    BY DEF FirstWrites
  <1>4. puts' = [puts EXCEPT ![u] = puts[u] \o <<RecordPut(m)>>] /\ sent' = sent \cup {m}
    BY <1>3 DEF Send
  <1>5. puts[u] \in Seq(Put) /\ puts \in [User -> Seq(Put)] /\ Len(puts[u]) \in Nat
    BY Lengths DEF TypeOK
  <1>6. RecordPut(m) \in Put /\ <<RecordPut(m)>> \in Seq(Put) /\ Len(<<RecordPut(m)>>) = 1
        /\ <<RecordPut(m)>>[1] = RecordPut(m)
    BY <1>2, PutTypes
  <1>7. PICK r \in Seq(Put) : r = <<RecordPut(m)>>
    BY <1>6, Zenon
  <1>8. /\ puts[u] \o r \in Seq(Put)
        /\ Len(puts[u] \o r) = Len(puts[u]) + Len(r)
        /\ \A i \in 1..Len(puts[u]) + Len(r) :
             (puts[u] \o r)[i] = IF i <= Len(puts[u]) THEN puts[u][i] ELSE r[i - Len(puts[u])]
    BY <1>5, ConcatProperties
  <1>9. Len(r) = 1 /\ r[1] = RecordPut(m)
    BY <1>6, <1>7
  <1>10. \A i \in 1..Len(puts[u]) : (puts[u] \o r)[i] = puts[u][i]
    BY <1>5, <1>8, <1>9
  <1>11. (puts[u] \o r)[Len(puts[u]) + 1] = RecordPut(m)
    BY <1>5, <1>8, <1>9
  <1>12. puts' = [puts EXCEPT ![u] = puts[u] \o r]
    BY <1>4, <1>7
  <1>13. puts' \in [User -> Seq(Put)] /\ puts'[u] = puts[u] \o r
         /\ \A v \in User \ {u} : puts'[v] = puts[v]
    BY <1>5, <1>8, <1>12
  <1>14. sends' = sends + 1
    BY DEF Send
  <1> QED
    BY <1>1, <1>2, <1>4, <1>8, <1>9, <1>10, <1>11, <1>13, <1>14

\* The oldest write and its answer go, and the completion block adds r.
Answered(u, r) ==
  /\ Len(puts'[u]) = Len(puts[u]) - 1 + Len(r)
  /\ \A i \in 1..(Len(puts[u]) - 1) : puts'[u][i] = puts[u][i + 1]
  /\ \A i \in 1..Len(r) : puts'[u][Len(puts[u]) - 1 + i] = r[i]

LEMMA AckShape ==
  ASSUME TypeOK, NEW u \in User, Ack(u)
  PROVE  /\ puts' \in [User -> Seq(Put)] /\ answers' \in [User -> Seq(BOOLEAN)]
         /\ Len(answers[u]) >= 1 /\ Len(puts[u]) >= 1
         /\ Len(answers'[u]) = Len(answers[u]) - 1
         /\ \A i \in 1..(Len(answers[u]) - 1) : answers'[u][i] = answers[u][i + 1]
         /\ \A v \in User \ {u} : puts'[v] = puts[v] /\ answers'[v] = answers[v]
         /\ \/ /\ puts[u][1].op = "record" /\ answers[u][1]
               /\ Answered(u, <<OwnPut(puts[u][1].msg), PeerPut(puts[u][1].msg)>>)
            \/ /\ ~ (puts[u][1].op = "record" /\ answers[u][1])
               /\ Answered(u, <<>>)
  <1>1. /\ puts \in [User -> Seq(Put)] /\ answers \in [User -> Seq(BOOLEAN)]
        /\ puts[u] \in Seq(Put) /\ answers[u] \in Seq(BOOLEAN)
        /\ Len(puts[u]) \in Nat /\ Len(answers[u]) \in Nat
        /\ Len(answers[u]) <= Len(puts[u]) /\ answers[u] # <<>>
    BY Lengths DEF TypeOK, Ack
  <1>2. Len(answers[u]) >= 1 /\ Len(puts[u]) >= 1 /\ puts[u] # <<>>
    BY <1>1, EmptySeq
  <1>3. /\ Head(answers[u]) = answers[u][1] /\ Tail(answers[u]) \in Seq(BOOLEAN)
        /\ Len(Tail(answers[u])) = Len(answers[u]) - 1
        /\ \A i \in 1..(Len(answers[u]) - 1) : Tail(answers[u])[i] = answers[u][i + 1]
    BY <1>1, HeadTailProperties
  <1>4. /\ Head(puts[u]) = puts[u][1] /\ Head(puts[u]) \in Put
        /\ Tail(puts[u]) \in Seq(Put)
        /\ Len(Tail(puts[u])) = Len(puts[u]) - 1
        /\ \A i \in 1..(Len(puts[u]) - 1) : Tail(puts[u])[i] = puts[u][i + 1]
    BY <1>1, <1>2, HeadTailProperties
  <1>5. answers' = [answers EXCEPT ![u] = Tail(answers[u])]
    BY DEF Ack
  <1>6. /\ answers' \in [User -> Seq(BOOLEAN)] /\ answers'[u] = Tail(answers[u])
        /\ \A v \in User \ {u} : answers'[v] = answers[v]
    BY <1>1, <1>3, <1>5
  <1>7. PICK w \in Put : w = puts[u][1]
    BY <1>4
  <1> DEFINE both == <<OwnPut(w.msg), PeerPut(w.msg)>>
  <1>8. both \in Seq(Put) /\ Len(both) = 2 /\ <<>> \in Seq(Put)
    BY PutParts, PutTypes
  <1>9. PICK r \in Seq(Put) :
          \/ w.op = "record" /\ answers[u][1] /\ r = both
          \/ ~ (w.op = "record" /\ answers[u][1]) /\ r = <<>>
    BY <1>8, Zenon
  <1>10. Entries(w, answers[u][1]) = r
    BY <1>9 DEF Entries
  <1>11. puts' = [puts EXCEPT ![u] = Tail(puts[u]) \o r]
    BY <1>3, <1>4, <1>7, <1>10 DEF Ack
  <1> DEFINE t == Tail(puts[u])
  <1>12. /\ t \o r \in Seq(Put)
         /\ Len(t \o r) = Len(t) + Len(r)
         /\ \A i \in 1..Len(t) + Len(r) :
              (t \o r)[i] = IF i <= Len(t) THEN t[i] ELSE r[i - Len(t)]
    BY <1>4, ConcatProperties
  <1>13. Len(r) \in Nat
    BY LenProperties
  <1>14. \A i \in 1..Len(t) : (t \o r)[i] = t[i]
    BY <1>1, <1>2, <1>4, <1>12, <1>13
  <1>15. \A i \in 1..Len(r) : (t \o r)[Len(t) + i] = r[i]
    BY <1>1, <1>2, <1>4, <1>12, <1>13
  <1>16. /\ puts' \in [User -> Seq(Put)] /\ puts'[u] = t \o r
         /\ \A v \in User \ {u} : puts'[v] = puts[v]
    BY <1>1, <1>11, <1>12
  <1>17. Answered(u, r)
    BY <1>1, <1>2, <1>4, <1>12, <1>14, <1>15, <1>16 DEF Answered
  <1>18. \/ w.op = "record" /\ answers[u][1] /\ Answered(u, both)
         \/ ~ (w.op = "record" /\ answers[u][1]) /\ Answered(u, <<>>)
    BY <1>9, <1>17, Zenon
  <1> QED
    BY <1>2, <1>3, <1>6, <1>7, <1>16, <1>18

\* The server answers the next write of u: an answer is added.
LEMMA AnswerAdded ==
  ASSUME TypeOK, NEW u \in User, NEW b \in BOOLEAN, Len(answers[u]) < Len(puts[u]),
         answers' = [answers EXCEPT ![u] = Append(@, b)]
  PROVE  /\ answers' \in [User -> Seq(BOOLEAN)]
         /\ Len(answers'[u]) = Len(answers[u]) + 1
         /\ \A i \in 1..Len(answers[u]) : answers'[u][i] = answers[u][i]
         /\ answers'[u][Len(answers[u]) + 1] = b
         /\ \A v \in User \ {u} : answers'[v] = answers[v]
         /\ Len(answers[u]) + 1 \in 1..Len(puts[u])
         /\ Sending(u) = puts[u][Len(answers[u]) + 1] /\ Sending(u) \in Put
  <1>1. /\ answers \in [User -> Seq(BOOLEAN)] /\ answers[u] \in Seq(BOOLEAN)
        /\ Len(puts[u]) \in Nat /\ Len(answers[u]) \in Nat
        /\ \A i \in 1..Len(puts[u]) : puts[u][i] \in Put
    BY Lengths DEF TypeOK
  <1>2. /\ Append(answers[u], b) \in Seq(BOOLEAN)
        /\ Len(Append(answers[u], b)) = Len(answers[u]) + 1
        /\ \A i \in 1..Len(answers[u]) : Append(answers[u], b)[i] = answers[u][i]
        /\ Append(answers[u], b)[Len(answers[u]) + 1] = b
    BY <1>1, AppendProperties
  <1>3. /\ answers' \in [User -> Seq(BOOLEAN)] /\ answers'[u] = Append(answers[u], b)
        /\ \A v \in User \ {u} : answers'[v] = answers[v]
    BY <1>1, <1>2
  <1>4. Len(answers[u]) + 1 \in 1..Len(puts[u])
    BY <1>1
  <1>5. Sending(u) = puts[u][Len(answers[u]) + 1]
    BY DEF Sending
  <1> QED
    BY <1>1, <1>2, <1>3, <1>4, <1>5

EntryType == [User -> [User -> SUBSET Msg]]

\* F is E with m added to the entry of c for d.
EntryAdded(E, F, c, d, m) == F = [E EXCEPT ![c][d] = @ \cup {m}]

EntryGrown(E, F, c, d, m) ==
  /\ F \in EntryType
  /\ \A a, b \in User : F[a][b] = IF a = c /\ b = d THEN E[a][b] \cup {m} ELSE E[a][b]

LEMMA EntryAdds ==
  ASSUME NEW E \in EntryType, NEW F,
         NEW c \in User, NEW d \in User, NEW m \in Msg, EntryAdded(E, F, c, d, m)
  PROVE  EntryGrown(E, F, c, d, m)
  BY DEF EntryAdded, EntryGrown, EntryType

\* What the server stores.
LEMMA StoreShape ==
  ASSUME TypeOK, NEW w \in Put, Store(w)
  PROVE  LET m == w.msg IN
         /\ messages' = (IF w.op = "record" THEN messages \cup {m} ELSE messages)
         /\ messages' \subseteq Msg /\ entries' \in [User -> [User -> SUBSET Msg]]
         /\ \A a, b \in User :
              entries'[a][b] =
                IF \/ w.op = "own" /\ a = m.from /\ b = m.to
                   \/ w.op = "peer" /\ a = m.to /\ b = m.from
                THEN entries[a][b] \cup {m} ELSE entries[a][b]
  <1>1. /\ w.msg \in Msg /\ w.op \in {"record", "own", "peer"}
        /\ w.msg.from \in User /\ w.msg.to \in User
    BY PutParts
  <1>2. entries \in [User -> [User -> SUBSET Msg]] /\ messages \subseteq Msg
    BY DEF TypeOK
  <1>3. CASE w.op = "record"
    BY <1>1, <1>2, <1>3 DEF Store
  <1>4. PICK E, F, m : E = entries /\ F = entries' /\ m = w.msg /\ m \in Msg
    BY <1>1
  <1>5. CASE w.op = "own"
    <2>1. messages' = messages /\ entries' = [entries EXCEPT ![w.msg.from][w.msg.to] = @ \cup {w.msg}]
      BY <1>5 DEF Store
    <2>2. EntryAdded(entries, entries', w.msg.from, w.msg.to, w.msg)
      BY <2>1 DEF EntryAdded
    <2>3. PICK c \in User, d \in User :
            c = w.msg.from /\ d = w.msg.to /\ EntryAdded(E, F, c, d, m)
      BY <1>1, <1>4, <2>2
    <2>4. EntryGrown(E, F, c, d, m)
      <3>1. E \in EntryType
        BY <1>2, <1>4 DEF EntryType
      <3> QED
        BY <1>4, <2>3, <3>1, EntryAdds
    <2>5. messages' = messages /\ messages' \subseteq Msg
      BY <1>2, <2>1
    <2> QED
      BY <1>4, <1>5, <2>3, <2>4, <2>5 DEF EntryGrown, EntryType
  <1>6. CASE w.op = "peer"
    <2>1. messages' = messages /\ entries' = [entries EXCEPT ![w.msg.to][w.msg.from] = @ \cup {w.msg}]
      BY <1>6 DEF Store
    <2>2. EntryAdded(entries, entries', w.msg.to, w.msg.from, w.msg)
      BY <2>1 DEF EntryAdded
    <2>3. PICK c \in User, d \in User :
            c = w.msg.to /\ d = w.msg.from /\ EntryAdded(E, F, c, d, m)
      BY <1>1, <1>4, <2>2
    <2>4. EntryGrown(E, F, c, d, m)
      <3>1. E \in EntryType
        BY <1>2, <1>4 DEF EntryType
      <3> QED
        BY <1>4, <2>3, <3>1, EntryAdds
    <2>5. messages' = messages /\ messages' \subseteq Msg
      BY <1>2, <2>1
    <2> QED
      BY <1>4, <1>6, <2>3, <2>4, <2>5 DEF EntryGrown, EntryType
  <1> QED
    BY <1>1, <1>3, <1>5, <1>6

\* A lost connection leaves the queue as it is, without answers; a kill empties
\* it.
LEMMA LossShape ==
  ASSUME TypeOK, NEW u \in User, Disconnect(u) \/ Kill(u)
  PROVE  /\ puts' \in [User -> Seq(Put)] /\ answers' \in [User -> Seq(BOOLEAN)]
         /\ Len(answers'[u]) = 0
         /\ puts'[u] = puts[u] \/ Len(puts'[u]) = 0
         /\ \A v \in User \ {u} : puts'[v] = puts[v] /\ answers'[v] = answers[v]
         /\ UNCHANGED <<server, sends, sent, refusals>>
         /\ drops' \in 0..MaxDrops /\ kills' \in 0..MaxKills
  <1>1. puts \in [User -> Seq(Put)] /\ answers \in [User -> Seq(BOOLEAN)] /\ puts[u] \in Seq(Put)
        /\ drops \in 0..MaxDrops /\ kills \in 0..MaxKills
    BY DEF TypeOK
  <1>2. /\ Len(<<>>) = 0
        /\ \A S : <<>> \in Seq(S)
    BY EmptySeq
  <1>3. answers' = [answers EXCEPT ![u] = <<>>]
    BY DEF Disconnect, Kill, DropAnswers
  <1>4. /\ answers' \in [User -> Seq(BOOLEAN)] /\ Len(answers'[u]) = 0
        /\ \A v \in User \ {u} : answers'[v] = answers[v]
    BY <1>1, <1>2, <1>3
  <1>5. CASE Disconnect(u)
    <2>1. /\ puts' = [puts EXCEPT ![u] = puts[u]] /\ drops < MaxDrops /\ drops' = drops + 1
          /\ UNCHANGED <<server, sends, sent, kills, refusals>>
      BY <1>5 DEF Disconnect, Unanswered
    <2>2. puts' = puts
      BY <1>1, <2>1
    <2>3. drops' \in 0..MaxDrops /\ kills' \in 0..MaxKills
      BY <1>1, <2>1, BoundsAssumption
    <2>4. UNCHANGED <<server, sends, sent, refusals>>
      BY <2>1 DEF server
    <2> QED
      BY <1>1, <1>4, <2>2, <2>3, <2>4
  <1>6. CASE Kill(u)
    <2>1. /\ puts' = [puts EXCEPT ![u] = <<>>] /\ kills < MaxKills /\ kills' = kills + 1
          /\ UNCHANGED <<server, sends, sent, drops, refusals>>
      BY <1>6 DEF Kill
    <2>2. puts' \in [User -> Seq(Put)] /\ Len(puts'[u]) = 0 /\ \A v \in User \ {u} : puts'[v] = puts[v]
      BY <1>1, <1>2, <2>1
    <2>3. drops' \in 0..MaxDrops /\ kills' \in 0..MaxKills
      BY <1>1, <2>1, BoundsAssumption
    <2>4. UNCHANGED <<server, sends, sent, refusals>>
      BY <2>1 DEF server
    <2> QED
      BY <1>4, <2>2, <2>3, <2>4
  <1> QED
    BY <1>5, <1>6

-----------------------------------------------------------------------------
(***************************************************************************)
(* Type correctness.                                                       *)
(***************************************************************************)
LEMMA TypeOKInit == ASSUME Init PROVE TypeOK
  <1>1. /\ Len(<<>>) = 0
        /\ \A S : <<>> \in Seq(S)
    BY EmptySeq
  <1>2. /\ puts \in [User -> Seq(Put)] /\ answers \in [User -> Seq(BOOLEAN)]
        /\ \A u \in User : Len(answers[u]) <= Len(puts[u])
    BY <1>1 DEF Init
  <1>3. entries \in [User -> [User -> SUBSET Msg]]
    BY DEF Init
  <1> QED
    BY <1>2, <1>3, BoundsAssumption DEF Init, TypeOK

LEMMA TypeOKStep == ASSUME TypeOK, [Next]_vars PROVE TypeOK'
  <1>0. /\ messages \subseteq Msg /\ entries \in [User -> [User -> SUBSET Msg]]
        /\ puts \in [User -> Seq(Put)] /\ answers \in [User -> Seq(BOOLEAN)]
        /\ \A u \in User : Len(answers[u]) <= Len(puts[u])
        /\ sends \in 0..MaxSends /\ sent \subseteq Msg
        /\ drops \in 0..MaxDrops /\ kills \in 0..MaxKills /\ refusals \in 0..MaxRefusals
    BY DEF TypeOK
  <1>1. ASSUME NEW u \in User, NEW p \in User, Send(u, p) PROVE TypeOK'
    <2>1. PICK m \in Msg :
            /\ sent' = sent \cup {m} /\ sends' = sends + 1 /\ sends < MaxSends
            /\ puts' \in [User -> Seq(Put)]
            /\ Len(puts'[u]) = Len(puts[u]) + 1
            /\ \A v \in User \ {u} : puts'[v] = puts[v]
      BY <1>1, SendShape
    <2>2. UNCHANGED <<messages, entries, answers, drops, kills, refusals>>
      BY <1>1 DEF Send, server, budgets
    <2>3. sends' \in 0..MaxSends /\ sent' \subseteq Msg
      BY <1>0, <2>1, BoundsAssumption
    <2>4. ASSUME NEW v \in User PROVE Len(answers'[v]) <= Len(puts'[v])
      <3>1. Len(answers[u]) \in Nat /\ Len(puts[u]) \in Nat
        BY Lengths
      <3>2. CASE v = u
        BY <1>0, <2>1, <2>2, <3>1, <3>2
      <3> QED
        BY <1>0, <2>1, <2>2, <3>2
    <2> QED
      BY <1>0, <2>1, <2>2, <2>3, <2>4 DEF TypeOK
  <1>2. ASSUME NEW u \in User, Apply(u) PROVE TypeOK'
    <2>1. /\ Len(answers[u]) < Len(puts[u]) /\ Store(Sending(u))
          /\ answers' = [answers EXCEPT ![u] = Append(@, TRUE)]
          /\ UNCHANGED <<puts, sends, sent, drops, kills, refusals>>
      BY <1>2 DEF Apply, budgets
    <2>2. /\ answers' \in [User -> Seq(BOOLEAN)]
          /\ Len(answers'[u]) = Len(answers[u]) + 1
          /\ \A v \in User \ {u} : answers'[v] = answers[v]
          /\ Sending(u) \in Put
      BY <2>1, AnswerAdded
    <2>3. messages' \subseteq Msg /\ entries' \in [User -> [User -> SUBSET Msg]]
      BY <2>1, <2>2, StoreShape
    <2>4. ASSUME NEW v \in User PROVE Len(answers'[v]) <= Len(puts'[v])
      BY <1>0, <2>1, <2>2, Lengths
    <2> QED
      BY <1>0, <2>1, <2>2, <2>3, <2>4 DEF TypeOK
  <1>3. ASSUME NEW u \in User, Refuse(u) PROVE TypeOK'
    <2>1. /\ Len(answers[u]) < Len(puts[u]) /\ refusals < MaxRefusals
          /\ answers' = [answers EXCEPT ![u] = Append(@, FALSE)]
          /\ refusals' = refusals + 1
          /\ UNCHANGED <<messages, entries, puts, sends, sent, drops, kills>>
      BY <1>3 DEF Refuse, server
    <2>2. /\ answers' \in [User -> Seq(BOOLEAN)]
          /\ Len(answers'[u]) = Len(answers[u]) + 1
          /\ \A v \in User \ {u} : answers'[v] = answers[v]
      BY <2>1, AnswerAdded
    <2>3. refusals' \in 0..MaxRefusals
      BY <1>0, <2>1, BoundsAssumption
    <2>4. ASSUME NEW v \in User PROVE Len(answers'[v]) <= Len(puts'[v])
      BY <1>0, <2>1, <2>2, Lengths
    <2> QED
      BY <1>0, <2>1, <2>2, <2>3, <2>4 DEF TypeOK
  <1>4. ASSUME NEW u \in User, Ack(u) PROVE TypeOK'
    <2>1. /\ puts' \in [User -> Seq(Put)] /\ answers' \in [User -> Seq(BOOLEAN)]
          /\ Len(answers'[u]) = Len(answers[u]) - 1
          /\ \A v \in User \ {u} : puts'[v] = puts[v] /\ answers'[v] = answers[v]
      BY <1>4, AckShape
    <2>2. Len(puts'[u]) >= Len(puts[u]) - 1
      <3>1. Len(puts[u]) \in Nat
        BY Lengths
      <3> DEFINE w == puts[u][1]
      <3>2. CASE Answered(u, <<OwnPut(w.msg), PeerPut(w.msg)>>)
        <4>1. Len(<<OwnPut(w.msg), PeerPut(w.msg)>>) = 2
          OBVIOUS
        <4>2. Len(puts'[u]) = Len(puts[u]) - 1 + 2
          BY <3>2, <4>1 DEF Answered
        <4> QED
          BY <3>1, <4>2
      <3>3. CASE Answered(u, <<>>)
        <4>1. Len(puts'[u]) = Len(puts[u]) - 1 + 0
          BY <3>3, EmptySeq DEF Answered
        <4> QED
          BY <3>1, <4>1
      <3> QED
        BY <1>4, AckShape, <3>2, <3>3
    <2>3. UNCHANGED <<messages, entries, sends, sent, drops, kills, refusals>>
      BY <1>4 DEF Ack, server, budgets
    <2>4. ASSUME NEW v \in User PROVE Len(answers'[v]) <= Len(puts'[v])
      <3>1. CASE v = u
        <4>1. Len(answers[u]) \in Nat /\ Len(puts[u]) \in Nat /\ Len(puts'[u]) \in Nat
          BY Lengths, <2>1, LenProperties
        <4> QED
          BY <1>0, <2>1, <2>2, <3>1, <4>1
      <3> QED
        BY <1>0, <2>1, <3>1
    <2> QED
      BY <1>0, <2>1, <2>3, <2>4 DEF TypeOK
  <1>5. ASSUME NEW u \in User, Disconnect(u) \/ Kill(u) PROVE TypeOK'
    <2>1. /\ puts' \in [User -> Seq(Put)] /\ answers' \in [User -> Seq(BOOLEAN)]
          /\ Len(answers'[u]) = 0
          /\ \A v \in User \ {u} : puts'[v] = puts[v] /\ answers'[v] = answers[v]
          /\ UNCHANGED <<server, sends, sent, refusals>>
          /\ drops' \in 0..MaxDrops /\ kills' \in 0..MaxKills
      BY <1>5, LossShape
    <2>2. UNCHANGED <<messages, entries, sends, sent, refusals>>
      BY <2>1 DEF server
    <2>3. ASSUME NEW v \in User PROVE Len(answers'[v]) <= Len(puts'[v])
      <3>1. CASE v = u
        <4>1. Len(puts'[u]) \in Nat
          BY <2>1, LenProperties
        <4> QED
          BY <2>1, <3>1, <4>1
      <3> QED
        BY <1>0, <2>1, <3>1
    <2> QED
      BY <1>0, <2>1, <2>2, <2>3 DEF TypeOK
  <1>6. CASE UNCHANGED vars
    BY <1>0, <1>6 DEF TypeOK, vars, server, queues, budgets
  <1> QED
    BY <1>1, <1>2, <1>3, <1>4, <1>5, <1>6 DEF Next

\* Every reachable state is of the declared types, and no queue has more answers
\* than writes (TypeOK).
THEOREM TypeCorrect == Spec => []TypeOK
  BY TypeOKInit, TypeOKStep, PTL DEF Spec

-----------------------------------------------------------------------------
(***************************************************************************)
(* Entries lead to messages.  By itself this is not inductive: an entry    *)
(* is stored when its write reaches the server, and what makes that safe   *)
(* was known when the completion block issued the write.  So the invariant *)
(* says it of every write in a queue.                                      *)
(***************************************************************************)
\* What write i in the queue of u has behind it.
Backed(u, i) ==
  LET w == puts[u][i]
  IN  /\ w.msg.from = u
      /\ w.op \in {"own", "peer"} => w.msg \in messages
      /\ (w.op = "record" /\ i <= Len(answers[u]) /\ answers[u][i]) => w.msg \in messages

QueuesBacked == \A u \in User : \A i \in 1..Len(puts[u]) : Backed(u, i)

RecordInv == QueuesBacked /\ EntriesLead

LEMMA BackedStays ==
  ASSUME NEW v \in User, NEW i, Backed(v, i),
         puts'[v][i] = puts[v][i], answers'[v] = answers[v], messages \subseteq messages'
  PROVE  Backed(v, i)'
  BY DEF Backed

LEMMA RecordInvInit == ASSUME Init PROVE RecordInv
  BY EmptySeq DEF Init, RecordInv, QueuesBacked, EntriesLead

LEMMA RecordInvStep == ASSUME TypeOK, RecordInv, [Next]_vars PROVE RecordInv'
  <1>0. /\ \A v \in User : \A i \in 1..Len(puts[v]) : Backed(v, i)
        /\ EntriesLead
    BY DEF RecordInv, QueuesBacked
  <1>1. ASSUME NEW u \in User, NEW p \in User, Send(u, p) PROVE RecordInv'
    <2>1. PICK m \in Msg :
            /\ m = [from |-> u, to |-> p, n |-> sends + 1]
            /\ Len(puts'[u]) = Len(puts[u]) + 1
            /\ \A i \in 1..Len(puts[u]) : puts'[u][i] = puts[u][i]
            /\ puts'[u][Len(puts[u]) + 1] = RecordPut(m)
            /\ \A v \in User \ {u} : puts'[v] = puts[v]
      BY <1>1, SendShape
    <2>2. UNCHANGED <<messages, entries, answers>>
      BY <1>1 DEF Send, server
    <2>3. ASSUME NEW v \in User, NEW i \in 1..Len(puts[v]) PROVE Backed(v, i)'
      BY <1>0, <2>1, <2>2, <2>3, BackedStays
    <2>4. ASSUME NEW k, k = Len(puts[u]) + 1 PROVE Backed(u, k)'
      <3>1. Len(puts[u]) \in Nat /\ Len(answers[u]) \in Nat /\ Len(answers[u]) <= Len(puts[u])
        BY Lengths
      <3>2. ~ (k <= Len(answers'[u]))
        BY <2>2, <2>4, <3>1
      <3>3. RecordPut(m).op = "record" /\ RecordPut(m).msg = m /\ m.from = u
        BY <2>1, PutTypes
      <3>4. puts'[u][k].op = "record" /\ puts'[u][k].msg.from = u
        BY <2>1, <2>4, <3>3
      <3> QED
        BY <3>2, <3>4 DEF Backed
    <2>5. ASSUME NEW v \in User, NEW i \in 1..Len(puts'[v]) PROVE Backed(v, i)'
      <3>1. CASE v = u
        <4>1. Len(puts[u]) \in Nat
          BY Lengths
        <4>2. i \in 1..Len(puts[u]) \/ i = Len(puts[u]) + 1
          BY <2>1, <3>1, <4>1
        <4>3. CASE i \in 1..Len(puts[u])
          BY <2>3, <3>1, <4>3
        <4>4. CASE i = Len(puts[u]) + 1
          BY <2>4, <3>1, <4>4
        <4> QED
          BY <4>2, <4>3, <4>4
      <3>2. CASE v # u
        BY <2>1, <2>3, <2>5, <3>2
      <3> QED
        BY <3>1, <3>2
    <2> QED
      BY <1>0, <2>2, <2>5 DEF RecordInv, QueuesBacked, EntriesLead
  <1>2. ASSUME NEW u \in User, Apply(u) PROVE RecordInv'
    <2>1. /\ Len(answers[u]) < Len(puts[u]) /\ Store(Sending(u))
          /\ answers' = [answers EXCEPT ![u] = Append(@, TRUE)]
          /\ puts' = puts
      BY <1>2 DEF Apply
    <2> DEFINE k == Len(answers[u]) + 1
    <2>2. /\ Len(answers'[u]) = k
          /\ \A i \in 1..Len(answers[u]) : answers'[u][i] = answers[u][i]
          /\ \A v \in User \ {u} : answers'[v] = answers[v]
          /\ k \in 1..Len(puts[u])
          /\ Sending(u) = puts[u][k] /\ Sending(u) \in Put
      BY <2>1, AnswerAdded
    <2>3. PICK w \in Put : w = Sending(u)
      BY <2>2
    <2>4. /\ messages' = (IF w.op = "record" THEN messages \cup {w.msg} ELSE messages)
          /\ \A a, b \in User :
               entries'[a][b] =
                 IF \/ w.op = "own" /\ a = w.msg.from /\ b = w.msg.to
                    \/ w.op = "peer" /\ a = w.msg.to /\ b = w.msg.from
                 THEN entries[a][b] \cup {w.msg} ELSE entries[a][b]
      BY <2>1, <2>3, StoreShape
    <2>5. w.op \in {"own", "peer"} => w.msg \in messages
      BY <1>0, <2>2, <2>3 DEF Backed
    <2>6. messages \subseteq messages'
      BY <2>4
    <2>7. EntriesLead'
      <3>1. ASSUME NEW a \in User, NEW b \in User PROVE entries'[a][b] \subseteq messages'
        <4>1. entries[a][b] \subseteq messages'
          BY <1>0, <2>6 DEF EntriesLead
        <4> DEFINE c == \/ w.op = "own" /\ a = w.msg.from /\ b = w.msg.to
                        \/ w.op = "peer" /\ a = w.msg.to /\ b = w.msg.from
        <4>2. CASE c
          <5>1. entries'[a][b] = entries[a][b] \cup {w.msg}
            BY <2>4, <4>2
          <5>2. w.msg \in messages'
            BY <2>5, <2>6, <4>2
          <5> QED
            BY <4>1, <5>1, <5>2
        <4>3. CASE ~ c
          <5>1. entries'[a][b] = entries[a][b]
            BY <2>4, <4>3
          <5> QED
            BY <4>1, <5>1
        <4> QED
          BY <4>2, <4>3
      <3> QED
        BY <3>1 DEF EntriesLead
    <2>8. ASSUME NEW v \in User, NEW i \in 1..Len(puts[v]) PROVE Backed(v, i)'
      <3>1. CASE v # u
        BY <1>0, <2>1, <2>2, <2>6, <2>8, <3>1, BackedStays
      <3>2. CASE v = u
        <4>1. Backed(u, i)
          BY <1>0, <2>8, <3>2
        <4>2. (puts[u][i].op = "record" /\ i <= k /\ answers'[u][i]) => puts[u][i].msg \in messages'
          <5>1. CASE i = k
            BY <2>2, <2>3, <2>4, <5>1
          <5>2. CASE i # k
            <6>1. Len(answers[u]) \in Nat /\ i \in Nat /\ i >= 1
              BY Lengths, <2>8
            <6>2. i <= k => i \in 1..Len(answers[u]) /\ i <= Len(answers[u])
              BY <5>2, <6>1
            <6> QED
              BY <2>2, <2>6, <4>1, <6>2 DEF Backed
          <5> QED
            BY <5>1, <5>2
        <4> QED
          BY <2>1, <2>2, <2>6, <3>2, <4>1, <4>2 DEF Backed
      <3> QED
        BY <3>1, <3>2
    <2> QED
      BY <2>1, <2>7, <2>8 DEF RecordInv, QueuesBacked
  <1>3. ASSUME NEW u \in User, Refuse(u) PROVE RecordInv'
    <2>1. /\ Len(answers[u]) < Len(puts[u])
          /\ answers' = [answers EXCEPT ![u] = Append(@, FALSE)]
          /\ UNCHANGED <<messages, entries, puts>>
      BY <1>3 DEF Refuse, server
    <2> DEFINE k == Len(answers[u]) + 1
    <2>2. /\ Len(answers'[u]) = k /\ answers'[u][k] = FALSE
          /\ \A i \in 1..Len(answers[u]) : answers'[u][i] = answers[u][i]
          /\ \A v \in User \ {u} : answers'[v] = answers[v]
      BY <2>1, AnswerAdded
    <2>3. ASSUME NEW v \in User, NEW i \in 1..Len(puts[v]) PROVE Backed(v, i)'
      <3>1. CASE v # u
        BY <1>0, <2>1, <2>2, <2>3, <3>1, BackedStays
      <3>2. CASE v = u
        <4>1. Len(answers[u]) \in Nat /\ i \in Nat /\ i >= 1
          BY Lengths, <2>3
        <4>2. (i <= k /\ i # k) => i \in 1..Len(answers[u]) /\ i <= Len(answers[u])
          BY <4>1
        <4>3. Backed(u, i)
          BY <1>0, <2>3, <3>2
        <4>4. (i <= k /\ answers'[u][i]) => i <= Len(answers[u]) /\ answers[u][i]
          BY <2>2, <4>2
        <4> QED
          BY <2>1, <2>2, <3>2, <4>3, <4>4 DEF Backed
      <3> QED
        BY <3>1, <3>2
    <2> QED
      BY <1>0, <2>1, <2>3 DEF RecordInv, QueuesBacked, EntriesLead
  <1>4. ASSUME NEW u \in User, Ack(u) PROVE RecordInv'
    <2> DEFINE w == puts[u][1]
    <2>1. /\ Len(answers[u]) >= 1 /\ Len(puts[u]) >= 1
          /\ Len(answers'[u]) = Len(answers[u]) - 1
          /\ \A i \in 1..(Len(answers[u]) - 1) : answers'[u][i] = answers[u][i + 1]
          /\ \A v \in User \ {u} : puts'[v] = puts[v] /\ answers'[v] = answers[v]
          /\ \/ /\ w.op = "record" /\ answers[u][1]
                /\ Answered(u, <<OwnPut(w.msg), PeerPut(w.msg)>>)
             \/ Answered(u, <<>>)
      BY <1>4, AckShape
    <2>2. UNCHANGED <<messages, entries>>
      BY <1>4 DEF Ack, server
    <2>3. /\ Len(puts[u]) \in Nat /\ Len(answers[u]) \in Nat /\ Len(answers[u]) <= Len(puts[u])
          /\ w \in Put
      BY <2>1, Lengths
    <2>4. ASSUME NEW i \in 1..(Len(puts[u]) - 1), puts'[u][i] = puts[u][i + 1] PROVE Backed(u, i)'
      <3>1. i + 1 \in 1..Len(puts[u]) /\ i \in Nat /\ i >= 1
        BY <2>3, <2>4
      <3>2. Backed(u, i + 1)
        BY <1>0, <3>1
      <3>3. i <= Len(answers[u]) - 1 => i + 1 <= Len(answers[u]) /\ i \in 1..(Len(answers[u]) - 1)
        BY <2>3, <3>1
      <3> QED
        BY <2>1, <2>2, <2>4, <3>2, <3>3 DEF Backed
    <2>5. ASSUME NEW v \in User, NEW i \in 1..Len(puts'[v]) PROVE Backed(v, i)'
      <3>1. CASE v # u
        BY <1>0, <2>1, <2>2, <2>5, <3>1, BackedStays
      <3>2. CASE v = u /\ Answered(u, <<>>)
        <4>1. /\ Len(puts'[u]) = Len(puts[u]) - 1 + 0
              /\ \A j \in 1..(Len(puts[u]) - 1) : puts'[u][j] = puts[u][j + 1]
          BY <3>2, EmptySeq DEF Answered
        <4>2. i \in 1..(Len(puts[u]) - 1)
          BY <2>3, <2>5, <3>2, <4>1
        <4> QED
          BY <2>4, <3>2, <4>1, <4>2
      <3>3. CASE /\ v = u /\ w.op = "record" /\ answers[u][1]
                 /\ Answered(u, <<OwnPut(w.msg), PeerPut(w.msg)>>)
        <4>1. Len(<<OwnPut(w.msg), PeerPut(w.msg)>>) = 2
          OBVIOUS
        <4>2. /\ Len(puts'[u]) = Len(puts[u]) - 1 + 2
              /\ \A j \in 1..(Len(puts[u]) - 1) : puts'[u][j] = puts[u][j + 1]
              /\ puts'[u][Len(puts[u]) - 1 + 1] = OwnPut(w.msg)
              /\ puts'[u][Len(puts[u]) - 1 + 2] = PeerPut(w.msg)
          BY <3>3, <4>1 DEF Answered
        <4>3. \/ i \in 1..(Len(puts[u]) - 1)
              \/ i = Len(puts[u]) - 1 + 1
              \/ i = Len(puts[u]) - 1 + 2
          BY <2>3, <2>5, <3>3, <4>2
        <4>4. 1 \in 1..Len(puts[u]) /\ 1 <= Len(answers[u])
          BY <2>1, <2>3
        <4>5. Backed(u, 1)
          BY <1>0, <4>4
        <4>6. w.msg.from = u /\ w.msg \in messages
          BY <3>3, <4>4, <4>5 DEF Backed
        <4>7. /\ OwnPut(w.msg).op = "own" /\ OwnPut(w.msg).msg = w.msg
              /\ PeerPut(w.msg).op = "peer" /\ PeerPut(w.msg).msg = w.msg
          BY DEF OwnPut, PeerPut
        <4>8. CASE i = Len(puts[u]) - 1 + 1
          BY <2>2, <3>3, <4>2, <4>6, <4>7, <4>8 DEF Backed
        <4>9. CASE i = Len(puts[u]) - 1 + 2
          BY <2>2, <3>3, <4>2, <4>6, <4>7, <4>9 DEF Backed
        <4> QED
          BY <2>4, <3>3, <4>2, <4>3, <4>8, <4>9
      <3> QED
        BY <2>1, <3>1, <3>2, <3>3
    <2> QED
      BY <1>0, <2>2, <2>5 DEF RecordInv, QueuesBacked, EntriesLead
  <1>5. ASSUME NEW u \in User, Disconnect(u) \/ Kill(u) PROVE RecordInv'
    <2>1. /\ puts' \in [User -> Seq(Put)]
          /\ Len(answers'[u]) = 0
          /\ puts'[u] = puts[u] \/ Len(puts'[u]) = 0
          /\ \A v \in User \ {u} : puts'[v] = puts[v] /\ answers'[v] = answers[v]
          /\ UNCHANGED <<server, sends, sent, refusals>>
      BY <1>5, LossShape
    <2>2. UNCHANGED <<messages, entries>>
      BY <2>1 DEF server
    <2>3. ASSUME NEW v \in User, NEW i \in 1..Len(puts'[v]) PROVE Backed(v, i)'
      <3>1. CASE v # u
        BY <1>0, <2>1, <2>2, <2>3, <3>1, BackedStays
      <3>2. CASE v = u
        <4>1. Len(puts'[u]) # 0 /\ ~ (i <= 0) /\ i \in 1..Len(puts'[u])
          BY <2>3, <3>2
        <4>2. puts'[u] = puts[u] /\ Backed(u, i)
          BY <1>0, <2>1, <4>1
        <4> QED
          BY <2>1, <2>2, <3>2, <4>1, <4>2 DEF Backed
      <3> QED
        BY <3>1, <3>2
    <2> QED
      BY <1>0, <2>2, <2>3 DEF RecordInv, QueuesBacked, EntriesLead
  <1>6. CASE UNCHANGED vars
    <2>1. UNCHANGED <<messages, entries, puts, answers>>
      BY <1>6 DEF vars, server, queues
    <2> QED
      BY <1>0, <2>1 DEF RecordInv, QueuesBacked, EntriesLead, Backed
  <1> QED
    BY <1>1, <1>2, <1>3, <1>4, <1>5, <1>6 DEF Next

\* An entry always leads to a message, for any number of users, messages,
\* interruptions and refusals (EntriesLead): entries are issued by the
\* completion block of a record the server took.
THEOREM EntriesTheorem == Spec => []EntriesLead
  <1>1. RecordInv => EntriesLead
    BY DEF RecordInv
  <1> QED
    BY <1>1, TypeCorrect, RecordInvInit, RecordInvStep, PTL DEF Spec

-----------------------------------------------------------------------------
(***************************************************************************)
(* The sender has what the recipient has, while nothing is refused.  The   *)
(* queue keeps the order of the two entries, and sending it again does not *)
(* change that: before the recipient's entry there is the sender's, in the *)
(* queue or on the server already.                                         *)
(***************************************************************************)
HasIt(m) == m \in entries[m.from][m.to]

Placed(u, i) ==
  LET w == puts[u][i]
  IN  /\ (w.op = "own" /\ i <= Len(answers[u])) => HasIt(w.msg)
      /\ w.op = "peer" => HasIt(w.msg) \/ \E j \in 1..(i - 1) : puts[u][j] = OwnPut(w.msg)

AllPlaced == \A u \in User : \A i \in 1..Len(puts[u]) : Placed(u, i)

AllHave == \A a, b \in User : \A m \in entries[a][b] : HasIt(m)

SideInv == refusals = 0 => AllPlaced /\ AllHave

LEMMA PlacedStays ==
  ASSUME NEW v \in User, NEW i, Placed(v, i),
         puts'[v][i] = puts[v][i], \A j \in 1..(i - 1) : puts'[v][j] = puts[v][j],
         i <= Len(answers'[v]) => i <= Len(answers[v]),
         HasIt(puts[v][i].msg) => HasIt(puts[v][i].msg)'
  PROVE  Placed(v, i)'
  BY DEF Placed, HasIt

LEMMA SideInvInit == ASSUME Init PROVE SideInv
  BY EmptySeq DEF Init, SideInv, AllPlaced, AllHave

LEMMA SideInvStep == ASSUME TypeOK, SideInv, [Next]_vars PROVE SideInv'
  <1>0. \A v \in User : /\ Len(puts[v]) \in Nat /\ Len(answers[v]) \in Nat
                        /\ Len(answers[v]) <= Len(puts[v])
                        /\ \A i \in 1..Len(puts[v]) : puts[v][i] \in Put
    BY Lengths
  <1>1. ASSUME NEW u \in User, NEW p \in User, Send(u, p) PROVE SideInv'
    <2>1. PICK m \in Msg :
            /\ Len(puts'[u]) = Len(puts[u]) + 1
            /\ \A i \in 1..Len(puts[u]) : puts'[u][i] = puts[u][i]
            /\ puts'[u][Len(puts[u]) + 1] = RecordPut(m)
            /\ \A v \in User \ {u} : puts'[v] = puts[v]
      BY <1>1, SendShape
    <2>2. UNCHANGED <<entries, answers, refusals>>
      BY <1>1 DEF Send, server, budgets
    <2>3. ASSUME refusals = 0, NEW v \in User, NEW i \in 1..Len(puts'[v]) PROVE Placed(v, i)'
      <3>1. CASE i \in 1..Len(puts[v])
        <4>1. Placed(v, i)
          BY <2>3, <3>1 DEF SideInv, AllPlaced
        <4>2. i \in 1..Len(puts[v]) /\ \A j \in 1..(i - 1) : j \in 1..Len(puts[v])
          BY <1>0, <3>1
        <4>3. puts'[v][i] = puts[v][i] /\ \A j \in 1..(i - 1) : puts'[v][j] = puts[v][j]
          BY <2>1, <4>2
        <4>4. HasIt(puts[v][i].msg) => HasIt(puts[v][i].msg)'
          BY <2>2, <4>3 DEF HasIt
        <4> QED
          BY <2>2, <4>1, <4>3, <4>4, PlacedStays
      <3>2. CASE i \notin 1..Len(puts[v])
        <4>1. v = u /\ i = Len(puts[u]) + 1
          BY <1>0, <2>1, <2>3, <3>2
        <4>2. puts'[v][i].op = "record"
          BY <2>1, <4>1, PutTypes
        <4> QED
          BY <4>2 DEF Placed
      <3> QED
        BY <3>1, <3>2
    <2> QED
      BY <2>2, <2>3 DEF SideInv, AllPlaced, AllHave, HasIt
  <1>2. ASSUME NEW u \in User, Apply(u) PROVE SideInv'
    <2>1. /\ Len(answers[u]) < Len(puts[u]) /\ Store(Sending(u))
          /\ answers' = [answers EXCEPT ![u] = Append(@, TRUE)]
          /\ puts' = puts /\ refusals' = refusals
      BY <1>2 DEF Apply, budgets
    <2> DEFINE k == Len(answers[u]) + 1
    <2>2. /\ Len(answers'[u]) = k
          /\ \A v \in User \ {u} : answers'[v] = answers[v]
          /\ k \in 1..Len(puts[u])
          /\ Sending(u) = puts[u][k] /\ Sending(u) \in Put
      BY <2>1, AnswerAdded
    <2>3. PICK w \in Put : w = Sending(u)
      BY <2>2
    <2>4. \A a, b \in User :
            entries'[a][b] =
              IF \/ w.op = "own" /\ a = w.msg.from /\ b = w.msg.to
                 \/ w.op = "peer" /\ a = w.msg.to /\ b = w.msg.from
              THEN entries[a][b] \cup {w.msg} ELSE entries[a][b]
      BY <2>1, <2>3, StoreShape
    <2>5. \A a, b \in User : entries[a][b] \subseteq entries'[a][b]
      BY <2>4
    <2>6. ASSUME NEW m \in Msg, HasIt(m) PROVE HasIt(m)'
      BY <2>5, <2>6, PutTypes DEF HasIt
    <2>7. w.msg \in Msg /\ w.msg.from \in User /\ w.msg.to \in User
          /\ w.op \in {"record", "own", "peer"}
      BY PutParts
    <2>8. w.op = "own" => HasIt(w.msg)'
      BY <2>4, <2>7 DEF HasIt
    <2>9. ASSUME refusals = 0, w.op = "peer" PROVE HasIt(w.msg)
      <3>1. Placed(u, k)
        BY <2>2, <2>9 DEF SideInv, AllPlaced
      <3>2. CASE \E j \in 1..(k - 1) : puts[u][j] = OwnPut(w.msg)
        <4>1. PICK j \in 1..(k - 1) : puts[u][j] = OwnPut(w.msg)
          BY <3>2
        <4>2. j \in 1..Len(puts[u]) /\ j <= Len(answers[u])
          BY <1>0, <2>2, <4>1
        <4>3. Placed(u, j)
          BY <2>9, <4>2 DEF SideInv, AllPlaced
        <4>4. puts[u][j].op = "own" /\ puts[u][j].msg = w.msg
          BY <2>7, <4>1, PutTypes
        <4> QED
          BY <4>2, <4>3, <4>4 DEF Placed
      <3> QED
        BY <2>2, <2>3, <2>9, <3>1, <3>2 DEF Placed
    <2>10. ASSUME refusals = 0, NEW v \in User, NEW i \in 1..Len(puts[v]) PROVE Placed(v, i)'
      <3>1. Placed(v, i)
        BY <2>10 DEF SideInv, AllPlaced
      <3>2. puts[v][i].msg \in Msg
        BY <1>0, <2>10, PutParts
      <3>3. HasIt(puts[v][i].msg) => HasIt(puts[v][i].msg)'
        <4>1. PICK m \in Msg : m = puts[v][i].msg
          BY <3>2
        <4>2. m = puts'[v][i].msg
          BY <2>1, <4>1
        <4> QED
          BY <2>6, <4>1, <4>2 DEF HasIt
      <3>4. CASE v = u /\ i = k
        <4>1. puts'[v][i] = w
          BY <2>1, <2>2, <2>3, <3>4
        <4>2. w.op = "peer" => HasIt(w.msg)'
          BY <2>6, <2>7, <2>9, <2>10
        <4> QED
          BY <2>8, <4>1, <4>2 DEF Placed, HasIt
      <3>5. CASE ~ (v = u /\ i = k)
        <4>1. i <= Len(answers'[v]) => i <= Len(answers[v])
          BY <1>0, <2>2, <2>10, <3>5
        <4> QED
          BY <2>1, <3>1, <3>3, <4>1, PlacedStays
      <3> QED
        BY <3>4, <3>5
    <2>11. ASSUME refusals = 0, NEW a \in User, NEW b \in User, NEW m \in entries'[a][b]
           PROVE  HasIt(m)'
      <3>1. CASE m \in entries[a][b]
        <4>1. m \in Msg /\ HasIt(m)
          BY <2>11, <3>1 DEF SideInv, AllHave, TypeOK
        <4> QED
          BY <2>6, <4>1
      <3>2. CASE m \notin entries[a][b]
        <4> DEFINE c == \/ w.op = "own" /\ a = w.msg.from /\ b = w.msg.to
                        \/ w.op = "peer" /\ a = w.msg.to /\ b = w.msg.from
        <4>0. entries'[a][b] = IF c THEN entries[a][b] \cup {w.msg} ELSE entries[a][b]
          BY <2>4
        <4>1. m = w.msg /\ w.op \in {"own", "peer"}
          BY <2>11, <3>2, <4>0
        <4> QED
          BY <2>6, <2>7, <2>8, <2>9, <2>11, <4>1
      <3> QED
        BY <3>1, <3>2
    <2> QED
      BY <2>1, <2>10, <2>11 DEF SideInv, AllPlaced, AllHave
  <1>3. ASSUME NEW u \in User, Refuse(u) PROVE SideInv'
    <2>1. refusals' = refusals + 1 /\ refusals \in Nat
      BY <1>3, BoundsAssumption DEF Refuse, TypeOK
    <2>2. refusals' # 0
      BY <2>1
    <2> QED
      BY <2>2 DEF SideInv
  <1>4. ASSUME NEW u \in User, Ack(u) PROVE SideInv'
    <2> DEFINE w == puts[u][1]
    <2>1. /\ Len(answers[u]) >= 1 /\ Len(puts[u]) >= 1
          /\ Len(answers'[u]) = Len(answers[u]) - 1
          /\ \A v \in User \ {u} : puts'[v] = puts[v] /\ answers'[v] = answers[v]
          /\ \/ Answered(u, <<OwnPut(w.msg), PeerPut(w.msg)>>)
             \/ Answered(u, <<>>)
      BY <1>4, AckShape
    <2>2. UNCHANGED <<entries, refusals>>
      BY <1>4 DEF Ack, server, budgets
    <2>3. \A j \in 1..(Len(puts[u]) - 1) : puts'[u][j] = puts[u][j + 1]
      BY <2>1 DEF Answered
    <2>4. ASSUME refusals = 0, NEW i \in 1..(Len(puts[u]) - 1) PROVE Placed(u, i)'
      <3>1. /\ i + 1 \in 1..Len(puts[u]) /\ i \in Nat /\ i >= 1
            /\ i <= Len(answers[u]) - 1 => i + 1 <= Len(answers[u])
        BY <1>0, <2>4
      <3>2. Placed(u, i + 1)
        BY <2>4, <3>1 DEF SideInv, AllPlaced
      <3>3. puts'[u][i] = puts[u][i + 1]
        BY <2>3
      <3>4. (puts'[u][i].op = "own" /\ i <= Len(answers'[u])) => HasIt(puts[u][i].msg)'
        BY <2>1, <2>2, <3>1, <3>2, <3>3 DEF Placed, HasIt
      <3>5. ASSUME puts'[u][i].op = "peer", ~ HasIt(puts[u][i].msg)'
            PROVE  \E j \in 1..(i - 1) : puts'[u][j] = OwnPut(puts'[u][i].msg)
        <4>1. ~ HasIt(puts[u][i + 1].msg)
          BY <2>2, <3>3, <3>5 DEF HasIt
        <4>2. PICK j \in 1..i : puts[u][j] = OwnPut(puts[u][i + 1].msg)
          BY <3>1, <3>2, <3>3, <3>5, <4>1 DEF Placed
        <4>3. puts[u][j].op = "own" /\ puts[u][j].msg = puts[u][i + 1].msg
          BY <4>2 DEF OwnPut
        <4>4. 1 \in 1..Len(puts[u]) /\ 1 <= Len(answers[u])
          BY <1>0, <2>1
        <4>5. Placed(u, 1)
          BY <2>4, <4>4 DEF SideInv, AllPlaced
        <4>6. j # 1
          BY <4>1, <4>3, <4>4, <4>5 DEF Placed
        <4>7. j - 1 \in 1..(i - 1) /\ j - 1 \in 1..(Len(puts[u]) - 1) /\ (j - 1) + 1 = j
          BY <1>0, <2>4, <3>1, <4>2, <4>6
        <4>8. puts'[u][j - 1] = puts[u][j]
          BY <2>3, <4>7
        <4> QED
          BY <3>3, <4>2, <4>7, <4>8
      <3> QED
        BY <3>4, <3>5 DEF Placed
    <2>5. ASSUME refusals = 0, NEW v \in User, NEW i \in 1..Len(puts'[v]) PROVE Placed(v, i)'
      <3>1. CASE v # u
        <4>1. Placed(v, i)
          BY <2>1, <2>5, <3>1 DEF SideInv, AllPlaced
        <4>2. puts'[v] = puts[v] /\ answers'[v] = answers[v]
          BY <2>1, <3>1
        <4> QED
          BY <2>2, <4>1, <4>2 DEF Placed, HasIt
      <3>2. CASE v = u /\ Answered(u, <<>>)
        <4>1. Len(puts'[u]) = Len(puts[u]) - 1 + 0
          BY <3>2, EmptySeq DEF Answered
        <4>2. i \in 1..(Len(puts[u]) - 1)
          BY <1>0, <2>5, <3>2, <4>1
        <4> QED
          BY <2>4, <2>5, <3>2, <4>2
      <3>3. CASE v = u /\ Answered(u, <<OwnPut(w.msg), PeerPut(w.msg)>>)
        <4>1. Len(<<OwnPut(w.msg), PeerPut(w.msg)>>) = 2
          OBVIOUS
        <4>2. /\ Len(puts'[u]) = Len(puts[u]) - 1 + 2
              /\ puts'[u][Len(puts[u]) - 1 + 1] = OwnPut(w.msg)
              /\ puts'[u][Len(puts[u]) - 1 + 2] = PeerPut(w.msg)
          BY <3>3, <4>1 DEF Answered
        <4>3. /\ OwnPut(w.msg).op = "own" /\ OwnPut(w.msg).msg = w.msg
              /\ PeerPut(w.msg).op = "peer" /\ PeerPut(w.msg).msg = w.msg
          BY DEF OwnPut, PeerPut
        <4>4. CASE i \in 1..(Len(puts[u]) - 1)
          BY <2>4, <2>5, <3>3, <4>4
        <4>5. CASE i = Len(puts[u]) - 1 + 1
          <5>1. ~ (i <= Len(answers'[u]))
            BY <1>0, <2>1, <4>5
          <5>2. puts'[u][i].op = "own"
            BY <4>2, <4>3, <4>5
          <5> QED
            BY <3>3, <5>1, <5>2 DEF Placed
        <4>6. CASE i = Len(puts[u]) - 1 + 2
          <5>1. puts'[u][i].op = "peer" /\ puts'[u][i].msg = w.msg
            BY <4>2, <4>3, <4>6
          <5>2. Len(puts[u]) - 1 + 1 \in 1..(i - 1)
            BY <1>0, <2>1, <4>6
          <5> QED
            BY <3>3, <4>2, <5>1, <5>2 DEF Placed
        <4>7. \/ i \in 1..(Len(puts[u]) - 1)
              \/ i = Len(puts[u]) - 1 + 1
              \/ i = Len(puts[u]) - 1 + 2
          BY <1>0, <2>5, <3>3, <4>2
        <4> QED
          BY <4>4, <4>5, <4>6, <4>7
      <3> QED
        BY <2>1, <3>1, <3>2, <3>3
    <2> QED
      BY <2>2, <2>5 DEF SideInv, AllPlaced, AllHave, HasIt
  <1>5. ASSUME NEW u \in User, Disconnect(u) \/ Kill(u) PROVE SideInv'
    <2>1. /\ Len(answers'[u]) = 0
          /\ puts'[u] = puts[u] \/ Len(puts'[u]) = 0
          /\ \A v \in User \ {u} : puts'[v] = puts[v] /\ answers'[v] = answers[v]
          /\ UNCHANGED <<server, sends, sent, refusals>>
      BY <1>5, LossShape
    <2>2. UNCHANGED <<entries, refusals>>
      BY <2>1 DEF server
    <2>3. ASSUME refusals = 0, NEW v \in User, NEW i \in 1..Len(puts'[v]) PROVE Placed(v, i)'
      <3>1. puts'[v] = puts[v] /\ (i <= Len(answers'[v]) => i <= Len(answers[v]))
        <4>1. CASE v # u
          BY <2>1, <4>1
        <4>2. CASE v = u
          <5>1. Len(puts'[u]) # 0 /\ ~ (i <= 0)
            BY <2>3, <4>2
          <5> QED
            BY <2>1, <4>2, <5>1
        <4> QED
          BY <4>1, <4>2
      <3>2. Placed(v, i)
        BY <2>3, <3>1 DEF SideInv, AllPlaced
      <3> QED
        BY <2>2, <3>1, <3>2 DEF Placed, HasIt
    <2> QED
      BY <2>2, <2>3 DEF SideInv, AllPlaced, AllHave, HasIt
  <1>6. CASE UNCHANGED vars
    <2>1. UNCHANGED <<entries, puts, answers, refusals>>
      BY <1>6 DEF vars, server, queues, budgets
    <2> QED
      BY <2>1 DEF SideInv, AllPlaced, AllHave, Placed, HasIt
  <1> QED
    BY <1>1, <1>2, <1>3, <1>4, <1>5, <1>6 DEF Next

\* What the recipient has the sender has too, for any number of users, messages,
\* lost connections and killed processes (SenderHasIt), as long as the server
\* refuses nothing.
THEOREM SenderTheorem == Spec => []SenderHasIt
  <1>1. SideInv => SenderHasIt
    BY DEF SideInv, AllHave, HasIt, SenderHasIt
  <1> QED
    BY <1>1, TypeCorrect, SideInvInit, SideInvStep, PTL DEF Spec

-----------------------------------------------------------------------------
(***************************************************************************)
(* The transport is a courier.  What has to be known of a queue: writes of *)
(* one kind stand in the order of sending, entries are of messages sent    *)
(* before those whose records wait, and whatever has arrived was sent      *)
(* before what is still to arrive.                                         *)
(***************************************************************************)
Got(m) == m \in entries[m.to][m.from]

Ordered(v) ==
  \A i, j \in 1..Len(puts[v]) :
    /\ i < j /\ puts[v][i].op = puts[v][j].op => puts[v][i].msg.n < puts[v][j].msg.n
    /\ puts[v][i].op # "record" /\ puts[v][j].op = "record" =>
         puts[v][i].msg.n < puts[v][j].msg.n

\* Messages of v that have arrived were sent before write i, unless write i
\* only repeats what has arrived.
Behind(v, i) ==
  \A m \in Msg : m.from = v =>
    /\ puts[v][i].op = "record" /\ (HasIt(m) \/ Got(m)) => m.n < puts[v][i].msg.n
    /\ puts[v][i].op = "peer" /\ Got(m) => m.n < puts[v][i].msg.n \/ Got(puts[v][i].msg)

Done(v, i) == puts[v][i].op = "peer" /\ i <= Len(answers[v]) => Got(puts[v][i].msg)

QueueInOrder(v) == Ordered(v) /\ \A i \in 1..Len(puts[v]) : Behind(v, i) /\ Done(v, i)

\* Messages that are anywhere have been sent.
Counted ==
  /\ messages \subseteq sent
  /\ \A v \in User : \A i \in 1..Len(puts[v]) : puts[v][i].msg \in sent
  /\ \A m \in sent : m.n <= sends

OrderInv == Counted /\ (refusals = 0 => \A v \in User : QueueInOrder(v))

LEMMA OrderInvInit == ASSUME Init PROVE OrderInv
<1>1. \A v \in User : Len(puts[v]) = 0
  BY EmptySeq DEF Init
<1> QED
  BY <1>1 DEF Init, OrderInv, Counted, QueueInOrder, Ordered

\* What has arrived was sent.
LEMMA ArrivedSent ==
  ASSUME TypeOK, RecordInv, Counted, NEW m \in Msg, HasIt(m) \/ Got(m)
  PROVE  m \in sent /\ m.n <= sends
<1>1. m.from \in User /\ m.to \in User
  BY PutTypes
<1> QED
  BY <1>1 DEF RecordInv, EntriesLead, Counted, HasIt, Got

\* A queue nothing happens to.
LEMMA QueueSame ==
  ASSUME NEW v \in User, QueueInOrder(v), puts'[v] = puts[v],
         Len(answers'[v]) <= Len(answers[v]), Len(answers[v]) \in Nat, Len(answers'[v]) \in Nat,
         \A m \in Msg : m.from = v => (HasIt(m)' <=> HasIt(m)) /\ (Got(m)' <=> Got(m)),
         \A i \in 1..Len(puts[v]) : puts[v][i].msg \in Msg /\ puts[v][i].msg.from = v
  PROVE  QueueInOrder(v)'
<1>1. Ordered(v)'
  BY DEF QueueInOrder, Ordered
<1>2. ASSUME NEW i \in 1..Len(puts[v]) PROVE Behind(v, i)' /\ Done(v, i)'
  <2>1. Behind(v, i) /\ Done(v, i) /\ puts[v][i].msg \in Msg /\ puts[v][i].msg.from = v
    BY DEF QueueInOrder
  <2>2. PICK l \in Msg : l = puts[v][i].msg /\ l.from = v
    BY <2>1
  <2>3. Got(puts[v][i].msg)' <=> Got(l)'
    BY <2>2 DEF Got
  <2>4. Got(puts[v][i].msg)' <=> Got(puts[v][i].msg)
    BY <2>2, <2>3
  <2>5. Done(v, i)'
    BY <2>1, <2>4 DEF Done, Got
  <2>6. Behind(v, i)'
    BY <2>1, <2>4 DEF Behind, Got, HasIt
  <2> QED
    BY <2>5, <2>6
<1> QED
  BY <1>1, <1>2 DEF QueueInOrder

LEMMA OrderInvSend ==
  ASSUME TypeOK, RecordInv, OrderInv, NEW u \in User, NEW p \in User, Send(u, p)
  PROVE  OrderInv'
<1>0. /\ \A v \in User : /\ Len(puts[v]) \in Nat /\ Len(answers[v]) \in Nat
                           /\ Len(answers[v]) <= Len(puts[v])
                           /\ \A i \in 1..Len(puts[v]) :
                                puts[v][i].msg \in Msg /\ puts[v][i].msg.from = v
      /\ sends \in Nat /\ \A m \in Msg : m.n \in Nat
  BY Lengths, PutParts, PutTypes, BoundsAssumption DEF RecordInv, QueuesBacked, Backed, TypeOK
<1>1. PICK m \in Msg :
        /\ m = [from |-> u, to |-> p, n |-> sends + 1]
        /\ sent' = sent \cup {m} /\ sends' = sends + 1
        /\ Len(puts'[u]) = Len(puts[u]) + 1
        /\ \A i \in 1..Len(puts[u]) : puts'[u][i] = puts[u][i]
        /\ puts'[u][Len(puts[u]) + 1] = RecordPut(m)
        /\ \A v \in User \ {u} : puts'[v] = puts[v]
  BY SendShape
<1>2. UNCHANGED <<messages, entries, answers, refusals>> /\ sent \subseteq Msg
  BY DEF Send, server, budgets, TypeOK
<1>3. RecordPut(m).op = "record" /\ RecordPut(m).msg = m /\ m.n = sends + 1
  BY <1>1, PutTypes
<1>4. \A i \in 1..Len(puts'[u]) : i \in 1..Len(puts[u]) \/ i = Len(puts[u]) + 1
  BY <1>0, <1>1
<1>5. Counted
  BY DEF OrderInv
<1>6. Counted'
  <2>1. \A v \in User : \A i \in 1..Len(puts'[v]) : puts'[v][i].msg \in sent'
    <3>1. ASSUME NEW v \in User, NEW i \in 1..Len(puts'[v]) PROVE puts'[v][i].msg \in sent'
      <4>1. CASE v = u
        BY <1>1, <1>3, <1>4, <1>5, <3>1, <4>1 DEF Counted
      <4>2. CASE v # u
        BY <1>1, <1>5, <4>2 DEF Counted
      <4> QED
        BY <4>1, <4>2
    <3> QED
      BY <3>1
  <2>2. \A l \in sent' : l.n <= sends'
    <3>1. \A l \in sent : l.n <= sends /\ l.n \in Nat
      BY <1>0, <1>2, <1>5 DEF Counted
    <3> QED
      BY <1>0, <1>1, <1>3, <3>1
  <2>3. messages' \subseteq sent'
    BY <1>1, <1>2, <1>5 DEF Counted
  <2> QED
    BY <2>1, <2>2, <2>3 DEF Counted
<1>7. ASSUME refusals = 0, NEW v \in User PROVE QueueInOrder(v)'
  <2>1. QueueInOrder(v)
    BY <1>7 DEF OrderInv
  <2>2. CASE v # u
    <3>1. puts'[v] = puts[v] /\ Len(answers'[v]) = Len(answers[v])
      BY <1>1, <1>2, <2>2
    <3>2. \A l \in Msg : (HasIt(l)' <=> HasIt(l)) /\ (Got(l)' <=> Got(l))
      BY <1>2 DEF HasIt, Got
    <3> QED
      BY <1>0, <2>1, <3>1, <3>2, QueueSame
  <2>3. CASE v = u
    <3>1. \A i \in 1..Len(puts[u]) : puts[u][i].msg.n \in Nat /\ puts[u][i].msg.n < sends + 1
      <4>1. ASSUME NEW i \in 1..Len(puts[u])
            PROVE  puts[u][i].msg.n \in Nat /\ puts[u][i].msg.n < sends + 1
        <5>1. puts[u][i].msg \in Msg /\ puts[u][i].msg \in sent
          BY <1>0, <1>5 DEF Counted
        <5>2. puts[u][i].msg.n <= sends /\ puts[u][i].msg.n \in Nat
          BY <1>0, <1>5, <5>1 DEF Counted
        <5> QED
          BY <1>0, <5>2
      <4> QED
        BY <4>1
    <3>2. Ordered(u)'
      <4>1. ASSUME NEW i \in 1..Len(puts'[u]), NEW j \in 1..Len(puts'[u])
            PROVE  /\ i < j /\ puts'[u][i].op = puts'[u][j].op =>
                        puts'[u][i].msg.n < puts'[u][j].msg.n
                   /\ puts'[u][i].op # "record" /\ puts'[u][j].op = "record" =>
                        puts'[u][i].msg.n < puts'[u][j].msg.n
        <5>1. CASE i \in 1..Len(puts[u]) /\ j \in 1..Len(puts[u])
          <6>1. puts'[u][i] = puts[u][i] /\ puts'[u][j] = puts[u][j]
            BY <1>1, <5>1
          <6> QED
            BY <2>1, <2>3, <5>1, <6>1 DEF QueueInOrder, Ordered
        <5>2. CASE i \in 1..Len(puts[u]) /\ j = Len(puts[u]) + 1
          BY <1>1, <1>3, <3>1, <5>2
        <5>3. CASE i = Len(puts[u]) + 1
          <6>1. ~(i < j) /\ puts'[u][i].op = "record"
            BY <1>0, <1>1, <1>3, <4>1, <5>3
          <6> QED
            BY <6>1
        <5> QED
          BY <1>4, <5>1, <5>2, <5>3
      <4> QED
        BY <4>1 DEF Ordered
    <3>3. ASSUME NEW i \in 1..Len(puts[u]) PROVE Behind(u, i)' /\ Done(u, i)'
      <4>1. Behind(u, i) /\ Done(u, i) /\ puts'[u][i] = puts[u][i]
        BY <1>1, <2>1, <2>3 DEF QueueInOrder
      <4> QED
        BY <1>2, <4>1 DEF Behind, Done, HasIt, Got
    <3>4. ASSUME NEW i, i = Len(puts[u]) + 1 PROVE Behind(u, i)' /\ Done(u, i)'
      <4>1. puts'[u][i].op = "record" /\ puts'[u][i].msg.n = sends + 1
        BY <1>1, <1>3, <3>4
      <4>2. ASSUME NEW l \in Msg, HasIt(l) \/ Got(l) PROVE l.n < sends + 1
        <5>1. l.n <= sends
          BY <1>5, <4>2, ArrivedSent
        <5> QED
          BY <1>0, <5>1
      <4> QED
        BY <1>2, <4>1, <4>2 DEF Behind, Done, HasIt, Got
    <3>5. \A i \in 1..Len(puts'[u]) : Behind(u, i)' /\ Done(u, i)'
      BY <1>4, <3>3, <3>4
    <3> QED
      BY <2>3, <3>2, <3>5 DEF QueueInOrder
  <2> QED
    BY <2>2, <2>3
<1> QED
  BY <1>2, <1>6, <1>7 DEF OrderInv

LEMMA OrderInvApply ==
  ASSUME TypeOK, RecordInv, OrderInv, NEW u \in User, Apply(u)
  PROVE  OrderInv'
<1>0. /\ \A v \in User : /\ Len(puts[v]) \in Nat /\ Len(answers[v]) \in Nat
                           /\ Len(answers[v]) <= Len(puts[v])
                           /\ \A i \in 1..Len(puts[v]) :
                                puts[v][i].msg \in Msg /\ puts[v][i].msg.from = v
      /\ \A m \in Msg : m.n \in Nat /\ m.from \in User /\ m.to \in User
  BY Lengths, PutParts, PutTypes, BoundsAssumption DEF RecordInv, QueuesBacked, Backed, TypeOK
<1>1. /\ Len(answers[u]) < Len(puts[u]) /\ Store(Sending(u))
      /\ answers' = [answers EXCEPT ![u] = Append(@, TRUE)]
      /\ UNCHANGED <<puts, sends, sent, refusals>>
  BY DEF Apply, budgets
<1>2. PICK k : k = Len(answers[u]) + 1
  OBVIOUS
<1>3. PICK w \in Put : w = Sending(u)
  BY <1>1, AnswerAdded
<1>4. /\ Len(answers'[u]) = k /\ k \in 1..Len(puts[u]) /\ w = puts[u][k]
      /\ \A v \in User \ {u} : answers'[v] = answers[v]
  BY <1>1, <1>2, <1>3, AnswerAdded
<1>5. /\ messages' = (IF w.op = "record" THEN messages \cup {w.msg} ELSE messages)
      /\ \A a, b \in User :
           entries'[a][b] =
             IF \/ w.op = "own" /\ a = w.msg.from /\ b = w.msg.to
                \/ w.op = "peer" /\ a = w.msg.to /\ b = w.msg.from
             THEN entries[a][b] \cup {w.msg} ELSE entries[a][b]
  BY <1>1, <1>3, StoreShape
<1>6. w.msg \in Msg /\ w.msg.from = u /\ w.op \in {"record", "own", "peer"}
  BY <1>0, <1>3, <1>4, PutParts
<1>7. \A m \in Msg : /\ HasIt(m)' <=> HasIt(m) \/ (w.op = "own" /\ m = w.msg)
                     /\ Got(m)' <=> Got(m) \/ (w.op = "peer" /\ m = w.msg)
  <2>1. ASSUME NEW m \in Msg
        PROVE  /\ HasIt(m)' <=> HasIt(m) \/ (w.op = "own" /\ m = w.msg)
               /\ Got(m)' <=> Got(m) \/ (w.op = "peer" /\ m = w.msg)
    <3>1. m.from \in User /\ m.to \in User /\ m.from # m.to
      BY PutTypes
    <3>2. entries'[m.from][m.to] = IF \/ w.op = "own" /\ m.from = w.msg.from /\ m.to = w.msg.to
                                      \/ w.op = "peer" /\ m.from = w.msg.to /\ m.to = w.msg.from
                                   THEN entries[m.from][m.to] \cup {w.msg} ELSE entries[m.from][m.to]
      BY <1>5, <3>1
    <3>3. entries'[m.to][m.from] = IF \/ w.op = "own" /\ m.to = w.msg.from /\ m.from = w.msg.to
                                      \/ w.op = "peer" /\ m.to = w.msg.to /\ m.from = w.msg.from
                                   THEN entries[m.to][m.from] \cup {w.msg} ELSE entries[m.to][m.from]
      BY <1>5, <3>1
    <3>4. HasIt(m)' <=> HasIt(m) \/ (w.op = "own" /\ m = w.msg)
      BY <1>6, <3>1, <3>2 DEF HasIt
    <3>5. Got(m)' <=> Got(m) \/ (w.op = "peer" /\ m = w.msg)
      BY <1>6, <3>1, <3>3 DEF Got
    <3> QED
      BY <3>4, <3>5
  <2> QED
    BY <2>1
<1>8. Counted'
  BY <1>1, <1>4, <1>5 DEF OrderInv, Counted
<1>9. ASSUME refusals = 0, NEW v \in User PROVE QueueInOrder(v)'
  <2>1. QueueInOrder(v)
    BY <1>9 DEF OrderInv
  <2>2. CASE v # u
    <3>1. puts'[v] = puts[v] /\ Len(answers'[v]) = Len(answers[v])
      BY <1>1, <1>4, <2>2
    <3>2. \A l \in Msg : l.from = v => (HasIt(l)' <=> HasIt(l)) /\ (Got(l)' <=> Got(l))
      BY <1>6, <1>7, <2>2
    <3> QED
      BY <1>0, <2>1, <3>1, <3>2, QueueSame
  <2>3. CASE v = u
    <3>1. Ordered(u)'
      BY <1>1, <2>1, <2>3 DEF QueueInOrder, Ordered
    <3>2. ASSUME NEW i \in 1..Len(puts[u]) PROVE Behind(u, i)' /\ Done(u, i)'
      <4>1. Behind(u, i) /\ Done(u, i) /\ Ordered(u)
        BY <2>1, <2>3 DEF QueueInOrder
      <4>2. PICK x \in Msg : x = puts[u][i].msg
        BY <1>0
      <4>3. Got(x)' <=> Got(x) \/ (w.op = "peer" /\ x = w.msg)
        BY <1>7
      <4>4. ASSUME puts[u][i].op = "peer", i <= k PROVE Got(x)'
        <5>1. CASE i = k
          BY <1>4, <4>2, <4>3, <4>4, <5>1
        <5>2. CASE i <= Len(answers[u])
          BY <4>1, <4>2, <4>3, <4>4, <5>2 DEF Done
        <5> QED
          BY <1>0, <1>2, <4>4, <5>1, <5>2
      <4>5. Done(u, i)'
        BY <1>1, <1>4, <4>2, <4>4 DEF Done, Got
      <4>6. ASSUME NEW m \in Msg, m.from = u, puts[u][i].op = "record", HasIt(m)' \/ Got(m)'
            PROVE  m.n < x.n
        <5>1. CASE HasIt(m) \/ Got(m)
          BY <4>1, <4>2, <4>6, <5>1 DEF Behind
        <5>2. CASE w.op # "record" /\ m = w.msg
          BY <1>4, <4>1, <4>2, <4>6, <5>2 DEF Ordered
        <5> QED
          BY <1>7, <4>6, <5>1, <5>2
      <4>7. ASSUME NEW m \in Msg, m.from = u, puts[u][i].op = "peer", Got(m)'
            PROVE  m.n < x.n \/ Got(x)'
        <5>1. CASE Got(m)
          <6>1. m.n < x.n \/ Got(x)
            BY <4>1, <4>2, <4>7, <5>1 DEF Behind, Got
          <6> QED
            BY <4>3, <6>1
        <5>2. CASE w.op = "peer" /\ m = w.msg
          <6>1. CASE k < i
            BY <1>4, <4>1, <4>2, <4>7, <5>2, <6>1 DEF Ordered
          <6>2. CASE i <= k
            BY <4>4, <4>7, <6>2
          <6> QED
            BY <1>4, <6>1, <6>2
        <5> QED
          BY <1>7, <4>7, <5>1, <5>2
      <4>8. Behind(u, i)'
        BY <1>1, <4>2, <4>6, <4>7 DEF Behind, Got, HasIt
      <4> QED
        BY <4>5, <4>8
    <3> QED
      BY <1>1, <2>3, <3>1, <3>2 DEF QueueInOrder
  <2> QED
    BY <2>2, <2>3
<1> QED
  BY <1>1, <1>8, <1>9 DEF OrderInv

\* After a refusal nothing is claimed of the order.
LEMMA OrderInvRefuse ==
  ASSUME TypeOK, OrderInv, NEW u \in User, Refuse(u)
  PROVE  OrderInv'
<1>1. refusals' = refusals + 1 /\ refusals \in Nat /\ UNCHANGED <<messages, puts, sends, sent>>
  BY BoundsAssumption DEF Refuse, TypeOK, server
<1>2. refusals' # 0
  BY <1>1
<1> QED
  BY <1>1, <1>2 DEF OrderInv, Counted

\* The oldest write leaves the queue.
LEMMA OrderShift ==
  ASSUME NEW u \in User, QueueInOrder(u),
         Len(puts[u]) \in Nat, Len(answers[u]) \in Nat, Len(answers'[u]) = Len(answers[u]) - 1,
         \A j \in 1..(Len(puts[u]) - 1) : puts'[u][j] = puts[u][j + 1], entries' = entries,
         NEW i \in 1..(Len(puts[u]) - 1)
  PROVE  Behind(u, i)' /\ Done(u, i)'
<1>1. i + 1 \in 1..Len(puts[u]) /\ (i <= Len(answers'[u]) => i + 1 <= Len(answers[u]))
  OBVIOUS
<1>2. Behind(u, i + 1) /\ Done(u, i + 1) /\ puts'[u][i] = puts[u][i + 1]
  BY <1>1 DEF QueueInOrder
<1> QED
  BY <1>1, <1>2 DEF Behind, Done, HasIt, Got

LEMMA OrderInvAck ==
  ASSUME TypeOK, RecordInv, OrderInv, NEW u \in User, Ack(u)
  PROVE  OrderInv'
<1>0. /\ \A v \in User : /\ Len(puts[v]) \in Nat /\ Len(answers[v]) \in Nat
                           /\ Len(answers[v]) <= Len(puts[v])
                           /\ \A i \in 1..Len(puts[v]) :
                                puts[v][i].msg \in Msg /\ puts[v][i].msg.from = v
      /\ \A m \in Msg : m.n \in Nat
  <2>1. ASSUME NEW v \in User
        PROVE  /\ Len(puts[v]) \in Nat /\ Len(answers[v]) \in Nat /\ Len(answers[v]) <= Len(puts[v])
               /\ \A i \in 1..Len(puts[v]) : puts[v][i] \in Put
    BY Lengths
  <2>2. \A v \in User : \A i \in 1..Len(puts[v]) : puts[v][i].msg \in Msg
    BY <2>1, PutParts
  <2>3. \A v \in User : \A i \in 1..Len(puts[v]) : puts[v][i].msg.from = v
    BY DEF RecordInv, QueuesBacked, Backed
  <2>4. \A m \in Msg : m.n \in Nat
    BY PutTypes, BoundsAssumption
  <2> QED
    BY <2>1, <2>2, <2>3, <2>4
<1> DEFINE w == puts[u][1]
           k == Len(puts[u]) - 1
<1>1. /\ Len(answers[u]) >= 1 /\ Len(puts[u]) >= 1
      /\ Len(answers'[u]) = Len(answers[u]) - 1
      /\ \A v \in User \ {u} : puts'[v] = puts[v] /\ answers'[v] = answers[v]
      /\ \/ w.op = "record" /\ Answered(u, <<OwnPut(w.msg), PeerPut(w.msg)>>)
         \/ Answered(u, <<>>)
  BY AckShape
<1>2. UNCHANGED <<messages, entries, sends, sent, refusals>>
  BY DEF Ack, server, budgets
<1>3. \A j \in 1..k : puts'[u][j] = puts[u][j + 1] /\ j + 1 \in 1..Len(puts[u])
  BY <1>0, <1>1 DEF Answered
<1>4. 1 \in 1..Len(puts[u]) /\ w.msg \in Msg /\ w.msg.from = u /\ k \in Nat
  BY <1>0, <1>1
<1>5. \/ Len(puts'[u]) = k
      \/ /\ w.op = "record" /\ Len(puts'[u]) = k + 2
         /\ puts'[u][k + 1].op = "own"  /\ puts'[u][k + 1].msg = w.msg
         /\ puts'[u][k + 2].op = "peer" /\ puts'[u][k + 2].msg = w.msg
  <2>1. CASE Answered(u, <<>>)
    BY <1>4, <2>1, EmptySeq DEF Answered
  <2>2. CASE w.op = "record" /\ Answered(u, <<OwnPut(w.msg), PeerPut(w.msg)>>)
    <3>1. Len(<<OwnPut(w.msg), PeerPut(w.msg)>>) = 2
      OBVIOUS
    <3>2. /\ Len(puts'[u]) = k + 2
          /\ puts'[u][k + 1] = OwnPut(w.msg)
          /\ puts'[u][k + 2] = PeerPut(w.msg)
      BY <2>2, <3>1 DEF Answered
    <3> QED
      BY <1>4, <2>2, <3>2, PutTypes
  <2> QED
    BY <1>1, <2>1, <2>2
<1>6. \A i \in 1..Len(puts'[u]) : i \in 1..k \/ (i = k + 1 /\ Len(puts'[u]) = k + 2)
                                              \/ (i = k + 2 /\ Len(puts'[u]) = k + 2)
  BY <1>4, <1>5
<1>10. \A i \in 1..Len(puts'[u]) \ 1..k :
         w.op = "record" /\ puts'[u][i].op # "record" /\ puts'[u][i].msg = w.msg
  <2>1. ASSUME NEW i \in 1..Len(puts'[u]) \ 1..k
        PROVE  w.op = "record" /\ puts'[u][i].op # "record" /\ puts'[u][i].msg = w.msg
    <3>1. Len(puts'[u]) = k + 2 /\ (i = k + 1 \/ i = k + 2)
      BY <1>6
    <3>2. Len(puts'[u]) # k
      BY <1>4, <3>1
    <3> QED
      BY <1>5, <3>1, <3>2
  <2> QED
    BY <2>1
<1>7. \A i \in 1..Len(puts'[u]) : \E j \in 1..Len(puts[u]) : puts'[u][i].msg = puts[u][j].msg
  BY <1>3, <1>4, <1>5, <1>6
<1>8. Counted'
  <2>1. Counted
    BY DEF OrderInv
  <2>2. \A v \in User : \A i \in 1..Len(puts'[v]) : puts'[v][i].msg \in sent
    <3>1. ASSUME NEW v \in User, NEW i \in 1..Len(puts'[v]) PROVE puts'[v][i].msg \in sent
      <4>1. CASE v = u
        BY <1>7, <2>1, <3>1, <4>1 DEF Counted
      <4>2. CASE v # u
        BY <1>1, <2>1, <4>2 DEF Counted
      <4> QED
        BY <4>1, <4>2
    <3> QED
      BY <3>1
  <2> QED
    BY <1>2, <2>1, <2>2 DEF Counted
<1>9. ASSUME refusals = 0, NEW v \in User PROVE QueueInOrder(v)'
  <2>1. QueueInOrder(v)
    BY <1>9 DEF OrderInv
  <2>2. CASE v # u
    <3>1. puts'[v] = puts[v] /\ Len(answers'[v]) = Len(answers[v])
      BY <1>1, <2>2
    <3>2. \A l \in Msg : (HasIt(l)' <=> HasIt(l)) /\ (Got(l)' <=> Got(l))
      BY <1>2 DEF HasIt, Got
    <3> QED
      BY <1>0, <2>1, <3>1, <3>2, QueueSame
  <2>3. CASE v = u
    <3>0. Ordered(u) /\ QueueInOrder(u)
      BY <2>1, <2>3 DEF QueueInOrder
    <3>1. ASSUME w.op = "record", NEW j \in 1..k
          PROVE  /\ puts'[u][j].op = "record" => w.msg.n < puts'[u][j].msg.n
                 /\ puts'[u][j].op # "record" => puts'[u][j].msg.n < w.msg.n
      <4>1. 1 < j + 1 /\ puts'[u][j] = puts[u][j + 1] /\ j + 1 \in 1..Len(puts[u])
        BY <1>3, <1>4
      <4> QED
        BY <1>4, <3>0, <3>1, <4>1 DEF Ordered
    <3>2. Ordered(u)'
      <4>1. ASSUME NEW i \in 1..Len(puts'[u]), NEW j \in 1..Len(puts'[u])
            PROVE  /\ i < j /\ puts'[u][i].op = puts'[u][j].op =>
                        puts'[u][i].msg.n < puts'[u][j].msg.n
                   /\ puts'[u][i].op # "record" /\ puts'[u][j].op = "record" =>
                        puts'[u][i].msg.n < puts'[u][j].msg.n
        <5>1. CASE i \in 1..k /\ j \in 1..k
          <6>1. /\ puts'[u][i] = puts[u][i + 1] /\ puts'[u][j] = puts[u][j + 1]
                /\ i + 1 \in 1..Len(puts[u]) /\ j + 1 \in 1..Len(puts[u])
                /\ (i < j => i + 1 < j + 1)
            <7>1. puts'[u][i] = puts[u][i + 1] /\ puts'[u][j] = puts[u][j + 1]
              BY <1>3, <5>1, Zenon
            <7>2. i + 1 \in 1..Len(puts[u]) /\ j + 1 \in 1..Len(puts[u])
              BY <1>3, <5>1, Zenon
            <7>3. i < j => i + 1 < j + 1
              BY <5>1
            <7> QED
              BY <7>1, <7>2, <7>3
          <6> QED
            BY <3>0, <6>1 DEF Ordered
        <5>2. CASE i \in 1..k /\ j \notin 1..k
          <6>1. w.op = "record" /\ puts'[u][j].op # "record" /\ puts'[u][j].msg = w.msg
            BY <1>10, <5>2, Zenon
          <6> QED
            BY <3>1, <5>2, <6>1
        <5>3. CASE i \notin 1..k /\ j \in 1..k
          <6>1. w.op = "record" /\ puts'[u][i].msg = w.msg
            BY <1>10, <5>3, Zenon
          <6>2. ~(i < j)
            BY <1>4, <1>6, <5>3
          <6> QED
            BY <3>1, <5>3, <6>1, <6>2
        <5>4. CASE i \notin 1..k /\ j \notin 1..k
          <6>1. /\ i < j => puts'[u][i].op = "own" /\ puts'[u][j].op = "peer"
                /\ puts'[u][j].op # "record"
            BY <1>4, <1>5, <1>6, <4>1, <5>4
          <6> QED
            BY <6>1
        <5> QED
          BY <5>1, <5>2, <5>3, <5>4
      <4> QED
        BY <4>1 DEF Ordered
    <3>3. ASSUME NEW i \in 1..k PROVE Behind(u, i)' /\ Done(u, i)'
      BY <1>0, <1>1, <1>2, <1>3, <3>0, OrderShift
    <3>4. ASSUME NEW i \in {k + 1, k + 2}, Len(puts'[u]) = k + 2 PROVE Behind(u, i)' /\ Done(u, i)'
      <4>1. /\ puts'[u][i].op # "record" /\ puts'[u][i].msg = w.msg /\ w.op = "record"
        BY <1>4, <1>5, <3>4
      <4>2. ~ (i <= Len(answers'[u]))
        BY <1>0, <1>1, <1>4, <3>4
      <4>3. Behind(u, 1)
        BY <1>4, <3>0 DEF QueueInOrder
      <4>4. Behind(u, i)'
        BY <1>2, <4>1, <4>3 DEF Behind, HasIt, Got
      <4> QED
        BY <4>2, <4>4 DEF Done
    <3>5. \A i \in 1..Len(puts'[u]) : Behind(u, i)' /\ Done(u, i)'
      BY <1>6, <3>3, <3>4
    <3> QED
      BY <2>3, <3>2, <3>5 DEF QueueInOrder
  <2> QED
    BY <2>2, <2>3
<1> QED
  BY <1>2, <1>8, <1>9 DEF OrderInv

LEMMA OrderInvLoss ==
  ASSUME TypeOK, RecordInv, OrderInv, NEW u \in User, Disconnect(u) \/ Kill(u)
  PROVE  OrderInv'
<1>0. \A v \in User : /\ Len(puts[v]) \in Nat /\ Len(answers[v]) \in Nat
                      /\ \A i \in 1..Len(puts[v]) :
                           puts[v][i].msg \in Msg /\ puts[v][i].msg.from = v
  BY Lengths, PutParts DEF RecordInv, QueuesBacked, Backed
<1>1. /\ Len(answers'[u]) = 0
      /\ puts'[u] = puts[u] \/ Len(puts'[u]) = 0
      /\ \A v \in User \ {u} : puts'[v] = puts[v] /\ answers'[v] = answers[v]
      /\ UNCHANGED <<server, sends, sent, refusals>>
  BY LossShape
<1>2. UNCHANGED <<messages, entries, sends, sent, refusals>>
  BY <1>1 DEF server
<1>3. \A v \in User : /\ puts'[v] = puts[v] \/ Len(puts'[v]) = 0
                      /\ Len(answers'[v]) \in Nat /\ Len(answers'[v]) <= Len(answers[v])
  BY <1>0, <1>1
<1>4. Counted'
  BY <1>2, <1>3 DEF OrderInv, Counted
<1>5. ASSUME refusals = 0, NEW v \in User PROVE QueueInOrder(v)'
  <2>1. QueueInOrder(v)
    BY <1>5 DEF OrderInv
  <2>2. CASE puts'[v] = puts[v]
    <3>1. \A l \in Msg : (HasIt(l)' <=> HasIt(l)) /\ (Got(l)' <=> Got(l))
      BY <1>2 DEF HasIt, Got
    <3> QED
      BY <1>0, <1>3, <2>1, <2>2, <3>1, QueueSame
  <2>3. CASE Len(puts'[v]) = 0
    BY <2>3 DEF QueueInOrder, Ordered
  <2> QED
    BY <1>3, <2>2, <2>3
<1> QED
  BY <1>2, <1>4, <1>5 DEF OrderInv

LEMMA OrderInvStep == ASSUME TypeOK, RecordInv, OrderInv, [Next]_vars PROVE OrderInv'
<1>1. CASE UNCHANGED vars
  <2>1. UNCHANGED <<messages, entries, puts, answers, sends, sent, refusals>>
    BY <1>1 DEF vars, server, queues, budgets
  <2> QED
    BY <2>1 DEF OrderInv, Counted, QueueInOrder, Ordered, Behind, Done, HasIt, Got
<1> QED
  BY <1>1, OrderInvSend, OrderInvApply, OrderInvRefuse, OrderInvAck, OrderInvLoss DEF Next

-----------------------------------------------------------------------------
Arrived == { m \in sent : m \in entries[m.to][m.from] }

\* A message that is written is new, and has not arrived.
LEMMA SendPosts ==
  ASSUME TypeOK, RecordInv, OrderInv, NEW u \in User, NEW p \in User, Send(u, p)
  PROVE  TheCourier!Next
<1>1. PICK m \in Msg : m = [from |-> u, to |-> p, n |-> sends + 1] /\ sent' = sent \cup {m}
  BY SendShape
<1>2. entries' = entries /\ sent \subseteq Msg /\ sends \in Nat /\ Counted
  BY BoundsAssumption DEF Send, server, TypeOK, OrderInv
<1>3. \A l \in sent : l.n < m.n
  <2>1. ASSUME NEW l \in sent PROVE l.n < m.n
    <3>1. l \in Msg /\ l.n <= sends
      BY <1>2 DEF Counted
    <3>2. l.n \in Nat
      BY <3>1, PutTypes, BoundsAssumption
    <3> QED
      BY <1>1, <1>2, <3>1, <3>2
  <2> QED
    BY <2>1
<1>4. ~ Got(m)
  <2>1. SUFFICES ASSUME Got(m) PROVE FALSE
    OBVIOUS
  <2>2. m.n <= sends
    BY <1>2, <2>1, ArrivedSent
  <2> QED
    BY <1>1, <1>2, <2>2
<1>5. Arrived' = Arrived
  BY <1>1, <1>2, <1>4 DEF Arrived, Got
<1>6. TheCourier!Newer(m, sent)
  BY <1>3 DEF TheCourier!Newer
<1>7. TheCourier!Post(m)
  BY <1>1, <1>5, <1>6 DEF TheCourier!Post, Arrived
<1>8. m \in TheCourier!Msg
  BY DEF Msg, TheCourier!Msg
<1> QED
  BY <1>7, <1>8 DEF TheCourier!Next

\* What the server stores arrives as the youngest of its sender's messages, if
\* it is new.
LEMMA ApplyDelivers ==
  ASSUME TypeOK, RecordInv, OrderInv, refusals = 0, NEW u \in User, Apply(u)
  PROVE  TheCourier!Next \/ UNCHANGED TheCourier!vars
<1>1. /\ Len(answers[u]) < Len(puts[u]) /\ Store(Sending(u))
      /\ answers' = [answers EXCEPT ![u] = Append(@, TRUE)]
      /\ UNCHANGED <<puts, sends, sent, refusals>>
  BY DEF Apply, budgets
<1>2. PICK k \in 1..Len(puts[u]) : puts[u][k] = Sending(u) /\ Sending(u) \in Put
  BY <1>1, AnswerAdded
<1>3. PICK w \in Put : w = Sending(u)
  BY <1>2
<1>4. \A a, b \in User :
        entries'[a][b] =
          IF \/ w.op = "own" /\ a = w.msg.from /\ b = w.msg.to
             \/ w.op = "peer" /\ a = w.msg.to /\ b = w.msg.from
          THEN entries[a][b] \cup {w.msg} ELSE entries[a][b]
  BY <1>1, <1>3, StoreShape
<1>5. w.msg \in Msg /\ w.msg.from = u /\ w.msg \in sent /\ sent \subseteq Msg
  BY <1>2, <1>3, PutParts DEF RecordInv, QueuesBacked, Backed, OrderInv, Counted, TypeOK
<1>6. Arrived' = Arrived \cup (IF w.op = "peer" THEN {w.msg} ELSE {})
  <2>1. ASSUME NEW m \in sent
        PROVE  m \in entries'[m.to][m.from] <=> \/ m \in entries[m.to][m.from]
                                                \/ w.op = "peer" /\ m = w.msg
    <3>1. m \in Msg /\ m.from \in User /\ m.to \in User /\ m.from # m.to
      BY <1>5, PutTypes
    <3>2. entries'[m.to][m.from] =
            IF \/ w.op = "own" /\ m.to = w.msg.from /\ m.from = w.msg.to
               \/ w.op = "peer" /\ m.to = w.msg.to /\ m.from = w.msg.from
            THEN entries[m.to][m.from] \cup {w.msg} ELSE entries[m.to][m.from]
      BY <1>4, <3>1
    <3> QED
      BY <3>1, <3>2
  <2> QED
    BY <1>1, <1>5, <2>1 DEF Arrived
<1>7. CASE w.op # "peer" \/ w.msg \in Arrived
  <2>1. Arrived' = Arrived /\ sent' = sent
    BY <1>1, <1>6, <1>7
  <2> QED
    BY <2>1 DEF TheCourier!vars, Arrived
<1>8. CASE w.op = "peer" /\ w.msg \notin Arrived
  <2>1. ~ Got(w.msg)
    BY <1>5, <1>8 DEF Arrived, Got
  <2>2. ASSUME NEW l \in Arrived, l.from = u PROVE l.n < w.msg.n
    <3>1. l \in Msg /\ Got(l) /\ Behind(u, k)
      BY <1>5, <2>2 DEF Arrived, Got, OrderInv, QueueInOrder
    <3> QED
      BY <1>2, <1>3, <1>8, <2>1, <2>2, <3>1 DEF Behind
  <2>3. TheCourier!Newer(w.msg, { l \in Arrived : l.to = w.msg.to })
    BY <1>5, <2>2 DEF TheCourier!Newer
  <2>4. TheCourier!Deliver(w.msg)
    BY <1>1, <1>5, <1>6, <1>8, <2>3 DEF TheCourier!Deliver, Arrived
  <2>5. w.msg \in TheCourier!Msg
    BY <1>5 DEF Msg, TheCourier!Msg
  <2> QED
    BY <2>4, <2>5 DEF TheCourier!Next
<1> QED
  BY <1>7, <1>8

\* Every step of Messages is a step of the courier or none.
LEMMA CourierStep ==
  ASSUME TypeOK, RecordInv, OrderInv, [Next]_vars, refusals' = 0
  PROVE  TheCourier!Next \/ UNCHANGED TheCourier!vars
<1>1. ASSUME UNCHANGED <<entries, sent>> PROVE UNCHANGED TheCourier!vars
  BY <1>1 DEF TheCourier!vars
<1>2. ASSUME NEW u \in User, Refuse(u) \/ Ack(u) PROVE UNCHANGED <<entries, sent>>
  BY <1>2 DEF Refuse, Ack, server
<1>3. ASSUME NEW u \in User, Disconnect(u) \/ Kill(u) PROVE UNCHANGED <<entries, sent>>
  BY <1>3 DEF Disconnect, Kill, server
<1>4. ASSUME NEW u \in User, Apply(u) PROVE refusals = 0
  BY <1>4 DEF Apply, budgets
<1>5. CASE UNCHANGED vars
  BY <1>1, <1>5 DEF vars, server
<1> QED
  BY <1>1, <1>2, <1>3, <1>4, <1>5, SendPosts, ApplyDelivers DEF Next

\* The transport is a lossy courier without duplicates, inventions or
\* overtaking, for any number of users, messages, lost connections and killed
\* processes (IsCourier), as long as the server refuses nothing.
THEOREM CourierTheorem == Spec => IsCourier
<1>1. Init => TheCourier!Init
  BY DEF Init, TheCourier!Init
<1>2. TypeOK /\ RecordInv /\ OrderInv /\ [Next]_vars =>
        [refusals' = 0 => TheCourier!Next \/ UNCHANGED TheCourier!vars]_vars
  BY CourierStep
<1> QED
  BY <1>1, <1>2, TypeCorrect, RecordInvInit, RecordInvStep, OrderInvInit, OrderInvStep,
     PTL DEF Spec, IsCourier


-----------------------------------------------------------------------------
(***************************************************************************)
(* Conversation, on top of Messages.                                       *)
(***************************************************************************)

(***************************************************************************)
(* Sequences and what is in them.                                          *)
(***************************************************************************)
LEMMA SeqParts ==
  ASSUME NEW S, NEW s \in Seq(S)
  PROVE  /\ Len(s) \in Nat /\ DOMAIN s = 1..Len(s) /\ Range(s) \subseteq S
         /\ \A i \in DOMAIN s : s[i] \in S /\ s[i] \in Range(s)
  BY LenProperties, ElementOfSeq DEF Range

LEMMA FunctionIsSeq ==
  ASSUME NEW S, NEW n \in Nat, NEW f \in [1..n -> S]
  PROVE  f \in Seq(S) /\ Len(f) = n
<1>1. f \in Seq(S)
  BY SeqDef
<1>2. DOMAIN f = 1..n /\ DOMAIN f = 1..Len(f) /\ Len(f) \in Nat
  BY <1>1, LenProperties
<1> QED
  BY <1>1, <1>2

LEMMA NothingIn ==
  ASSUME NEW S
  PROVE  <<>> \in Seq(S) /\ DOMAIN <<>> = {} /\ Range(<<>>) = {} /\ IsInjective(<<>>)
<1>1. <<>> \in Seq(S) /\ Len(<<>>) = 0
  BY EmptySeq
<1>2. DOMAIN <<>> = 1..0
  BY <1>1, LenProperties
<1> QED
  BY <1>1, <1>2 DEF Range, IsInjective

LEMMA Appended ==
  ASSUME NEW S, NEW s \in Seq(S), NEW e \in S
  PROVE  /\ Append(s, e) \in Seq(S)
         /\ DOMAIN Append(s, e) = 1..(Len(s) + 1) /\ Len(s) + 1 \notin DOMAIN s
         /\ DOMAIN Append(s, e) = DOMAIN s \cup {Len(s) + 1}
         /\ \A i \in DOMAIN s : Append(s, e)[i] = s[i]
         /\ Append(s, e)[Len(s) + 1] = e
         /\ Range(Append(s, e)) = Range(s) \cup {e}
         /\ IsInjective(s) /\ e \notin Range(s) => IsInjective(Append(s, e))
<1>1. /\ Len(s) \in Nat /\ DOMAIN s = 1..Len(s)
      /\ Append(s, e) \in Seq(S) /\ Len(Append(s, e)) = Len(s) + 1
      /\ \A i \in 1..Len(s) : Append(s, e)[i] = s[i]
      /\ Append(s, e)[Len(s) + 1] = e
  BY SeqParts, AppendProperties
<1>2. DOMAIN Append(s, e) = 1..(Len(s) + 1)
  BY <1>1, SeqParts
<1>3. DOMAIN Append(s, e) = DOMAIN s \cup {Len(s) + 1} /\ Len(s) + 1 \notin DOMAIN s
  BY <1>1, <1>2
<1>4. Range(Append(s, e)) = Range(s) \cup {e}
  BY <1>1, <1>3 DEF Range
<1>5. IsInjective(s) /\ e \notin Range(s) => IsInjective(Append(s, e))
  BY <1>1, <1>3 DEF Range, IsInjective
<1> QED
  BY <1>1, <1>2, <1>3, <1>4, <1>5

LEMMA HeadAndTail ==
  ASSUME NEW S, NEW s \in Seq(S), s # <<>>
  PROVE  /\ Head(s) = s[1] /\ Head(s) \in S /\ 1 \in DOMAIN s
         /\ Tail(s) \in Seq(S) /\ DOMAIN Tail(s) = 1..(Len(s) - 1)
         /\ \A i \in DOMAIN Tail(s) : i + 1 \in DOMAIN s /\ Tail(s)[i] = s[i + 1]
         /\ Range(Tail(s)) \subseteq Range(s)
<1>1. /\ Head(s) \in S /\ Tail(s) \in Seq(S) /\ Len(Tail(s)) = Len(s) - 1
      /\ \A i \in 1..Len(Tail(s)) : Tail(s)[i] = s[i + 1]
      /\ Len(s) \in Nat /\ Len(s) # 0 /\ DOMAIN s = 1..Len(s)
  BY HeadTailProperties, SeqParts, EmptySeq
<1>2. DOMAIN Tail(s) = 1..(Len(s) - 1) /\ 1 \in DOMAIN s
  BY <1>1, SeqParts
<1>3. \A i \in DOMAIN Tail(s) : i + 1 \in DOMAIN s /\ Tail(s)[i] = s[i + 1]
  BY <1>1, <1>2
<1>4. Head(s) = s[1]
  BY <1>1
<1> QED
  BY <1>1, <1>2, <1>3, <1>4 DEF Range

-----------------------------------------------------------------------------
(***************************************************************************)
(* The screen adds nothing to what is sent: every step of Conversation is  *)
(* one of Messages or none, so all that is known of Messages holds here.   *)
(***************************************************************************)
Partners == chat \in [User -> User \cup {Nobody}]

LEMMA PartnersInit == ASSUME ChatInit PROVE Partners
  BY DEF ChatInit, Partners

LEMMA PartnersStep == ASSUME Partners, [ChatNext]_chatVars PROVE Partners'
<1>1. CASE UNCHANGED chatVars
  BY <1>1 DEF Partners, chatVars, screen
<1>2. ASSUME NEW u \in User, NEW p \in User, Open(u, p) PROVE Partners'
  BY <1>2 DEF Open, Partners
<1>3. ASSUME NEW u \in User, Reappear(u) \/ Read(u) \/ Reload(u) \/ ChatDisconnect(u)
      PROVE  Partners'
  BY <1>3 DEF Reappear, Read, Reload, ChatDisconnect, Partners
<1>4. ASSUME NEW u \in User, Close(u) \/ ChatKill(u) PROVE Partners'
  BY <1>4 DEF Close, ChatKill, Blank, Partners
<1>5. ASSUME NEW u \in User, NEW i \in 1..MaxAppears, Notice(u, i) PROVE Partners'
  BY <1>5 DEF Notice, Partners
<1>6. ASSUME NEW u \in User, ChatSend(u) \/ Transport(u) PROVE Partners'
  BY <1>6 DEF ChatSend, Transport, screen, Partners
<1> QED
  BY <1>1, <1>2, <1>3, <1>4, <1>5, <1>6 DEF ChatNext

LEMMA TransportStep == ASSUME Partners, [ChatNext]_chatVars PROVE [Next]_vars
<1>1. ASSUME NEW u \in User, NEW p \in User, Open(u, p) PROVE UNCHANGED vars
  BY <1>1 DEF Open
<1>2. ASSUME NEW u \in User, Reappear(u) \/ Close(u) \/ Read(u) \/ Reload(u) PROVE UNCHANGED vars
  BY <1>2 DEF Reappear, Close, Read, Reload
<1>3. ASSUME NEW u \in User, NEW i \in 1..MaxAppears, Notice(u, i) PROVE UNCHANGED vars
  BY <1>3 DEF Notice
<1>4. ASSUME NEW u \in User, ChatSend(u) PROVE Next
  <2>1. chat[u] \in User /\ Send(u, chat[u])
    BY <1>4 DEF ChatSend, Partners
  <2> QED
    BY <2>1 DEF Next
<1>5. ASSUME NEW u \in User, Transport(u) \/ ChatDisconnect(u) \/ ChatKill(u) PROVE Next
  BY <1>5 DEF Transport, ChatDisconnect, ChatKill, Next
<1>6. CASE UNCHANGED chatVars
  BY <1>6 DEF chatVars
<1> QED
  BY <1>1, <1>2, <1>3, <1>4, <1>5, <1>6 DEF ChatNext

\* The chat screen changes nothing about the transport below it.
THEOREM ChatImplementsMessages == ChatSpec => Spec
<1>1. ChatInit => Init
  BY DEF ChatInit
<1> QED
  BY <1>1, PartnersInit, PartnersStep, TransportStep, PTL DEF ChatSpec, Spec

-----------------------------------------------------------------------------
(***************************************************************************)
(* Types.  The counter of lost connections stays below its bound because   *)
(* each user's losses are among all the drops.                             *)
(***************************************************************************)
Screens ==
  /\ Partners
  /\ observers \in [User -> Seq(Observer)]
  /\ asked \in [User -> Seq(Msg)]
  /\ shown \in [User -> Seq(Msg)]
  /\ rows \in [User -> Nat]
  /\ reload \in [User -> BOOLEAN]
  /\ appears \in 0..MaxAppears

LossesCounted == losses \in [User -> Nat] /\ \A u \in User : losses[u] <= drops

\* Whatever happens to the screen of u leaves the others alone.
Elsewhere(u) ==
  \A v \in User \ {u} :
    /\ chat'[v] = chat[v] /\ observers'[v] = observers[v]
    /\ asked'[v] = asked[v] /\ shown'[v] = shown[v] /\ losses'[v] = losses[v]

LEMMA FreshObserver ==
  ASSUME NEW u, NEW p \in User
  PROVE  /\ NewObserver(u, p) \in Observer /\ NewObserver(u, p).array = <<>>
         /\ NewObserver(u, p).noticed = {} /\ NewObserver(u, p).reading = {}
         /\ NewObserver(u, p).peer = p /\ ~ NewObserver(u, p).left
  BY NothingIn DEF NewObserver, Observer

\* u has one more observer, a new one of the chat with p.
Gains(u, p) ==
  /\ DOMAIN observers'[u] = DOMAIN observers[u] \cup {Len(observers[u]) + 1}
  /\ \A i \in DOMAIN observers[u] : observers'[u][i] = observers[u][i]
  /\ observers'[u][Len(observers[u]) + 1] = NewObserver(u, p)

LEMMA Registered ==
  ASSUME Screens, NEW u \in User, NEW p \in User,
         observers' = [observers EXCEPT ![u] = Append(@, NewObserver(u, p))]
  PROVE  /\ observers' \in [User -> Seq(Observer)] /\ Gains(u, p)
         /\ \A v \in User \ {u} : observers'[v] = observers[v]
<1>1. observers[u] \in Seq(Observer) /\ observers \in [User -> Seq(Observer)]
  BY DEF Screens
<1>2. PICK e \in Observer : e = NewObserver(u, p)
  BY FreshObserver
<1>3. PICK s \in Seq(Observer) : s = Append(observers[u], e)
  BY <1>1, Appended
<1>4. /\ DOMAIN s = DOMAIN observers[u] \cup {Len(observers[u]) + 1}
      /\ \A i \in DOMAIN observers[u] : s[i] = observers[u][i]
      /\ s[Len(observers[u]) + 1] = e
  BY <1>1, <1>3, Appended
<1>5. observers' = [observers EXCEPT ![u] = s]
  BY <1>2, <1>3
<1>6. /\ observers' \in [User -> Seq(Observer)] /\ observers'[u] = s
      /\ \A v \in User \ {u} : observers'[v] = observers[v]
  BY <1>1, <1>5
<1> QED
  BY <1>2, <1>4, <1>6 DEF Gains

LEMMA OpenShape ==
  ASSUME Screens, NEW u \in User, NEW p \in User, Open(u, p)
  PROVE  /\ Screens' /\ Elsewhere(u) /\ Gains(u, p)
         /\ chat[u] = Nobody /\ chat'[u] = p /\ p # u
         /\ UNCHANGED <<vars, asked, shown, rows, reload, losses>>
<1>1. /\ chat' = [chat EXCEPT ![u] = p] /\ chat[u] = Nobody /\ u # p
      /\ observers' = [observers EXCEPT ![u] = Append(@, NewObserver(u, p))]
      /\ appears < MaxAppears /\ appears' = appears + 1
      /\ UNCHANGED <<vars, asked, shown, rows, reload, losses>>
  BY DEF Open
<1>2. /\ observers' \in [User -> Seq(Observer)] /\ Gains(u, p)
      /\ \A v \in User \ {u} : observers'[v] = observers[v]
  BY <1>1, Registered
<1>3. appears' \in 0..MaxAppears
  BY <1>1, ConversationAssumption DEF Screens
<1>4. Screens'
  BY <1>1, <1>2, <1>3 DEF Screens, Partners
<1> QED
  BY <1>1, <1>2, <1>4 DEF Screens, Partners, Elsewhere

LEMMA ReappearShape ==
  ASSUME Screens, NEW u \in User, Reappear(u)
  PROVE  /\ Screens' /\ Elsewhere(u) /\ chat[u] \in User /\ Gains(u, chat[u])
         /\ UNCHANGED <<vars, chat, asked, shown, rows, reload, losses>>
<1>1. /\ observers' = [observers EXCEPT ![u] = Append(@, NewObserver(u, chat[u]))]
      /\ chat[u] # Nobody /\ appears < MaxAppears /\ appears' = appears + 1
      /\ UNCHANGED <<vars, chat, asked, shown, rows, reload, losses>>
  BY DEF Reappear
<1>2. chat[u] \in User
  BY <1>1 DEF Screens, Partners
<1>3. /\ observers' \in [User -> Seq(Observer)] /\ Gains(u, chat[u])
      /\ \A v \in User \ {u} : observers'[v] = observers[v]
  BY <1>1, <1>2, Registered
<1>4. appears' \in 0..MaxAppears
  BY <1>1, ConversationAssumption DEF Screens
<1>5. Screens'
  BY <1>1, <1>3, <1>4 DEF Screens, Partners
<1> QED
  BY <1>1, <1>2, <1>3, <1>5 DEF Screens, Partners, Elsewhere

\* o2 is o after its screen was left.
Leaves(o, o2) ==
  /\ o2.left /\ o2.peer = o.peer
  /\ o2.noticed = o.noticed /\ o2.reading = o.reading /\ o2.array = o.array

LEMMA CloseShape ==
  ASSUME Screens, NEW u \in User, Close(u)
  PROVE  /\ Screens' /\ Elsewhere(u)
         /\ chat'[u] = Nobody /\ shown'[u] = <<>>
         /\ DOMAIN observers'[u] = DOMAIN observers[u]
         /\ \A i \in DOMAIN observers[u] : Leaves(observers[u][i], observers'[u][i])
         /\ UNCHANGED <<vars, asked, losses>>
<1>1. /\ chat' = [chat EXCEPT ![u] = Nobody]
      /\ observers' = [observers EXCEPT ![u] = [i \in DOMAIN @ |-> [@[i] EXCEPT !.left = TRUE]]]
      /\ shown' = [shown EXCEPT ![u] = <<>>]
      /\ rows' = [rows EXCEPT ![u] = 0]
      /\ reload' = [reload EXCEPT ![u] = FALSE]
      /\ UNCHANGED <<vars, asked, appears, losses>>
  BY DEF Close, Blank
<1>2. /\ observers[u] \in Seq(Observer) /\ observers \in [User -> Seq(Observer)]
      /\ Len(observers[u]) \in Nat /\ DOMAIN observers[u] = 1..Len(observers[u])
      /\ \A i \in DOMAIN observers[u] : observers[u][i] \in Observer
  BY SeqParts DEF Screens
<1>3. ASSUME NEW o \in Observer
      PROVE  [o EXCEPT !.left = TRUE] \in Observer /\ Leaves(o, [o EXCEPT !.left = TRUE])
  BY DEF Observer, Leaves
<1>4. PICK s : s = [i \in DOMAIN observers[u] |-> [observers[u][i] EXCEPT !.left = TRUE]]
  OBVIOUS
<1>5. /\ s \in [1..Len(observers[u]) -> Observer]
      /\ \A i \in DOMAIN observers[u] : Leaves(observers[u][i], s[i])
  BY <1>2, <1>3, <1>4
<1>6. s \in Seq(Observer) /\ DOMAIN s = DOMAIN observers[u]
  BY <1>2, <1>5, FunctionIsSeq
<1>7. observers' = [observers EXCEPT ![u] = s]
  BY <1>1, <1>4
<1>8. /\ observers' \in [User -> Seq(Observer)] /\ observers'[u] = s
      /\ \A v \in User \ {u} : observers'[v] = observers[v]
  BY <1>2, <1>6, <1>7
<1>9. <<>> \in Seq(Msg)
  BY NothingIn
<1>10. Screens'
  BY <1>1, <1>8, <1>9 DEF Screens, Partners
<1> QED
  BY <1>1, <1>5, <1>6, <1>8, <1>10 DEF Screens, Partners, Elsewhere

LEMMA KillShape ==
  ASSUME Screens, NEW u \in User, ChatKill(u)
  PROVE  /\ Screens' /\ Elsewhere(u)
         /\ chat'[u] = Nobody /\ observers'[u] = <<>> /\ asked'[u] = <<>> /\ shown'[u] = <<>>
         /\ UNCHANGED losses
<1>1. /\ chat' = [chat EXCEPT ![u] = Nobody]
      /\ observers' = [observers EXCEPT ![u] = <<>>]
      /\ asked' = [asked EXCEPT ![u] = <<>>]
      /\ shown' = [shown EXCEPT ![u] = <<>>]
      /\ rows' = [rows EXCEPT ![u] = 0]
      /\ reload' = [reload EXCEPT ![u] = FALSE]
      /\ UNCHANGED <<appears, losses>>
  BY DEF ChatKill, Blank
<1>2. <<>> \in Seq(Observer) /\ <<>> \in Seq(Msg)
  BY NothingIn
<1> QED
  BY <1>1, <1>2 DEF Screens, Partners, Elsewhere

\* What the screen of u sees are messages.
LEMMA VisibleMsg ==
  ASSUME TypeOK, NEW u \in User, NEW p \in User PROVE Visible(u, p) \subseteq Msg
  BY DEF TypeOK, Visible

\* Observer i learns of m and the server is asked for it.
LEMMA NoticeShape ==
  ASSUME TypeOK, Screens, NEW u \in User, NEW i \in 1..MaxAppears, Notice(u, i)
  PROVE  \E m \in Msg :
           /\ i \in DOMAIN observers[u] /\ observers[u][i].peer \in User
           /\ m \in Visible(u, observers[u][i].peer) \ observers[u][i].noticed
           /\ \A l \in Visible(u, observers[u][i].peer) \ observers[u][i].noticed :
                l.from = m.from => m.n <= l.n
           /\ Screens' /\ Elsewhere(u)
           /\ DOMAIN observers'[u] = DOMAIN observers[u]
           /\ \A j \in DOMAIN observers[u] \ {i} : observers'[u][j] = observers[u][j]
           /\ observers'[u][i].peer = observers[u][i].peer
           /\ observers'[u][i].left = observers[u][i].left
           /\ observers'[u][i].noticed = observers[u][i].noticed \cup {m}
           /\ observers'[u][i].reading = observers[u][i].reading \cup {m}
           /\ observers'[u][i].array = observers[u][i].array
           /\ asked'[u] = IF m \in Range(asked[u]) THEN asked[u] ELSE Append(asked[u], m)
           /\ UNCHANGED <<vars, chat, shown, rows, reload, losses>>
<1> DEFINE o == observers[u][i]
           new == Visible(u, o.peer) \ o.noticed
<1>1. PICK m \in new :
        /\ \A l \in new : l.from = m.from => m.n <= l.n
        /\ observers' = [observers EXCEPT ![u][i].noticed = @ \cup {m},
                                          ![u][i].reading = @ \cup {m}]
        /\ asked' = [asked EXCEPT ![u] = IF m \in Range(@) THEN @ ELSE Append(@, m)]
  BY DEF Notice
<1>2. i \in DOMAIN observers[u] /\ UNCHANGED <<vars, chat, shown, rows, reload, appears, losses>>
  BY DEF Notice
<1>3. observers[u] \in Seq(Observer) /\ asked[u] \in Seq(Msg) /\ chat[u] \in User \cup {Nobody}
      /\ observers \in [User -> Seq(Observer)] /\ asked \in [User -> Seq(Msg)]
  BY DEF Screens, Partners
<1>4. Len(observers[u]) \in Nat /\ DOMAIN observers[u] = 1..Len(observers[u])
  BY <1>3, SeqParts
<1>5. o \in Observer /\ i \in 1..Len(observers[u])
  BY <1>2, <1>3, <1>4, SeqParts
<1>6. observers[u][i].peer \in User
  BY <1>5 DEF Observer
<1>7. m \in Msg
  BY <1>1, <1>6, VisibleMsg
<1> DEFINE o2 == [o EXCEPT !.noticed = @ \cup {m}, !.reading = @ \cup {m}]
<1>8. /\ o2 \in Observer /\ o2.noticed = o.noticed \cup {m} /\ o2.reading = o.reading \cup {m}
      /\ o2.array = o.array /\ o2.peer = o.peer /\ o2.left = o.left
  BY <1>7, <1>5 DEF Observer
<1>9. observers' = [observers EXCEPT ![u] = [observers[u] EXCEPT ![i] = o2]]
  BY <1>1, <1>2, <1>3
<1>10. PICK s \in Seq(Observer) : s = [observers[u] EXCEPT ![i] = o2]
  BY <1>3, <1>5, <1>8, ExceptSeq
<1>11. /\ DOMAIN s = DOMAIN observers[u]
       /\ \A j \in DOMAIN observers[u] \ {i} : s[j] = observers[u][j]
       /\ s[i] = o2
  <2>1. Len(s) = Len(observers[u])
    BY <1>3, <1>5, <1>8, <1>10, ExceptSeq
  <2> QED
    BY <1>2, <1>10, <2>1
<1>12. observers' \in [User -> Seq(Observer)] /\ observers'[u] = s
       /\ \A v \in User \ {u} : observers'[v] = observers[v]
  BY <1>3, <1>9, <1>10
<1>13. PICK a \in Seq(Msg) : a = IF m \in Range(asked[u]) THEN asked[u] ELSE Append(asked[u], m)
  BY <1>3, <1>7, Appended
<1>14. asked' \in [User -> Seq(Msg)] /\ asked'[u] = a /\ \A v \in User \ {u} : asked'[v] = asked[v]
  BY <1>1, <1>3, <1>13
<1>15. Screens'
  BY <1>2, <1>12, <1>14 DEF Screens, Partners
<1>16. Elsewhere(u)
  BY <1>2, <1>12, <1>14 DEF Elsewhere
<1>17. /\ DOMAIN observers'[u] = DOMAIN observers[u]
       /\ \A j \in DOMAIN observers[u] \ {i} : observers'[u][j] = observers[u][j]
  BY <1>11, <1>12
<1>18. /\ observers'[u][i].noticed = observers[u][i].noticed \cup {m}
       /\ observers'[u][i].reading = observers[u][i].reading \cup {m}
       /\ observers'[u][i].array = observers[u][i].array
       /\ observers'[u][i].peer = observers[u][i].peer
       /\ observers'[u][i].left = observers[u][i].left
  BY <1>8, <1>11, <1>12
<1>19. asked'[u] = IF m \in Range(asked[u]) THEN asked[u] ELSE Append(asked[u], m)
  BY <1>13, <1>14
<1>20. \A l \in Visible(u, observers[u][i].peer) \ observers[u][i].noticed :
         l.from = m.from => m.n <= l.n
  BY <1>1
<1>21. m \in Visible(u, observers[u][i].peer) \ observers[u][i].noticed
  BY <1>1
<1> HIDE DEF o, new, o2
<1> QED
  BY <1>2, <1>6, <1>7, <1>15, <1>16, <1>17, <1>18, <1>19, <1>20, <1>21

\* The answer to the oldest question reaches the observers that wait for it.
Told(u, i, m) ==
  IF m \in observers[u][i].reading
  THEN /\ observers'[u][i].peer = observers[u][i].peer
       /\ observers'[u][i].left = observers[u][i].left
       /\ observers'[u][i].noticed = observers[u][i].noticed
       /\ observers'[u][i].reading = observers[u][i].reading \ {m}
       /\ observers'[u][i].array = IF m \in messages THEN Append(observers[u][i].array, m)
                                   ELSE observers[u][i].array
  ELSE observers'[u][i] = observers[u][i]

\* Observer i of the open screen gets the answer.
Showing(u, i, m) == m \in observers[u][i].reading /\ ~ observers[u][i].left

LEMMA GotParts ==
  ASSUME NEW o \in Observer, NEW m \in Msg
  PROVE  LET g == [o EXCEPT !.reading = @ \ {m},
                            !.array   = IF m \in messages THEN Append(@, m) ELSE @]
         IN  /\ g \in Observer /\ g.peer = o.peer /\ g.left = o.left
             /\ g.noticed = o.noticed /\ g.reading = o.reading \ {m}
             /\ g.array = IF m \in messages THEN Append(o.array, m) ELSE o.array
<1>1. o.array \in Seq(Msg)
  BY DEF Observer
<1>2. PICK a \in Seq(Msg) : a = IF m \in messages THEN Append(o.array, m) ELSE o.array
  BY <1>1, Appended
<1>3. [o EXCEPT !.reading = @ \ {m}, !.array = IF m \in messages THEN Append(@, m) ELSE @]
        = [o EXCEPT !.reading = @ \ {m}, !.array = a]
  BY <1>2
<1>4. PICK g : g = [o EXCEPT !.reading = @ \ {m}, !.array = a]
  OBVIOUS
<1>5. /\ g \in Observer /\ g.peer = o.peer /\ g.left = o.left
      /\ g.noticed = o.noticed /\ g.reading = o.reading \ {m} /\ g.array = a
  BY <1>4 DEF Observer
<1> QED
  BY <1>2, <1>3, <1>4, <1>5

LEMMA ReadShape ==
  ASSUME Screens, NEW u \in User, Read(u)
  PROVE  \E m \in Msg :
           /\ asked[u] # <<>> /\ m = Head(asked[u])
           /\ Screens' /\ Elsewhere(u)
           /\ DOMAIN observers'[u] = DOMAIN observers[u]
           /\ \A i \in DOMAIN observers[u] : Told(u, i, m)
           /\ IF m \in messages /\ \E i \in DOMAIN observers[u] : Showing(u, i, m)
              THEN \E i \in DOMAIN observers[u] : /\ Showing(u, i, m)
                                                  /\ shown'[u] = observers'[u][i].array
              ELSE shown'[u] = shown[u]
           /\ asked'[u] = Tail(asked[u])
           /\ UNCHANGED <<vars, chat, losses>>
<1> DEFINE m == Head(asked[u])
           readers == { i \in DOMAIN observers[u] : m \in observers[u][i].reading }
           showing == { i \in readers : ~ observers[u][i].left }
           got(i) == [ observers[u][i] EXCEPT
                         !.reading = @ \ {m},
                         !.array   = IF m \in messages THEN Append(@, m) ELSE @ ]
<1>1. /\ asked[u] # <<>>
      /\ observers' = [observers EXCEPT ![u] =
                         [i \in DOMAIN @ |-> IF i \in readers THEN got(i) ELSE @[i]]]
      /\ IF m \in messages /\ showing # {}
         THEN \E i \in showing :
                /\ shown' = [shown EXCEPT ![u] = got(i).array]
                /\ reload' = [reload EXCEPT ![u] = TRUE]
         ELSE UNCHANGED <<shown, reload>>
      /\ asked' = [asked EXCEPT ![u] = Tail(@)]
      /\ UNCHANGED <<vars, chat, rows, appears, losses>>
  BY DEF Read, With
<1>2. observers[u] \in Seq(Observer) /\ asked[u] \in Seq(Msg) /\ chat[u] \in User \cup {Nobody}
      /\ observers \in [User -> Seq(Observer)] /\ asked \in [User -> Seq(Msg)]
      /\ shown \in [User -> Seq(Msg)] /\ reload \in [User -> BOOLEAN]
  BY DEF Screens, Partners
<1>3. Len(observers[u]) \in Nat /\ DOMAIN observers[u] = 1..Len(observers[u])
      /\ \A i \in DOMAIN observers[u] : observers[u][i] \in Observer
  BY <1>2, SeqParts
<1>4. m \in Msg /\ Tail(asked[u]) \in Seq(Msg)
  BY <1>1, <1>2, HeadAndTail
<1>5. ASSUME NEW i \in DOMAIN observers[u]
      PROVE  /\ got(i) \in Observer
             /\ got(i).peer = observers[u][i].peer /\ got(i).left = observers[u][i].left
             /\ got(i).noticed = observers[u][i].noticed
             /\ got(i).reading = observers[u][i].reading \ {m}
             /\ got(i).array = IF m \in messages THEN Append(observers[u][i].array, m)
                               ELSE observers[u][i].array
  <2>1. observers[u][i] \in Observer
    BY <1>3
  <2> QED
    BY <1>4, <2>1, GotParts
<1>6. PICK s : s = [i \in DOMAIN observers[u] |-> IF i \in readers THEN got(i) ELSE observers[u][i]]
  OBVIOUS
<1>7. s \in [1..Len(observers[u]) -> Observer]
  BY <1>3, <1>5, <1>6
<1>8. s \in Seq(Observer) /\ Len(s) = Len(observers[u]) /\ DOMAIN s = DOMAIN observers[u]
  BY <1>3, <1>7, FunctionIsSeq
<1>9. observers' \in [User -> Seq(Observer)] /\ observers'[u] = s
      /\ \A v \in User \ {u} : observers'[v] = observers[v]
  BY <1>1, <1>2, <1>6, <1>8
<1>10. ASSUME NEW i \in DOMAIN observers[u] PROVE Told(u, i, m)
  <2>1. observers'[u][i] = IF i \in readers THEN got(i) ELSE observers[u][i]
    BY <1>6, <1>9
  <2>2. i \in readers <=> m \in observers[u][i].reading
    OBVIOUS
  <2>3. CASE m \in observers[u][i].reading
    <3>1. observers'[u][i] = got(i)
      BY <2>1, <2>2, <2>3
    <3> HIDE DEF got, readers, showing, m
    <3> QED
      BY <1>5, <2>3, <3>1 DEF Told
  <2>4. CASE m \notin observers[u][i].reading
    BY <2>1, <2>2, <2>4 DEF Told
  <2> QED
    BY <2>3, <2>4
<1>11. /\ shown' \in [User -> Seq(Msg)] /\ reload' \in [User -> BOOLEAN]
       /\ \A v \in User \ {u} : shown'[v] = shown[v]
       /\ IF m \in messages /\ \E i \in DOMAIN observers[u] : Showing(u, i, m)
          THEN \E i \in DOMAIN observers[u] : /\ Showing(u, i, m)
                                              /\ shown'[u] = observers'[u][i].array
          ELSE shown'[u] = shown[u]
  <2>0. /\ showing # {} <=> \E i \in DOMAIN observers[u] : Showing(u, i, m)
        /\ \A i \in showing : i \in readers /\ i \in DOMAIN observers[u] /\ Showing(u, i, m)
    BY DEF Showing
  <2>1. CASE m \in messages /\ showing # {}
    <3>1. PICK i \in showing : /\ shown' = [shown EXCEPT ![u] = got(i).array]
                               /\ reload' = [reload EXCEPT ![u] = TRUE]
      BY <1>1, <2>1
    <3>2. PICK a \in Seq(Msg) : a = got(i).array /\ a = observers'[u][i].array
      <4>1. i \in readers /\ i \in DOMAIN observers[u]
        BY <2>0
      <4>2. observers'[u][i] = got(i) /\ got(i) \in Observer
        BY <1>5, <1>6, <1>9, <4>1
      <4> QED
        BY <4>2 DEF Observer
    <3>3. shown' = [shown EXCEPT ![u] = a]
      BY <3>1, <3>2
    <3>4. shown' \in [User -> Seq(Msg)] /\ shown'[u] = a /\ \A v \in User \ {u} : shown'[v] = shown[v]
      BY <1>2, <3>3
    <3>5. reload' \in [User -> BOOLEAN]
      BY <1>2, <3>1
    <3> QED
      BY <2>0, <2>1, <3>2, <3>4, <3>5
  <2>2. CASE ~ (m \in messages /\ showing # {})
    <3>1. UNCHANGED <<shown, reload>>
      BY <1>1, <2>2
    <3> QED
      BY <1>2, <2>0, <2>2, <3>1
  <2> QED
    BY <2>1, <2>2
<1>12. asked' \in [User -> Seq(Msg)] /\ asked'[u] = Tail(asked[u])
       /\ \A v \in User \ {u} : asked'[v] = asked[v]
  BY <1>1, <1>2, <1>4
<1>14. Screens'
  BY <1>1, <1>9, <1>11, <1>12 DEF Screens, Partners
<1>15. Elsewhere(u)
  BY <1>1, <1>9, <1>11, <1>12 DEF Elsewhere
<1> QED
  BY <1>1, <1>4, <1>8, <1>9, <1>10, <1>11, <1>12, <1>14, <1>15

LEMMA ReloadShape ==
  ASSUME Screens, NEW u \in User, Reload(u)
  PROVE  Screens' /\ UNCHANGED <<vars, chat, observers, asked, shown, losses>>
<1>1. shown[u] \in Seq(Msg) /\ Len(shown[u]) \in Nat
  BY SeqParts DEF Screens
<1> QED
  BY <1>1 DEF Reload, Screens, Partners

\* The questions are asked again, in some order.
LEMMA LostShape ==
  ASSUME Screens, NEW u \in User, ChatDisconnect(u)
  PROVE  /\ Screens'
         /\ \A v \in User \ {u} : losses'[v] = losses[v] /\ asked'[v] = asked[v]
         /\ losses' = [losses EXCEPT ![u] = @ + 1]
         /\ Range(asked'[u]) \subseteq Range(asked[u])
         /\ Disconnect(u) /\ drops' = drops + 1
         /\ UNCHANGED <<chat, observers, shown>>
<1>1. PICK order \in Bijection(DOMAIN asked[u], DOMAIN asked[u]) :
        asked' = [asked EXCEPT ![u] = [i \in DOMAIN @ |-> @[order[i]]]]
  BY DEF ChatDisconnect
<1>2. /\ Disconnect(u) /\ drops' = drops + 1 /\ losses' = [losses EXCEPT ![u] = @ + 1]
      /\ UNCHANGED <<chat, observers, shown, rows, reload, appears>>
  BY DEF ChatDisconnect, Disconnect
<1>3. order \in [DOMAIN asked[u] -> DOMAIN asked[u]]
  BY <1>1 DEF Bijection, Injection
<1>4. /\ asked \in [User -> Seq(Msg)] /\ asked[u] \in Seq(Msg)
      /\ DOMAIN asked[u] = 1..Len(asked[u]) /\ Len(asked[u]) \in Nat
      /\ \A i \in DOMAIN asked[u] : asked[u][i] \in Msg
  BY SeqParts DEF Screens
<1>5. PICK s : s = [i \in DOMAIN asked[u] |-> asked[u][order[i]]]
  OBVIOUS
<1>6. s \in [1..Len(asked[u]) -> Msg] /\ Range(s) \subseteq Range(asked[u])
  BY <1>3, <1>4, <1>5 DEF Range
<1>7. s \in Seq(Msg)
  BY <1>4, <1>6, FunctionIsSeq
<1>8. asked' \in [User -> Seq(Msg)] /\ asked'[u] = s /\ \A v \in User \ {u} : asked'[v] = asked[v]
  <2>1. asked' = [asked EXCEPT ![u] = s]
    BY <1>1, <1>5
  <2> QED
    BY <1>4, <1>7, <2>1
<1>9. Screens'
  BY <1>2, <1>8 DEF Screens, Partners
<1>10. \A v \in User \ {u} : losses'[v] = losses[v]
  BY <1>2
<1> QED
  BY <1>2, <1>6, <1>8, <1>9, <1>10

\* Steps the screen has no part in.
LEMMA SilentShape ==
  ASSUME Screens, \/ UNCHANGED chatVars
                  \/ \E u \in User : ChatSend(u) \/ Transport(u)
  PROVE  /\ Screens'
         /\ UNCHANGED <<chat, observers, asked, shown, losses, drops>>
<1>1. UNCHANGED <<chat, observers, asked, shown, rows, reload, appears, losses, drops>>
  BY DEF ChatSend, Transport, Send, Apply, Refuse, Ack, screen, chatVars, vars, budgets
<1> QED
  BY <1>1 DEF Screens, Partners

LEMMA ScreensInit == ASSUME ChatInit PROVE Screens
<1>1. <<>> \in Seq(Observer) /\ <<>> \in Seq(Msg)
  BY NothingIn
<1> QED
  BY <1>1, ConversationAssumption DEF ChatInit, Screens, Partners

LEMMA ScreensStep == ASSUME TypeOK, Screens, [ChatNext]_chatVars PROVE Screens'
<1>1. ASSUME NEW u \in User, NEW i \in 1..MaxAppears, Notice(u, i) PROVE Screens'
  BY <1>1, NoticeShape
<1>2. ASSUME NEW u \in User, Read(u) PROVE Screens'
  BY <1>2, ReadShape
<1>3. ASSUME NEW u \in User, NEW p \in User, Open(u, p) PROVE Screens'
  BY <1>3, OpenShape
<1> QED
  BY <1>1, <1>2, <1>3, ReappearShape, CloseShape, KillShape, ReloadShape,
     LostShape, SilentShape DEF ChatNext

LEMMA LossesStep ==
  ASSUME TypeOK, Screens, LossesCounted, [ChatNext]_chatVars PROVE LossesCounted'
<1>0. drops \in Nat
  BY BoundsAssumption DEF TypeOK
<1>1. ASSUME UNCHANGED <<losses, drops>> PROVE LossesCounted'
  BY <1>1 DEF LossesCounted
<1>2. ASSUME NEW u \in User, ChatDisconnect(u) PROVE LossesCounted'
  <2>1. losses' = [losses EXCEPT ![u] = @ + 1] /\ drops' = drops + 1
    BY <1>2, LostShape
  <2>2. losses \in [User -> Nat] /\ \A v \in User : losses[v] <= drops /\ losses[v] \in Nat
    BY DEF LossesCounted
  <2>3. losses' \in [User -> Nat]
    BY <2>1, <2>2
  <2>4. ASSUME NEW v \in User PROVE losses'[v] <= drops'
    BY <1>0, <2>1, <2>2
  <2> QED
    BY <2>3, <2>4 DEF LossesCounted
<1>3. ASSUME NEW u \in User, NEW p \in User, Open(u, p) PROVE UNCHANGED <<losses, drops>>
  BY <1>3 DEF Open, vars, budgets
<1>4. ASSUME NEW u \in User, Reappear(u) \/ Close(u) \/ Read(u) \/ Reload(u)
      PROVE  UNCHANGED <<losses, drops>>
  BY <1>4 DEF Reappear, Close, Read, Reload, vars, budgets
<1>5. ASSUME NEW u \in User, NEW i \in 1..MaxAppears, Notice(u, i)
      PROVE  UNCHANGED <<losses, drops>>
  BY <1>5 DEF Notice, vars, budgets
<1>6. ASSUME NEW u \in User, ChatKill(u) PROVE UNCHANGED <<losses, drops>>
  BY <1>6 DEF ChatKill, Kill
<1> QED
  BY <1>1, <1>2, <1>3, <1>4, <1>5, <1>6, SilentShape DEF ChatNext

\* Every reachable state of the chat screens is of the declared types
\* (ChatTypeOK).
THEOREM ChatTypeCorrect == ChatSpec => []ChatTypeOK
<1>1. ChatInit => Screens /\ LossesCounted
  BY ScreensInit DEF ChatInit, Init, LossesCounted
<1>2. TypeOK /\ Screens /\ LossesCounted => ChatTypeOK
  <2>1. ASSUME TypeOK, LossesCounted PROVE losses \in [User -> 0..MaxDrops]
    <3>0. drops \in 0..MaxDrops /\ MaxDrops \in Nat
      BY <2>1, BoundsAssumption DEF TypeOK
    <3>1. ASSUME NEW u \in User PROVE losses[u] \in 0..MaxDrops
      <4>1. losses[u] \in Nat /\ losses[u] <= drops
        BY <2>1 DEF LossesCounted
      <4> QED
        BY <3>0, <4>1
    <3>2. losses \in [User -> Nat]
      BY <2>1 DEF LossesCounted
    <3> QED
      BY <3>1, <3>2
  <2> QED
    BY <2>1 DEF ChatTypeOK, Screens, Partners
<1>3. TypeOK /\ Screens /\ LossesCounted /\ [ChatNext]_chatVars => Screens' /\ LossesCounted'
  BY ScreensStep, LossesStep
<1> QED
  BY <1>1, <1>2, <1>3, ChatImplementsMessages, TypeCorrect, PTL DEF ChatSpec

-----------------------------------------------------------------------------
(***************************************************************************)
(* What an observer has in its array it does not read again, and both it   *)
(* has noticed; so nothing is in an array twice.  What it noticed has a    *)
(* record: behind an entry there is one, and behind the user's own         *)
(* outstanding entry too.                                                  *)
(***************************************************************************)
Once(o) ==
  /\ IsInjective(o.array)
  /\ Range(o.array) \cup o.reading \subseteq o.noticed
  /\ Range(o.array) \cap o.reading = {}

ArraysOnce(u) == (\A i \in DOMAIN observers[u] : Once(observers[u][i])) /\ IsInjective(shown[u])

AskedFinds(u) == Range(asked[u]) \subseteq messages

ScreenInv == \A u \in User : ArraysOnce(u) /\ AskedFinds(u)

LEMMA ScreenInvInit == ASSUME ChatInit PROVE ScreenInv
  BY NothingIn DEF ChatInit, ScreenInv, ArraysOnce, AskedFinds

\* Records stay.
LEMMA MessagesStay == ASSUME TypeOK, [Next]_vars PROVE messages \subseteq messages'
<1>1. ASSUME NEW u \in User, Apply(u) PROVE messages \subseteq messages'
  BY <1>1 DEF Apply, Store
<1>2. CASE UNCHANGED vars
  BY <1>2 DEF vars, server
<1>3. ASSUME NEW u \in User, Disconnect(u) \/ Kill(u) PROVE messages' = messages
  BY <1>3 DEF Disconnect, Kill, server
<1>4. ASSUME NEW u \in User, NEW p \in User, Send(u, p) PROVE messages' = messages
  BY <1>4 DEF Send, server
<1>5. ASSUME NEW u \in User, Refuse(u) \/ Ack(u) PROVE messages' = messages
  BY <1>5 DEF Refuse, Ack, server
<1> QED
  BY <1>1, <1>2, <1>3, <1>4, <1>5 DEF Next

\* What the screen of u sees has a record.
LEMMA VisibleFound ==
  ASSUME TypeOK, RecordInv, NEW u \in User, NEW p \in User
  PROVE  Visible(u, p) \subseteq messages
<1>1. ASSUME NEW m \in Msg, OwnPut(m) \in Range(puts[u]) PROVE m \in messages
  <2>1. puts[u] \in Seq(Put)
    BY DEF TypeOK
  <2>2. PICK i \in 1..Len(puts[u]) : puts[u][i] = OwnPut(m)
    BY <1>1, <2>1, SeqParts DEF Range
  <2> QED
    BY <2>2, PutTypes DEF RecordInv, QueuesBacked, Backed
<1> QED
  BY <1>1 DEF Visible, RecordInv, EntriesLead

LEMMA OnceFresh == ASSUME NEW u, NEW p \in User PROVE Once(NewObserver(u, p))
  BY FreshObserver, NothingIn DEF Once

LEMMA ScreenInvStep ==
  ASSUME TypeOK, RecordInv, Screens, ScreenInv, [ChatNext]_chatVars PROVE ScreenInv'
<1>0. messages \subseteq messages'
  BY TransportStep, MessagesStay DEF Screens
<1>1. ASSUME NEW v \in User, observers'[v] = observers[v], shown'[v] = shown[v],
             Range(asked'[v]) \subseteq Range(asked[v])
      PROVE  ArraysOnce(v)' /\ AskedFinds(v)'
  BY <1>0, <1>1 DEF ScreenInv, ArraysOnce, AskedFinds
<1>2. ASSUME NEW u \in User, Elsewhere(u), ArraysOnce(u)', AskedFinds(u)' PROVE ScreenInv'
  <2>1. ASSUME NEW v \in User PROVE ArraysOnce(v)' /\ AskedFinds(v)'
    <3>1. CASE v # u
      BY <1>1, <1>2, <3>1 DEF Elsewhere
    <3> QED
      BY <1>2, <3>1
  <2> QED
    BY <2>1 DEF ScreenInv
<1>3. ASSUME NEW u \in User, NEW p \in User, Open(u, p) PROVE ScreenInv'
  <2>1. ArraysOnce(u) /\ AskedFinds(u)
    BY DEF ScreenInv
  <2>2. ArraysOnce(u)' /\ AskedFinds(u)'
    BY <1>0, <1>3, <2>1, OpenShape, OnceFresh DEF Gains, ArraysOnce, AskedFinds
  <2> QED
    BY <1>2, <1>3, <2>2, OpenShape
<1>4. ASSUME NEW u \in User, Reappear(u) PROVE ScreenInv'
  <2>1. ArraysOnce(u) /\ AskedFinds(u)
    BY DEF ScreenInv
  <2>2. ArraysOnce(u)' /\ AskedFinds(u)'
    BY <1>0, <1>4, <2>1, ReappearShape, OnceFresh DEF Gains, ArraysOnce, AskedFinds
  <2> QED
    BY <1>2, <1>4, <2>2, ReappearShape
<1>5. ASSUME NEW u \in User, Close(u) PROVE ScreenInv'
  <2>1. ArraysOnce(u) /\ AskedFinds(u)
    BY DEF ScreenInv
  <2>2. ArraysOnce(u)' /\ AskedFinds(u)'
    BY <1>0, <1>5, <2>1, CloseShape, NothingIn DEF Leaves, Once, ArraysOnce, AskedFinds
  <2> QED
    BY <1>2, <1>5, <2>2, CloseShape
<1>11. ASSUME NEW u \in User, ChatKill(u) PROVE ScreenInv'
  <2>1. ArraysOnce(u)' /\ AskedFinds(u)'
    BY <1>11, KillShape, NothingIn DEF ArraysOnce, AskedFinds
  <2> QED
    BY <1>2, <1>11, <2>1, KillShape
<1>6. ASSUME NEW u \in User, NEW i \in 1..MaxAppears, Notice(u, i) PROVE ScreenInv'
  <2>0. ArraysOnce(u) /\ AskedFinds(u)
    BY DEF ScreenInv
  <2>1. PICK m \in Msg :
          /\ observers[u][i].peer \in User /\ i \in DOMAIN observers[u]
          /\ m \in Visible(u, observers[u][i].peer) \ observers[u][i].noticed
          /\ Elsewhere(u) /\ DOMAIN observers'[u] = DOMAIN observers[u]
          /\ \A j \in DOMAIN observers[u] \ {i} : observers'[u][j] = observers[u][j]
          /\ observers'[u][i].noticed = observers[u][i].noticed \cup {m}
          /\ observers'[u][i].reading = observers[u][i].reading \cup {m}
          /\ observers'[u][i].array = observers[u][i].array
          /\ asked'[u] = IF m \in Range(asked[u]) THEN asked[u] ELSE Append(asked[u], m)
          /\ shown' = shown
    BY <1>6, NoticeShape
  <2>2. ASSUME NEW j \in DOMAIN observers[u] PROVE Once(observers'[u][j])
    <3>1. Once(observers[u][j])
      BY <2>0 DEF ArraysOnce
    <3>2. CASE j = i
      BY <2>1, <3>1, <3>2 DEF Once
    <3>3. CASE j # i
      BY <2>1, <3>1, <3>3
    <3> QED
      BY <3>2, <3>3
  <2>3. ArraysOnce(u)'
    BY <2>0, <2>1, <2>2 DEF ArraysOnce
  <2>4. Range(asked'[u]) \subseteq Range(asked[u]) \cup {m}
    <3>1. asked[u] \in Seq(Msg)
      BY DEF Screens
    <3> QED
      BY <2>1, <3>1, Appended
  <2>5. m \in messages
    BY <2>1, VisibleFound
  <2>6. AskedFinds(u)'
    BY <1>0, <2>0, <2>4, <2>5 DEF AskedFinds
  <2> QED
    BY <1>2, <2>1, <2>3, <2>6
<1>7. ASSUME NEW u \in User, Read(u) PROVE ScreenInv'
  <2>0. ArraysOnce(u) /\ AskedFinds(u)
    BY DEF ScreenInv
  <2>1. PICK m \in Msg :
          /\ asked[u] # <<>> /\ Elsewhere(u)
          /\ DOMAIN observers'[u] = DOMAIN observers[u]
          /\ \A i \in DOMAIN observers[u] : Told(u, i, m)
          /\ \/ \E i \in DOMAIN observers[u] : shown'[u] = observers'[u][i].array
             \/ shown'[u] = shown[u]
          /\ asked'[u] = Tail(asked[u])
    BY <1>7, ReadShape
  <2>2. ASSUME NEW i \in DOMAIN observers[u] PROVE Once(observers'[u][i])
    <3>1. Once(observers[u][i]) /\ Told(u, i, m)
      BY <2>0, <2>1 DEF ArraysOnce
    <3>2. observers[u][i].array \in Seq(Msg)
      <4>1. observers[u] \in Seq(Observer)
        BY DEF Screens
      <4>2. observers[u][i] \in Observer
        BY <4>1, SeqParts
      <4> QED
        BY <4>2 DEF Observer
    <3>3. CASE m \in observers[u][i].reading /\ m \in messages
      <4>1. /\ observers'[u][i].noticed = observers[u][i].noticed
            /\ observers'[u][i].reading = observers[u][i].reading \ {m}
            /\ observers'[u][i].array = Append(observers[u][i].array, m)
        BY <3>1, <3>3 DEF Told
      <4>2. m \notin Range(observers[u][i].array) /\ m \in observers[u][i].noticed
        BY <3>1, <3>3 DEF Once
      <4>3. /\ IsInjective(Append(observers[u][i].array, m))
            /\ Range(Append(observers[u][i].array, m)) = Range(observers[u][i].array) \cup {m}
        BY <3>1, <3>2, <4>2, Appended DEF Once
      <4> QED
        BY <3>1, <4>1, <4>2, <4>3 DEF Once
    <3>4. CASE m \in observers[u][i].reading /\ m \notin messages
      BY <3>1, <3>4 DEF Told, Once
    <3>5. CASE m \notin observers[u][i].reading
      BY <3>1, <3>5 DEF Told
    <3> QED
      BY <3>3, <3>4, <3>5
  <2>3. ArraysOnce(u)'
    <3>1. IsInjective(shown'[u])
      <4>1. ASSUME NEW i \in DOMAIN observers[u], shown'[u] = observers'[u][i].array
            PROVE  IsInjective(shown'[u])
        BY <2>2, <4>1 DEF Once
      <4>2. CASE shown'[u] = shown[u]
        BY <2>0, <4>2 DEF ArraysOnce
      <4> QED
        BY <2>1, <4>1, <4>2
    <3> QED
      BY <2>1, <2>2, <3>1 DEF ArraysOnce
  <2>4. AskedFinds(u)'
    <3>1. asked[u] \in Seq(Msg)
      BY DEF Screens
    <3>2. Range(Tail(asked[u])) \subseteq Range(asked[u])
      BY <2>1, <3>1, HeadAndTail
    <3> QED
      BY <1>0, <2>0, <2>1, <3>2 DEF AskedFinds
  <2> QED
    BY <1>2, <2>1, <2>3, <2>4
<1>8. ASSUME NEW u \in User, ChatDisconnect(u) PROVE ScreenInv'
  BY <1>1, <1>8, LostShape DEF ScreenInv
<1>9. ASSUME NEW u \in User, Reload(u) PROVE ScreenInv'
  BY <1>1, <1>9, ReloadShape DEF ScreenInv
<1>10. CASE UNCHANGED chatVars \/ \E u \in User : ChatSend(u) \/ Transport(u)
  BY <1>1, <1>10, SilentShape DEF ScreenInv
<1> QED
  BY <1>3, <1>4, <1>5, <1>6, <1>7, <1>8, <1>9, <1>10, <1>11 DEF ChatNext

LEMMA ScreenInvHolds == ChatSpec => [](TypeOK /\ RecordInv /\ Screens /\ ScreenInv)
<1>1. Partners /\ Screens /\ TypeOK /\ [ChatNext]_chatVars => [Next]_vars
  BY TransportStep
<1>2. ChatInit => Init /\ Screens /\ ScreenInv
  BY ScreensInit, ScreenInvInit DEF ChatInit
<1>3. Screens => Partners
  BY DEF Screens
<1> QED
  BY <1>1, <1>2, <1>3, TypeOKInit, TypeOKStep, RecordInvInit, RecordInvStep, ScreensStep,
     ScreenInvStep, PTL DEF ChatSpec

\* No message is on a screen twice, whatever screens appear, are left and
\* appear again, and whatever is sent again (ShownOnce).
THEOREM ShownOnceTheorem == ChatSpec => []ShownOnce
<1>1. ScreenInv => ShownOnce
  BY DEF ScreenInv, ArraysOnce, IsInjective, ShownOnce
<1> QED
  BY <1>1, ScreenInvHolds, PTL

\* The early return for a missing record is never taken (ReadingFinds).
THEOREM ReadingTheorem == ChatSpec => []ReadingFinds
<1>1. ScreenInv => ReadingFinds
  BY DEF ScreenInv, AskedFinds, ReadingFinds
<1> QED
  BY <1>1, ScreenInvHolds, PTL

-----------------------------------------------------------------------------
(***************************************************************************)
(* The order of one sender.  Two facts about the transport: messages have  *)
(* numbers of their own, and an entry is filed under the two people of its *)
(* message.  From them and from the order of the queues follows what the   *)
(* screen relies on: what becomes visible is newer than whatever of the    *)
(* same sender was visible before, be it because an entry arrived or       *)
(* because the user's own write is in the queue.                           *)
(***************************************************************************)
Numbered == \A l, m \in sent : l.n = m.n => l = m

Filed ==
  \A a, b \in User : \A m \in entries[a][b] :
    (m.from = a /\ m.to = b) \/ (m.from = b /\ m.to = a)

PlaceInv == Numbered /\ Filed

LEMMA PlaceInvInit == ASSUME Init PROVE PlaceInv
  BY DEF Init, PlaceInv, Numbered, Filed

LEMMA PlaceInvStep == ASSUME TypeOK, OrderInv, PlaceInv, [Next]_vars PROVE PlaceInv'
<1>1. CASE UNCHANGED vars
  BY <1>1 DEF vars, server, PlaceInv, Numbered, Filed
<1>2. ASSUME NEW u \in User, Refuse(u) \/ Ack(u) \/ Disconnect(u) \/ Kill(u) PROVE PlaceInv'
  <2>1. UNCHANGED <<entries, sent>>
    BY <1>2 DEF Refuse, Ack, Disconnect, Kill, server
  <2> QED
    BY <2>1 DEF PlaceInv, Numbered, Filed
<1>3. ASSUME NEW u \in User, NEW p \in User, Send(u, p) PROVE PlaceInv'
  <2>1. PICK m \in Msg : m = [from |-> u, to |-> p, n |-> sends + 1] /\ sent' = sent \cup {m}
    BY <1>3, SendShape
  <2>2. sends \in Nat /\ entries' = entries
    BY <1>3, BoundsAssumption DEF TypeOK, Send, server
  <2>3. ASSUME NEW l \in sent PROVE l.n # m.n
    <3>1. l \in Msg /\ l.n <= sends
      BY DEF TypeOK, OrderInv, Counted
    <3>2. l.n \in Nat
      BY <3>1, PutTypes, BoundsAssumption
    <3> QED
      BY <2>1, <2>2, <3>1, <3>2
  <2> QED
    BY <2>1, <2>2, <2>3 DEF PlaceInv, Numbered, Filed
<1>4. ASSUME NEW u \in User, Apply(u) PROVE PlaceInv'
  <2>1. Len(answers[u]) < Len(puts[u]) /\ Store(Sending(u)) /\ sent' = sent
        /\ answers' = [answers EXCEPT ![u] = Append(@, TRUE)]
    BY <1>4 DEF Apply
  <2>2. PICK w \in Put : w = Sending(u)
    BY <2>1, AnswerAdded
  <2>3. \A a, b \in User :
          entries'[a][b] =
            IF \/ w.op = "own" /\ a = w.msg.from /\ b = w.msg.to
               \/ w.op = "peer" /\ a = w.msg.to /\ b = w.msg.from
            THEN entries[a][b] \cup {w.msg} ELSE entries[a][b]
    BY <2>1, <2>2, StoreShape
  <2>4. ASSUME NEW a \in User, NEW b \in User, NEW m \in entries'[a][b]
        PROVE  (m.from = a /\ m.to = b) \/ (m.from = b /\ m.to = a)
    <3> DEFINE c == \/ w.op = "own" /\ a = w.msg.from /\ b = w.msg.to
                    \/ w.op = "peer" /\ a = w.msg.to /\ b = w.msg.from
    <3>0. entries'[a][b] = IF c THEN entries[a][b] \cup {w.msg} ELSE entries[a][b]
      BY <2>3
    <3>1. \/ m \in entries[a][b]
          \/ m = w.msg /\ \/ a = w.msg.from /\ b = w.msg.to
                          \/ a = w.msg.to /\ b = w.msg.from
      BY <2>4, <3>0
    <3> QED
      BY <3>1 DEF PlaceInv, Filed
  <2>5. Filed'
    BY <2>4 DEF Filed
  <2> QED
    BY <2>1, <2>5 DEF PlaceInv, Numbered
<1> QED
  BY <1>1, <1>2, <1>3, <1>4 DEF Next

Mine(u, p, m) ==
  m \in Msg /\ m.from = u /\ m.to = p /\ \E i \in 1..Len(puts[u]) : puts[u][i] = OwnPut(m)

LEMMA VisibleParts ==
  ASSUME TypeOK, NEW u \in User, NEW p \in User
  PROVE  \A m : m \in Visible(u, p) <=> m \in entries[u][p] \/ Mine(u, p, m)
<1>1. puts[u] \in Seq(Put)
  BY DEF TypeOK
<1>2. DOMAIN puts[u] = 1..Len(puts[u])
  BY <1>1, SeqParts
<1> QED
  BY <1>2 DEF Visible, Mine, Range

LEMMA VisibleNext ==
  ASSUME TypeOK', NEW u \in User, NEW p \in User
  PROVE  \A m : m \in Visible(u, p)' <=> m \in entries'[u][p] \/ Mine(u, p, m)'
<1>1. puts'[u] \in Seq(Put)
  BY DEF TypeOK
<1>2. DOMAIN puts'[u] = 1..Len(puts'[u])
  BY <1>1, SeqParts
<1> QED
  BY <1>2 DEF Visible, Mine, Range

\* What becomes visible to u is newer.
NewerSeen(u, p) ==
  /\ Visible(u, p) \subseteq Visible(u, p)'
  /\ \A m \in Visible(u, p)' \ Visible(u, p) : \A l \in Visible(u, p) :
       l.from = m.from => l.n < m.n

LEMMA SameSeen ==
  ASSUME NEW u \in User, NEW p \in User, TypeOK, TypeOK', entries'[u][p] = entries[u][p],
         \A m \in Msg : Mine(u, p, m)' <=> Mine(u, p, m)
  PROVE  NewerSeen(u, p)
<1>1. \A m : m \in Visible(u, p) <=> m \in entries[u][p] \/ Mine(u, p, m)
  BY VisibleParts
<1>2. \A m : m \in Visible(u, p)' <=> m \in entries'[u][p] \/ Mine(u, p, m)'
  BY VisibleNext
<1>3. \A m : (Mine(u, p, m) => m \in Msg) /\ (Mine(u, p, m)' => m \in Msg)
  BY DEF Mine
<1>4. \A m : m \in Visible(u, p)' <=> m \in Visible(u, p)
  BY <1>1, <1>2, <1>3
<1> QED
  BY <1>4 DEF NewerSeen

LEMMA SeenSend ==
  ASSUME TypeOK, TypeOK', NEW u \in User, NEW p \in User,
         NEW v \in User, NEW q \in User, Send(v, q)
  PROVE  NewerSeen(u, p)
<1>1. entries' = entries
  BY DEF Send, server
<1>2. CASE u # v
  <2>1. puts'[u] = puts[u]
    BY <1>2, SendShape
  <2> QED
    BY <1>1, <2>1, SameSeen DEF Mine
<1>3. CASE u = v
  <2>1. PICK x \in Msg :
          /\ Len(puts'[u]) = Len(puts[u]) + 1
          /\ \A i \in 1..Len(puts[u]) : puts'[u][i] = puts[u][i]
          /\ puts'[u][Len(puts[u]) + 1] = RecordPut(x)
    BY <1>3, SendShape
  <2>2. Len(puts[u]) \in Nat
    BY Lengths
  <2>3. ASSUME NEW m \in Msg PROVE Mine(u, p, m)' <=> Mine(u, p, m)
    <3>1. OwnPut(m) # RecordPut(x)
      BY PutTypes
    <3>2. ASSUME NEW i \in 1..Len(puts'[u]), puts'[u][i] = OwnPut(m)
          PROVE  i \in 1..Len(puts[u]) /\ puts[u][i] = OwnPut(m)
      <4>1. i # Len(puts[u]) + 1
        BY <2>1, <3>1, <3>2
      <4>2. i \in 1..Len(puts[u])
        BY <2>1, <2>2, <4>1
      <4> QED
        BY <2>1, <3>2, <4>2
    <3>3. ASSUME NEW i \in 1..Len(puts[u]), puts[u][i] = OwnPut(m)
          PROVE  i \in 1..Len(puts'[u]) /\ puts'[u][i] = OwnPut(m)
      BY <2>1, <2>2, <3>3
    <3> QED
      BY <3>2, <3>3 DEF Mine
  <2> QED
    BY <1>1, <2>3, SameSeen
<1> QED
  BY <1>2, <1>3

LEMMA SeenQuiet ==
  ASSUME TypeOK, TypeOK', NEW u \in User, NEW p \in User,
         \/ UNCHANGED vars
         \/ \E v \in User : Refuse(v) \/ Disconnect(v) \/ (v # u /\ (Kill(v) \/ Ack(v)))
  PROVE  NewerSeen(u, p)
<1>1. entries' = entries
  BY DEF vars, server, Refuse, Disconnect, Kill, Ack
<1>2. puts'[u] = puts[u]
  <2>1. CASE UNCHANGED vars
    BY <2>1 DEF vars, queues
  <2>2. ASSUME NEW v \in User, Refuse(v) PROVE puts'[u] = puts[u]
    BY <2>2 DEF Refuse
  <2>3. ASSUME NEW v \in User, Disconnect(v) PROVE puts'[u] = puts[u]
    <3>1. puts' = [puts EXCEPT ![v] = puts[v]] /\ puts \in [User -> Seq(Put)]
      BY <2>3 DEF Disconnect, Unanswered, TypeOK
    <3> QED
      BY <3>1
  <2>4. ASSUME NEW v \in User \ {u}, Kill(v) \/ Ack(v) PROVE puts'[u] = puts[u]
    BY <2>4, LossShape, AckShape
  <2> QED
    BY <2>1, <2>2, <2>3, <2>4
<1> QED
  BY <1>1, <1>2, SameSeen DEF Mine

\* Where a message of u itself that u sees is.
LEMMA OwnSeen ==
  ASSUME TypeOK, PlaceInv, NEW u \in User, NEW p \in User, NEW l \in Visible(u, p), u # p
  PROVE  /\ l \in Msg /\ (l.from = u \/ (l.from = p /\ Got(l)))
         /\ l.from = u => HasIt(l) \/ Mine(u, p, l)
<1>1. l \in Msg /\ (l \in entries[u][p] \/ Mine(u, p, l))
  BY VisibleMsg, VisibleParts
<1>2. CASE l \in entries[u][p]
  <2>1. (l.from = u /\ l.to = p) \/ (l.from = p /\ l.to = u)
    BY <1>2 DEF PlaceInv, Filed
  <2>2. CASE l.from = u /\ l.to = p
    BY <1>1, <1>2, <2>2 DEF HasIt
  <2>3. CASE l.from = p /\ l.to = u
    <3>1. Got(l) /\ l.from # u
      BY <1>2, <2>3 DEF Got
    <3> QED
      BY <1>1, <2>3, <3>1
  <2> QED
    BY <2>1, <2>2, <2>3
<1>3. CASE Mine(u, p, l)
  BY <1>1, <1>3 DEF Mine
<1> QED
  BY <1>1, <1>2, <1>3

LEMMA SeenAck ==
  ASSUME TypeOK, TypeOK', RecordInv, SideInv, OrderInv, PlaceInv, refusals = 0,
         NEW u \in User, NEW p \in User, u # p, Ack(u)
  PROVE  NewerSeen(u, p)
<1> DEFINE w == puts[u][1]
           k == Len(puts[u]) - 1
<1>1. /\ Len(answers[u]) >= 1 /\ Len(puts[u]) >= 1
      /\ \/ w.op = "record" /\ Answered(u, <<OwnPut(w.msg), PeerPut(w.msg)>>)
         \/ Answered(u, <<>>)
  BY AckShape
<1>2. entries' = entries
  BY DEF Ack, server
<1>3. Len(puts[u]) \in Nat /\ Len(answers[u]) \in Nat /\ 1 \in 1..Len(puts[u]) /\ k \in Nat
  BY <1>1, Lengths
<1>4. w \in Put /\ w.msg \in Msg /\ w.msg.from = u /\ \A m \in Msg : m.n \in Nat
  BY <1>3, Lengths, PutParts, PutTypes, BoundsAssumption DEF RecordInv, QueuesBacked, Backed
<1>5. \A j \in 1..k : puts'[u][j] = puts[u][j + 1] /\ j + 1 \in 1..Len(puts[u]) /\ j \in 1..Len(puts'[u])
  <2>1. \A j \in 1..k : puts'[u][j] = puts[u][j + 1] /\ j + 1 \in 1..Len(puts[u])
    BY <1>1, <1>3 DEF Answered
  <2>2. Len(puts'[u]) = k \/ Len(puts'[u]) = k + 2
    <3>1. Len(<<OwnPut(w.msg), PeerPut(w.msg)>>) = 2 /\ Len(<<>>) = 0
      BY EmptySeq
    <3> QED
      BY <1>1, <1>3, <3>1 DEF Answered
  <2> QED
    BY <1>3, <2>1, <2>2
<1>6. ASSUME NEW m \in Msg, Mine(u, p, m)
      PROVE  m \in entries'[u][p] \/ Mine(u, p, m)'
  <2>1. PICK i \in 1..Len(puts[u]) : puts[u][i] = OwnPut(m)
    BY <1>6 DEF Mine
  <2>2. CASE i = 1
    <3>1. w.op = "own" /\ w.msg = m /\ m.from = u /\ m.to = p
      BY <1>6, <2>1, <2>2, PutTypes DEF Mine
    <3>2. Placed(u, 1) /\ 1 <= Len(answers[u])
      BY <1>1, <1>3 DEF SideInv, AllPlaced
    <3>3. HasIt(m)
      BY <3>1, <3>2 DEF Placed
    <3> QED
      BY <1>2, <3>1, <3>3 DEF HasIt
  <2>3. CASE i # 1
    <3>1. i - 1 \in 1..k /\ (i - 1) + 1 = i
      BY <1>3, <2>1, <2>3
    <3>2. puts'[u][i - 1] = OwnPut(m) /\ i - 1 \in 1..Len(puts'[u])
      BY <1>5, <2>1, <3>1
    <3> QED
      BY <1>6, <3>2 DEF Mine
  <2> QED
    BY <2>2, <2>3
<1>7. ASSUME NEW m \in Msg, Mine(u, p, m)'
      PROVE  Mine(u, p, m) \/ (m = w.msg /\ w.op = "record")
  <2>1. PICK i \in 1..Len(puts'[u]) : puts'[u][i] = OwnPut(m)
    BY <1>7 DEF Mine
  <2>2. CASE i \in 1..k
    BY <1>5, <1>7, <2>1, <2>2 DEF Mine
  <2>3. CASE i \notin 1..k
    <3>1. Len(<<OwnPut(w.msg), PeerPut(w.msg)>>) = 2 /\ Len(<<>>) = 0
      BY EmptySeq
    <3>2. w.op = "record" /\ Answered(u, <<OwnPut(w.msg), PeerPut(w.msg)>>)
      BY <1>1, <1>3, <2>1, <2>3, <3>1 DEF Answered
    <3>3. /\ Len(puts'[u]) = k + 2
          /\ puts'[u][k + 1] = OwnPut(w.msg)
          /\ puts'[u][k + 2] = PeerPut(w.msg)
      BY <3>1, <3>2 DEF Answered
    <3>4. i = k + 1 \/ i = k + 2
      BY <1>3, <2>1, <2>3, <3>3
    <3>5. OwnPut(m).op = "own" /\ OwnPut(m).msg = m /\ OwnPut(w.msg).msg = w.msg
          /\ PeerPut(w.msg).op = "peer"
      BY <1>4, PutTypes
    <3> QED
      BY <2>1, <3>2, <3>3, <3>4, <3>5
  <2> QED
    BY <2>2, <2>3
<1>8. \A m : /\ m \in Visible(u, p) <=> m \in entries[u][p] \/ Mine(u, p, m)
             /\ m \in Visible(u, p)' <=> m \in entries'[u][p] \/ Mine(u, p, m)'
             /\ (Mine(u, p, m) => m \in Msg) /\ (Mine(u, p, m)' => m \in Msg)
  BY VisibleParts, VisibleNext DEF Mine
<1>9. Visible(u, p) \subseteq Visible(u, p)'
  BY <1>2, <1>6, <1>8
<1>10. ASSUME NEW m \in Visible(u, p)' \ Visible(u, p), NEW l \in Visible(u, p), l.from = m.from
       PROVE  l.n < m.n
  <2>1. m \in Msg /\ m = w.msg /\ w.op = "record"
    BY <1>2, <1>7, <1>8, <1>10
  <2>2. l \in Msg /\ l.from = u /\ (HasIt(l) \/ Mine(u, p, l))
    BY <1>4, <1>10, <2>1, OwnSeen
  <2>3. Ordered(u) /\ Behind(u, 1)
    BY <1>3 DEF OrderInv, QueueInOrder
  <2>4. CASE HasIt(l)
    BY <2>1, <2>2, <2>3, <2>4 DEF Behind
  <2>5. CASE Mine(u, p, l)
    <3>1. PICK i \in 1..Len(puts[u]) : puts[u][i] = OwnPut(l)
      BY <2>5 DEF Mine
    <3>2. puts[u][i].op = "own" /\ puts[u][i].msg = l
      BY <2>2, <3>1, PutTypes
    <3> QED
      BY <1>3, <2>1, <2>3, <3>2 DEF Ordered
  <2> QED
    BY <2>2, <2>4, <2>5
<1> QED
  BY <1>9, <1>10 DEF NewerSeen

LEMMA SeenApply ==
  ASSUME TypeOK, TypeOK', RecordInv, OrderInv, PlaceInv, refusals = 0,
         NEW u \in User, NEW p \in User, u # p, NEW v \in User, Apply(v)
  PROVE  NewerSeen(u, p)
<1>1. /\ Len(answers[v]) < Len(puts[v]) /\ Store(Sending(v))
      /\ answers' = [answers EXCEPT ![v] = Append(@, TRUE)]
      /\ puts' = puts
  BY DEF Apply
<1>2. PICK k \in 1..Len(puts[v]) : puts[v][k] = Sending(v) /\ Sending(v) \in Put
  BY <1>1, AnswerAdded
<1>3. PICK w \in Put : w = Sending(v)
  BY <1>2
<1>4. entries'[u][p] =
        IF \/ w.op = "own" /\ u = w.msg.from /\ p = w.msg.to
           \/ w.op = "peer" /\ u = w.msg.to /\ p = w.msg.from
        THEN entries[u][p] \cup {w.msg} ELSE entries[u][p]
  BY <1>1, <1>3, StoreShape
<1>5. w.msg \in Msg /\ w.msg.from = v
  BY <1>2, <1>3, PutParts DEF RecordInv, QueuesBacked, Backed
<1>6. \A m : /\ m \in Visible(u, p) <=> m \in entries[u][p] \/ Mine(u, p, m)
             /\ m \in Visible(u, p)' <=> m \in entries'[u][p] \/ Mine(u, p, m)
  <2>1. \A m : Mine(u, p, m)' <=> Mine(u, p, m)
    BY <1>1 DEF Mine
  <2>2. \A m : m \in Visible(u, p)' <=> m \in entries'[u][p] \/ Mine(u, p, m)'
    BY VisibleNext
  <2> QED
    BY <2>1, <2>2, VisibleParts
<1>7. CASE entries'[u][p] = entries[u][p]
  BY <1>6, <1>7 DEF NewerSeen
<1>8. CASE w.op = "own" /\ u = w.msg.from /\ p = w.msg.to
  <2>1. w = OwnPut(w.msg) /\ k \in 1..Len(puts[u]) /\ puts[u][k] = w
    BY <1>2, <1>3, <1>5, <1>8, PutParts
  <2>2. Mine(u, p, w.msg)
    BY <1>5, <1>8, <2>1 DEF Mine
  <2>3. \A m : m \in Visible(u, p)' <=> m \in Visible(u, p)
    BY <1>4, <1>6, <2>2
  <2> QED
    BY <2>3 DEF NewerSeen
<1>9. CASE w.op = "peer" /\ u = w.msg.to /\ p = w.msg.from
  <2>1. \A m : m \in Visible(u, p)' <=> m \in Visible(u, p) \/ m = w.msg
    BY <1>4, <1>6, <1>9
  <2>2. ASSUME w.msg \notin Visible(u, p), NEW l \in Visible(u, p), l.from = w.msg.from
        PROVE  l.n < w.msg.n
    <3>1. l \in Msg /\ l.from = v /\ Got(l)
      BY <1>5, <1>9, <2>2, OwnSeen
    <3>2. ~ Got(w.msg)
      BY <1>6, <1>9, <2>2 DEF Got
    <3>3. Behind(v, k)
      BY DEF OrderInv, QueueInOrder
    <3> QED
      BY <1>2, <1>3, <1>9, <3>1, <3>2, <3>3 DEF Behind
  <2> QED
    BY <2>1, <2>2 DEF NewerSeen
<1> QED
  BY <1>4, <1>7, <1>8, <1>9

\* What is visible to u after a step that does not kill the device of u.
LEMMA SeenNewer ==
  ASSUME TypeOK, TypeOK', RecordInv, SideInv, OrderInv, PlaceInv, refusals = 0,
         NEW u \in User, NEW p \in User, u # p,
         \/ UNCHANGED vars
         \/ \E v \in User : \/ \E q \in User : Send(v, q)
                            \/ Apply(v)
                            \/ Refuse(v)
                            \/ Ack(v)
                            \/ Disconnect(v)
                            \/ v # u /\ Kill(v)
  PROVE  NewerSeen(u, p)
<1>1. ASSUME NEW v \in User, Ack(v) PROVE NewerSeen(u, p)
  BY <1>1, SeenAck, SeenQuiet
<1> QED
  BY <1>1, SeenSend, SeenApply, SeenQuiet

-----------------------------------------------------------------------------
(***************************************************************************)
(* Who watches which chat.  Only the observers of the open screen are not  *)
(* left; an observer has noticed messages of its own chat only, and what   *)
(* the process asks the server for some observer has noticed.              *)
(***************************************************************************)
Between(u, p) == { m \in Msg : (m.from = u /\ m.to = p) \/ (m.from = p /\ m.to = u) }

Watched(u) ==
  /\ chat[u] # u
  /\ chat[u] = Nobody => shown[u] = <<>>
  /\ chat[u] # Nobody => \E i \in DOMAIN observers[u] : ~ observers[u][i].left
  /\ \A i \in DOMAIN observers[u] : ~ observers[u][i].left => observers[u][i].peer = chat[u]

OwnChat(u, o) == o.peer # u /\ o.noticed \subseteq Between(u, o.peer)

OwnChats(u) == \A i \in DOMAIN observers[u] : OwnChat(u, observers[u][i])

Noticed(u) == \A m \in Range(asked[u]) : \E i \in DOMAIN observers[u] : m \in observers[u][i].noticed

Talks(u) == Watched(u) /\ OwnChats(u) /\ Noticed(u)

TalkInv == \A u \in User : Talks(u)

LEMMA TalkInvInit == ASSUME ChatInit PROVE TalkInv
<1>1. ASSUME NEW u \in User PROVE Talks(u)
  <2>1. chat[u] = Nobody /\ chat[u] # u /\ shown[u] = <<>>
    BY ConversationAssumption DEF ChatInit
  <2>2. DOMAIN observers[u] = {} /\ Range(asked[u]) = {}
    BY NothingIn DEF ChatInit
  <2> QED
    BY <2>1, <2>2 DEF Talks, Watched, OwnChats, Noticed
<1> QED
  BY <1>1 DEF TalkInv

\* A message belongs to one chat.
LEMMA BetweenApart ==
  ASSUME NEW u \in User, NEW p \in User, NEW q \in User, p # u, q # u,
         NEW m \in Between(u, p), m \in Between(u, q)
  PROVE  p = q
  BY DEF Between

LEMMA VisibleBetween ==
  ASSUME TypeOK, Filed, NEW u \in User, NEW p \in User
  PROVE  Visible(u, p) \subseteq Between(u, p)
<1>1. Visible(u, p) \subseteq Msg
  BY VisibleMsg
<1>2. ASSUME NEW m \in entries[u][p] PROVE (m.from = u /\ m.to = p) \/ (m.from = p /\ m.to = u)
  BY DEF Filed
<1> QED
  BY <1>1, <1>2 DEF Visible, Between

\* A new observer has noticed nothing.
LEMMA NoticedGains ==
  ASSUME NEW u \in User, NEW p \in User, Gains(u, p), Noticed(u), OwnChats(u), p # u,
         asked'[u] = asked[u]
  PROVE  OwnChats(u)' /\ Noticed(u)'
<1>1. OwnChat(u, NewObserver(u, p))
  BY FreshObserver DEF OwnChat
<1>2. OwnChats(u)'
  BY <1>1 DEF Gains, OwnChats
<1>3. Noticed(u)'
  BY DEF Gains, Noticed
<1> QED
  BY <1>2, <1>3

LEMMA TalkInvStep ==
  ASSUME TypeOK, PlaceInv, Screens, TalkInv, [ChatNext]_chatVars
  PROVE  TalkInv'
<1>1. ASSUME NEW v \in User, UNCHANGED <<chat[v], observers[v], shown[v]>>,
             Range(asked'[v]) \subseteq Range(asked[v])
      PROVE  Talks(v)'
  BY <1>1 DEF TalkInv, Talks, Watched, OwnChats, OwnChat, Noticed
<1>2. ASSUME NEW u \in User, Elsewhere(u), Talks(u)' PROVE TalkInv'
  <2>1. ASSUME NEW v \in User PROVE Talks(v)'
    <3>1. CASE v # u
      BY <1>1, <1>2, <3>1 DEF Elsewhere
    <3> QED
      BY <1>2, <3>1
  <2> QED
    BY <2>1 DEF TalkInv
<1>3. ASSUME NEW u \in User PROVE Watched(u) /\ OwnChats(u) /\ Noticed(u)
  BY DEF TalkInv, Talks
<1>4. ASSUME NEW u \in User, NEW i \in DOMAIN observers[u] PROVE observers[u][i].peer \in User
  <2>1. observers[u] \in Seq(Observer)
    BY DEF Screens
  <2>2. observers[u][i] \in Observer
    BY <2>1, SeqParts
  <2> QED
    BY <2>2 DEF Observer
<1>5. ASSUME NEW u \in User, NEW p \in User, Open(u, p) PROVE TalkInv'
  <2>1. /\ Elsewhere(u) /\ Gains(u, p) /\ chat[u] = Nobody /\ chat'[u] = p /\ p # u
        /\ UNCHANGED <<asked, shown>>
    BY <1>5, OpenShape
  <2>2. OwnChats(u)' /\ Noticed(u)'
    BY <1>3, <2>1, NoticedGains
  <2>3. \A i \in DOMAIN observers[u] : observers[u][i].left
    BY <1>3, <1>4, <2>1, ConversationAssumption DEF Watched
  <2>4. NewObserver(u, p).peer = p /\ ~ NewObserver(u, p).left
    BY FreshObserver
  <2>5. Watched(u)'
    BY <2>1, <2>3, <2>4, ConversationAssumption DEF Gains, Watched
  <2> QED
    BY <1>2, <2>1, <2>2, <2>5 DEF Talks
<1>6. ASSUME NEW u \in User, Reappear(u) PROVE TalkInv'
  <2>1. /\ Elsewhere(u) /\ chat[u] \in User /\ Gains(u, chat[u])
        /\ UNCHANGED <<chat, asked, shown>>
    BY <1>6, ReappearShape
  <2>2. chat[u] # u
    BY <1>3 DEF Watched
  <2>3. OwnChats(u)' /\ Noticed(u)'
    BY <1>3, <2>1, <2>2, NoticedGains
  <2>4. NewObserver(u, chat[u]).peer = chat[u] /\ ~ NewObserver(u, chat[u]).left
    BY <2>1, FreshObserver
  <2>5. Watched(u)'
    BY <1>3, <2>1, <2>4 DEF Gains, Watched
  <2> QED
    BY <1>2, <2>1, <2>3, <2>5 DEF Talks
<1>7. ASSUME NEW u \in User, Close(u) PROVE TalkInv'
  <2>1. /\ Elsewhere(u) /\ chat'[u] = Nobody /\ shown'[u] = <<>> /\ asked' = asked
        /\ DOMAIN observers'[u] = DOMAIN observers[u]
        /\ \A i \in DOMAIN observers[u] : Leaves(observers[u][i], observers'[u][i])
    BY <1>7, CloseShape
  <2>2. Watched(u)'
    BY <2>1, ConversationAssumption DEF Leaves, Watched
  <2>3. OwnChats(u)' /\ Noticed(u)'
    BY <1>3, <2>1 DEF Leaves, OwnChats, OwnChat, Noticed
  <2> QED
    BY <1>2, <2>1, <2>2, <2>3 DEF Talks
<1>8. ASSUME NEW u \in User, ChatKill(u) PROVE TalkInv'
  <2>1. /\ Elsewhere(u) /\ chat'[u] = Nobody /\ observers'[u] = <<>> /\ asked'[u] = <<>>
        /\ shown'[u] = <<>>
    BY <1>8, KillShape
  <2>2. DOMAIN observers'[u] = {} /\ Range(asked'[u]) = {}
    BY <2>1, NothingIn
  <2>3. Talks(u)'
    BY <2>1, <2>2, ConversationAssumption DEF Talks, Watched, OwnChats, Noticed
  <2> QED
    BY <1>2, <2>1, <2>3
<1>9. ASSUME NEW u \in User, NEW i \in 1..MaxAppears, Notice(u, i) PROVE TalkInv'
  <2>1. PICK m \in Msg :
          /\ i \in DOMAIN observers[u] /\ observers[u][i].peer \in User
          /\ m \in Visible(u, observers[u][i].peer) \ observers[u][i].noticed
          /\ Elsewhere(u) /\ DOMAIN observers'[u] = DOMAIN observers[u]
          /\ \A j \in DOMAIN observers[u] \ {i} : observers'[u][j] = observers[u][j]
          /\ observers'[u][i].peer = observers[u][i].peer
          /\ observers'[u][i].left = observers[u][i].left
          /\ observers'[u][i].noticed = observers[u][i].noticed \cup {m}
          /\ asked'[u] = IF m \in Range(asked[u]) THEN asked[u] ELSE Append(asked[u], m)
          /\ UNCHANGED <<chat, shown>>
    BY <1>9, NoticeShape
  <2>2. \A j \in DOMAIN observers[u] : /\ observers'[u][j].peer = observers[u][j].peer
                                       /\ observers'[u][j].left = observers[u][j].left
                                       /\ observers[u][j].noticed \subseteq observers'[u][j].noticed
    BY <2>1
  <2>3. Watched(u)'
    BY <1>3, <2>1, <2>2 DEF Watched
  <2>4. m \in Between(u, observers[u][i].peer)
    BY <2>1, VisibleBetween DEF PlaceInv
  <2>5. OwnChats(u)'
    BY <1>3, <2>1, <2>4 DEF OwnChats, OwnChat
  <2>6. Range(asked'[u]) \subseteq Range(asked[u]) \cup {m}
    <3>1. asked[u] \in Seq(Msg)
      BY DEF Screens
    <3> QED
      BY <2>1, <3>1, Appended
  <2>7. Noticed(u)'
    BY <1>3, <2>1, <2>2, <2>6 DEF Noticed
  <2> QED
    BY <1>2, <2>1, <2>3, <2>5, <2>7 DEF Talks
<1>10. ASSUME NEW u \in User, Read(u) PROVE TalkInv'
  <2>1. PICK m \in Msg :
          /\ asked[u] # <<>> /\ Elsewhere(u)
          /\ DOMAIN observers'[u] = DOMAIN observers[u]
          /\ \A i \in DOMAIN observers[u] : Told(u, i, m)
          /\ \/ \E i \in DOMAIN observers[u] : Showing(u, i, m)
             \/ shown'[u] = shown[u]
          /\ asked'[u] = Tail(asked[u]) /\ UNCHANGED chat
    BY <1>10, ReadShape
  <2>2. \A j \in DOMAIN observers[u] : /\ observers'[u][j].peer = observers[u][j].peer
                                       /\ observers'[u][j].left = observers[u][j].left
                                       /\ observers'[u][j].noticed = observers[u][j].noticed
    BY <2>1 DEF Told
  <2>3. chat[u] = Nobody => shown'[u] = shown[u]
    BY <1>3, <1>4, <2>1, ConversationAssumption DEF Watched, Showing
  <2>4. Watched(u)'
    BY <1>3, <2>1, <2>2, <2>3 DEF Watched
  <2>5. OwnChats(u)'
    BY <1>3, <2>1, <2>2 DEF OwnChats, OwnChat
  <2>6. Range(asked'[u]) \subseteq Range(asked[u])
    <3>1. asked[u] \in Seq(Msg)
      BY DEF Screens
    <3> QED
      BY <2>1, <3>1, HeadAndTail
  <2>7. Noticed(u)'
    BY <1>3, <2>1, <2>2, <2>6 DEF Noticed
  <2> QED
    BY <1>2, <2>1, <2>4, <2>5, <2>7 DEF Talks
<1>11. ASSUME NEW u \in User, ChatDisconnect(u) PROVE TalkInv'
  <2>1. \A v \in User : /\ UNCHANGED <<chat[v], observers[v], shown[v]>>
                        /\ Range(asked'[v]) \subseteq Range(asked[v])
    BY <1>11, LostShape
  <2> QED
    BY <1>1, <2>1 DEF TalkInv
<1>12. ASSUME NEW u \in User, Reload(u) PROVE TalkInv'
  BY <1>1, <1>12, ReloadShape DEF TalkInv
<1>13. CASE UNCHANGED chatVars \/ \E u \in User : ChatSend(u) \/ Transport(u)
  BY <1>1, <1>13, SilentShape DEF TalkInv
<1> QED
  BY <1>5, <1>6, <1>7, <1>8, <1>9, <1>10, <1>11, <1>12, <1>13 DEF ChatNext

-----------------------------------------------------------------------------
(***************************************************************************)
(* The observer of the open screen, while it is the only one of its chat.  *)
(* What it noticed is visible still, and older than what it did not        *)
(* notice; what of it is asked for stands in the order of sending, and     *)
(* after what it has.  Observers of other chats ask for other messages.    *)
(***************************************************************************)
SortedIn(s, S) ==
  \A i, j \in DOMAIN s :
    i < j /\ s[i] \in S /\ s[j] \in S /\ s[i].from = s[j].from => s[i].n < s[j].n

Before(S, T) == \A l \in S : \A m \in T : l.from = m.from => l.n < m.n

View(u, o) ==
  /\ o.noticed \subseteq Visible(u, o.peer)
  /\ Before(o.noticed, Visible(u, o.peer) \ o.noticed)
  /\ Range(shown[u]) \subseteq o.noticed
  /\ shown[u] = o.array
  /\ SortedIn(shown[u], Msg) /\ SortedIn(asked[u], o.noticed)
  /\ Before(Range(shown[u]), Range(asked[u]) \cap o.noticed)

ViewOf(u) ==
  \A i \in DOMAIN observers[u] : ~ observers[u][i].left => View(u, observers[u][i])

Alone(u) == FirstOfChat(u) /\ losses[u] = 0 /\ refusals = 0

ViewInv == \A u \in User : Alone(u) => ViewOf(u)

LEMMA ViewInvInit == ASSUME ChatInit PROVE ViewInv
<1>1. \A u \in User : DOMAIN observers[u] = {}
  BY NothingIn DEF ChatInit
<1> QED
  BY <1>1 DEF ViewInv, ViewOf

LEMMA SortedAppend ==
  ASSUME NEW s \in Seq(Msg), NEW m \in Msg, NEW S, SortedIn(s, S),
         m \in S => Before(Range(s) \cap S, {m})
  PROVE  SortedIn(Append(s, m), S)
<1>1. /\ Len(s) \in Nat /\ DOMAIN s = 1..Len(s)
      /\ DOMAIN Append(s, m) = DOMAIN s \cup {Len(s) + 1}
      /\ Append(s, m)[Len(s) + 1] = m
      /\ \A i \in DOMAIN s : Append(s, m)[i] = s[i] /\ s[i] \in Range(s)
  BY Appended, SeqParts
<1>2. ASSUME NEW i \in DOMAIN Append(s, m), NEW j \in DOMAIN Append(s, m), i < j,
             Append(s, m)[i] \in S, Append(s, m)[j] \in S,
             Append(s, m)[i].from = Append(s, m)[j].from
      PROVE  Append(s, m)[i].n < Append(s, m)[j].n
  <2>1. i \in DOMAIN s
    BY <1>1, <1>2
  <2>2. CASE j \in DOMAIN s
    BY <1>1, <1>2, <2>1, <2>2 DEF SortedIn
  <2>3. CASE j = Len(s) + 1
    BY <1>1, <1>2, <2>1, <2>3 DEF Before
  <2> QED
    BY <1>1, <2>2, <2>3
<1> QED
  BY <1>2 DEF SortedIn

LEMMA SortedTail ==
  ASSUME NEW s \in Seq(Msg), s # <<>>, NEW S, SortedIn(s, S)
  PROVE  /\ SortedIn(Tail(s), S)
         /\ Head(s) \in S => Before({Head(s)}, Range(Tail(s)) \cap S)
<1>1. /\ Head(s) = s[1] /\ 1 \in DOMAIN s /\ DOMAIN Tail(s) = 1..(Len(s) - 1)
      /\ Len(s) \in Nat
      /\ \A i \in DOMAIN Tail(s) : i + 1 \in DOMAIN s /\ Tail(s)[i] = s[i + 1]
  BY HeadAndTail, SeqParts
<1>2. \A i \in DOMAIN Tail(s) : i \in Nat /\ 1 < i + 1
  BY <1>1
<1>3. SortedIn(Tail(s), S)
  <2>1. ASSUME NEW i \in DOMAIN Tail(s), NEW j \in DOMAIN Tail(s), i < j,
               Tail(s)[i] \in S, Tail(s)[j] \in S, Tail(s)[i].from = Tail(s)[j].from
        PROVE  Tail(s)[i].n < Tail(s)[j].n
    <3>1. i + 1 < j + 1
      BY <1>2, <2>1
    <3> QED
      BY <1>1, <2>1, <3>1 DEF SortedIn
  <2> QED
    BY <2>1 DEF SortedIn
<1>4. ASSUME NEW m \in Range(Tail(s)) \cap S, Head(s) \in S, Head(s).from = m.from
      PROVE  Head(s).n < m.n
  <2>1. PICK i \in DOMAIN Tail(s) : m = Tail(s)[i]
    BY DEF Range
  <2> QED
    BY <1>1, <1>2, <1>4, <2>1 DEF SortedIn
<1> QED
  BY <1>3, <1>4 DEF Before

\* The observers of the open screen are about its chat; when that chat has one
\* observer only, it is the screen's.
LEMMA OpenObserver ==
  ASSUME Screens, TalkInv, NEW u \in User, NEW i \in DOMAIN observers[u], ~ observers[u][i].left
  PROVE  /\ observers[u][i] \in Observer
         /\ observers[u][i].peer = chat[u] /\ chat[u] \in User /\ chat[u] # u
         /\ Alone(u) => \A j \in DOMAIN observers[u] : observers[u][j].peer = chat[u] => j = i
<1>1. observers[u][i].peer = chat[u] /\ chat[u] # u
  BY DEF TalkInv, Talks, Watched
<1>2. observers[u][i] \in Observer
  <2>1. observers[u] \in Seq(Observer)
    BY DEF Screens
  <2> QED
    BY <2>1, SeqParts
<1>3. observers[u][i].peer \in User
  BY <1>2 DEF Observer
<1> QED
  BY <1>1, <1>2, <1>3 DEF Alone, FirstOfChat

\* View after a step, put together from its parts.
LEMMA ViewNext ==
  ASSUME NEW u, NEW i, NEW p, NEW V, NEW N, NEW s, NEW a,
         observers'[u][i].peer = p, observers'[u][i].noticed = N, observers'[u][i].array = s,
         shown'[u] = s, asked'[u] = a, Visible(u, p)' = V,
         N \subseteq V, Before(N, V \ N), Range(s) \subseteq N,
         SortedIn(s, Msg), SortedIn(a, N), Before(Range(s), Range(a) \cap N)
  PROVE  View(u, observers[u][i])'
<1>1. Visible(u, observers[u][i].peer)' = V
  BY DEF Visible
<1> QED
  BY <1>1 DEF View, SortedIn, Before

\* Nothing happened to the screen of u, and what has become visible is newer.
LEMMA ViewSame ==
  ASSUME Screens, TalkInv, ViewInv, NEW u \in User, Alone(u),
         UNCHANGED <<chat[u], observers[u], asked[u], shown[u]>>,
         chat[u] \in User => NewerSeen(u, chat[u])
  PROVE  ViewOf(u)'
<1>1. ASSUME NEW i \in DOMAIN observers[u], ~ observers[u][i].left
      PROVE  View(u, observers[u][i])'
  <2> DEFINE o == observers[u][i]
  <2>1. View(u, o) /\ o.peer = chat[u] /\ NewerSeen(u, o.peer)
    BY <1>1, OpenObserver DEF ViewInv, ViewOf
  <2>2. o.noticed \subseteq Visible(u, o.peer)'
    BY <2>1 DEF View, NewerSeen
  <2>3. Before(o.noticed, Visible(u, o.peer)' \ o.noticed)
    BY <2>1 DEF View, NewerSeen, Before
  <2> QED
    BY <2>1, <2>2, <2>3 DEF View
<1> QED
  BY <1>1 DEF ViewOf

LEMMA RefusalsStay == ASSUME TypeOK, [Next]_vars, refusals' = 0 PROVE refusals = 0
<1>1. refusals \in Nat
  BY BoundsAssumption DEF TypeOK
<1>2. ASSUME NEW u \in User, Refuse(u) PROVE FALSE
  BY <1>1, <1>2 DEF Refuse
<1>3. ASSUME NEW u \in User, NEW p \in User, Send(u, p) PROVE refusals = 0
  BY <1>3 DEF Send, budgets
<1>4. ASSUME NEW u \in User, Apply(u) \/ Ack(u) \/ Disconnect(u) \/ Kill(u) PROVE refusals = 0
  BY <1>4 DEF Apply, Ack, Disconnect, Kill, budgets
<1> QED
  BY <1>2, <1>3, <1>4 DEF Next, vars, budgets

\* A newly opened screen is empty.
LEMMA ViewOpen ==
  ASSUME Screens, TalkInv, NEW u \in User, NEW p \in User, Open(u, p)
  PROVE  ViewOf(u)'
<1>1. Gains(u, p) /\ chat[u] = Nobody /\ shown'[u] = <<>>
  BY OpenShape DEF TalkInv, Talks, Watched
<1>2. \A i \in DOMAIN observers[u] : observers[u][i].left
  BY <1>1, OpenObserver, ConversationAssumption
<1>3. DOMAIN <<>> = {} /\ Range(<<>>) = {}
  BY NothingIn
<1>4. View(u, NewObserver(u, p))'
  BY <1>1, <1>3, FreshObserver DEF View, Before, SortedIn, NewObserver
<1>5. ASSUME NEW i \in DOMAIN observers'[u], ~ observers'[u][i].left
      PROVE  observers'[u][i] = NewObserver(u, p)
  BY <1>1, <1>2, <1>5 DEF Gains
<1>6. (NewObserver(u, p))' = NewObserver(u, p)
  BY DEF NewObserver
<1> QED
  BY <1>4, <1>5, <1>6 DEF ViewOf

\* What is noticed is the oldest of what was not.
LEMMA ViewNotice ==
  ASSUME TypeOK, RecordInv, OrderInv, PlaceInv, Screens, TalkInv, ViewInv,
         NEW u \in User, NEW i \in 1..MaxAppears, Notice(u, i), Alone(u)
  PROVE  ViewOf(u)'
<1> DEFINE q == observers[u][i].peer
           V == Visible(u, q)
<1>1. PICK m \in Msg :
        /\ i \in DOMAIN observers[u] /\ q \in User
        /\ m \in V \ observers[u][i].noticed
        /\ \A l \in V \ observers[u][i].noticed : l.from = m.from => m.n <= l.n
        /\ DOMAIN observers'[u] = DOMAIN observers[u]
        /\ \A j \in DOMAIN observers[u] \ {i} : observers'[u][j] = observers[u][j]
        /\ observers'[u][i].peer = q
        /\ observers'[u][i].left = observers[u][i].left
        /\ observers'[u][i].noticed = observers[u][i].noticed \cup {m}
        /\ observers'[u][i].array = observers[u][i].array
        /\ asked'[u] = IF m \in Range(asked[u]) THEN asked[u] ELSE Append(asked[u], m)
        /\ UNCHANGED <<vars, chat, shown>>
  BY NoticeShape
<1>2. asked[u] \in Seq(Msg) /\ q # u /\ m \in Between(u, q)
  BY <1>1, VisibleBetween DEF Screens, PlaceInv, TalkInv, Talks, OwnChats, OwnChat
<1>3. \A p : Visible(u, p)' = Visible(u, p)
  BY <1>1 DEF Visible, vars, server, queues
<1>4. ASSUME NEW j \in DOMAIN observers[u], ~ observers[u][j].left, j # i
      PROVE  View(u, observers[u][j])'
  <2> DEFINE o == observers[u][j]
  <2>1. View(u, o)
    BY <1>4 DEF ViewInv, ViewOf
  <2>2. /\ o.peer = chat[u] /\ chat[u] \in User /\ chat[u] # u
        /\ observers[u][i].peer = chat[u] => i = j
    BY <1>1, <1>4, OpenObserver
  <2>3. o.noticed \subseteq Between(u, o.peer)
    BY DEF TalkInv, Talks, OwnChats, OwnChat
  <2>4. m \notin o.noticed
    BY <1>1, <1>2, <1>4, <2>2, <2>3, BetweenApart
  <2>5. /\ SortedIn(asked'[u], o.noticed)
        /\ Range(asked'[u]) \cap o.noticed = Range(asked[u]) \cap o.noticed
    <3>1. SortedIn(asked[u], o.noticed)
      BY <2>1 DEF View
    <3>2. Range(Append(asked[u], m)) = Range(asked[u]) \cup {m}
      BY <1>2, Appended
    <3>3. PICK S : S = o.noticed
      OBVIOUS
    <3>4. SortedIn(Append(asked[u], m), S)
      <4>1. SortedIn(asked[u], S) /\ m \notin S
        BY <2>4, <3>1, <3>3
      <4> HIDE DEF o
      <4> QED
        BY <1>2, <4>1, SortedAppend
    <3> QED
      BY <1>1, <2>4, <3>1, <3>2, <3>3, <3>4
  <2>6. PICK p : p = o.peer /\ Visible(u, p)' = Visible(u, p)
    BY <1>3
  <2>7. /\ observers'[u][j].peer = p /\ observers'[u][j].noticed = o.noticed
        /\ observers'[u][j].array = o.array
        /\ shown'[u] = o.array /\ SortedIn(o.array, Msg) /\ Range(o.array) \subseteq o.noticed
        /\ o.noticed \subseteq Visible(u, p) /\ Before(o.noticed, Visible(u, p) \ o.noticed)
        /\ Before(Range(o.array), Range(asked'[u]) \cap o.noticed)
    BY <1>1, <1>4, <2>1, <2>5, <2>6 DEF View
  <2> HIDE DEF o
  <2> QED
    BY <2>5, <2>6, <2>7, ViewNext
<1>5. ASSUME ~ observers[u][i].left PROVE View(u, observers[u][i])'
  <2> DEFINE o == observers[u][i]
  <2>1. View(u, o)
    BY <1>1, <1>5 DEF ViewInv, ViewOf
  <2>2. V \subseteq sent /\ sent \subseteq Msg /\ \A l \in Msg : l.n \in Nat
    BY <1>1, VisibleFound, PutTypes, BoundsAssumption DEF OrderInv, Counted, TypeOK
  <2>3. o.noticed \subseteq V /\ Before(o.noticed, {m})
    BY <1>1, <2>1 DEF View, Before
  <2>4. Before(o.noticed \cup {m}, V \ (o.noticed \cup {m}))
    <3>1. ASSUME NEW k \in V \ (o.noticed \cup {m}), k.from = m.from PROVE m.n < k.n
      <4>1. m.n <= k.n /\ k # m /\ k \in sent /\ m \in sent
        BY <1>1, <2>2, <3>1
      <4>2. m.n # k.n /\ m.n \in Nat /\ k.n \in Nat
        BY <2>2, <4>1 DEF PlaceInv, Numbered
      <4> QED
        BY <4>1, <4>2
    <3> QED
      BY <2>1, <3>1 DEF View, Before
  <2>5. m \notin Range(asked[u])
    <3>1. ASSUME m \in Range(asked[u]) PROVE FALSE
      <4>1. PICK j \in DOMAIN observers[u] : m \in observers[u][j].noticed
        BY <3>1 DEF TalkInv, Talks, Noticed
      <4>2. observers[u][j].peer # u /\ m \in Between(u, observers[u][j].peer)
        BY <4>1 DEF TalkInv, Talks, OwnChats, OwnChat
      <4>3. observers[u][j].peer \in User
        <5>1. observers[u] \in Seq(Observer)
          BY DEF Screens
        <5>2. observers[u][j] \in Observer
          BY <5>1, SeqParts
        <5> QED
          BY <5>2 DEF Observer
      <4>4. observers[u][j].peer = q
        BY <1>1, <1>2, <4>2, <4>3, BetweenApart
      <4>5. j = i
        BY <1>1, <1>5, <4>4, OpenObserver
      <4> QED
        BY <1>1, <4>1, <4>5
    <3> QED
      BY <3>1
  <2>6. Before(Range(asked[u]) \cap o.noticed, {m}) /\ Before(Range(shown[u]), {m})
    BY <2>1, <2>3 DEF View, Before
  <2>7. SortedIn(asked[u], o.noticed \cup {m})
    <3>1. \A k \in DOMAIN asked[u] : asked[u][k] # m
      BY <2>5 DEF Range
    <3> QED
      BY <2>1, <3>1 DEF View, SortedIn
  <2>8. /\ asked'[u] = Append(asked[u], m) /\ SortedIn(Append(asked[u], m), o.noticed \cup {m})
        /\ Range(Append(asked[u], m)) = Range(asked[u]) \cup {m}
    <3>1. Before(Range(asked[u]) \cap (o.noticed \cup {m}), {m})
      BY <2>5, <2>6 DEF Before
    <3>2. asked'[u] = Append(asked[u], m) /\ Range(Append(asked[u], m)) = Range(asked[u]) \cup {m}
      BY <1>1, <1>2, <2>5, Appended
    <3>3. PICK S : S = o.noticed \cup {m}
      OBVIOUS
    <3>4. SortedIn(Append(asked[u], m), S)
      <4>1. SortedIn(asked[u], S) /\ Before(Range(asked[u]) \cap S, {m})
        BY <2>7, <3>1, <3>3
      <4> HIDE DEF o
      <4> QED
        BY <1>1, <1>2, <4>1, SortedAppend
    <3> QED
      BY <3>2, <3>3, <3>4
  <2>9. Before(Range(shown[u]), (Range(asked[u]) \cup {m}) \cap (o.noticed \cup {m}))
    BY <2>1, <2>5, <2>6 DEF View, Before
  <2>10. PICK p : p = q /\ Visible(u, p)' = Visible(u, p)
    BY <1>3
  <2>11. /\ observers'[u][i].noticed = o.noticed \cup {m} /\ observers'[u][i].array = o.array
         /\ observers'[u][i].peer = p /\ shown'[u] = o.array /\ Visible(u, p)' = V
    BY <1>1, <2>1, <2>10 DEF View
  <2>12. o.noticed \cup {m} \subseteq V /\ Range(shown[u]) \subseteq o.noticed \cup {m}
    BY <1>1, <2>1, <2>3 DEF View
  <2>13. shown[u] = o.array /\ SortedIn(shown[u], Msg)
    BY <2>1 DEF View
  <2>14. /\ Range(o.array) \subseteq o.noticed \cup {m} /\ SortedIn(o.array, Msg)
         /\ SortedIn(asked'[u], o.noticed \cup {m})
         /\ Before(Range(o.array), Range(asked'[u]) \cap (o.noticed \cup {m}))
    BY <2>8, <2>9, <2>12, <2>13
  <2> HIDE DEF o, V, q
  <2> QED
    BY <2>4, <2>12, <2>11, <2>14, ViewNext
<1>6. \A j \in DOMAIN observers[u] : observers'[u][j].left = observers[u][j].left
  BY <1>1
<1> QED
  BY <1>1, <1>4, <1>5, <1>6 DEF ViewOf

\* What is read was asked for first.
LEMMA ViewRead ==
  ASSUME TypeOK, Screens, ScreenInv, TalkInv, ViewInv, NEW u \in User, Read(u), Alone(u)
  PROVE  ViewOf(u)'
<1>1. PICK m \in Msg :
        /\ asked[u] # <<>> /\ m = Head(asked[u])
        /\ DOMAIN observers'[u] = DOMAIN observers[u]
        /\ \A i \in DOMAIN observers[u] : Told(u, i, m)
        /\ IF m \in messages /\ \E i \in DOMAIN observers[u] : Showing(u, i, m)
           THEN \E i \in DOMAIN observers[u] : /\ Showing(u, i, m)
                                               /\ shown'[u] = observers'[u][i].array
           ELSE shown'[u] = shown[u]
        /\ asked'[u] = Tail(asked[u])
        /\ UNCHANGED <<vars, chat>>
  BY ReadShape
<1>2. asked[u] \in Seq(Msg) /\ shown[u] \in Seq(Msg)
  BY DEF Screens
<1>3. /\ Range(Tail(asked[u])) \subseteq Range(asked[u]) /\ m \in Range(asked[u])
  <2>1. 1 \in DOMAIN asked[u] /\ m = asked[u][1]
    BY <1>1, <1>2, HeadAndTail
  <2> QED
    BY <1>1, <1>2, <2>1, HeadAndTail DEF Range
<1>4. ASSUME NEW i \in DOMAIN observers[u], ~ observers[u][i].left
      PROVE  View(u, observers[u][i])'
  <2> DEFINE o == observers[u][i]
  <2>1. View(u, o) /\ Told(u, i, m) /\ Once(o)
    BY <1>1, <1>4 DEF ViewInv, ViewOf, ScreenInv, ArraysOnce
  <2>2. \A j \in DOMAIN observers[u] : Showing(u, j, m) => j = i
    <3>1. ASSUME NEW j \in DOMAIN observers[u], ~ observers[u][j].left PROVE j = i
      BY <1>4, <3>1, OpenObserver
    <3> QED
      BY <3>1 DEF Showing
  <2>3. PICK p : p = o.peer /\ Visible(u, p)' = Visible(u, p)
    BY <1>1 DEF Visible, vars, server, queues
  <2>4. observers'[u][i].noticed = o.noticed /\ observers'[u][i].peer = p
    BY <2>1, <2>3 DEF Told
  <2>5. /\ shown'[u] = observers'[u][i].array
        /\ \/ shown'[u] = shown[u]
           \/ m \in o.noticed /\ shown'[u] = Append(shown[u], m)
    <3>1. CASE m \in messages /\ Showing(u, i, m)
      <4>1. observers'[u][i].array = Append(o.array, m) /\ m \in o.noticed
        BY <2>1, <3>1 DEF Told, Showing, Once
      <4>2. shown'[u] = observers'[u][i].array
        BY <1>1, <2>2, <3>1
      <4> QED
        BY <2>1, <4>1, <4>2 DEF View
    <3>2. CASE ~ (m \in messages /\ Showing(u, i, m))
      <4>1. shown'[u] = shown[u]
        BY <1>1, <2>2, <3>2
      <4>2. observers'[u][i].array = o.array
        BY <1>4, <2>1, <3>2 DEF Told, Showing
      <4> QED
        BY <2>1, <4>1, <4>2 DEF View
    <3> QED
      BY <3>1, <3>2
  <2>6. /\ SortedIn(Tail(asked[u]), o.noticed)
        /\ m \in o.noticed => Before({m}, Range(Tail(asked[u])) \cap o.noticed)
    <3>1. SortedIn(asked[u], o.noticed)
      BY <2>1 DEF View
    <3> QED
      BY <1>1, <1>2, <3>1, SortedTail
  <2>7. ASSUME m \in o.noticed
        PROVE  /\ SortedIn(Append(shown[u], m), Msg)
               /\ Range(Append(shown[u], m)) = Range(shown[u]) \cup {m}
               /\ Before(Range(shown[u]) \cup {m}, Range(Tail(asked[u])) \cap o.noticed)
               /\ Range(shown[u]) \cup {m} \subseteq o.noticed
    <3>1. Before(Range(shown[u]) \cap Msg, {m})
      BY <1>3, <2>1, <2>7 DEF View, Before
    <3>2. SortedIn(shown[u], Msg)
      BY <2>1 DEF View
    <3>3. Before(Range(shown[u]) \cup {m}, Range(Tail(asked[u])) \cap o.noticed)
      BY <1>3, <2>1, <2>6, <2>7 DEF View, Before
    <3> QED
      BY <1>2, <2>1, <2>7, <3>1, <3>2, <3>3, SortedAppend, Appended DEF View
  <2>8. /\ Range(shown'[u]) \subseteq o.noticed /\ SortedIn(shown'[u], Msg)
        /\ Before(Range(shown'[u]), Range(Tail(asked[u])) \cap o.noticed)
    <3>1. CASE m \in o.noticed /\ shown'[u] = Append(shown[u], m)
      BY <2>7, <3>1
    <3>2. CASE shown'[u] = shown[u]
      BY <1>3, <2>1, <3>2 DEF View, Before
    <3> QED
      BY <2>5, <3>1, <3>2
  <2>9. /\ o.noticed \subseteq Visible(u, p)
        /\ Before(o.noticed, Visible(u, p) \ o.noticed)
    BY <2>1, <2>3 DEF View
  <2>10. asked'[u] = Tail(asked[u])
    BY <1>1
  <2> HIDE DEF o
  <2> QED
    BY <2>3, <2>4, <2>5, <2>6, <2>8, <2>9, <2>10, ViewNext
<1>5. \A j \in DOMAIN observers[u] : observers'[u][j].left = observers[u][j].left
  BY <1>1 DEF Told
<1> QED
  BY <1>1, <1>4, <1>5 DEF ViewOf

\* The chats u's observers are about.
PeersKept(u) ==
  /\ chat'[u] = chat[u] /\ DOMAIN observers'[u] = DOMAIN observers[u]
  /\ \A i \in DOMAIN observers[u] : observers'[u][i].peer = observers[u][i].peer

LEMMA ViewInvStep ==
  ASSUME TypeOK, TypeOK', RecordInv, SideInv, OrderInv, PlaceInv, Screens, LossesCounted,
         ScreenInv, TalkInv, ViewInv, [ChatNext]_chatVars
  PROVE  ViewInv'
<1>0. [Next]_vars
  BY TransportStep DEF Screens
<1>1. ASSUME NEW v \in User, PeersKept(v), losses'[v] = losses[v], Alone(v)' PROVE Alone(v)
  <2>1. FirstOfChat(v)
    BY <1>1 DEF Alone, FirstOfChat, PeersKept
  <2>2. refusals = 0
    BY <1>0, <1>1, RefusalsStay DEF Alone
  <2> QED
    BY <1>1, <2>1, <2>2 DEF Alone
<1>2. ASSUME NEW v \in User, UNCHANGED <<chat[v], observers[v], asked[v], shown[v], losses[v]>>,
             \/ UNCHANGED vars
             \/ \E w \in User : \/ \E q \in User : Send(w, q)
                                \/ Apply(w)
                                \/ Refuse(w)
                                \/ Ack(w)
                                \/ Disconnect(w)
                                \/ w # v /\ Kill(w)
      PROVE  Alone(v)' => ViewOf(v)'
  <2>1. ASSUME Alone(v) PROVE ViewOf(v)'
    <3>1. ASSUME chat[v] \in User PROVE NewerSeen(v, chat[v])
      <4>1. chat[v] # v
        BY DEF TalkInv, Talks, Watched
      <4>2. refusals = 0
        BY <2>1 DEF Alone
      <4> QED
        BY <1>2, <3>1, <4>1, <4>2, SeenNewer
    <3> QED
      BY <1>2, <2>1, <3>1, ViewSame
  <2>2. PeersKept(v)
    BY <1>2 DEF PeersKept
  <2> QED
    BY <1>1, <1>2, <2>1, <2>2
<1>3. ASSUME NEW u \in User, Elsewhere(u),
             \/ UNCHANGED vars
             \/ \E q \in User : Send(u, q)
             \/ Apply(u) \/ Refuse(u) \/ Ack(u) \/ Disconnect(u) \/ Kill(u),
             Alone(u)' => ViewOf(u)'
      PROVE  ViewInv'
  <2>1. ASSUME NEW v \in User PROVE Alone(v)' => ViewOf(v)'
    <3>1. CASE v = u
      BY <1>3, <3>1
    <3>2. CASE v # u
      <4>1. UNCHANGED <<chat[v], observers[v], asked[v], shown[v], losses[v]>>
        BY <1>3, <3>2 DEF Elsewhere
      <4> QED
        BY <1>2, <1>3, <3>2, <4>1
    <3> QED
      BY <3>1, <3>2
  <2> QED
    BY <2>1 DEF ViewInv
<1>4. ASSUME NEW u \in User, NEW p \in User, Open(u, p) PROVE ViewInv'
  <2>1. ViewOf(u)'
    BY <1>4, ViewOpen
  <2> QED
    BY <1>3, <1>4, <2>1, OpenShape
<1>5. ASSUME NEW u \in User, Reappear(u) PROVE ViewInv'
  <2>1. /\ chat[u] \in User /\ Gains(u, chat[u]) /\ chat'[u] = chat[u]
        /\ Elsewhere(u) /\ UNCHANGED vars
    BY <1>5, ReappearShape
  <2>2. PICK i \in DOMAIN observers[u] : ~ observers[u][i].left
    BY <2>1, ConversationAssumption DEF TalkInv, Talks, Watched
  <2>3. observers[u][i].peer = chat[u]
    BY <2>2, OpenObserver
  <2>4. Len(observers[u]) + 1 # i
    <3>1. observers[u] \in Seq(Observer)
      BY DEF Screens
    <3>2. Len(observers[u]) \in Nat /\ DOMAIN observers[u] = 1..Len(observers[u])
      BY <3>1, SeqParts
    <3> QED
      BY <3>2
  <2>5. NewObserver(u, chat[u]).peer = chat[u]
    BY <2>1, FreshObserver
  <2>6. ~ FirstOfChat(u)'
    BY <2>1, <2>2, <2>3, <2>4, <2>5 DEF Gains, FirstOfChat
  <2> QED
    BY <1>3, <2>1, <2>6 DEF Alone
<1>6. ASSUME NEW u \in User, Close(u) PROVE ViewInv'
  <2>1. /\ Elsewhere(u) /\ UNCHANGED vars /\ DOMAIN observers'[u] = DOMAIN observers[u]
        /\ \A i \in DOMAIN observers[u] : Leaves(observers[u][i], observers'[u][i])
    BY <1>6, CloseShape
  <2>2. ViewOf(u)'
    BY <2>1 DEF Leaves, ViewOf
  <2> QED
    BY <1>3, <2>1, <2>2
<1>7. ASSUME NEW u \in User, ChatKill(u) PROVE ViewInv'
  <2>1. Elsewhere(u) /\ DOMAIN observers'[u] = {}
    BY <1>7, KillShape, NothingIn
  <2>2. ViewOf(u)' /\ Kill(u)
    BY <1>7, <2>1 DEF ViewOf, ChatKill
  <2> QED
    BY <1>3, <2>1, <2>2
<1>8. ASSUME NEW u \in User, NEW i \in 1..MaxAppears, Notice(u, i) PROVE ViewInv'
  <2>1. /\ Elsewhere(u) /\ UNCHANGED <<vars, chat, losses>>
        /\ DOMAIN observers'[u] = DOMAIN observers[u]
        /\ \A j \in DOMAIN observers[u] \ {i} : observers'[u][j] = observers[u][j]
        /\ observers'[u][i].peer = observers[u][i].peer
    BY <1>8, NoticeShape
  <2>2. PeersKept(u)
    BY <2>1 DEF PeersKept
  <2>3. Alone(u) => ViewOf(u)'
    BY <1>8, ViewNotice
  <2> QED
    BY <1>1, <1>3, <2>1, <2>2, <2>3
<1>9. ASSUME NEW u \in User, Read(u) PROVE ViewInv'
  <2>1. PICK m \in Msg :
          /\ Elsewhere(u) /\ UNCHANGED <<vars, chat, losses>>
          /\ DOMAIN observers'[u] = DOMAIN observers[u]
          /\ \A i \in DOMAIN observers[u] : Told(u, i, m)
    BY <1>9, ReadShape
  <2>2. PeersKept(u)
    BY <2>1 DEF PeersKept, Told
  <2>3. Alone(u) => ViewOf(u)'
    BY <1>9, ViewRead
  <2> QED
    BY <1>1, <1>3, <2>1, <2>2, <2>3
<1>10. ASSUME NEW u \in User, ChatDisconnect(u) PROVE ViewInv'
  <2>1. /\ UNCHANGED <<chat, observers, shown>> /\ Disconnect(u)
        /\ losses' = [losses EXCEPT ![u] = @ + 1]
        /\ \A v \in User \ {u} : losses'[v] = losses[v] /\ asked'[v] = asked[v]
    BY <1>10, LostShape
  <2>2. Elsewhere(u)
    BY <2>1 DEF Elsewhere
  <2>3. losses'[u] = losses[u] + 1 /\ losses[u] \in Nat
    BY <2>1 DEF LossesCounted
  <2>4. ~ Alone(u)'
    BY <2>3 DEF Alone
  <2> QED
    BY <1>3, <2>1, <2>2, <2>4
<1>11. ASSUME NEW u \in User, Reload(u) PROVE ViewInv'
  <2>1. UNCHANGED <<vars, chat, observers, asked, shown, losses>>
    BY <1>11, ReloadShape
  <2> QED
    BY <1>2, <2>1 DEF ViewInv
<1>12. CASE UNCHANGED chatVars \/ \E u \in User : ChatSend(u) \/ Transport(u)
  <2>1. UNCHANGED <<chat, observers, asked, shown, losses>>
    BY <1>12, SilentShape
  <2>2. \/ UNCHANGED vars
        \/ \E w \in User : (\E q \in User : Send(w, q)) \/ Apply(w) \/ Refuse(w) \/ Ack(w)
    <3>1. ASSUME NEW u \in User, ChatSend(u) PROVE \E q \in User : Send(u, q)
      BY <3>1 DEF ChatSend, Screens, Partners
    <3> QED
      BY <1>12, <3>1 DEF Transport, chatVars
  <2>3. \A v \in User : Alone(v)' => ViewOf(v)'
    BY <1>2, <2>1, <2>2
  <2> QED
    BY <2>3 DEF ViewInv
<1> QED
  BY <1>4, <1>5, <1>6, <1>7, <1>8, <1>9, <1>10, <1>11, <1>12 DEF ChatNext

\* On the first appearance of a chat in the process, over a connection that
\* held, with a server that refused nothing, the messages of one sender stand in
\* the order in which they were sent (OrderOfSender).  Observers of screens left
\* before, and what they still ask for, change nothing about it.
THEOREM OrderTheorem == ChatSpec => []OrderOfSender
<1>1. Screens /\ TalkInv /\ ViewInv => OrderOfSender
  <2>1. ASSUME Screens, TalkInv, ViewInv, NEW u \in User,
               FirstOfChat(u), losses[u] = 0, refusals = 0,
               NEW i \in DOMAIN shown[u], NEW j \in DOMAIN shown[u], i < j,
               shown[u][i].from = shown[u][j].from
        PROVE  shown[u][i].n < shown[u][j].n
    <3>1. \A k \in DOMAIN shown[u] : shown[u][k] \in Msg
      BY <2>1, SeqParts DEF Screens
    <3>2. chat[u] # Nobody
      BY <2>1, NothingIn DEF TalkInv, Talks, Watched
    <3>3. PICK k \in DOMAIN observers[u] : ~ observers[u][k].left
      BY <2>1, <3>2 DEF TalkInv, Talks, Watched
    <3>4. View(u, observers[u][k])
      BY <2>1, <3>3 DEF ViewInv, ViewOf, Alone
    <3>5. SortedIn(shown[u], Msg)
      BY <3>4 DEF View
    <3> QED
      BY <2>1, <3>1, <3>5 DEF SortedIn
  <2> QED
    BY <2>1 DEF OrderOfSender
<1>2. ChatInit => Init /\ Screens /\ LossesCounted /\ ScreenInv /\ TalkInv /\ ViewInv
  BY ScreensInit, ScreenInvInit, TalkInvInit, ViewInvInit DEF ChatInit, Init, LossesCounted
<1>3. Screens /\ [ChatNext]_chatVars => [Next]_vars
  BY TransportStep DEF Screens
<1>4. TypeOK /\ [Next]_vars => TypeOK'
  BY TypeOKStep
<1>5. TypeOK /\ TypeOK' /\ RecordInv /\ SideInv /\ OrderInv /\ PlaceInv /\ Screens /\ LossesCounted
        /\ ScreenInv /\ TalkInv /\ ViewInv /\ [ChatNext]_chatVars => TalkInv' /\ ViewInv'
  BY TalkInvStep, ViewInvStep
<1> QED
  BY <1>1, <1>2, <1>3, <1>4, <1>5, TypeOKInit, RecordInvInit, RecordInvStep, SideInvInit, SideInvStep,
     OrderInvInit, OrderInvStep, PlaceInvInit, PlaceInvStep, ScreensStep, LossesStep, ScreenInvStep, PTL
     DEF ChatSpec

\* The chat screens keep what the transport promises: EntriesLead.
THEOREM ChatEntriesLead == ChatSpec => []EntriesLead
  BY ChatImplementsMessages, EntriesTheorem, PTL

\* And SenderHasIt.
THEOREM ChatSenderHasIt == ChatSpec => []SenderHasIt
  BY ChatImplementsMessages, SenderTheorem, PTL

\* And IsCourier, the form in which the run checks it.
THEOREM ChatIsCourier == ChatSpec => IsCourier
  BY ChatImplementsMessages, CourierTheorem, PTL

=============================================================================
