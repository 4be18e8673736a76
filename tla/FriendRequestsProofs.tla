------------------------ MODULE FriendRequestsProofs ------------------------
(***************************************************************************)
(* Proofs about FriendRequests, for any set of users and any bounds.       *)
(***************************************************************************)
EXTENDS FriendRequests, SequenceTheorems, TLAPS

(***************************************************************************)
(* The inductive invariant.  Facts(q) of a queue: what every outstanding   *)
(* write relies on, and what an applied one has brought about.  All facts  *)
(* are of the form "... or the two are friends", which no step undoes.     *)
(***************************************************************************)
Settled(k) == k \in requests \/ Mutual(k.from, k.to)

Indexed(k, a, b) == k \in index[a][b] \/ Mutual(k.from, k.to)

Answerable(k) == Pending(k.from, k.to) \/ Mutual(k.from, k.to)

\* What write i of queue q of u relies on.
Ready(u, q, i) ==
  LET w == q[i]
      k == q[i].key
  IN
  /\ w.op = "request" => k.from = u
  /\ w.op = "index" /\ w.owner = u =>
       /\ k.from = u /\ w.peer = k.to
       /\ Settled(k) \/ \E j \in 1..(i - 1) : q[j] = RequestPut(k)
  /\ w.op = "index" /\ w.owner # u =>
       k.from = u /\ w.owner = k.to /\ w.peer = u /\ Settled(k) /\ Indexed(k, u, k.to)
  /\ w.op = "friend" => k.to = u /\ Answerable(k)
  /\ w.op = "list" /\ w.owner = u =>
       /\ k.to = u /\ w.peer = k.from
       /\ k \in friends \/ \E j \in 1..(i - 1) : q[j] = FriendPut(k)
  /\ w.op = "list" /\ w.owner # u =>
       k.to = u /\ w.owner = k.from /\ w.peer = u /\ k \in friends /\ k \in userFriends[u]
  /\ w.op \in {"dropRequest", "dropIndex"} =>
       {w.owner, w.peer} = {k.from, k.to} /\ Mutual(k.from, k.to)

\* What write w has brought about once the server has processed it.
Done(w) ==
  /\ w.op = "request" => Settled(w.key)
  /\ w.op = "index" => Indexed(w.key, w.owner, w.peer)
  /\ w.op = "friend" => w.key \in friends
  /\ w.op = "list" => w.key \in userFriends[w.owner]

QueuesOK ==
  \A u \in User : \A i \in 1..Len(puts[u]) :
    Ready(u, puts[u], i) /\ (i <= applied[u] => Done(puts[u][i]))

IndexOK ==
  \A a, b \in User : \A k \in index[a][b] : {a, b} = {k.from, k.to} /\ Settled(k)

SendersOK == \A k \in Key : k \in index[k.to][k.from] => Indexed(k, k.from, k.to)

FriendsOK == \A k \in friends : Answerable(k)

ListsOK ==
  \A u \in User : \A k \in userFriends[u] :
    k \in friends /\ u \in {k.from, k.to} /\ k \in userFriends[k.to]

ScreensOK ==
  /\ \A u \in User : \A p \in inbox[u] : p # u /\ (Pending(p, u) \/ Mutual(p, u))
  /\ \A u \in User : \A p \in outer[u] \cup inner[u] : Mutual(u, p)
  /\ \A t \in toldAdded : Mutual(t[1], t[2])

Core == QueuesOK /\ IndexOK /\ SendersOK /\ FriendsOK /\ ListsOK /\ ScreensOK

IInv == AllAccepted => Core

-----------------------------------------------------------------------------
\* Every write the clients make is a write, and its parts are what they say.
LEMMA PutTypes ==
  ASSUME NEW k \in Key, NEW a \in User, NEW b \in User
  PROVE  /\ RequestPut(k) \in Put /\ IndexPut(k, a, b) \in Put
         /\ FriendPut(k) \in Put /\ ListPut(k, a, b) \in Put
         /\ DropRequest(k) \in Put /\ DropIndex(k, a, b) \in Put
  BY DEF RequestPut, IndexPut, FriendPut, ListPut, DropRequest, DropIndex, Put, Op, Key

\* The other side's entry: owner and peer change places.
LEMMA MirroredPut ==
  ASSUME NEW w \in Put
  PROVE  Mirrored(w) = [op |-> w.op, key |-> w.key, owner |-> w.peer, peer |-> w.owner]
  <1>1. PICK o \in Op, k \in Key, a \in User, b \in User :
          w = [op |-> o, key |-> k, owner |-> a, peer |-> b]
    BY DEF Put
  <1>2. [w EXCEPT !.owner = w.peer] = [op |-> o, key |-> k, owner |-> b, peer |-> b]
    BY <1>1
  <1>3. [[op |-> o, key |-> k, owner |-> b, peer |-> b] EXCEPT !.peer = a] =
        [op |-> o, key |-> k, owner |-> b, peer |-> a]
    OBVIOUS
  <1>4. Mirrored(w) = [[w EXCEPT !.owner = w.peer] EXCEPT !.peer = w.owner]
    BY DEF Mirrored
  <1> QED
    BY <1>1, <1>2, <1>3, <1>4

LEMMA WritesTypes ==
  ASSUME NEW k \in Key, NEW a \in User, NEW b \in User
  PROVE  /\ SentWrites(k) \in Seq(Put) /\ Len(SentWrites(k)) = 2
         /\ AcceptWrites(k) \in Seq(Put) /\ Len(AcceptWrites(k)) = 2
         /\ RemovalWrites(k, a, b) \in Seq(Put) /\ Len(RemovalWrites(k, a, b)) = 3
  <1>1. k.from \in User /\ k.to \in User
    BY DEF Key
  <1> QED
    BY <1>1, PutTypes DEF SentWrites, AcceptWrites, RemovalWrites

\* The key of a tap.
LEMMA TapKey ==
  ASSUME TypeOK, NEW u \in User, NEW f \in User, NEW t \in User, f # t, taps[u] < MaxTaps
  PROVE  [from |-> f, to |-> t, tap |-> taps[u] + 1] \in Key
  <1>1. taps[u] \in 0..MaxTaps
    BY DEF TypeOK
  <1>2. taps[u] + 1 \in 1..MaxTaps
    BY <1>1, BoundsAssumption
  <1> QED
    BY <1>2 DEF Key

\* Writes added at the end of a queue.
LEMMA PutsAppended ==
  ASSUME TypeOK, NEW u \in User, NEW r \in Seq(Put),
         Issue(u, r)
  PROVE  /\ puts' \in [User -> Seq(Put)]
         /\ Len(puts'[u]) = Len(puts[u]) + Len(r)
         /\ \A i \in 1..Len(puts[u]) : puts'[u][i] = puts[u][i]
         /\ \A i \in 1..Len(r) : puts'[u][Len(puts[u]) + i] = r[i]
         /\ \A v \in User \ {u} : puts'[v] = puts[v]
  <1>1. puts[u] \in Seq(Put) /\ puts \in [User -> Seq(Put)]
    BY DEF TypeOK
  <1>2. puts' = [puts EXCEPT ![u] = puts[u] \o r]
    BY DEF Issue
  <1>3. puts[u] \o r \in Seq(Put)
    BY <1>1, ConcatProperties
  <1>4. Len(puts[u]) \in Nat /\ Len(r) \in Nat
    BY <1>1, LenProperties
  <1>5. /\ Len(puts[u] \o r) = Len(puts[u]) + Len(r)
        /\ \A i \in 1..Len(puts[u]) + Len(r) :
             (puts[u] \o r)[i] = IF i <= Len(puts[u]) THEN puts[u][i] ELSE r[i - Len(puts[u])]
    BY <1>1, ConcatProperties
  <1>6. \A i \in 1..Len(puts[u]) : (puts[u] \o r)[i] = puts[u][i]
    BY <1>4, <1>5
  <1>7. \A i \in 1..Len(r) : (puts[u] \o r)[Len(puts[u]) + i] = r[i]
    BY <1>4, <1>5
  <1> QED
    BY <1>1, <1>2, <1>3, <1>5, <1>6, <1>7

\* The oldest write is answered; r is what its completion block issues.
LEMMA PutsAnswered ==
  ASSUME TypeOK, NEW u \in User, applied[u] > 0, NEW r \in Seq(Put),
         Answer(u, r)
  PROVE  /\ puts' \in [User -> Seq(Put)]
         /\ Len(puts[u]) >= 1
         /\ Head(puts[u]) = puts[u][1] /\ Head(puts[u]) \in Put
         /\ Len(puts'[u]) = Len(puts[u]) - 1 + Len(r)
         /\ \A i \in 1..(Len(puts[u]) - 1) : puts'[u][i] = puts[u][i + 1]
         /\ \A i \in 1..Len(r) : puts'[u][Len(puts[u]) - 1 + i] = r[i]
         /\ \A v \in User \ {u} : puts'[v] = puts[v]
  <1>1. puts[u] \in Seq(Put) /\ puts \in [User -> Seq(Put)] /\ applied[u] \in Nat
        /\ applied[u] <= Len(puts[u])
    BY DEF TypeOK
  <1>2. Len(puts[u]) \in Nat /\ Len(r) \in Nat
    BY <1>1, LenProperties
  <1>3. Len(puts[u]) >= 1 /\ puts[u] # <<>>
    BY <1>1, <1>2, EmptySeq
  <1>4. /\ Head(puts[u]) = puts[u][1] /\ Head(puts[u]) \in Put
        /\ Tail(puts[u]) \in Seq(Put)
        /\ Len(Tail(puts[u])) = Len(puts[u]) - 1
        /\ \A i \in 1..(Len(puts[u]) - 1) : Tail(puts[u])[i] = puts[u][i + 1]
    BY <1>1, <1>3, HeadTailProperties
  <1> DEFINE t == Tail(puts[u])
  <1>5. /\ t \o r \in Seq(Put)
        /\ Len(t \o r) = Len(t) + Len(r)
        /\ \A i \in 1..Len(t) + Len(r) :
             (t \o r)[i] = IF i <= Len(t) THEN t[i] ELSE r[i - Len(t)]
    BY <1>4, ConcatProperties
  <1>6. \A i \in 1..Len(t) : (t \o r)[i] = t[i]
    BY <1>2, <1>3, <1>4, <1>5
  <1>7. \A i \in 1..Len(r) : (t \o r)[Len(t) + i] = r[i]
    BY <1>2, <1>3, <1>4, <1>5
  <1>8. puts'[u] = t \o r /\ \A v \in User \ {u} : puts'[v] = puts[v]
    BY <1>1 DEF Answer
  <1>9. puts' \in [User -> Seq(Put)]
    BY <1>1, <1>5 DEF Answer
  <1> QED
    BY <1>3, <1>4, <1>5, <1>6, <1>7, <1>8, <1>9

(***************************************************************************)
(* The ways a step changes the queues: writes added at the end (Send,      *)
(* Accept, the inner observer) or an answer to the oldest (Ack).           *)
(***************************************************************************)
LEMMA AckShape ==
  ASSUME TypeOK, NEW u \in User, Ack(u)
  PROVE  LET w == puts[u][1] IN
         /\ w \in Put /\ w.key \in Key /\ w.owner \in User /\ w.peer \in User
         /\ toldSent' = toldSent \/ toldSent' = toldSent \cup {w.key}
         /\ \/ w.op = "index" /\ w.owner = u /\ Answer(u, <<IndexPut(w.key, w.peer, u)>>) /\ outer' = outer
            \/ w.op = "list" /\ w.owner = u /\ Answer(u, <<ListPut(w.key, w.peer, u)>>) /\ outer' = outer
            \/ /\ w.op = "list" /\ w.owner # u /\ Answer(u, <<>>)
               /\ outer' = [outer EXCEPT ![u] = @ \cup {w.owner}]
            \/ Answer(u, <<>>) /\ outer' = outer
  <1>1. puts[u] \in Seq(Put) /\ applied[u] \in Nat /\ applied[u] > 0
        /\ applied[u] <= Len(puts[u])
    BY DEF TypeOK, Ack
  <1>2. Len(puts[u]) \in Nat /\ Len(puts[u]) >= 1 /\ puts[u] # <<>>
    BY <1>1, LenProperties, EmptySeq
  <1>3. Head(puts[u]) = puts[u][1] /\ Head(puts[u]) \in Put /\ Tail(puts[u]) \in Seq(Put)
    BY <1>1, <1>2, HeadTailProperties
  <1>4. PICK w \in Put : w = puts[u][1]
    BY <1>3
  <1>5. /\ Answer(u, NextWrite(u, w)) /\ toldSent' = toldSent \cup SentAlert(u, w)
        /\ outer' = [outer EXCEPT ![u] = @ \cup Observed(u, w)]
    BY <1>3, <1>4, Zenon DEF Ack
  <1>6. w.key \in Key /\ w.owner \in User /\ w.peer \in User
        /\ w = [op |-> w.op, key |-> w.key, owner |-> w.owner, peer |-> w.peer]
    BY DEF Put
  <1>7. toldSent' = toldSent \/ toldSent' = toldSent \cup {w.key}
    BY <1>5 DEF SentAlert
  <1>8. outer \in [User -> SUBSET User]
    BY DEF TypeOK
  <1>9. Observed(u, w) = {} => outer' = outer
    BY <1>5, <1>8
  <1>10. CASE w.op = "index" /\ w.owner = u
    <2>1. NextWrite(u, w) = <<IndexPut(w.key, w.peer, u)>>
      <3>1. Mirrored(w) = IndexPut(w.key, w.peer, u)
        BY <1>6, <1>10, MirroredPut DEF IndexPut
      <3>2. NextWrite(u, w) = <<Mirrored(w)>>
        BY <1>10 DEF NextWrite
      <3> QED
        BY <3>1, <3>2
    <2>2. Observed(u, w) = {}
      BY <1>10 DEF Observed
    <2> QED
      BY <1>4, <1>5, <1>6, <1>7, <1>9, <1>10, <2>1, <2>2, Zenon
  <1>11. CASE w.op = "list" /\ w.owner = u
    <2>1. NextWrite(u, w) = <<ListPut(w.key, w.peer, u)>>
      <3>1. Mirrored(w) = ListPut(w.key, w.peer, u)
        BY <1>6, <1>11, MirroredPut DEF ListPut
      <3>2. NextWrite(u, w) = <<Mirrored(w)>>
        BY <1>11 DEF NextWrite
      <3> QED
        BY <3>1, <3>2
    <2>2. Observed(u, w) = {}
      BY <1>11 DEF Observed
    <2> QED
      BY <1>4, <1>5, <1>6, <1>7, <1>9, <1>11, <2>1, <2>2, Zenon
  <1>12. CASE w.op = "list" /\ w.owner # u
    <2>1. NextWrite(u, w) = <<>> /\ Observed(u, w) = {w.owner}
      BY <1>12 DEF NextWrite, Observed
    <2> QED
      BY <1>4, <1>5, <1>6, <1>7, <1>12, <2>1, Zenon
  <1>13. CASE w.op \notin {"index", "list"} \/ (w.op = "index" /\ w.owner # u)
    <2>1. NextWrite(u, w) = <<>> /\ Observed(u, w) = {}
      BY <1>13 DEF NextWrite, Observed
    <2> QED
      BY <1>4, <1>5, <1>6, <1>7, <1>9, <2>1, Zenon
  <1> QED
    BY <1>10, <1>11, <1>12, <1>13

LEMMA TypeOKInit == Init => TypeOK
  <1> SUFFICES ASSUME Init PROVE TypeOK
    OBVIOUS
  <1>1. <<>> \in Seq(Put) /\ Len(<<>>) = 0
    BY EmptySeq
  <1> QED
    BY <1>1, BoundsAssumption DEF Init, TypeOK

\* The lengths and counts are numbers.
LEMMA Lengths ==
  ASSUME TypeOK, NEW v \in User
  PROVE  Len(puts[v]) \in Nat /\ applied[v] \in Nat /\ applied[v] <= Len(puts[v])
  <1>1. puts[v] \in Seq(Put)
    BY DEF TypeOK
  <1> QED
    BY <1>1, LenProperties DEF TypeOK

\* The server's tables stay tables.
LEMMA StoreTypes ==
  ASSUME TypeOK, NEW w \in Put, Store(w)
  PROVE  /\ requests' \subseteq Key /\ friends' \subseteq Key
         /\ index' \in [User -> [User -> SUBSET Key]]
         /\ userFriends' \in [User -> SUBSET Key]
  <1>1. w.key \in Key /\ w.owner \in User /\ w.peer \in User
    BY DEF Put
  <1>2. requests' \subseteq Key /\ friends' \subseteq Key
    <2>1. requests \subseteq Key /\ friends \subseteq Key
      BY DEF TypeOK
    <2>2. \/ requests' = requests \/ requests' = requests \cup {w.key}
          \/ requests' = requests \ {w.key}
      BY Zenon DEF Store
    <2>3. friends' = friends \/ friends' = friends \cup {w.key}
      BY Zenon DEF Store
    <2> QED
      BY <1>1, <2>1, <2>2, <2>3
  <1>3. userFriends' \in [User -> SUBSET Key]
    <2>1. \/ userFriends' = userFriends
          \/ userFriends' = [userFriends EXCEPT ![w.owner] = @ \cup {w.key}]
      BY Zenon DEF Store
    <2>2. userFriends \in [User -> SUBSET Key]
      BY DEF TypeOK
    <2> QED
      BY <1>1, <2>1, <2>2
  <1>4. index' \in [User -> [User -> SUBSET Key]]
    <2>1. ASSUME NEW a \in User, NEW b \in User, NEW S \in SUBSET Key
          PROVE  [index EXCEPT ![a][b] = S] \in [User -> [User -> SUBSET Key]]
      BY <2>1 DEF TypeOK
    <2>2. index[w.owner][w.peer] \cup {w.key} \in SUBSET Key
      BY <1>1 DEF TypeOK
    <2>3. index' = index \/ \E S \in SUBSET Key : index' = [index EXCEPT ![w.owner][w.peer] = S]
      BY <2>2, Zenon DEF Store
    <2>4. index \in [User -> [User -> SUBSET Key]]
      BY DEF TypeOK
    <2>5. CASE index' = index
      BY <2>4, <2>5
    <2>6. CASE \E S \in SUBSET Key : index' = [index EXCEPT ![w.owner][w.peer] = S]
      <3>1. PICK S \in SUBSET Key : index' = [index EXCEPT ![w.owner][w.peer] = S]
        BY <2>6
      <3> QED
        BY <1>1, <2>1, <3>1
    <2> QED
      BY <2>3, <2>5, <2>6
  <1> QED
    BY <1>2, <1>3, <1>4

\* Issuing writes keeps the count of processed ones within the queue.
LEMMA IssueBound ==
  ASSUME TypeOK, NEW u \in User, NEW r \in Seq(Put), Issue(u, r), applied' = applied
  PROVE  \A v \in User : applied'[v] <= Len(puts'[v])
  <1> SUFFICES ASSUME NEW v \in User PROVE applied[v] <= Len(puts'[v])
    OBVIOUS
  <1>1. Len(r) \in Nat /\ Len(puts[v]) \in Nat /\ applied[v] \in Nat /\ applied[v] <= Len(puts[v])
    BY LenProperties, Lengths
  <1>2. Len(puts'[u]) = Len(puts[u]) + Len(r)
    BY PutsAppended
  <1>3. v # u => puts'[v] = puts[v]
    BY PutsAppended
  <1>4. CASE v = u
    BY <1>1, <1>2, <1>4
  <1>5. CASE v # u
    BY <1>1, <1>3, <1>5
  <1> QED
    BY <1>4, <1>5

\* A lost connection loses no write: what was unanswered stays outstanding.
LEMMA NothingForgotten ==
  ASSUME TypeOK, NEW u \in User, Disconnect(u)
  PROVE  puts' = puts
  <1>1. puts \in [User -> Seq(Put)]
    BY DEF TypeOK
  <1>2. puts' = [puts EXCEPT ![u] = puts[u]]
    BY DEF Disconnect, Unanswered
  <1> QED
    BY <1>1, <1>2

LEMMA TypeOKStep == TypeOK /\ [Next]_vars => TypeOK'
  <1> SUFFICES ASSUME TypeOK, [Next]_vars PROVE TypeOK'
    OBVIOUS
  <1>1. ASSUME UNCHANGED vars PROVE TypeOK'
    BY <1>1 DEF vars, server, client, budgets, TypeOK
  <1>2. ASSUME NEW u \in User, NEW p \in User, SendRequest(u, p) PROVE TypeOK'
    <2> DEFINE k == [from |-> u, to |-> p, tap |-> taps[u] + 1]
               q == SentWrites(k)
    <2>1. k \in Key
      BY <1>2, TapKey DEF SendRequest
    <2>2. q \in Seq(Put) /\ Issue(u, q)
      BY <2>1, WritesTypes, <1>2 DEF SendRequest
    <2>3. PICK r \in Seq(Put) : Issue(u, r)
      BY <2>2, Zenon
    <2>4. /\ puts' \in [User -> Seq(Put)]
          /\ Len(puts'[u]) = Len(puts[u]) + Len(r)
          /\ \A v \in User \ {u} : puts'[v] = puts[v]
      BY <2>3, PutsAppended
    <2>5. taps' \in [User -> 0..MaxTaps]
      BY <1>2, BoundsAssumption DEF SendRequest, TypeOK
    <2>6. applied' = applied
      BY <1>2 DEF SendRequest
    <2>7. \A v \in User : applied'[v] <= Len(puts'[v])
      BY <2>3, <2>6, IssueBound
    <2> QED
      BY <1>2, <2>4, <2>5, <2>7 DEF SendRequest, server, budgets, TypeOK
  <1>3. ASSUME NEW u \in User, NEW p \in User, ShowRequest(u, p) PROVE TypeOK'
    BY <1>3 DEF ShowRequest, server, budgets, TypeOK, Key
  <1>4. ASSUME NEW u \in User, NEW p \in User, Accept(u, p) PROVE TypeOK'
    <2> DEFINE k == [from |-> p, to |-> u, tap |-> taps[u] + 1]
               q == AcceptWrites(k)
    <2>0. p # u
      BY <1>4 DEF Accept, TypeOK
    <2>1. k \in Key
      BY <1>4, <2>0, TapKey DEF Accept
    <2>2. q \in Seq(Put) /\ Issue(u, q)
      BY <2>1, WritesTypes, <1>4 DEF Accept
    <2>3. PICK r \in Seq(Put) : Issue(u, r)
      BY <2>2, Zenon
    <2>4. /\ puts' \in [User -> Seq(Put)]
          /\ Len(puts'[u]) = Len(puts[u]) + Len(r)
          /\ \A v \in User \ {u} : puts'[v] = puts[v]
      BY <2>3, PutsAppended
    <2>5. taps' \in [User -> 0..MaxTaps]
      BY <1>4, BoundsAssumption DEF Accept, TypeOK
    <2>6. applied' = applied
      BY <1>4 DEF Accept
    <2>7. \A v \in User : applied'[v] <= Len(puts'[v])
      BY <2>3, <2>6, IssueBound
    <2> QED
      BY <1>4, <2>4, <2>5, <2>7 DEF Accept, server, budgets, TypeOK
  <1>5. ASSUME NEW u \in User, Apply(u) PROVE TypeOK'
    <2>1. Sending(u) \in Put
      <3>1. puts[u] \in Seq(Put) /\ applied[u] \in Nat /\ applied[u] < Len(puts[u])
        BY <1>5 DEF Apply, TypeOK
      <3>2. Len(puts[u]) \in Nat
        BY <3>1, LenProperties
      <3>3. applied[u] + 1 \in 1..Len(puts[u])
        BY <3>1, <3>2
      <3> QED
        BY <3>1, <3>3, ElementOfSeq DEF Sending
    <2>2. /\ requests' \subseteq Key /\ friends' \subseteq Key
          /\ index' \in [User -> [User -> SUBSET Key]]
          /\ userFriends' \in [User -> SUBSET Key]
      <3>1. PICK w \in Put : Store(w)
        BY <1>5, <2>1, Zenon DEF Apply
      <3> QED
        BY <3>1, StoreTypes
    <2>3. applied' \in [User -> Nat] /\ \A v \in User : applied'[v] <= Len(puts'[v])
      <3>1. \A v \in User : Len(puts[v]) \in Nat
        BY LenProperties DEF TypeOK
      <3> QED
        BY <1>5, <3>1 DEF Apply, TypeOK
    <2> QED
      BY <1>5, <2>2, <2>3 DEF Apply, client, budgets, TypeOK
  <1>6. ASSUME NEW u \in User, Reject(u) PROVE TypeOK'
    <2>1. \A v \in User : Len(puts[v]) \in Nat
      BY LenProperties DEF TypeOK
    <2>2. applied' \in [User -> Nat] /\ \A v \in User : applied'[v] <= Len(puts'[v])
      BY <1>6, <2>1 DEF Reject, TypeOK
    <2> QED
      BY <1>6, <2>2, BoundsAssumption DEF Reject, server, client, TypeOK
  <1>7. ASSUME NEW u \in User, Ack(u) PROVE TypeOK'
    <2> DEFINE w == puts[u][1]
    <2>1. w.key \in Key /\ w.owner \in User /\ w.peer \in User
      BY <1>7, AckShape
    <2>2. PICK r \in Seq(Put) : Answer(u, r)
      <3>1. <<>> \in Seq(Put)
        BY EmptySeq
      <3>2. <<IndexPut(w.key, w.peer, u)>> \in Seq(Put) /\ <<ListPut(w.key, w.peer, u)>> \in Seq(Put)
        BY <2>1, PutTypes
      <3>3. \/ Answer(u, <<IndexPut(w.key, w.peer, u)>>) \/ Answer(u, <<ListPut(w.key, w.peer, u)>>)
            \/ Answer(u, <<>>)
        BY <1>7, AckShape, Zenon
      <3> QED
        BY <3>1, <3>2, <3>3, Zenon
    <2>3. toldSent' \subseteq Key /\ outer' \in [User -> SUBSET User]
      <3>1. toldSent' = toldSent \/ toldSent' = toldSent \cup {w.key}
        BY <1>7, AckShape, Zenon
      <3>2. outer' = outer \/ outer' = [outer EXCEPT ![u] = @ \cup {w.owner}]
        BY <1>7, AckShape, Zenon
      <3>3. toldSent \subseteq Key /\ outer \in [User -> SUBSET User]
        BY DEF TypeOK
      <3> HIDE DEF w
      <3> QED
        BY <2>1, <3>1, <3>2, <3>3
    <2>4. applied[u] > 0
      BY <1>7 DEF Ack
    <2>5. /\ puts' \in [User -> Seq(Put)]
          /\ Len(puts'[u]) = Len(puts[u]) - 1 + Len(r)
          /\ \A v \in User \ {u} : puts'[v] = puts[v]
      BY <2>2, <2>4, PutsAnswered
    <2>6. applied' = [applied EXCEPT ![u] = @ - 1] /\ applied \in [User -> Nat]
      BY <1>7 DEF Ack, TypeOK
    <2>7. applied' \in [User -> Nat]
      BY <2>4, <2>6
    <2>8. ASSUME NEW v \in User PROVE applied'[v] <= Len(puts'[v])
      <3>1. Len(r) \in Nat /\ Len(puts[v]) \in Nat /\ applied[v] <= Len(puts[v])
        BY LenProperties, Lengths
      <3>2. CASE v = u
        BY <2>5, <2>6, <3>1, <3>2
      <3>3. CASE v # u
        BY <2>5, <2>6, <3>1, <3>3
      <3> QED
        BY <3>2, <3>3
    <2> QED
      BY <1>7, <2>3, <2>5, <2>7, <2>8 DEF Ack, server, budgets, TypeOK
  <1>8. ASSUME NEW u \in User, NEW p \in User, OuterFires(u, p) PROVE TypeOK'
    BY <1>8 DEF OuterFires, server, budgets, TypeOK
  <1>9. ASSUME NEW u \in User, NEW p \in User, NEW k \in Key, InnerFires(u, p, k) PROVE TypeOK'
    <2> DEFINE q == RemovalWrites(k, u, p)
    <2>1. q \in Seq(Put) /\ Issue(u, q)
      BY WritesTypes, <1>9 DEF InnerFires
    <2>2. PICK r \in Seq(Put) : Issue(u, r)
      BY <2>1, Zenon
    <2>3. /\ puts' \in [User -> Seq(Put)]
          /\ Len(puts'[u]) = Len(puts[u]) + Len(r)
          /\ \A v \in User \ {u} : puts'[v] = puts[v]
      BY <2>2, PutsAppended
    <2>4. applied' = applied
      BY <1>9 DEF InnerFires
    <2>5. \A v \in User : applied'[v] <= Len(puts'[v])
      BY <2>2, <2>4, IssueBound
    <2>6. toldAdded' \subseteq User \X User
      BY <1>9 DEF InnerFires, TypeOK
    <2> QED
      BY <1>9, <2>3, <2>5, <2>6 DEF InnerFires, server, budgets, TypeOK
  <1>10. ASSUME NEW u \in User, Disconnect(u) PROVE TypeOK'
    <2>2. drops' \in 0..MaxDrops
      BY <1>10, BoundsAssumption DEF Disconnect, TypeOK
    <2>3. puts' = puts
      BY <1>10, NothingForgotten
    <2>4. applied' \in [User -> Nat] /\ \A v \in User : applied'[v] = applied[v] \/ applied'[v] = 0
      BY <1>10 DEF Disconnect, TypeOK
    <2>5. \A v \in User : applied'[v] <= Len(puts'[v])
      BY <2>3, <2>4, Lengths
    <2> QED
      BY <1>10, <2>2, <2>3, <2>4, <2>5 DEF Disconnect, server, client, TypeOK
  <1>11. ASSUME NEW u \in User, Kill(u) PROVE TypeOK'
    <2>1. <<>> \in Seq(Put) /\ Len(<<>>) = 0
      BY EmptySeq
    <2> QED
      BY <1>11, <2>1, BoundsAssumption DEF Kill, server, TypeOK
  <1> QED
    BY <1>1, <1>2, <1>3, <1>4, <1>5, <1>6, <1>7, <1>8, <1>9, <1>10, <1>11 DEF Next

\* Every reachable state is well-formed: queues hold writes, and the server
\* never has processed more of a queue than there is.
THEOREM TypeCorrect == Spec => []TypeOK
  BY TypeOKInit, TypeOKStep, PTL DEF Spec

-----------------------------------------------------------------------------
(***************************************************************************)
(* What no step undoes while the server accepts every write.               *)
(***************************************************************************)
Kept ==
  /\ \A a, b \in User : Mutual(a, b) => Mutual(a, b)'
  /\ \A k \in Key : Settled(k) => Settled(k)'
  /\ \A k \in Key : \A a, b \in User : Indexed(k, a, b) => Indexed(k, a, b)'
  /\ \A a, b \in User : Pending(a, b) \/ Mutual(a, b) => (Pending(a, b) \/ Mutual(a, b))'
  /\ friends \subseteq friends'
  /\ \A a \in User : userFriends[a] \subseteq userFriends'[a]

LEMMA MutualSymmetric ==
  ASSUME NEW a \in User, NEW b \in User, NEW c \in User, NEW d \in User,
         {a, b} = {c, d}, Mutual(a, b)
  PROVE  Mutual(c, d)
  <1>1. (a = c /\ b = d) \/ (a = d /\ b = c)
    OBVIOUS
  <1> QED
    BY <1>1 DEF Mutual

LEMMA KeptUnchanged == ASSUME UNCHANGED server PROVE Kept
  BY DEF server, Kept, Mutual, Settled, Indexed, Pending

(***************************************************************************)
(* The server processes a write whose preconditions hold: nothing is       *)
(* undone and the write has its effect.                                    *)
(***************************************************************************)
LEMMA StoreGrows ==
  ASSUME TypeOK, NEW w \in Put, Store(w)
  PROVE  /\ friends \subseteq friends'
         /\ \A a \in User : userFriends[a] \subseteq userFriends'[a]
         /\ \A a, b \in User : Mutual(a, b) => Mutual(a, b)'
  <1>1. friends \subseteq friends'
    BY Zenon DEF Store
  <1>2. \A a \in User : userFriends[a] \subseteq userFriends'[a]
    <2>1. \/ userFriends' = userFriends
          \/ userFriends' = [userFriends EXCEPT ![w.owner] = @ \cup {w.key}]
      BY Zenon DEF Store
    <2>2. userFriends \in [User -> SUBSET Key]
      BY DEF TypeOK
    <2> QED
      BY <2>1, <2>2
  <1>3. \A a, b \in User : Mutual(a, b) => Mutual(a, b)'
    BY <1>1, <1>2 DEF Mutual
  <1> QED
    BY <1>1, <1>2, <1>3

\* Only a drop write removes anything, and only what its two users share.
LEMMA StoreLoses ==
  ASSUME TypeOK, NEW w \in Put, Store(w)
  PROVE  /\ \A k \in Key : k \in requests /\ k \notin requests' => w.op = "dropRequest" /\ k = w.key
         /\ \A a, b \in User : \A k \in Key :
              k \in index[a][b] /\ k \notin index'[a][b] =>
                w.op = "dropIndex" /\ a = w.owner /\ b = w.peer
         /\ \A k \in Key : k \in requests' /\ k \notin requests => w.op = "request" /\ k = w.key
         /\ \A a, b \in User : \A k \in Key :
              k \in index'[a][b] /\ k \notin index[a][b] =>
                w.op = "index" /\ a = w.owner /\ b = w.peer /\ k = w.key
         /\ \A k \in Key : k \in friends' /\ k \notin friends => w.op = "friend" /\ k = w.key
         /\ \A a \in User : \A k \in Key :
              k \in userFriends'[a] /\ k \notin userFriends[a] =>
                w.op = "list" /\ a = w.owner /\ k = w.key
  <1>1. /\ index \in [User -> [User -> SUBSET Key]] /\ userFriends \in [User -> SUBSET Key]
        /\ w.owner \in User /\ w.peer \in User
    BY DEF TypeOK, Put
  <1>2. CASE w.op = "request"
    <2>1. requests' = requests \cup {w.key} /\ UNCHANGED <<index, friends, userFriends>>
      BY <1>2 DEF Store
    <2> QED
      BY <1>2, <2>1
  <1>3. CASE w.op = "index"
    <2>1. /\ index' = [index EXCEPT ![w.owner][w.peer] = @ \cup {w.key}]
          /\ UNCHANGED <<requests, friends, userFriends>>
      BY <1>3, Zenon DEF Store
    <2>2. ASSUME NEW a \in User, NEW b \in User
          PROVE  index'[a][b] = IF a = w.owner /\ b = w.peer THEN index[a][b] \cup {w.key} ELSE index[a][b]
      BY <1>1, <2>1
    <2> QED
      BY <1>3, <2>1, <2>2
  <1>4. CASE w.op = "friend"
    <2>1. friends' = friends \cup {w.key} /\ UNCHANGED <<requests, index, userFriends>>
      BY <1>4 DEF Store
    <2> QED
      BY <1>4, <2>1
  <1>5. CASE w.op = "list"
    <2>1. /\ userFriends' = [userFriends EXCEPT ![w.owner] = @ \cup {w.key}]
          /\ UNCHANGED <<requests, index, friends>>
      BY <1>5, Zenon DEF Store
    <2> QED
      BY <1>1, <1>5, <2>1
  <1>6. CASE w.op = "dropRequest"
    <2>1. requests' = requests \ {w.key} /\ UNCHANGED <<index, friends, userFriends>>
      BY <1>6 DEF Store
    <2> QED
      BY <1>6, <2>1
  <1>7. CASE w.op = "dropIndex"
    <2>1. /\ index' = [index EXCEPT ![w.owner][w.peer] = {}]
          /\ UNCHANGED <<requests, friends, userFriends>>
      BY <1>7, Zenon DEF Store
    <2>2. ASSUME NEW a \in User, NEW b \in User
          PROVE  index'[a][b] = IF a = w.owner /\ b = w.peer THEN {} ELSE index[a][b]
      BY <1>1, <2>1
    <2> QED
      BY <1>7, <2>1, <2>2
  <1> QED
    BY <1>2, <1>3, <1>4, <1>5, <1>6, <1>7 DEF Put, Op

\* A write that may be processed undoes nothing.
LEMMA StoreKept ==
  ASSUME TypeOK, IndexOK, NEW w \in Put, Store(w),
         w.op \in {"dropRequest", "dropIndex"} =>
           {w.owner, w.peer} = {w.key.from, w.key.to} /\ Mutual(w.key.from, w.key.to)
  PROVE  Kept
  <1>1. /\ friends \subseteq friends'
        /\ \A a \in User : userFriends[a] \subseteq userFriends'[a]
        /\ \A a, b \in User : Mutual(a, b) => Mutual(a, b)'
    BY StoreGrows
  <1>2. \A k \in Key : k.from \in User /\ k.to \in User
    BY DEF Key
  <1>3. w.key \in Key /\ w.owner \in User /\ w.peer \in User
    BY DEF Put
  <1>4. \A k \in Key : Settled(k) => Settled(k)'
    <2> SUFFICES ASSUME NEW k \in Key, k \in requests PROVE k \in requests' \/ Mutual(k.from, k.to)
      BY <1>1, <1>2 DEF Settled
    <2> QED
      BY StoreLoses
  <1>5. ASSUME NEW k \in Key, NEW a \in User, NEW b \in User, k \in index[a][b], k \notin index'[a][b]
        PROVE  Mutual(a, b) /\ Mutual(k.from, k.to)
    <2>1. w.op = "dropIndex" /\ a = w.owner /\ b = w.peer
      BY <1>5, StoreLoses
    <2>2. Mutual(w.key.from, w.key.to) /\ {a, b} = {w.key.from, w.key.to}
      BY <2>1
    <2>3. {a, b} = {k.from, k.to}
      BY <1>5 DEF IndexOK
    <2> QED
      BY <1>2, <1>3, <2>2, <2>3, MutualSymmetric
  <1>6. \A k \in Key : \A a, b \in User : Indexed(k, a, b) => Indexed(k, a, b)'
    <2> SUFFICES ASSUME NEW k \in Key, NEW a \in User, NEW b \in User, k \in index[a][b]
                 PROVE  k \in index'[a][b] \/ Mutual(k.from, k.to)
      BY <1>1, <1>2 DEF Indexed
    <2> QED
      BY <1>5
  <1>7. ASSUME NEW a \in User, NEW b \in User, Pending(a, b)
        PROVE  Pending(a, b)' \/ Mutual(a, b)
    <2>1. PICK k \in requests : k.from = a /\ k.to = b /\ k \in index[b][a]
      BY <1>7 DEF Pending
    <2>2. k \in Key
      BY <2>1 DEF TypeOK
    <2>3. CASE k \in requests' /\ k \in index'[b][a]
      BY <2>1, <2>3 DEF Pending
    <2>4. CASE k \notin requests'
      BY <2>1, <2>2, <2>4, StoreLoses
    <2>5. CASE k \notin index'[b][a]
      BY <1>5, <2>1, <2>2, <2>5
    <2> QED
      BY <2>3, <2>4, <2>5
  <1> QED
    BY <1>1, <1>4, <1>6, <1>7 DEF Kept

(***************************************************************************)
(* What write j of a queue relies on it still relies on, and has, when it  *)
(* becomes write i: the writes before it are before it still, or done.     *)
(***************************************************************************)
LEMMA ReadyKept ==
  ASSUME TypeOK, QueuesOK, Kept, NEW u \in User,
         NEW j \in 1..Len(puts[u]), NEW i \in Nat,
         puts'[u][i] = puts[u][j],
         \A m \in 1..(j - 1) :
           \/ \E n \in 1..(i - 1) : puts'[u][n] = puts[u][m]
           \/ Done(puts[u][m])
  PROVE  Ready(u, puts[u], i)'
  <1>1. PICK w \in Put : w = puts[u][j]
    <2>1. puts[u] \in Seq(Put)
      BY DEF TypeOK
    <2> QED
      BY <2>1, ElementOfSeq
  <1>2. PICK k \in Key : k = w.key
    BY DEF Put
  <1>3. k.from \in User /\ k.to \in User
    BY DEF Key
  <1>4. Ready(u, puts[u], j)
    BY DEF QueuesOK
  <1>5. puts'[u][i] = w /\ w.key = k
    BY <1>1, <1>2
  <1>6. w.op = "request" => k.from = u
    BY <1>1, <1>2, <1>4 DEF Ready
  <1>7. w.op = "index" /\ w.owner = u =>
          /\ k.from = u /\ w.peer = k.to
          /\ Settled(k)' \/ \E n \in 1..(i - 1) : puts'[u][n] = RequestPut(k)
    <2> SUFFICES ASSUME w.op = "index", w.owner = u
                 PROVE  /\ k.from = u /\ w.peer = k.to
                        /\ Settled(k)' \/ \E n \in 1..(i - 1) : puts'[u][n] = RequestPut(k)
      OBVIOUS
    <2>1. /\ k.from = u /\ w.peer = k.to
          /\ Settled(k) \/ \E m \in 1..(j - 1) : puts[u][m] = RequestPut(k)
      BY <1>1, <1>2, <1>4 DEF Ready
    <2>2. CASE Settled(k)
      BY <2>1, <2>2 DEF Kept
    <2>3. ASSUME NEW m \in 1..(j - 1), puts[u][m] = RequestPut(k), Done(puts[u][m])
          PROVE  Settled(k)'
      <3>1. Settled(k)
        BY <2>3 DEF Done, RequestPut
      <3> QED
        BY <3>1 DEF Kept
    <2> QED
      BY <2>1, <2>2, <2>3
  <1>8. w.op = "index" /\ w.owner # u =>
          k.from = u /\ w.owner = k.to /\ w.peer = u /\ Settled(k)' /\ Indexed(k, u, k.to)'
    BY <1>1, <1>2, <1>3, <1>4 DEF Ready, Kept
  <1>9. w.op = "friend" => k.to = u /\ Answerable(k)'
    BY <1>1, <1>2, <1>3, <1>4 DEF Ready, Kept, Answerable
  <1>10. w.op = "list" /\ w.owner = u =>
          /\ k.to = u /\ w.peer = k.from
          /\ k \in friends' \/ \E n \in 1..(i - 1) : puts'[u][n] = FriendPut(k)
    <2> SUFFICES ASSUME w.op = "list", w.owner = u
                 PROVE  /\ k.to = u /\ w.peer = k.from
                        /\ k \in friends' \/ \E n \in 1..(i - 1) : puts'[u][n] = FriendPut(k)
      OBVIOUS
    <2>1. /\ k.to = u /\ w.peer = k.from
          /\ k \in friends \/ \E m \in 1..(j - 1) : puts[u][m] = FriendPut(k)
      BY <1>1, <1>2, <1>4 DEF Ready
    <2>2. CASE k \in friends
      BY <2>1, <2>2 DEF Kept
    <2>3. ASSUME NEW m \in 1..(j - 1), puts[u][m] = FriendPut(k), Done(puts[u][m])
          PROVE  k \in friends'
      <3>1. k \in friends
        BY <2>3 DEF Done, FriendPut
      <3> QED
        BY <3>1 DEF Kept
    <2> QED
      BY <2>1, <2>2, <2>3
  <1>11. w.op = "list" /\ w.owner # u =>
           k.to = u /\ w.owner = k.from /\ w.peer = u /\ k \in friends' /\ k \in userFriends'[u]
    BY <1>1, <1>2, <1>4 DEF Ready, Kept
  <1>12. w.op \in {"dropRequest", "dropIndex"} =>
           {w.owner, w.peer} = {k.from, k.to} /\ Mutual(k.from, k.to)'
    BY <1>1, <1>2, <1>3, <1>4 DEF Ready, Kept
  <1> QED
    BY <1>5, <1>6, <1>7, <1>8, <1>9, <1>10, <1>11, <1>12 DEF Ready

LEMMA DoneKept ==
  ASSUME Kept, NEW w \in Put, Done(w)
  PROVE  Done(w)'
  <1>1. w.key \in Key /\ w.owner \in User /\ w.peer \in User
    BY DEF Put
  <1> QED
    BY <1>1 DEF Done, Kept

\* Facts about the tables hold on when the tables do not change.
LEMMA TablesKept ==
  ASSUME Core, UNCHANGED server
  PROVE  IndexOK' /\ SendersOK' /\ FriendsOK' /\ ListsOK'
  <1>1. requests' = requests /\ index' = index /\ friends' = friends /\ userFriends' = userFriends
    BY DEF server
  <1>2. IndexOK'
    BY <1>1 DEF Core, IndexOK, Settled, Mutual
  <1>3. SendersOK'
    BY <1>1 DEF Core, SendersOK, Indexed, Mutual
  <1>4. FriendsOK'
    BY <1>1 DEF Core, FriendsOK, Answerable, Pending, Mutual
  <1>5. ListsOK'
    BY <1>1 DEF Core, ListsOK
  <1> QED
    BY <1>2, <1>3, <1>4, <1>5

\* A queue nobody touched.
LEMMA QueueKept ==
  ASSUME TypeOK, QueuesOK, Kept, NEW v \in User, puts'[v] = puts[v],
         NEW i \in 1..Len(puts[v])
  PROVE  Ready(v, puts[v], i)' /\ (i <= applied[v] => Done(puts[v][i])')
  <1>1. Len(puts[v]) \in Nat /\ i \in Nat /\ puts[v] \in Seq(Put)
    BY LenProperties DEF TypeOK
  <1>2. \A m \in 1..(i - 1) : \E n \in 1..(i - 1) : puts'[v][n] = puts[v][m]
    OBVIOUS
  <1>3. Ready(v, puts[v], i)'
    BY <1>1, <1>2, ReadyKept
  <1>4. PICK w \in Put : w = puts[v][i]
    BY <1>1, ElementOfSeq
  <1>5. Done(w) => Done(w)'
    BY DoneKept
  <1>6. i <= applied[v] => Done(w)
    BY <1>4 DEF QueuesOK
  <1>7. puts'[v][i] = w
    BY <1>4
  <1>8. i <= applied[v] => Done(puts[v][i])'
    BY <1>5, <1>6, <1>7 DEF Done
  <1> QED
    BY <1>3, <1>8

\* Writes that may be issued leave the queues in order.
LEMMA IssueKept ==
  ASSUME TypeOK, Core, UNCHANGED server, applied' = applied,
         NEW u \in User, NEW r \in Seq(Put), Issue(u, r),
         NEW n \in Nat, n = Len(puts[u]),
         \A i \in 1..Len(r) : Ready(u, puts[u], n + i)'
  PROVE  QueuesOK'
  <1>1. Kept
    BY KeptUnchanged
  <1>2. QueuesOK
    BY DEF Core
  <1> SUFFICES ASSUME NEW v \in User, NEW i \in 1..Len(puts'[v])
               PROVE  Ready(v, puts[v], i)' /\ (i <= applied'[v] => Done(puts[v][i])')
    BY DEF QueuesOK
  <1>3. CASE v # u
    <2>1. puts'[v] = puts[v]
      BY <1>3, PutsAppended
    <2> QED
      BY <1>1, <1>2, <2>1, QueueKept
  <1>4. CASE v = u
    <2>1. /\ Len(puts'[u]) = Len(puts[u]) + Len(r)
          /\ \A m \in 1..Len(puts[u]) : puts'[u][m] = puts[u][m]
      BY PutsAppended
    <2>2. /\ Len(puts[u]) \in Nat /\ Len(r) \in Nat /\ applied[u] <= Len(puts[u])
          /\ applied[u] \in Nat /\ i \in Nat /\ i >= 1
      BY <1>4, LenProperties, Lengths
    <2>3. CASE i <= Len(puts[u])
      <3>1. i \in 1..Len(puts[u]) /\ puts'[u][i] = puts[u][i]
        BY <2>1, <2>2, <2>3
      <3>2. \A m \in 1..(i - 1) : m \in 1..Len(puts[u])
        BY <2>2, <2>3
      <3>3. \A m \in 1..(i - 1) : \E l \in 1..(i - 1) : puts'[u][l] = puts[u][m]
        BY <2>1, <3>2
      <3>4. Ready(u, puts[u], i)'
        BY <1>1, <1>2, <2>2, <3>1, <3>3, ReadyKept
      <3>5. PICK w \in Put : w = puts[u][i]
        <4>1. puts[u] \in Seq(Put)
          BY DEF TypeOK
        <4> QED
          BY <3>1, <4>1, ElementOfSeq
      <3>6. Done(w) => Done(w)'
        BY <1>1, DoneKept
      <3>7. i <= applied[u] => Done(w)
        BY <1>2, <3>1, <3>5 DEF QueuesOK
      <3>8. i <= applied'[u] => Done(puts[u][i])'
        BY <3>1, <3>5, <3>6, <3>7 DEF Done
      <3> QED
        BY <1>4, <3>4, <3>8
    <2>4. CASE i > Len(puts[u])
      <3>1. PICK m \in 1..Len(r) : i = n + m
        <4>1. i - n \in 1..Len(r) /\ i = n + (i - n)
          BY <1>4, <2>1, <2>2, <2>4
        <4> QED
          BY <4>1
      <3>2. Ready(u, puts[u], i)'
        BY <3>1
      <3>3. ~ (i <= applied'[u])
        BY <2>2, <2>4
      <3> QED
        BY <1>4, <3>2, <3>3
    <2> QED
      BY <2>2, <2>3, <2>4
  <1> QED
    BY <1>3, <1>4

\* A position past the first n is a position in the rest.
LEMMA Beyond ==
  ASSUME NEW i \in Nat, NEW n \in Nat, NEW l \in Nat, i > n, i <= n + l
  PROVE  \E m \in 1..l : i = n + m
  <1>1. i - n \in 1..l /\ i = n + (i - n)
    OBVIOUS
  <1> QED
    BY <1>1

\* The oldest write is answered, and what its completion block issues may be.
LEMMA AnswerKept ==
  ASSUME TypeOK, Core, UNCHANGED server,
         NEW u \in User, applied[u] > 0, applied' = [applied EXCEPT ![u] = @ - 1],
         NEW r \in Seq(Put), Answer(u, r),
         NEW n \in Nat, n = Len(puts[u]) - 1,
         \A i \in 1..Len(r) : Ready(u, puts[u], n + i)'
  PROVE  QueuesOK'
  <1>1. Kept
    BY KeptUnchanged
  <1>2. QueuesOK /\ applied \in [User -> Nat]
    BY DEF Core, TypeOK
  <1> SUFFICES ASSUME NEW v \in User, NEW i \in 1..Len(puts'[v])
               PROVE  Ready(v, puts[v], i)' /\ (i <= applied'[v] => Done(puts[v][i])')
    BY DEF QueuesOK
  <1>3. CASE v # u
    <2>1. puts'[v] = puts[v] /\ applied'[v] = applied[v]
      BY <1>2, <1>3, PutsAnswered
    <2> QED
      BY <1>1, <1>2, <2>1, QueueKept
  <1>4. CASE v = u
    <2>1. /\ Len(puts'[u]) = n + Len(r)
          /\ \A m \in 1..n : puts'[u][m] = puts[u][m + 1]
      BY PutsAnswered
    <2>2. /\ Len(puts[u]) = n + 1 /\ Len(r) \in Nat /\ applied[u] <= Len(puts[u])
          /\ applied[u] \in Nat /\ i \in Nat /\ i >= 1 /\ applied'[u] = applied[u] - 1
      BY <1>2, <1>4, LenProperties, Lengths
    <2>3. CASE i <= n
      <3>1. i + 1 \in 1..Len(puts[u]) /\ puts'[u][i] = puts[u][i + 1]
        BY <2>1, <2>2, <2>3
      <3>2. Done(puts[u][1])
        BY <1>2, <2>2 DEF QueuesOK
      <3>3. ASSUME NEW m \in 1..((i + 1) - 1)
            PROVE  \/ \E l \in 1..(i - 1) : puts'[u][l] = puts[u][m]
                   \/ Done(puts[u][m])
        <4>1. CASE m = 1
          BY <3>2, <4>1
        <4>2. CASE m # 1
          <5>1. m - 1 \in 1..(i - 1) /\ m - 1 \in 1..n /\ (m - 1) + 1 = m
            BY <2>2, <2>3, <4>2
          <5>2. puts'[u][m - 1] = puts[u][m]
            BY <2>1, <5>1
          <5> QED
            BY <5>1, <5>2
        <4> QED
          BY <4>1, <4>2
      <3>4. Ready(u, puts[u], i)'
        <4>1. PICK j \in 1..Len(puts[u]) : j = i + 1
          BY <3>1
        <4>2. \A m \in 1..(j - 1) :
                 \/ \E l \in 1..(i - 1) : puts'[u][l] = puts[u][m]
                 \/ Done(puts[u][m])
          BY <3>3, <4>1
        <4>3. puts'[u][i] = puts[u][j]
          BY <3>1, <4>1
        <4> QED
          BY <1>1, <1>2, <2>2, <4>2, <4>3, ReadyKept
      <3>5. PICK w \in Put : w = puts[u][i + 1]
        <4>1. puts[u] \in Seq(Put)
          BY DEF TypeOK
        <4> QED
          BY <3>1, <4>1, ElementOfSeq
      <3>6. Done(w) => Done(w)'
        BY <1>1, DoneKept
      <3>7. i + 1 <= applied[u] => Done(w)
        BY <1>2, <3>1, <3>5 DEF QueuesOK
      <3>8. i <= applied'[u] => i + 1 <= applied[u]
        BY <2>2
      <3>9. i <= applied'[u] => Done(puts[u][i])'
        BY <3>1, <3>5, <3>6, <3>7, <3>8 DEF Done
      <3> QED
        BY <1>4, <3>4, <3>9
    <2>4. CASE i > n
      <3>1. PICK m \in 1..Len(r) : i = n + m
        <4>1. PICK l \in Nat : l = Len(r)
          BY <2>2
        <4>2. i <= n + l
          BY <1>4, <2>1, <4>1
        <4>3. i \in Nat
          BY <2>2
        <4>4. \E m \in 1..l : i = n + m
          BY <2>4, <4>2, <4>3, Beyond
        <4> QED
          BY <4>1, <4>4
      <3>2. Ready(u, puts[u], i)'
        BY <3>1
      <3>3. ~ (i <= applied'[u])
        BY <2>2, <2>4
      <3> QED
        BY <1>4, <3>2, <3>3
    <2> QED
      BY <2>2, <2>3, <2>4
  <1> QED
    BY <1>3, <1>4

\* What the screens and observers rely on is not undone.
LEMMA ScreensKept ==
  ASSUME TypeOK, ScreensOK, Kept, inbox' = inbox, outer' = outer, inner' = inner,
         toldAdded' = toldAdded
  PROVE  ScreensOK'
  <1>1. /\ inbox \in [User -> SUBSET User] /\ outer \in [User -> SUBSET User]
        /\ inner \in [User -> SUBSET User] /\ toldAdded \subseteq User \X User
    BY DEF TypeOK
  <1>2. \A u \in User : \A p \in inbox'[u] : p # u /\ (Pending(p, u) \/ Mutual(p, u))'
    BY <1>1 DEF ScreensOK, Kept
  <1>3. \A u \in User : \A p \in outer'[u] \cup inner'[u] : Mutual(u, p)'
    BY <1>1 DEF ScreensOK, Kept
  <1>4. \A t \in toldAdded' : Mutual(t[1], t[2])'
    BY <1>1 DEF ScreensOK, Kept
  <1> QED
    BY <1>2, <1>3, <1>4 DEF ScreensOK

LEMMA IInvInit == Init => IInv
  <1> SUFFICES ASSUME Init PROVE Core
    BY DEF IInv
  <1>1. \A u \in User : Len(puts[u]) = 0
    BY EmptySeq DEF Init
  <1>2. QueuesOK
    BY <1>1 DEF QueuesOK
  <1>3. IndexOK /\ SendersOK /\ FriendsOK /\ ListsOK
    BY DEF Init, IndexOK, SendersOK, FriendsOK, ListsOK, Key
  <1>4. ScreensOK
    BY DEF Init, ScreensOK
  <1> QED
    BY <1>2, <1>3, <1>4 DEF Core

LEMMA SendRequestKeeps ==
  ASSUME TypeOK, Core, NEW u \in User, NEW p \in User, SendRequest(u, p)
  PROVE  Core'
  <1>1. /\ UNCHANGED server /\ applied' = applied /\ inbox' = inbox /\ outer' = outer
        /\ inner' = inner /\ toldAdded' = toldAdded
    BY DEF SendRequest
  <1>2. PICK k \in Key : k = [from |-> u, to |-> p, tap |-> taps[u] + 1]
    BY TapKey DEF SendRequest
  <1>3. k.from = u /\ k.to = p
    BY <1>2
  <1> DEFINE q == SentWrites(k)
  <1>4. q \in Seq(Put) /\ Issue(u, q) /\ Len(q) = 2
    BY <1>2, WritesTypes DEF SendRequest
  <1>5. PICK n \in Nat : n = Len(puts[u])
    BY Lengths
  <1>6. /\ puts'[u][n + 1] = RequestPut(k) /\ puts'[u][n + 2] = IndexPut(k, u, p)
    <2>1. \A i \in 1..Len(q) : puts'[u][Len(puts[u]) + i] = q[i]
      BY <1>4, PutsAppended
    <2>2. 1 \in 1..Len(q) /\ 2 \in 1..Len(q) /\ q[1] = RequestPut(k) /\ q[2] = IndexPut(k, u, p)
      BY <1>3, <1>4 DEF SentWrites
    <2> QED
      BY <1>5, <2>1, <2>2
  <1>7. Ready(u, puts[u], n + 1)'
    BY <1>3, <1>6 DEF Ready, RequestPut
  <1>8. Ready(u, puts[u], n + 2)'
    <2>1. n + 1 \in 1..((n + 2) - 1)
      BY <1>5
    <2> QED
      BY <1>3, <1>6, <2>1 DEF Ready, IndexPut
  <1>9. \A i \in 1..Len(q) : Ready(u, puts[u], n + i)'
    BY <1>4, <1>7, <1>8
  <1>10. PICK r \in Seq(Put) : Issue(u, r) /\ \A i \in 1..Len(r) : Ready(u, puts[u], n + i)'
    BY <1>4, <1>9, Zenon
  <1>11. QueuesOK'
    BY <1>1, <1>5, <1>10, IssueKept
  <1>12. ScreensOK'
    BY <1>1, KeptUnchanged, ScreensKept DEF Core
  <1> QED
    BY <1>1, <1>11, <1>12, TablesKept DEF Core

LEMMA AcceptKeeps ==
  ASSUME TypeOK, Core, NEW u \in User, NEW p \in User, Accept(u, p)
  PROVE  Core'
  <1>1. /\ UNCHANGED server /\ applied' = applied /\ inbox' = inbox /\ outer' = outer
        /\ inner' = inner /\ toldAdded' = toldAdded
    BY DEF Accept
  <1>2. p # u /\ (Pending(p, u) \/ Mutual(p, u))
    BY DEF Accept, Core, ScreensOK
  <1>3. PICK k \in Key : k = [from |-> p, to |-> u, tap |-> taps[u] + 1]
    BY <1>2, TapKey DEF Accept
  <1>4. k.from = p /\ k.to = u
    BY <1>3
  <1> DEFINE q == AcceptWrites(k)
  <1>5. q \in Seq(Put) /\ Issue(u, q) /\ Len(q) = 2
    BY <1>3, WritesTypes DEF Accept
  <1>6. PICK n \in Nat : n = Len(puts[u])
    BY Lengths
  <1>7. /\ puts'[u][n + 1] = FriendPut(k) /\ puts'[u][n + 2] = ListPut(k, u, p)
    <2>1. \A i \in 1..Len(q) : puts'[u][Len(puts[u]) + i] = q[i]
      BY <1>5, PutsAppended
    <2>2. 1 \in 1..Len(q) /\ 2 \in 1..Len(q) /\ q[1] = FriendPut(k) /\ q[2] = ListPut(k, u, p)
      BY <1>4, <1>5 DEF AcceptWrites
    <2> QED
      BY <1>6, <2>1, <2>2
  <1>8. Answerable(k)'
    BY <1>1, <1>2, <1>4, KeptUnchanged DEF Kept, Answerable
  <1>9. Ready(u, puts[u], n + 1)'
    BY <1>4, <1>7, <1>8 DEF Ready, FriendPut
  <1>10. Ready(u, puts[u], n + 2)'
    <2>1. n + 1 \in 1..((n + 2) - 1)
      BY <1>6
    <2> QED
      BY <1>4, <1>7, <2>1 DEF Ready, ListPut
  <1>11. \A i \in 1..Len(q) : Ready(u, puts[u], n + i)'
    BY <1>5, <1>9, <1>10
  <1>12. PICK r \in Seq(Put) : Issue(u, r) /\ \A i \in 1..Len(r) : Ready(u, puts[u], n + i)'
    BY <1>5, <1>11, Zenon
  <1>13. QueuesOK'
    BY <1>1, <1>6, <1>12, IssueKept
  <1>14. ScreensOK'
    BY <1>1, KeptUnchanged, ScreensKept DEF Core
  <1> QED
    BY <1>1, <1>13, <1>14, TablesKept DEF Core

LEMMA InnerFiresKeeps ==
  ASSUME TypeOK, Core, NEW u \in User, NEW p \in User, NEW k \in Key, InnerFires(u, p, k)
  PROVE  Core'
  <1>1. /\ UNCHANGED server /\ applied' = applied /\ inbox' = inbox /\ outer' = outer
        /\ inner' = inner /\ toldAdded' = toldAdded \cup {<<u, p>>}
    BY DEF InnerFires
  <1>2. Mutual(u, p)
    BY DEF InnerFires, Core, ScreensOK
  <1>3. {k.from, k.to} = {u, p}
    \* an entry of this path, on the server or in the user's own queue
    <2>1. PICK i \in 0..Len(puts[u]) : IF i = 0 THEN k \in index[p][u] ELSE puts[u][i] = IndexPut(k, p, u)
      BY DEF InnerFires, InView
    <2>2. CASE i = 0
      <3>1. k \in index[p][u]
        BY <2>1, <2>2
      <3>2. {p, u} = {k.from, k.to}
        BY <3>1 DEF Core, IndexOK
      <3> QED
        BY <3>2
    <2>3. CASE i # 0
      <3>1. i \in 1..Len(puts[u]) /\ puts[u][i] = IndexPut(k, p, u)
        BY <2>1, <2>3, Lengths
      <3>2. Ready(u, puts[u], i)
        BY <3>1 DEF Core, QueuesOK
      <3> QED
        BY <3>1, <3>2 DEF Ready, IndexPut
    <2> QED
      BY <2>2, <2>3
  <1>4. k.from \in User /\ k.to \in User
    BY DEF Key
  <1>5. Mutual(k.from, k.to)
    BY <1>2, <1>3, <1>4, MutualSymmetric
  <1>6. Kept
    BY <1>1, KeptUnchanged
  <1>7. Mutual(k.from, k.to)' /\ Mutual(u, p)'
    BY <1>2, <1>4, <1>5, <1>6 DEF Kept
  <1> DEFINE q == RemovalWrites(k, u, p)
  <1>8. q \in Seq(Put) /\ Issue(u, q) /\ Len(q) = 3
    BY WritesTypes DEF InnerFires
  <1>9. PICK n \in Nat : n = Len(puts[u])
    BY Lengths
  <1>10. ASSUME NEW i \in 1..Len(q) PROVE Ready(u, puts[u], n + i)'
    <2>1. puts'[u][n + i] = q[i]
      BY <1>8, <1>9, PutsAppended
    <2>2. q[i] = DropRequest(k) \/ q[i] = DropIndex(k, u, p) \/ q[i] = DropIndex(k, p, u)
      <3>1. i \in {1, 2, 3}
        BY <1>8
      <3> QED
        BY <3>1 DEF RemovalWrites
    <2> QED
      BY <1>3, <1>7, <2>1, <2>2 DEF Ready, DropRequest, DropIndex
  <1>11. PICK r \in Seq(Put) : Issue(u, r) /\ \A i \in 1..Len(r) : Ready(u, puts[u], n + i)'
    BY <1>8, <1>10, Zenon
  <1>12. QueuesOK'
    BY <1>1, <1>9, <1>11, IssueKept
  <1>13. ScreensOK'
    <2>1. \A t \in toldAdded' : Mutual(t[1], t[2])'
      <3>1. toldAdded \subseteq User \X User
        BY DEF TypeOK
      <3> QED
        BY <1>1, <1>6, <1>7, <3>1 DEF Core, ScreensOK, Kept
    <2>2. \A v \in User : inbox[v] \subseteq User /\ outer[v] \subseteq User /\ inner[v] \subseteq User
      BY DEF TypeOK
    <2> QED
      BY <1>1, <1>6, <2>1, <2>2 DEF Core, ScreensOK, Kept
  <1> QED
    BY <1>1, <1>12, <1>13, TablesKept DEF Core

LEMMA AckKeeps ==
  ASSUME TypeOK, Core, NEW u \in User, Ack(u)
  PROVE  Core'
  <1>1. /\ UNCHANGED server /\ applied' = [applied EXCEPT ![u] = @ - 1] /\ inbox' = inbox
        /\ inner' = inner /\ toldAdded' = toldAdded /\ applied[u] > 0
    BY DEF Ack
  <1>2. Kept
    BY <1>1, KeptUnchanged
  <1>3. PICK w \in Put : w = puts[u][1]
    BY AckShape
  <1>4. PICK k \in Key : k = w.key
    BY DEF Put
  <1>5. k.from \in User /\ k.to \in User
    BY DEF Key
  <1>6. Len(puts[u]) >= 1 /\ Len(puts[u]) \in Nat /\ applied[u] \in Nat /\ applied[u] <= Len(puts[u])
    BY <1>1, Lengths
  <1>7. PICK n \in Nat : n = Len(puts[u]) - 1
    <2>1. Len(puts[u]) - 1 \in Nat
      BY <1>6
    <2> QED
      BY <2>1
  <1>8. Ready(u, puts[u], 1) /\ Done(w)
    BY <1>1, <1>3, <1>6 DEF Core, QueuesOK
  <1>9. ~ \E j \in 1..(1 - 1) : TRUE
    OBVIOUS
  <1>10. CASE w.op = "index" /\ w.owner = u /\ Answer(u, <<IndexPut(k, w.peer, u)>>) /\ outer' = outer
    <2> DEFINE q == <<IndexPut(k, w.peer, u)>>
    <2>1. k.from = u /\ w.peer = k.to /\ Settled(k)
      BY <1>3, <1>4, <1>8, <1>9, <1>10 DEF Ready
    <2>2. Indexed(k, u, k.to)
      BY <1>4, <1>8, <1>10, <2>1 DEF Done
    <2>3. q \in Seq(Put) /\ Len(q) = 1 /\ q[1] = IndexPut(k, k.to, u)
      BY <1>5, <2>1, PutTypes
    <2>4. puts'[u][n + 1] = IndexPut(k, k.to, u)
      <3>1. \A i \in 1..Len(q) : puts'[u][Len(puts[u]) - 1 + i] = q[i]
        BY <1>1, <1>10, <2>3, PutsAnswered
      <3>2. 1 \in 1..Len(q)
        BY <2>3
      <3> QED
        BY <1>7, <2>3, <3>1, <3>2
    <2>5. Settled(k)' /\ Indexed(k, u, k.to)' /\ k.to # u
      BY <1>2, <1>5, <2>1, <2>2 DEF Kept, Key
    <2>6. Ready(u, puts[u], n + 1)'
      BY <2>1, <2>4, <2>5 DEF Ready, IndexPut
    <2>7. PICK r \in Seq(Put) : Answer(u, r) /\ \A i \in 1..Len(r) : Ready(u, puts[u], n + i)'
      <3>1. \A i \in 1..Len(q) : Ready(u, puts[u], n + i)'
        BY <2>3, <2>6
      <3> QED
        BY <1>10, <2>3, <3>1, Zenon
    <2>8. QueuesOK'
      BY <1>1, <1>7, <2>7, AnswerKept
    <2>9. ScreensOK'
      BY <1>1, <1>2, <1>10, ScreensKept DEF Core
    <2> QED
      BY <1>1, <2>8, <2>9, TablesKept DEF Core
  <1>11. CASE w.op = "list" /\ w.owner = u /\ Answer(u, <<ListPut(k, w.peer, u)>>) /\ outer' = outer
    <2> DEFINE q == <<ListPut(k, w.peer, u)>>
    <2>1. k.to = u /\ w.peer = k.from /\ k \in friends
      BY <1>3, <1>4, <1>8, <1>9, <1>11 DEF Ready
    <2>2. k \in userFriends[u]
      BY <1>4, <1>8, <1>11 DEF Done
    <2>3. q \in Seq(Put) /\ Len(q) = 1 /\ q[1] = ListPut(k, k.from, u)
      BY <1>5, <2>1, PutTypes
    <2>4. puts'[u][n + 1] = ListPut(k, k.from, u)
      <3>1. \A i \in 1..Len(q) : puts'[u][Len(puts[u]) - 1 + i] = q[i]
        BY <1>1, <1>11, <2>3, PutsAnswered
      <3>2. 1 \in 1..Len(q)
        BY <2>3
      <3> QED
        BY <1>7, <2>3, <3>1, <3>2
    <2>5. k \in friends' /\ k \in userFriends'[u] /\ k.from # u
      BY <1>2, <2>1, <2>2 DEF Kept, Key
    <2>6. Ready(u, puts[u], n + 1)'
      BY <2>1, <2>4, <2>5 DEF Ready, ListPut
    <2>7. PICK r \in Seq(Put) : Answer(u, r) /\ \A i \in 1..Len(r) : Ready(u, puts[u], n + i)'
      <3>1. \A i \in 1..Len(q) : Ready(u, puts[u], n + i)'
        BY <2>3, <2>6
      <3> QED
        BY <1>11, <2>3, <3>1, Zenon
    <2>8. QueuesOK'
      BY <1>1, <1>7, <2>7, AnswerKept
    <2>9. ScreensOK'
      BY <1>1, <1>2, <1>11, ScreensKept DEF Core
    <2> QED
      BY <1>1, <2>8, <2>9, TablesKept DEF Core
  <1>12. ASSUME Answer(u, <<>>) PROVE QueuesOK'
    <2>1. <<>> \in Seq(Put) /\ \A i \in 1..Len(<<>>) : Ready(u, puts[u], n + i)'
      BY EmptySeq
    <2>2. PICK r \in Seq(Put) : Answer(u, r) /\ \A i \in 1..Len(r) : Ready(u, puts[u], n + i)'
      BY <1>12, <2>1, Zenon
    <2> QED
      BY <1>1, <1>7, <2>2, AnswerKept
  <1>13. CASE /\ w.op = "list" /\ w.owner # u /\ Answer(u, <<>>)
              /\ outer' = [outer EXCEPT ![u] = @ \cup {w.owner}]
    <2>1. k.to = u /\ w.owner = k.from /\ k \in friends /\ k \in userFriends[u]
      BY <1>3, <1>4, <1>8, <1>13 DEF Ready
    <2>2. k \in userFriends[k.from]
      BY <1>4, <1>8, <1>13, <2>1 DEF Done
    <2>3. Mutual(u, w.owner)
      BY <2>1, <2>2 DEF Mutual
    <2>4. /\ inbox \in [User -> SUBSET User] /\ outer \in [User -> SUBSET User]
          /\ inner \in [User -> SUBSET User] /\ toldAdded \subseteq User \X User
          /\ w.owner \in User
      BY DEF TypeOK, Put
    <2>5. \A v \in User : \A p \in outer'[v] \cup inner'[v] : Mutual(v, p)
      BY <1>1, <1>13, <2>3, <2>4 DEF Core, ScreensOK
    <2>6. \A v \in User : \A p \in outer'[v] \cup inner'[v] : p \in User
      BY <1>1, <1>13, <2>4
    <2>7. \A v \in User : \A p \in outer'[v] \cup inner'[v] : Mutual(v, p)'
      BY <1>2, <2>5, <2>6 DEF Kept
    <2>8. ScreensOK'
      BY <1>1, <1>2, <2>4, <2>7 DEF Core, ScreensOK, Kept
    <2> QED
      BY <1>1, <1>12, <1>13, <2>8, TablesKept DEF Core
  <1>14. CASE Answer(u, <<>>) /\ outer' = outer
    <2>1. ScreensOK'
      BY <1>1, <1>2, <1>14, ScreensKept DEF Core
    <2> QED
      BY <1>1, <1>12, <1>14, <2>1, TablesKept DEF Core
  <1>15. \/ w.op = "index" /\ w.owner = u /\ Answer(u, <<IndexPut(k, w.peer, u)>>) /\ outer' = outer
         \/ w.op = "list" /\ w.owner = u /\ Answer(u, <<ListPut(k, w.peer, u)>>) /\ outer' = outer
         \/ /\ w.op = "list" /\ w.owner # u /\ Answer(u, <<>>)
            /\ outer' = [outer EXCEPT ![u] = @ \cup {w.owner}]
         \/ Answer(u, <<>>) /\ outer' = outer
    BY <1>3, <1>4, AckShape, Zenon
  <1> QED
    BY <1>10, <1>11, <1>13, <1>14, <1>15

LEMMA ApplyKeeps ==
  ASSUME TypeOK, TypeOK', Core, NEW u \in User, Apply(u)
  PROVE  Core'
  <1>1. /\ puts' = puts /\ inbox' = inbox /\ outer' = outer /\ inner' = inner
        /\ toldAdded' = toldAdded /\ applied' = [applied EXCEPT ![u] = @ + 1]
    BY DEF Apply, client
  <1>2. PICK i \in 1..Len(puts[u]) : i = applied[u] + 1
    <2>1. applied[u] + 1 \in 1..Len(puts[u])
      <3>1. applied[u] < Len(puts[u])
        BY DEF Apply
      <3> QED
        BY <3>1, Lengths
    <2> QED
      BY <2>1
  <1>3. PICK w \in Put : w = puts[u][i] /\ Store(w)
    <2>1. puts[u] \in Seq(Put)
      BY DEF TypeOK
    <2>2. puts[u][i] \in Put
      BY <2>1, ElementOfSeq
    <2>3. Store(puts[u][i])
      BY <1>2 DEF Apply, Sending
    <2> QED
      BY <2>2, <2>3, Zenon
  <1>4. PICK k \in Key : k = w.key
    BY DEF Put
  <1>5. k.from \in User /\ k.to \in User /\ k.from # k.to /\ w.owner \in User /\ w.peer \in User
    BY DEF Key, Put
  <1>6. Ready(u, puts[u], i)
    BY DEF Core, QueuesOK
  <1>7. \A j \in 1..(i - 1) : Done(puts[u][j])
    <2> SUFFICES ASSUME NEW j \in 1..(i - 1) PROVE Done(puts[u][j])
      OBVIOUS
    <2>1. j \in 1..Len(puts[u]) /\ j <= applied[u]
      BY <1>2, Lengths
    <2> QED
      BY <2>1 DEF Core, QueuesOK
  <1>8. Kept
    <2>1. w.op \in {"dropRequest", "dropIndex"} =>
            {w.owner, w.peer} = {k.from, k.to} /\ Mutual(k.from, k.to)
      BY <1>3, <1>4, <1>6 DEF Ready
    <2> QED
      BY <1>3, <1>4, <2>1, StoreKept DEF Core
  <1>9. w.op = "index" =>
          /\ {w.owner, w.peer} = {k.from, k.to} /\ Settled(k)
          /\ w.owner = k.to => Indexed(k, k.from, k.to)
    <2>1. CASE w.op = "index" /\ w.owner = u
      <3>1. /\ k.from = u /\ w.peer = k.to
            /\ Settled(k) \/ \E j \in 1..(i - 1) : puts[u][j] = RequestPut(k)
        BY <1>3, <1>4, <1>6, <2>1 DEF Ready
      <3>2. ASSUME NEW j \in 1..(i - 1), puts[u][j] = RequestPut(k) PROVE Settled(k)
        BY <1>7, <3>2 DEF Done, RequestPut
      <3> QED
        BY <1>5, <2>1, <3>1, <3>2
    <2>2. CASE w.op = "index" /\ w.owner # u
      BY <1>3, <1>4, <1>6, <2>2 DEF Ready
    <2> QED
      BY <2>1, <2>2
  <1>10. w.op = "list" =>
           /\ k \in friends /\ w.owner \in {k.from, k.to}
           /\ w.owner = k.to \/ k \in userFriends[k.to]
    <2>1. CASE w.op = "list" /\ w.owner = u
      <3>1. /\ k.to = u /\ w.peer = k.from
            /\ k \in friends \/ \E j \in 1..(i - 1) : puts[u][j] = FriendPut(k)
        BY <1>3, <1>4, <1>6, <2>1 DEF Ready
      <3>2. ASSUME NEW j \in 1..(i - 1), puts[u][j] = FriendPut(k) PROVE k \in friends
        BY <1>7, <3>2 DEF Done, FriendPut
      <3> QED
        BY <2>1, <3>1, <3>2
    <2>2. CASE w.op = "list" /\ w.owner # u
      BY <1>3, <1>4, <1>6, <2>2 DEF Ready
    <2> QED
      BY <2>1, <2>2
  <1>11. w.op = "friend" => Answerable(k)
    BY <1>3, <1>4, <1>6 DEF Ready
  <1>12. /\ w.op = "request" => k \in requests'
         /\ w.op = "index" => k \in index'[w.owner][w.peer]
         /\ w.op = "friend" => k \in friends'
         /\ w.op = "list" => k \in userFriends'[w.owner]
    <2>1. w.op = "request" => requests' = requests \cup {w.key}
      BY <1>3 DEF Store
    <2>2. w.op = "friend" => friends' = friends \cup {w.key}
      BY <1>3 DEF Store
    <2>3. w.op = "index" => index' = [index EXCEPT ![w.owner][w.peer] = @ \cup {w.key}]
      BY <1>3 DEF Store
    <2>4. w.op = "list" => userFriends' = [userFriends EXCEPT ![w.owner] = @ \cup {w.key}]
      BY <1>3 DEF Store
    <2>5. index \in [User -> [User -> SUBSET Key]] /\ userFriends \in [User -> SUBSET Key]
      BY DEF TypeOK
    <2>6. w.op = "index" => k \in index'[w.owner][w.peer]
      BY <1>4, <1>5, <2>3, <2>5
    <2>7. w.op = "list" => k \in userFriends'[w.owner]
      BY <1>4, <1>5, <2>4, <2>5
    <2> QED
      BY <1>4, <2>1, <2>2, <2>6, <2>7
  <1>13. Done(w)'
    BY <1>4, <1>12 DEF Done, Settled, Indexed
  <1>14. QueuesOK'
    <2> SUFFICES ASSUME NEW v \in User, NEW j \in 1..Len(puts'[v])
                 PROVE  Ready(v, puts[v], j)' /\ (j <= applied'[v] => Done(puts[v][j])')
      BY DEF QueuesOK
    <2>1. j \in 1..Len(puts[v]) /\ puts'[v] = puts[v]
      BY <1>1
    <2>2. Ready(v, puts[v], j)' /\ (j <= applied[v] => Done(puts[v][j])')
      BY <1>8, <2>1, QueueKept DEF Core
    <2>3. applied'[v] = applied[v] \/ (v = u /\ applied'[v] = i)
      BY <1>1, <1>2 DEF TypeOK
    <2>4. CASE v = u /\ j = i
      BY <1>1, <1>3, <1>13, <2>2, <2>4 DEF Done
    <2>5. CASE v # u \/ j # i
      <3>1. j <= applied'[v] => j <= applied[v]
        BY <1>1, <1>2, <2>1, <2>3, <2>5, Lengths
      <3> QED
        BY <2>2, <3>1
    <2> QED
      BY <2>4, <2>5
  <1>15. IndexOK'
    <2> SUFFICES ASSUME NEW a \in User, NEW b \in User, NEW l \in index'[a][b]
                 PROVE  {a, b} = {l.from, l.to} /\ Settled(l)'
      BY DEF IndexOK
    <2>1. l \in Key
      BY DEF TypeOK
    <2>2. CASE l \in index[a][b]
      BY <1>8, <2>1, <2>2 DEF Core, IndexOK, Kept
    <2>3. CASE l \notin index[a][b]
      <3>1. w.op = "index" /\ a = w.owner /\ b = w.peer /\ l = w.key
        BY <1>3, <2>1, <2>3, StoreLoses
      <3>2. {a, b} = {l.from, l.to} /\ Settled(l)
        BY <1>4, <1>9, <3>1
      <3> QED
        BY <1>8, <2>1, <3>2 DEF Kept
    <2> QED
      BY <2>2, <2>3
  <1>16. SendersOK'
    <2> SUFFICES ASSUME NEW l \in Key, l \in index'[l.to][l.from]
                 PROVE  Indexed(l, l.from, l.to)'
      BY DEF SendersOK
    <2>1. l.from \in User /\ l.to \in User
      BY DEF Key
    <2>2. CASE l \in index[l.to][l.from]
      BY <1>8, <2>1, <2>2 DEF Core, SendersOK, Kept
    <2>3. CASE l \notin index[l.to][l.from]
      BY <1>3, <1>4, <1>8, <1>9, <2>1, <2>3, StoreLoses DEF Kept
    <2> QED
      BY <2>2, <2>3
  <1>17. FriendsOK'
    <2> SUFFICES ASSUME NEW l \in friends' PROVE Answerable(l)'
      BY DEF FriendsOK
    <2>1. l \in Key /\ l.from \in User /\ l.to \in User
      BY DEF TypeOK, Key
    <2>2. Answerable(l)
      BY <1>3, <1>4, <1>11, <2>1, StoreLoses DEF Core, FriendsOK
    <2> QED
      BY <1>8, <2>1, <2>2 DEF Kept, Answerable
  <1>18. ListsOK'
    <2> SUFFICES ASSUME NEW a \in User, NEW l \in userFriends'[a]
                 PROVE  l \in friends' /\ a \in {l.from, l.to} /\ l \in userFriends'[l.to]
      BY DEF ListsOK
    <2>1. l \in Key /\ l.from \in User /\ l.to \in User
      <3>1. userFriends' \in [User -> SUBSET Key]
        BY DEF TypeOK
      <3>2. l \in Key
        BY <3>1
      <3> QED
        BY <3>2 DEF Key
    <2>2. CASE l \in userFriends[a]
      BY <1>8, <2>1, <2>2 DEF Core, ListsOK, Kept
    <2>3. CASE l \notin userFriends[a]
      <3>1. w.op = "list" /\ a = w.owner /\ l = k
        BY <1>3, <1>4, <2>1, <2>3, StoreLoses
      <3> QED
        BY <1>8, <1>10, <1>12, <2>1, <3>1 DEF Kept
    <2> QED
      BY <2>2, <2>3
  <1>19. ScreensOK'
    BY <1>1, <1>8, ScreensKept DEF Core
  <1> QED
    BY <1>14, <1>15, <1>16, <1>17, <1>18, <1>19 DEF Core

LEMMA DisconnectKeeps ==
  ASSUME TypeOK, Core, NEW u \in User, Disconnect(u)
  PROVE  Core'
  <1>1. /\ UNCHANGED server /\ puts' = puts /\ inbox' = inbox /\ outer' = outer
        /\ inner' = inner /\ toldAdded' = toldAdded /\ applied' = [applied EXCEPT ![u] = 0]
    BY NothingForgotten DEF Disconnect, client
  <1>2. Kept
    BY <1>1, KeptUnchanged
  <1>3. QueuesOK'
    <2> SUFFICES ASSUME NEW v \in User, NEW j \in 1..Len(puts'[v])
                 PROVE  Ready(v, puts[v], j)' /\ (j <= applied'[v] => Done(puts[v][j])')
      BY DEF QueuesOK
    <2>1. j \in 1..Len(puts[v]) /\ puts'[v] = puts[v]
      BY <1>1
    <2>2. Ready(v, puts[v], j)' /\ (j <= applied[v] => Done(puts[v][j])')
      BY <1>2, <2>1, QueueKept DEF Core
    <2>3. applied'[v] = applied[v] \/ applied'[v] = 0
      BY <1>1 DEF TypeOK
    <2>4. j <= applied'[v] => j <= applied[v]
      BY <2>1, <2>3, Lengths
    <2> QED
      BY <2>2, <2>4
  <1>4. ScreensOK'
    BY <1>1, <1>2, ScreensKept DEF Core
  <1> QED
    BY <1>1, <1>3, <1>4, TablesKept DEF Core

LEMMA KillKeeps ==
  ASSUME TypeOK, Core, NEW u \in User, Kill(u)
  PROVE  Core'
  <1>1. /\ UNCHANGED server /\ puts' = [puts EXCEPT ![u] = <<>>]
        /\ inbox' = [inbox EXCEPT ![u] = {}] /\ outer' = [outer EXCEPT ![u] = {}]
        /\ inner' = [inner EXCEPT ![u] = {}] /\ toldAdded' = toldAdded
        /\ applied' = [applied EXCEPT ![u] = 0]
    BY DEF Kill
  <1>2. Kept
    BY <1>1, KeptUnchanged
  <1>3. QueuesOK'
    <2> SUFFICES ASSUME NEW v \in User, NEW j \in 1..Len(puts'[v])
                 PROVE  Ready(v, puts[v], j)' /\ (j <= applied'[v] => Done(puts[v][j])')
      BY DEF QueuesOK
    <2>1. puts'[u] = <<>>
      BY <1>1 DEF TypeOK
    <2>2. v # u
      BY <2>1, EmptySeq
    <2>3. puts'[v] = puts[v] /\ applied'[v] = applied[v]
      BY <1>1, <2>2 DEF TypeOK
    <2> QED
      BY <1>2, <2>3, QueueKept DEF Core
  <1>4. ScreensOK'
    <2>1. /\ inbox \in [User -> SUBSET User] /\ outer \in [User -> SUBSET User]
          /\ inner \in [User -> SUBSET User] /\ toldAdded \subseteq User \X User
      BY DEF TypeOK
    <2>2. \A v \in User : inbox'[v] \subseteq inbox[v] /\ outer'[v] \subseteq outer[v]
                          /\ inner'[v] \subseteq inner[v]
      BY <1>1, <2>1
    <2>3. \A v \in User : \A p \in inbox'[v] : p # v /\ (Pending(p, v) \/ Mutual(p, v))'
      BY <1>2, <2>1, <2>2 DEF Core, ScreensOK, Kept
    <2>4. \A v \in User : \A p \in outer'[v] \cup inner'[v] : Mutual(v, p)'
      BY <1>2, <2>1, <2>2 DEF Core, ScreensOK, Kept
    <2>5. \A t \in toldAdded' : Mutual(t[1], t[2])'
      BY <1>1, <1>2, <2>1 DEF Core, ScreensOK, Kept
    <2> QED
      BY <2>3, <2>4, <2>5 DEF ScreensOK
  <1> QED
    BY <1>1, <1>3, <1>4, TablesKept DEF Core

\* A step that leaves the queues alone.
LEMMA QuietQueues ==
  ASSUME TypeOK, Core, UNCHANGED server, puts' = puts, applied' = applied
  PROVE  QueuesOK'
  <1> SUFFICES ASSUME NEW v \in User, NEW j \in 1..Len(puts'[v])
               PROVE  Ready(v, puts[v], j)' /\ (j <= applied'[v] => Done(puts[v][j])')
    BY DEF QueuesOK
  <1>1. j \in 1..Len(puts[v]) /\ puts'[v] = puts[v] /\ applied'[v] = applied[v]
    OBVIOUS
  <1> QED
    BY <1>1, KeptUnchanged, QueueKept DEF Core

LEMMA ShowRequestKeeps ==
  ASSUME TypeOK, Core, NEW u \in User, NEW p \in User, ShowRequest(u, p)
  PROVE  Core'
  <1>1. /\ UNCHANGED server /\ puts' = puts /\ applied' = applied /\ outer' = outer
        /\ inner' = inner /\ toldAdded' = toldAdded
        /\ inbox' = [inbox EXCEPT ![u] = @ \cup {p}]
    BY DEF ShowRequest
  <1>2. Kept
    BY <1>1, KeptUnchanged
  <1>3. PICK k \in requests : k.from = p /\ k.to = u /\ InView(u, u, p, k)
    BY DEF ShowRequest
  <1>4. k \in Key /\ p # u
    BY <1>3 DEF TypeOK, Key
  <1>5. k \in index[u][p]
    \* not an entry u is about to write: those are of u's own requests
    <2>1. PICK i \in 0..Len(puts[u]) : IF i = 0 THEN k \in index[u][p] ELSE puts[u][i] = IndexPut(k, u, p)
      BY <1>3 DEF InView
    <2>2. CASE i # 0
      <3>1. i \in 1..Len(puts[u]) /\ puts[u][i] = IndexPut(k, u, p)
        BY <2>1, <2>2, Lengths
      <3>2. Ready(u, puts[u], i)
        BY <3>1 DEF Core, QueuesOK
      <3>3. k.from = u
        BY <3>1, <3>2 DEF Ready, IndexPut
      <3> QED
        BY <1>3, <1>4, <3>3
    <2> QED
      BY <2>1, <2>2
  <1>6. Pending(p, u)
    BY <1>3, <1>5 DEF Pending
  <1>7. ScreensOK'
    <2>1. /\ inbox \in [User -> SUBSET User] /\ outer \in [User -> SUBSET User]
          /\ inner \in [User -> SUBSET User] /\ toldAdded \subseteq User \X User
      BY DEF TypeOK
    <2>2. \A v \in User : \A x \in inbox'[v] : x \in User /\ x # v /\ (Pending(x, v) \/ Mutual(x, v))
      BY <1>1, <1>4, <1>6, <2>1 DEF Core, ScreensOK
    <2>3. \A v \in User : \A x \in inbox'[v] : x # v /\ (Pending(x, v) \/ Mutual(x, v))'
      BY <1>2, <2>2 DEF Kept
    <2> QED
      BY <1>1, <1>2, <2>1, <2>3 DEF Core, ScreensOK, Kept
  <1> QED
    BY <1>1, <1>7, QuietQueues, TablesKept DEF Core

LEMMA OuterFiresKeeps ==
  ASSUME TypeOK, Core, NEW u \in User, NEW p \in User, OuterFires(u, p)
  PROVE  Core'
  <1>1. /\ UNCHANGED server /\ puts' = puts /\ applied' = applied /\ outer' = outer
        /\ inbox' = inbox /\ toldAdded' = toldAdded
        /\ inner' = [inner EXCEPT ![u] = @ \cup {p}]
    BY DEF OuterFires
  <1>2. Kept
    BY <1>1, KeptUnchanged
  <1>3. p \in outer[u]
    BY DEF OuterFires
  <1>4. ScreensOK'
    <2>1. /\ inbox \in [User -> SUBSET User] /\ outer \in [User -> SUBSET User]
          /\ inner \in [User -> SUBSET User] /\ toldAdded \subseteq User \X User
      BY DEF TypeOK
    <2>2. \A v \in User : outer'[v] \cup inner'[v] = outer[v] \cup inner[v]
      BY <1>1, <1>3, <2>1
    <2>3. \A v \in User : \A x \in outer'[v] \cup inner'[v] : x \in User /\ Mutual(v, x)
      BY <2>1, <2>2 DEF Core, ScreensOK
    <2>4. \A v \in User : \A x \in outer'[v] \cup inner'[v] : Mutual(v, x)'
      BY <1>2, <2>3 DEF Kept
    <2> QED
      BY <1>1, <1>2, <2>1, <2>4 DEF Core, ScreensOK, Kept
  <1> QED
    BY <1>1, <1>4, QuietQueues, TablesKept DEF Core

-----------------------------------------------------------------------------
LEMMA IInvStep == TypeOK /\ TypeOK' /\ IInv /\ [Next]_vars => IInv'
  <1> SUFFICES ASSUME TypeOK, TypeOK', IInv, [Next]_vars, rejects' = 0 PROVE Core'
    BY DEF IInv, AllAccepted
  <1>1. CASE UNCHANGED vars
    <2>1. /\ UNCHANGED server /\ puts' = puts /\ applied' = applied /\ outer' = outer
          /\ inbox' = inbox /\ inner' = inner /\ toldAdded' = toldAdded /\ rejects' = rejects
      BY <1>1 DEF vars, client, budgets
    <2>2. Core
      BY <2>1 DEF IInv, AllAccepted
    <2>3. ScreensOK'
      BY <2>1, <2>2, KeptUnchanged, ScreensKept DEF Core
    <2> QED
      BY <2>1, <2>2, <2>3, QuietQueues, TablesKept DEF Core
  <1>2. ASSUME NEW u \in User, Reject(u) PROVE FALSE
    <2>1. rejects \in Nat /\ rejects' = rejects + 1
      BY <1>2, BoundsAssumption DEF Reject, TypeOK
    <2> QED
      BY <2>1
  <1>3. ASSUME Next, rejects' = rejects PROVE Core'
    <2>1. Core
      BY <1>3 DEF IInv, AllAccepted
    <2>2. PICK u \in User :
            \/ \E p \in User : SendRequest(u, p)
            \/ \E p \in User : ShowRequest(u, p)
            \/ \E p \in User : Accept(u, p)
            \/ Apply(u)
            \/ Ack(u)
            \/ \E p \in User : OuterFires(u, p)
            \/ \E p \in User, k \in Key : InnerFires(u, p, k)
            \/ Disconnect(u)
            \/ Kill(u)
      BY <1>2, <1>3, Zenon DEF Next
    <2> QED
      BY <2>1, <2>2, SendRequestKeeps, ShowRequestKeeps, AcceptKeeps, ApplyKeeps, AckKeeps,
         OuterFiresKeeps, InnerFiresKeeps, DisconnectKeeps, KillKeeps
  <1>4. ASSUME Next PROVE rejects' = rejects
    <2>1. PICK u \in User :
            \/ \E p \in User : SendRequest(u, p)
            \/ \E p \in User : ShowRequest(u, p)
            \/ \E p \in User : Accept(u, p)
            \/ Apply(u)
            \/ Ack(u)
            \/ \E p \in User : OuterFires(u, p)
            \/ \E p \in User, k \in Key : InnerFires(u, p, k)
            \/ Disconnect(u)
            \/ Kill(u)
      BY <1>2, <1>4, Zenon DEF Next
    <2> QED
      BY <2>1 DEF SendRequest, ShowRequest, Accept, Apply, Ack, OuterFires, InnerFires,
                  Disconnect, Kill, budgets
  <1> QED
    BY <1>1, <1>3, <1>4

\* The inductive invariant holds in every reachable state.
LEMMA Inductive == Spec => []IInv
  <1>1. Init => IInv
    BY IInvInit
  <1>2. TypeOK /\ TypeOK' /\ IInv /\ [Next]_vars => IInv'
    BY IInvStep
  <1> QED
    BY <1>1, <1>2, TypeCorrect, PTL DEF Spec

(***************************************************************************)
(* An index entry whose record is missing is one between friends, however  *)
(* writes, resends, kills and the removals by both sides interleave.       *)
(***************************************************************************)
THEOREM DanglingTheorem == Spec => []DanglingOnlyBetweenFriends
  <1>1. TypeOK /\ IInv => DanglingOnlyBetweenFriends
    <2> SUFFICES ASSUME TypeOK, Core, NEW a \in User, NEW b \in User, NEW k \in index[a][b]
                 PROVE  k \in requests \/ Mutual(a, b)
      BY DEF IInv, DanglingOnlyBetweenFriends
    <2>1. {a, b} = {k.from, k.to} /\ Settled(k)
      BY DEF Core, IndexOK
    <2>2. k.from \in User /\ k.to \in User
      BY DEF TypeOK, Key
    <2> QED
      BY <2>1, <2>2, MutualSymmetric DEF Settled
  <1> QED
    BY <1>1, TypeCorrect, Inductive, PTL

\* What the recipient sees of a request the sender sees, until they are friends.
THEOREM RecipientTheorem == Spec => []RecipientEntryAfterSenders
  <1>1. IInv => RecipientEntryAfterSenders
    BY DEF IInv, Core, SendersOK, Indexed, RecipientEntryAfterSenders
  <1> QED
    BY <1>1, Inductive, PTL

\* An accept cut short leaves the request to be accepted again.
THEOREM RetryTheorem == Spec => []HalfAcceptedCanBeRetried
  <1>1. IInv => HalfAcceptedCanBeRetried
    BY DEF IInv, Core, FriendsOK, Answerable, HalfAcceptedCanBeRetried
  <1> QED
    BY <1>1, Inductive, PTL

\* Friend lists name existing friendships of their owner, the accepter's first.
THEOREM ListsTheorem == Spec => []ListedFriendsExist
  <1>1. IInv => ListedFriendsExist
    BY DEF IInv, Core, ListsOK, ListedFriendsExist
  <1> QED
    BY <1>1, Inductive, PTL

\* "Successfully added" is the truth, as long as no write is refused.
THEOREM AddedAlertTheorem == Spec => []AddedAlertIsTrue
  <1>1. IInv => AddedAlertIsTrue
    BY DEF IInv, Core, ScreensOK, AddedAlertIsTrue
  <1> QED
    BY <1>1, Inductive, PTL

(***************************************************************************)
(* No step takes a request away from two users who are not friends: only   *)
(* the removal writes of the observers do, and these are issued by a       *)
(* device that saw its accept through.                                     *)
(***************************************************************************)
THEOREM RemovalTheorem == Spec => RemovedOnlyBetweenFriends
  <1> DEFINE A == AllAccepted =>
        /\ \A k \in requests \ requests' : Mutual(k.from, k.to)
        /\ \A a, b \in User : index[a][b] \ index'[a][b] # {} => Mutual(a, b)
  <1>1. TypeOK /\ TypeOK' /\ IInv /\ [Next]_vars => A
    <2> SUFFICES ASSUME TypeOK, Core, [Next]_vars
                 PROVE  /\ \A k \in requests \ requests' : Mutual(k.from, k.to)
                        /\ \A a, b \in User : index[a][b] \ index'[a][b] # {} => Mutual(a, b)
      BY DEF IInv
    <2>1. CASE UNCHANGED server
      BY <2>1 DEF server
    <2>2. ASSUME NEW u \in User, Apply(u)
          PROVE  /\ \A k \in requests \ requests' : Mutual(k.from, k.to)
                 /\ \A a, b \in User : index[a][b] \ index'[a][b] # {} => Mutual(a, b)
      <3>1. PICK i \in 1..Len(puts[u]) : i = applied[u] + 1
        <4>1. applied[u] < Len(puts[u])
          BY <2>2 DEF Apply
        <4>2. applied[u] + 1 \in 1..Len(puts[u])
          BY <4>1, Lengths
        <4> QED
          BY <4>2
      <3>2. PICK w \in Put : w = puts[u][i] /\ Store(w)
        <4>1. puts[u] \in Seq(Put)
          BY DEF TypeOK
        <4>2. puts[u][i] \in Put
          BY <4>1, ElementOfSeq
        <4>3. Store(puts[u][i])
          BY <2>2, <3>1 DEF Apply, Sending
        <4> QED
          BY <4>2, <4>3, Zenon
      <3>3. /\ requests \subseteq Key /\ \A a, b \in User : index[a][b] \subseteq Key
            /\ w.key.from \in User /\ w.key.to \in User /\ w.owner \in User /\ w.peer \in User
        <4>1. requests \subseteq Key /\ index \in [User -> [User -> SUBSET Key]]
          BY DEF TypeOK
        <4>2. \A a, b \in User : index[a][b] \subseteq Key
          BY <4>1
        <4>3. w.key \in Key /\ w.owner \in User /\ w.peer \in User
          BY DEF Put
        <4> QED
          BY <4>1, <4>2, <4>3 DEF Key
      <3>4. w.op \in {"dropRequest", "dropIndex"} =>
              {w.owner, w.peer} = {w.key.from, w.key.to} /\ Mutual(w.key.from, w.key.to)
        BY <3>1, <3>2 DEF Core, QueuesOK, Ready
      <3>5. w.op \in {"dropRequest", "dropIndex"} => Mutual(w.owner, w.peer)
        <4>1. CASE w.op \in {"dropRequest", "dropIndex"}
          <5>1. {w.key.from, w.key.to} = {w.owner, w.peer} /\ Mutual(w.key.from, w.key.to)
            BY <3>4, <4>1
          <5>2. PICK a \in User, b \in User : a = w.key.from /\ b = w.key.to
            BY <3>3
          <5>3. PICK c \in User, d \in User : c = w.owner /\ d = w.peer
            BY <3>3
          <5>4. Mutual(c, d)
            BY <5>1, <5>2, <5>3, MutualSymmetric
          <5> QED
            BY <5>3, <5>4
        <4> QED
          BY <4>1
      <3>6. \A k \in requests \ requests' : Mutual(k.from, k.to)
        BY <3>2, <3>3, <3>4, StoreLoses
      <3>7. \A a, b \in User : index[a][b] \ index'[a][b] # {} => Mutual(a, b)
        BY <3>2, <3>3, <3>5, StoreLoses
      <3> QED
        BY <3>6, <3>7
    <2>3. UNCHANGED server \/ \E u \in User : Apply(u)
      BY DEF Next, vars, SendRequest, ShowRequest, Accept, Reject, Ack, OuterFires, InnerFires,
             Disconnect, Kill
    <2> QED
      BY <2>1, <2>2, <2>3
  <1> QED
    BY <1>1, TypeCorrect, Inductive, PTL DEF Spec, RemovedOnlyBetweenFriends
=============================================================================
