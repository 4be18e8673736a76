--------------------------- MODULE FriendRequests ---------------------------
(***************************************************************************)
(* Friend requests of FLChat: how a request is sent                        *)
(* (SelectNewUserFriendVC), accepted (SelectAllRequestVC) and cleaned up   *)
(* (DataService.removeFriendRequestsFromDatabase).                         *)
(*                                                                         *)
(* No step of either protocol is atomic.  Each is a chain of writes to the *)
(* Firebase database, the next one issued by the completion block of the   *)
(* one before, and the last step of accepting is done by two observers     *)
(* that are never removed.  The server is four tables; every client is a   *)
(* FIFO of writes that are outstanding, i.e. issued and not acknowledged   *)
(* (FPersistentConnection.outstandingPuts), plus its observers and the     *)
(* requests on its screen.  Clients lose connections and then send all     *)
(* outstanding writes again; the process may be killed, which forgets the  *)
(* queue, the completion blocks and the observers (persistence is off).    *)
(***************************************************************************)
EXTENDS Naturals, Sequences

CONSTANTS
  User,         \* the people, each signed in on one device
  MaxTaps,      \* bound: Send and Accept taps of one user, all peers together
  MaxDrops,     \* bound: lost connections, all users together
  MaxKills,     \* bound: killed processes, all users together
  MaxRejects    \* bound: writes the server refuses, all users together

ASSUME BoundsAssumption ==
  /\ MaxTaps \in Nat
  /\ MaxDrops \in Nat
  /\ MaxKills \in Nat
  /\ MaxRejects \in Nat

(***************************************************************************)
(* A key made by childByAutoId is new; what tells two keys apart here is   *)
(* the pair of users the record under the key names and the tap of the     *)
(* writing user.  "from" is the user who asked, "to" the one who was       *)
(* asked, in requests and in friendships.                                  *)
(***************************************************************************)
Key == { k \in [from : User, to : User, tap : 1..MaxTaps] : k.from # k.to }

Op == { "request", "index", "friend", "list", "dropRequest", "dropIndex" }

Put == [op : Op, key : Key, owner : User, peer : User]

VARIABLES
  requests,     \* friend_request: the keys that have a record
  index,        \* user_friend_request/owner/peer: set of keys
  friends,      \* friends: the keys that have a record
  userFriends,  \* user_friends/user: set of keys
  puts,         \* puts[u]: writes of u outstanding, oldest first
  applied,      \* applied[u]: how many of puts[u] the server has processed
                \* on the present connection without u knowing
  inbox,        \* inbox[u]: senders on u's request list or on an open card
  outer, inner, \* observers u has on user_friend_request/u/peer, and on
                \* user_friend_request/peer/u: sets of peers
  toldSent,     \* keys for which the "successfully sent" alert was shown
  toldAdded,    \* <<u, p>>: u was told that p was "successfully added"
  taps,         \* taps[u]: Send and Accept taps of u so far
  drops, kills, rejects

server  == <<requests, index, friends, userFriends>>
client  == <<inbox, outer, inner, toldSent, toldAdded, taps>>
budgets == <<drops, kills, rejects>>
vars    == <<server, puts, applied, client, budgets>>

-----------------------------------------------------------------------------
\* The writes.  An index entry of k is the same write for both sides.
RequestPut(k)     == [op |-> "request",     key |-> k, owner |-> k.from, peer |-> k.to]
IndexPut(k, a, b) == [op |-> "index",       key |-> k, owner |-> a,      peer |-> b]
FriendPut(k)      == [op |-> "friend",      key |-> k, owner |-> k.from, peer |-> k.to]
ListPut(k, a, b)  == [op |-> "list",        key |-> k, owner |-> a,      peer |-> b]
DropRequest(k)    == [op |-> "dropRequest", key |-> k, owner |-> k.from, peer |-> k.to]
DropIndex(k, a, b) == [op |-> "dropIndex",  key |-> k, owner |-> a,      peer |-> b]

\* Client u issues writes: they are outstanding until answered.
Issue(u, writes) == puts' = [puts EXCEPT ![u] = @ \o writes]

\* Faulty variant of Answer: every outstanding write counts as answered.
AnswerAll(u, writes) == puts' = [puts EXCEPT ![u] = writes]

\* Its oldest write is answered, and the completion block issues more.
Answer(u, writes) == puts' = [puts EXCEPT ![u] = Tail(@) \o writes]

\* Faulty variants of SentWrites: the entry before the record; the recipient's
\* entry where the sender's belongs.
SentWritesIndexFirst(k) == <<IndexPut(k, k.from, k.to), RequestPut(k)>>
SentWritesRecipientFirst(k) == <<RequestPut(k), IndexPut(k, k.to, k.from)>>

\* What sending a request, accepting one, and removing them issue at once.
SentWrites(k) == <<RequestPut(k), IndexPut(k, k.from, k.to)>>

\* Faulty variant: the list entry before the record.
AcceptWritesListFirst(k) == <<ListPut(k, k.to, k.from), FriendPut(k)>>

AcceptWrites(k) == <<FriendPut(k), ListPut(k, k.to, k.from)>>

RemovalWrites(k, u, p) == <<DropRequest(k), DropIndex(k, u, p), DropIndex(k, p, u)>>

(***************************************************************************)
(* What u's device shows at user_friend_request/a/b: the server's entries  *)
(* overlaid with u's outstanding writes, in order.  A key is there if it   *)
(* is on the server or written by u, and no later write of u removes the   *)
(* path.                                                                   *)
(***************************************************************************)
InView(u, a, b, k) ==
  \E i \in 0..Len(puts[u]) :
    /\ IF i = 0 THEN k \in index[a][b] ELSE puts[u][i] = IndexPut(k, a, b)
    /\ \A j \in (i + 1)..Len(puts[u]) :
         ~ (puts[u][j].op = "dropIndex" /\ puts[u][j].owner = a /\ puts[u][j].peer = b)

-----------------------------------------------------------------------------
Init ==
  /\ requests = {} /\ friends = {}
  /\ index = [a \in User |-> [b \in User |-> {}]]
  /\ userFriends = [u \in User |-> {}]
  /\ puts = [u \in User |-> <<>>]
  /\ applied = [u \in User |-> 0]
  /\ inbox = [u \in User |-> {}]
  /\ outer = [u \in User |-> {}]
  /\ inner = [u \in User |-> {}]
  /\ toldSent = {} /\ toldAdded = {}
  /\ taps = [u \in User |-> 0]
  /\ drops = 0 /\ kills = 0 /\ rejects = 0

-----------------------------------------------------------------------------
(***************************************************************************)
(* The user taps "send friend request" on p's card: the record and, at     *)
(* once and without waiting, the entry in the sender's own index.  Nothing *)
(* asks whether a request is out already or whether p is a friend.         *)
(***************************************************************************)
SendRequest(u, p) ==
  /\ u # p
  /\ taps[u] < MaxTaps
  /\ LET k == [from |-> u, to |-> p, tap |-> taps[u] + 1]
     IN  Issue(u, SentWrites(k))
  /\ taps' = [taps EXCEPT ![u] = @ + 1]
  /\ UNCHANGED <<server, applied, inbox, outer, inner, toldSent, toldAdded, budgets>>

(***************************************************************************)
(* The list of received requests learns of p: an index entry at u's side,  *)
(* whose record exists and names p as the sender (own requests are in the  *)
(* same index and filtered out by e-mail).  Nothing takes p off again: the *)
(* observers only add, and an empty result does not refresh the list.      *)
(***************************************************************************)
ShowRequest(u, p) ==
  /\ p \notin inbox[u]
  /\ \E k \in requests : k.from = p /\ k.to = u /\ InView(u, u, p, k)
  /\ inbox' = [inbox EXCEPT ![u] = @ \cup {p}]
  /\ UNCHANGED <<server, puts, applied, outer, inner, toldSent, toldAdded, taps, budgets>>

(***************************************************************************)
(* The user accepts: the friends record and, at once, the entry in the     *)
(* user's own list.  The button stays enabled and nothing is looked up, so *)
(* a second tap, or a tap on a stale card, does it all again.              *)
(***************************************************************************)
Accept(u, p) ==
  /\ p \in inbox[u]
  /\ taps[u] < MaxTaps
  /\ LET k == [from |-> p, to |-> u, tap |-> taps[u] + 1]
     IN  Issue(u, AcceptWrites(k))
  /\ taps' = [taps EXCEPT ![u] = @ + 1]
  /\ UNCHANGED <<server, applied, inbox, outer, inner, toldSent, toldAdded, budgets>>

-----------------------------------------------------------------------------
\* The next write of u the server has not processed on this connection.
Sending(u) == puts[u][applied[u] + 1]

\* What the server does with a write: set or remove what the path names.
Store(w) ==
  \/ /\ w.op = "request"
     /\ requests' = requests \cup {w.key}
     /\ UNCHANGED <<index, friends, userFriends>>
  \/ /\ w.op = "index"
     /\ index' = [index EXCEPT ![w.owner][w.peer] = @ \cup {w.key}]
     /\ UNCHANGED <<requests, friends, userFriends>>
  \/ /\ w.op = "friend"
     /\ friends' = friends \cup {w.key}
     /\ UNCHANGED <<requests, index, userFriends>>
  \/ /\ w.op = "list"
     /\ userFriends' = [userFriends EXCEPT ![w.owner] = @ \cup {w.key}]
     /\ UNCHANGED <<requests, index, friends>>
  \/ /\ w.op = "dropRequest"
     /\ requests' = requests \ {w.key}
     /\ UNCHANGED <<index, friends, userFriends>>
  \/ /\ w.op = "dropIndex"
     /\ index' = [index EXCEPT ![w.owner][w.peer] = {}]
     /\ UNCHANGED <<requests, friends, userFriends>>

\* The server processes the writes of one connection in the order sent.
Apply(u) ==
  /\ applied[u] < Len(puts[u])
  /\ Store(Sending(u))
  /\ applied' = [applied EXCEPT ![u] = @ + 1]
  /\ UNCHANGED <<puts, client, budgets>>

\* The server refuses a write; the answer is an error, in the same order.
Reject(u) ==
  /\ applied[u] < Len(puts[u])
  /\ rejects < MaxRejects
  /\ applied' = [applied EXCEPT ![u] = @ + 1]
  /\ rejects' = rejects + 1
  /\ UNCHANGED <<server, puts, client, drops, kills>>

(***************************************************************************)
(* The completion block of a write.  The blocks print an error and go on   *)
(* all the same, so they do not depend on what the server answered.  When  *)
(* u's own entry (of an index, of a friend list) is written the same entry *)
(* is written for the other side; the other writes are not followed.       *)
(***************************************************************************)
Mirrored(w) == [w EXCEPT !.owner = w.peer, !.peer = w.owner]

\* Faulty variants: the sender's entry is not followed by the recipient's; a
\* removal is issued again when it is answered.
NextWriteOnlyList(u, w)  == IF w.op = "list"  /\ w.owner = u THEN <<Mirrored(w)>> ELSE <<>>
NextWriteRepeats(u, w) ==
  IF w.op \in {"index", "list"} /\ w.owner = u THEN <<Mirrored(w)>>
  ELSE IF w.op = "dropIndex" THEN <<w>> ELSE <<>>

NextWrite(u, w) ==
  IF w.op \in {"index", "list"} /\ w.owner = u THEN <<Mirrored(w)>> ELSE <<>>

\* When the sender's entry is written the user is told that the request is sent,
\* without waiting for the recipient's.
SentAlert(u, w) == IF w.op = "index" /\ w.owner = u THEN {w.key} ELSE {}

\* Faulty variants: observing starts with the accepter's list entry, or with the
\* friends record.
ObservedEarly(u, w) == IF w.op = "list" /\ w.owner = u THEN {w.peer} ELSE {}
ObservedFirst(u, w) == IF w.op = "friend" THEN {w.owner} ELSE {}

\* When the requester's list entry is written, the accepter observes the index.
Observed(u, w) == IF w.op = "list" /\ w.owner # u THEN {w.owner} ELSE {}

\* u learns the server's answer to its oldest outstanding write.
Ack(u) ==
  /\ applied[u] > 0
  /\ LET w == Head(puts[u])
     IN  /\ Answer(u, NextWrite(u, w))
         /\ toldSent' = toldSent \cup SentAlert(u, w)
         /\ outer' = [outer EXCEPT ![u] = @ \cup Observed(u, w)]
  /\ applied' = [applied EXCEPT ![u] = @ - 1]
  /\ UNCHANGED <<server, inbox, inner, toldAdded, taps, budgets>>

-----------------------------------------------------------------------------
\* The outer observer sees any entry of u's own side: it registers the inner.
OuterFires(u, p) ==
  /\ p \in outer[u]
  /\ p \notin inner[u]
  /\ \E k \in Key : InView(u, u, p, k)
  /\ inner' = [inner EXCEPT ![u] = @ \cup {p}]
  /\ UNCHANGED <<server, puts, applied, inbox, outer, toldSent, toldAdded, taps, budgets>>

(***************************************************************************)
(* The inner observer sees entry k of p's side: it removes the request     *)
(* record of k and both whole index paths, not just the entries of k, and  *)
(* tells the user that p was added.  It stays registered.                  *)
(***************************************************************************)
InnerFires(u, p, k) ==
  /\ p \in inner[u]
  /\ InView(u, p, u, k)
  /\ Issue(u, RemovalWrites(k, u, p))
  /\ toldAdded' = toldAdded \cup {<<u, p>>}
  /\ UNCHANGED <<server, applied, inbox, outer, inner, toldSent, taps, budgets>>

-----------------------------------------------------------------------------
\* Faulty variant: the writes of the old connection are forgotten.
ForgetUnanswered(q) == <<>>

\* On a new connection all unanswered writes are sent again, from the first.
Unanswered(q) == q

\* The connection is lost, and with it the answers on the way.
Disconnect(u) ==
  /\ applied[u] > 0
  /\ drops < MaxDrops
  /\ puts' = [puts EXCEPT ![u] = Unanswered(@)]
  /\ applied' = [applied EXCEPT ![u] = 0]
  /\ drops' = drops + 1
  /\ UNCHANGED <<server, client, kills, rejects>>

\* The process is killed and later started again, signed in as before.
Kill(u) ==
  /\ kills < MaxKills
  /\ puts' = [puts EXCEPT ![u] = <<>>]
  /\ applied' = [applied EXCEPT ![u] = 0]
  /\ inbox' = [inbox EXCEPT ![u] = {}]
  /\ outer' = [outer EXCEPT ![u] = {}]
  /\ inner' = [inner EXCEPT ![u] = {}]
  /\ kills' = kills + 1
  /\ UNCHANGED <<server, toldSent, toldAdded, taps, drops, rejects>>

-----------------------------------------------------------------------------
Next ==
  \E u \in User :
    \/ \E p \in User : SendRequest(u, p)
    \/ \E p \in User : ShowRequest(u, p)
    \/ \E p \in User : Accept(u, p)
    \/ Apply(u)
    \/ Reject(u)
    \/ Ack(u)
    \/ \E p \in User : OuterFires(u, p)
    \/ \E p \in User, k \in Key : InnerFires(u, p, k)
    \/ Disconnect(u)
    \/ Kill(u)

Spec == Init /\ [][Next]_vars

(***************************************************************************)
(* The connection and the run loop of a device that is alive make          *)
(* progress.  Nobody has to tap anything, and faults need not happen.      *)
(***************************************************************************)
Fairness ==
  \A u \in User :
    /\ WF_vars(Apply(u))
    /\ WF_vars(Ack(u))
    /\ \A p \in User : WF_vars(OuterFires(u, p))
    /\ \A p \in User : WF_vars(\E k \in Key : InnerFires(u, p, k))

FairSpec == Spec /\ Fairness

-----------------------------------------------------------------------------
TypeOK ==
  /\ requests \subseteq Key
  /\ index \in [User -> [User -> SUBSET Key]]
  /\ friends \subseteq Key
  /\ userFriends \in [User -> SUBSET Key]
  /\ puts \in [User -> Seq(Put)]
  /\ applied \in [User -> Nat]
  /\ \A u \in User : applied[u] <= Len(puts[u])
  /\ inbox \in [User -> SUBSET User] /\ \A u \in User : u \notin inbox[u]
  /\ outer \in [User -> SUBSET User]
  /\ inner \in [User -> SUBSET User]
  /\ toldSent \subseteq Key
  /\ toldAdded \subseteq User \X User
  /\ taps \in [User -> 0..MaxTaps]
  /\ drops \in 0..MaxDrops /\ kills \in 0..MaxKills /\ rejects \in 0..MaxRejects

\* a and b have each other on their friend lists, through one friends record.
Mutual(a, b) ==
  \E k \in friends : {k.from, k.to} = {a, b} /\ k \in userFriends[a] \cap userFriends[b]

\* b can find, open and accept a request of a.
Pending(a, b) ==
  \E k \in requests : k.from = a /\ k.to = b /\ k \in index[b][a]

(***************************************************************************)
(* The completion blocks ignore errors, so most of what follows holds only *)
(* as long as the server has not refused a write.                          *)
(***************************************************************************)
AllAccepted == rejects = 0

(***************************************************************************)
(* An index entry that leads nowhere does no harm: when the record of an   *)
(* indexed request is missing, the two are friends already.  The record is *)
(* written before its entries, and a resent entry can arrive after the     *)
(* record was removed only because accepting had been completed.           *)
(***************************************************************************)
DanglingOnlyBetweenFriends ==
  AllAccepted =>
    \A a, b \in User : \A k \in index[a][b] : k \in requests \/ Mutual(a, b)

(***************************************************************************)
(* Until they are friends, what the recipient sees the sender sees too:    *)
(* the recipient's entry is written on the acknowledgement of the          *)
(* sender's, and nothing else removes either.                              *)
(***************************************************************************)
RecipientEntryAfterSenders ==
  AllAccepted =>
    \A k \in Key :
      k \in index[k.to][k.from] => k \in index[k.from][k.to] \/ Mutual(k.from, k.to)

(***************************************************************************)
(* Nobody becomes a friend unasked, and an interrupted accept can be       *)
(* repeated: as long as a friends record is not on both lists, the request *)
(* it answers is still there for the recipient to find and accept.         *)
(***************************************************************************)
HalfAcceptedCanBeRetried ==
  AllAccepted => \A k \in friends : Pending(k.from, k.to) \/ Mutual(k.from, k.to)

(***************************************************************************)
(* A friend list never names a record that does not exist or is of others, *)
(* and the user who was asked has the friend first: the requester's list   *)
(* is written on the acknowledgement of the accepter's.                    *)
(***************************************************************************)
ListedFriendsExist ==
  AllAccepted =>
    \A u \in User : \A k \in userFriends[u] :
      /\ k \in friends
      /\ u \in {k.from, k.to}
      /\ k \in userFriends[k.to]

\* "You have successfully added ..." is shown only when both lists say so.
AddedAlertIsTrue ==
  AllAccepted => \A t \in toldAdded : Mutual(t[1], t[2])

(***************************************************************************)
(* A step never loses a request: a record or an index entry goes away only *)
(* when the two users are friends, although every later request between    *)
(* them is removed by the observers an accept leaves behind.               *)
(***************************************************************************)
RemovedOnlyBetweenFriends ==
  [][ AllAccepted =>
        /\ \A k \in requests \ requests' : Mutual(k.from, k.to)
        /\ \A a, b \in User : index[a][b] \ index'[a][b] # {} => Mutual(a, b) ]_vars

-----------------------------------------------------------------------------
\* k was asked for, or accepted: its first write is in the user's queue.
Issued(w, u) == \E i \in 1..Len(puts[u]) : puts[u][i] = w

(***************************************************************************)
(* A request that was sent reaches the recipient's index, or the two have  *)
(* become friends meanwhile, when no process is killed on the way and no   *)
(* write refused, however often the connection is lost.                    *)
(***************************************************************************)
RequestArrives ==
  \A k \in Key :
    Issued(RequestPut(k), k.from) ~> (k \in index[k.to][k.from] \/ Mutual(k.from, k.to))

\* An accept that was started ends with both on each other's list.
AcceptCompletes ==
  \A k \in Key : Issued(FriendPut(k), k.to) ~> Mutual(k.from, k.to)

(***************************************************************************)
(* The clients come to rest: two devices that both observe the index and   *)
(* remove what the other one writes do not keep each other busy.           *)
(***************************************************************************)
EventuallyQuiet == <>[](\A u \in User : puts[u] = <<>>)

\* Who was told "Your friend request was successfully sent to ..." can rely on
\* it: the request arrives, or the two become friends.
SentAlertIsTrue ==
  \A k \in Key : k \in toldSent ~> (k \in index[k.to][k.from] \/ Mutual(k.from, k.to))
=============================================================================
