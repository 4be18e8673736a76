------------------------------ MODULE SearchList ------------------------------
(***************************************************************************)
(* The lists of people a user searches by typing: the friends (HomeVC,     *)
(* getAllFrinds) and all users (AddNewFriendsVC, getUsersFromDatabase).    *)
(*                                                                         *)
(* Every key typed, and every appearance of the screen, starts another     *)
(* query.  A query for friends has observers that are never removed and an *)
(* array of its own, with which it replaces the list at every entry that   *)
(* matches, also when another text has been typed since.  A query for      *)
(* users reads them all once and replaces the list once.                   *)
(*                                                                         *)
(* Friends are found by the key of a friends record, not by person.  Two   *)
(* people who accepted several requests have a record for each, with a     *)
(* copy of the other's profile in it, and every copy is listed.  In arrays *)
(* and lists a record stands for the entry made from the copy in it; among *)
(* all users, where the keys are those of users, each is a record himself. *)
(***************************************************************************)
EXTENDS Naturals, Sequences, SequencesExt

CONSTANTS
  Person,
  Record,       \* the keys of friends, or of users
  Whose,        \* Whose[r]: whose profile record r has
  Text,         \* what can be typed
  Matching,     \* Matching[t]: the records with an e-mail that contains t
  MaxQueries    \* queries started

VARIABLES
  screen,       \* "friends" or "users"
  records,      \* database: the user's friends records, or the users
  query,        \* the queries: their text, and what was in the database then
  array,        \* array[q]: what query q has found
  list,         \* usersArray, the list on the screen
  known,        \* the records whose entry in user_friends the client has
  reading,      \* reading[r]: the queries that wait for friends/r, in order
  waiting,      \* waiting[r]: those that wait for the copy in it
  cached,       \* the records whose copy the client has
  asked         \* the queries that wait for users, in order

vars == <<screen, records, query, array, list, known, reading, waiting, cached, asked>>

Query == DOMAIN query
Result(q) == Matching[query[q].text]

Init ==
  /\ screen \in {"friends", "users"}
  /\ records = {} /\ query = <<>> /\ array = <<>> /\ list = <<>>
  /\ known = {} /\ cached = {} /\ asked = <<>>
  /\ reading = [r \in Record |-> <<>>] /\ waiting = [r \in Record |-> <<>>]

\* A request is accepted, be it of somebody who is a friend already, or
\* somebody registers.
Join(r) ==
  /\ r \notin records
  /\ screen = "users" => \A o \in records : Whose[o] # Whose[r]
  /\ records' = records \cup {r}
  /\ UNCHANGED <<screen, query, array, list, known, reading, waiting, cached, asked>>

Started(t) ==
  /\ Len(query) < MaxQueries
  /\ query' = Append(query, [text |-> t, records |-> records])
  /\ array' = Append(array, <<>>)

\* getAllFrinds: the new observer is told at once of the entries the client
\* has, and reads what each leads to.
SearchFriends(t) ==
  /\ screen = "friends" /\ Started(t)
  /\ reading' = [r \in Record |-> IF r \in known THEN Append(reading[r], Len(query')) ELSE reading[r]]
  /\ UNCHANGED <<screen, records, list, known, waiting, cached, asked>>

\* Another entry: every observer is told.
ChildAdded(r) ==
  /\ screen = "friends" /\ r \in records \ known /\ query # <<>>
  /\ known' = known \cup {r}
  /\ reading' = [reading EXCEPT ![r] = @ \o [q \in Query |-> q]]
  /\ UNCHANGED <<screen, records, query, array, list, waiting, cached, asked>>

\* The places of those queries that find r.
Finding(queries, r) == { i \in DOMAIN queries : r \in Result(queries[i]) }

\* Faulty variant: what a query finds is appended to the list on the screen.
FoundOnScreen(queries, r) ==
  /\ array' = array
  /\ list' = list \o [i \in 1..Cardinality(Finding(queries, r)) |-> r]

\* The callbacks of the copy of r for some queries, one after the other.
Found(queries, r) ==
  LET found == Finding(queries, r)
  IN  /\ array' = [q \in Query |-> IF \E i \in found : queries[i] = q THEN Append(array[q], r) ELSE array[q]]
      /\ list' = IF found = {} THEN list ELSE array'[queries[Max(found)]]

\* friends/r is read, for all that wait for it: each observes the copy in it,
\* which the client may have already.
RecordRead(r) ==
  /\ reading[r] # <<>>
  /\ reading' = [reading EXCEPT ![r] = <<>>]
  /\ IF r \in cached
       THEN Found(reading[r], r) /\ UNCHANGED waiting
       ELSE waiting' = [waiting EXCEPT ![r] = @ \o reading[r]] /\ UNCHANGED <<array, list>>
  /\ UNCHANGED <<screen, records, query, known, cached, asked>>

\* The copy arrives.  It never changes after that.
CopyRead(r) ==
  /\ waiting[r] # <<>>
  /\ waiting' = [waiting EXCEPT ![r] = <<>>]
  /\ cached' = cached \cup {r}
  /\ Found(waiting[r], r)
  /\ UNCHANGED <<screen, records, query, known, reading, asked>>

\* getUsersFromDatabase: one read of all users.
SearchUsers(t) ==
  /\ screen = "users" /\ Started(t)
  /\ asked' = Append(asked, Len(query'))
  /\ UNCHANGED <<screen, records, list, known, reading, waiting, cached>>

\* Faulty variant: the query asked first is told last.
ToldLast == Head(asked)

\* The queries that wait are told in the order in which they asked.
Told == Last(asked)

\* The users arrive, for all queries that wait.
UsersRead ==
  /\ asked # <<>>
  /\ asked' = <<>>
  /\ list' = SetToSeq(Result(Told) \cap records)
  /\ UNCHANGED <<screen, records, query, array, known, reading, waiting, cached>>

Next ==
  \/ \E r \in Record : Join(r) \/ ChildAdded(r) \/ RecordRead(r) \/ CopyRead(r)
  \/ \E t \in Text : SearchFriends(t) \/ SearchUsers(t)
  \/ UsersRead

Spec == Init /\ [][Next]_vars

-----------------------------------------------------------------------------
Quiet ==
  /\ asked = <<>> /\ (screen = "friends" => known = records)
  /\ \A r \in Record : reading[r] = <<>> /\ waiting[r] = <<>>

\* How often p is in the list.
Times(p) == Cardinality({ i \in DOMAIN list : Whose[list[i]] = p })

(***************************************************************************)
(* When nothing is under way any more, the list of friends is the whole    *)
(* result of one of the queries (of which is left to the order of the      *)
(* answers: it need not be the last): everybody in it is there as often as *)
(* there are friends records of his that match, although each query builds *)
(* its own array and all of them write the list.  It is empty only if no   *)
(* query finds anybody.  The list of users is that of the text typed last, *)
(* and nobody who was there when it was typed is missing.                  *)
(***************************************************************************)
Settled ==
  Quiet /\ query # <<>> =>
    IF screen = "friends"
      THEN IF list = <<>> THEN \A q \in Query : Result(q) \cap records = {}
           ELSE \E q \in Query : \A p \in Person :
                  Times(p) = Cardinality({ r \in Result(q) \cap records : Whose[r] = p })
      ELSE LET q == Len(query)
           IN  Result(q) \cap query[q].records \subseteq ToSet(list) /\ ToSet(list) \subseteq Result(q)
=============================================================================
