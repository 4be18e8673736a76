------------------------------ MODULE Session ------------------------------
(***************************************************************************)
(* Signing in, registering, the profile and signing out (LogInVC,          *)
(* AppDelegate, SettingsVC, User, DataService).                            *)
(*                                                                         *)
(* A device keeps two things when its process dies: the flag isLoggedIn    *)
(* and the user Firebase Auth has signed in.  Everything else is memory:   *)
(* User.instance, a copy of the user's record, the sign-ins under way, the *)
(* reads that wait for an answer and the writes that wait to be stored.    *)
(*                                                                         *)
(* Of a user's record the model keeps whether registration has written it  *)
(* as a whole, and the name, which stands for every setting the user can   *)
(* change alone.  Of a name it keeps who chose it.                         *)
(***************************************************************************)
EXTENDS Naturals, Sequences, FiniteSets, FiniteSetsExt, Functions

CONSTANTS
  Device,
  EmailAccount, FacebookAccount, GoogleAccount,
  Nobody,       \* no user is signed in
  Default,      \* the name User.instance starts with
  NoName,       \* a record without a name
  MaxTasks,     \* bound: sign-ins a user has under way at once
  MaxPuts,      \* bound: writes outstanding on one device
  Faults        \* which of "kill", "drop" and "failure" happen

Account == EmailAccount \cup FacebookAccount \cup GoogleAccount

ASSUME SessionAssumption ==
  /\ MaxTasks \in Nat /\ MaxPuts \in Nat
  /\ Faults \subseteq {"kill", "drop", "failure"}
  /\ \A x \in {Nobody, Default, NoName} : x \notin Account
  /\ Default # NoName
  /\ EmailAccount \cap FacebookAccount = {}

Name   == Account \cup {Default}
Record == [whole : BOOLEAN, name : Name \cup {NoName}]
Empty  == [whole |-> FALSE, name |-> NoName]

Put  == [account : Account, whole : BOOLEAN, name : Name]
Task == [kind : {"login", "create", "facebook", "google", "register", "fetch"},
         account : Account]

VARIABLES
  auth,         \* the accounts that exist
  users,        \* users/uid: the records
  isLoggedIn,   \* isLoggedIn[d]: the flag in UserDefaults
  currentUser,  \* currentUser[d]: whom Firebase Auth has signed in
  instance,     \* instance[d]: User.instance.name
  screen,       \* screen[d]: "login", or "home" with all that opens from it
  tasks,        \* tasks[d]: sign-ins and registrations under way
  reads,        \* reads[d]: accounts whose record is being read, each asked
                \* for once however many wait for it, oldest first
  puts,         \* puts[d]: writes outstanding, oldest first
  applied,      \* applied[d]: how many of them the server has stored
  abandoned,    \* accounts whose registration was given up half-way
  crossed       \* crossed[d]: the user of d went on while a sign-in was
                \* still under way

server  == <<auth, users>>
durable == <<isLoggedIn, currentUser>>
queues  == <<reads, puts, applied>>
vars    == <<server, durable, instance, screen, tasks, queues, abandoned, crossed>>

Init ==
  /\ auth = {}
  /\ users = [a \in Account |-> Empty]
  /\ isLoggedIn = [d \in Device |-> FALSE]
  /\ currentUser = [d \in Device |-> Nobody]
  /\ instance = [d \in Device |-> Default]
  /\ screen = [d \in Device |-> "login"]
  /\ tasks = [d \in Device |-> {}]
  /\ reads = [d \in Device |-> <<>>]
  /\ puts = [d \in Device |-> <<>>]
  /\ applied = [d \in Device |-> 0]
  /\ abandoned = {}
  /\ crossed = [d \in Device |-> FALSE]

-----------------------------------------------------------------------------
\* A record after a write.
Written(r, w) == [whole |-> r.whole \/ w.whole, name |-> w.name]

\* The record of a as d sees it: the server's, and over it d's own
\* outstanding writes.
Seen(d, a) ==
  LET own == { i \in DOMAIN puts[d] : puts[d][i].account = a }
  IN  IF own = {} THEN users[a]
      ELSE [ whole |-> users[a].whole \/ \E i \in own : puts[d][i].whole,
             name  |-> puts[d][Max(own)].name ]

\* Faulty variant of Reading: every read is a question of its own.
ReadingAgain(q, a) == IF a = Nobody THEN q ELSE Append(q, a)

\* Reading the record of a, if anybody is signed in.
Reading(q, a) == IF a = Nobody \/ a \in Range(q) THEN q ELSE Append(q, a)

\* The home screen appears: the record of the signed-in user is read.
GoHome(d, q) ==
  /\ screen' = [screen EXCEPT ![d] = "home"]
  /\ reads' = [reads EXCEPT ![d] = Reading(q, currentUser[d])]

-----------------------------------------------------------------------------
\* One of the three buttons of the login screen.
Tap(d) ==
  /\ screen[d] = "login"
  /\ Cardinality(tasks[d]) < MaxTasks
  /\ \E t \in [kind : {"login"}, account : EmailAccount]
         \cup [kind : {"facebook"}, account : FacebookAccount]
         \cup [kind : {"google"}, account : GoogleAccount] :
       tasks' = [tasks EXCEPT ![d] = @ \cup {t}]
  /\ UNCHANGED <<server, durable, instance, screen, queues, abandoned, crossed>>

\* A sheet of Facebook or Google is cancelled and the login screen appears
\* again, as it does at launch: the flag leads home.
SheetCancelled(d) ==
  /\ screen[d] = "login"
  /\ Cardinality(tasks[d]) < MaxTasks
  /\ FacebookAccount \cup GoogleAccount # {}
  /\ isLoggedIn[d]
  /\ GoHome(d, reads[d])
  /\ UNCHANGED <<server, durable, instance, tasks, puts, applied, abandoned, crossed>>

Finish(d, t) == tasks' = [tasks EXCEPT ![d] = @ \ {t}]

Replace(d, t, kind) ==
  tasks' = [tasks EXCEPT ![d] = (@ \ {t}) \cup {[t EXCEPT !.kind = kind]}]

\* There is no such account: the user may create it.
NotFound(d, t) ==
  /\ t.kind = "login" /\ t.account \notin auth
  /\ Finish(d, t) \/ Replace(d, t, "create")
  /\ UNCHANGED <<server, durable, instance, screen, queues, abandoned, crossed>>

\* The account to create exists by now.
AlreadyThere(d, t) ==
  /\ t.kind = "create" /\ t.account \in auth
  /\ Finish(d, t)
  /\ UNCHANGED <<server, durable, instance, screen, queues, abandoned, crossed>>

\* Faulty variant: whoever signs in is registered.
RegisterAlways(kind) == "register"

\* What follows an authentication.
FollowUp(kind) == IF kind \in {"login", "google"} THEN "fetch" ELSE "register"

\* Auth has signed the user in, creating the account if it is new; the flag
\* is set, and the record is read or uploaded.
SignedIn(d, t) ==
  /\ \/ t.kind = "login" /\ t.account \in auth
     \/ t.kind = "create" /\ t.account \notin auth
     \/ t.kind \in {"facebook", "google"}
  /\ auth' = auth \cup {t.account}
  /\ currentUser' = [currentUser EXCEPT ![d] = t.account]
  /\ isLoggedIn' = [isLoggedIn EXCEPT ![d] = TRUE]
  /\ Replace(d, t, FollowUp(t.kind))
  /\ reads' = [reads EXCEPT ![d] =
                 IF FollowUp(t.kind) = "fetch" THEN Reading(@, t.account) ELSE @]
  /\ UNCHANGED <<users, instance, screen, puts, applied, abandoned, crossed>>

\* The picture is uploaded: the record is written, from User.instance.
Registered(d, t) ==
  /\ t.kind = "register"
  /\ Len(puts[d]) < MaxPuts
  /\ puts' = [puts EXCEPT ![d] =
                Append(@, [account |-> t.account, whole |-> TRUE, name |-> instance[d]])]
  /\ Finish(d, t)
  /\ GoHome(d, reads[d])
  /\ UNCHANGED <<server, durable, instance, applied, abandoned, crossed>>

\* Authentication or the upload fails.
TaskFails(d, t) ==
  /\ "failure" \in Faults
  /\ t.kind # "fetch"
  /\ Finish(d, t)
  /\ abandoned' = IF t.kind = "register" THEN abandoned \cup {t.account} ELSE abandoned
  /\ UNCHANGED <<server, durable, instance, screen, queues, crossed>>

-----------------------------------------------------------------------------
\* A screen that shows the profile appears.
Refresh(d) ==
  /\ screen[d] = "home"
  /\ GoHome(d, reads[d])
  /\ UNCHANGED <<server, durable, instance, tasks, puts, applied, abandoned, crossed>>

\* Faulty variant of AfterChange: the profile is not read again.
NoRefresh(d) == reads[d]

AfterChange(d) == Reading(reads[d], currentUser[d])

\* The user changes the name, or another of the settings.
ChangeName(d) ==
  /\ screen[d] = "home" /\ currentUser[d] # Nobody
  /\ Len(puts[d]) < MaxPuts
  /\ puts' = [puts EXCEPT ![d] =
                Append(@, [account |-> currentUser[d], whole |-> FALSE, name |-> currentUser[d]])]
  /\ reads' = [reads EXCEPT ![d] = AfterChange(d)]
  /\ crossed' = [crossed EXCEPT ![d] = @ \/ tasks[d] # {}]
  /\ UNCHANGED <<server, durable, instance, screen, tasks, applied, abandoned>>

\* Faulty variant of FlagAfterSignOut.
FlagStays(d) == isLoggedIn[d]

FlagAfterSignOut(d) == FALSE

SignOut(d) ==
  /\ screen[d] = "home"
  /\ currentUser' = [currentUser EXCEPT ![d] = Nobody]
  /\ isLoggedIn' = [isLoggedIn EXCEPT ![d] = FlagAfterSignOut(d)]
  /\ instance' = [instance EXCEPT ![d] = Default]
  /\ screen' = [screen EXCEPT ![d] = "login"]
  /\ crossed' = [crossed EXCEPT ![d] = @ \/ tasks[d] # {}]
  /\ UNCHANGED <<server, tasks, queues, abandoned>>

-----------------------------------------------------------------------------
\* The process starts: the flag leads home, where the record is read.
Launch(d) ==
  /\ instance' = [instance EXCEPT ![d] = Default]
  /\ abandoned' = abandoned \cup { t.account : t \in { t \in tasks[d] : t.kind = "register" } }
                             \cup { w.account : w \in { w \in Range(puts[d]) : w.whole } }
  /\ tasks' = [tasks EXCEPT ![d] = {}]
  /\ crossed' = [crossed EXCEPT ![d] = FALSE]
  /\ puts' = [puts EXCEPT ![d] = <<>>]
  /\ applied' = [applied EXCEPT ![d] = 0]
  /\ \/ isLoggedIn[d] /\ GoHome(d, <<>>)
     \/ /\ ~isLoggedIn[d]
        /\ screen' = [screen EXCEPT ![d] = "login"]
        /\ reads' = [reads EXCEPT ![d] = <<>>]
  /\ UNCHANGED <<server, durable>>

Kill(d) == "kill" \in Faults /\ Launch(d)

\* What a reader force-unwraps is there.
Complete(r) == r.whole

\* The oldest read is answered: User.instance is filled in, and a sign-in that
\* waited for it goes home.
ReadAnswered(d) ==
  /\ reads[d] # <<>>
  /\ LET a == Head(reads[d])
         waiting == [kind |-> "fetch", account |-> a]
     IN  /\ Complete(Seen(d, a))
         /\ instance' = [instance EXCEPT ![d] = Seen(d, a).name]
         /\ Finish(d, waiting)
         /\ \/ waiting \in tasks[d] /\ GoHome(d, Tail(reads[d]))
            \/ /\ waiting \notin tasks[d]
               /\ reads' = [reads EXCEPT ![d] = Tail(@)]
               /\ UNCHANGED screen
  /\ UNCHANGED <<server, durable, puts, applied, abandoned, crossed>>

\* The answer lacks a field: the process crashes and is started again.
ReadCrashes(d) ==
  /\ reads[d] # <<>>
  /\ ~Complete(Seen(d, Head(reads[d])))
  /\ Launch(d)

\* The server stores the next write of d.
Apply(d) ==
  /\ applied[d] < Len(puts[d])
  /\ LET w == puts[d][applied[d] + 1]
     IN  users' = [users EXCEPT ![w.account] = Written(@, w)]
  /\ applied' = [applied EXCEPT ![d] = @ + 1]
  /\ UNCHANGED <<auth, durable, instance, screen, tasks, reads, puts, abandoned, crossed>>

Ack(d) ==
  /\ applied[d] > 0
  /\ puts' = [puts EXCEPT ![d] = Tail(@)]
  /\ applied' = [applied EXCEPT ![d] = @ - 1]
  /\ UNCHANGED <<server, durable, instance, screen, tasks, reads, abandoned, crossed>>

\* Faulty variant: outstanding writes die with the connection.
ForgetPuts(q) == <<>>

Resent(q) == q

\* On a new connection reads are asked again, in any order, and writes again.
Disconnect(d) ==
  /\ "drop" \in Faults
  /\ \E order \in Bijection(DOMAIN reads[d], DOMAIN reads[d]) :
       reads' = [reads EXCEPT ![d] = [i \in DOMAIN @ |-> @[order[i]]]]
  /\ puts' = [puts EXCEPT ![d] = Resent(@)]
  /\ applied' = [applied EXCEPT ![d] = 0]
  /\ UNCHANGED <<server, durable, instance, screen, tasks, abandoned, crossed>>

-----------------------------------------------------------------------------
TaskStep(d) ==
  \E t \in tasks[d] :
    NotFound(d, t) \/ AlreadyThere(d, t) \/ SignedIn(d, t) \/ Registered(d, t)

Next ==
  \E d \in Device :
    \/ Tap(d) \/ SheetCancelled(d)
    \/ TaskStep(d)
    \/ \E t \in tasks[d] : TaskFails(d, t)
    \/ Refresh(d) \/ ChangeName(d) \/ SignOut(d)
    \/ ReadAnswered(d) \/ ReadCrashes(d)
    \/ Apply(d) \/ Ack(d)
    \/ Kill(d) \/ Disconnect(d)

Spec == Init /\ [][Next]_vars

\* The services answer; connections hold, now and then, until an answer is
\* through; nobody has to tap.
Fairness ==
  \A d \in Device :
    /\ WF_vars(TaskStep(d))
    /\ \A a \in Account : SF_vars(\E t \in tasks[d] : t.account = a /\ Registered(d, t))
    /\ WF_vars(ReadAnswered(d) \/ ReadCrashes(d))
    /\ WF_vars(Apply(d)) /\ SF_vars(Ack(d))

FairSpec == Spec /\ Fairness

-----------------------------------------------------------------------------
TypeOK ==
  /\ auth \subseteq Account
  /\ users \in [Account -> Record]
  /\ isLoggedIn \in [Device -> BOOLEAN]
  /\ currentUser \in [Device -> Account \cup {Nobody}]
  /\ instance \in [Device -> Name]
  /\ screen \in [Device -> {"login", "home"}]
  /\ tasks \in [Device -> SUBSET Task]
  /\ reads \in [Device -> Seq(Account)]
  /\ \A d \in Device : IsInjective(reads[d])
  /\ puts \in [Device -> Seq(Put)]
  /\ applied \in [Device -> Nat]
  /\ \A d \in Device : applied[d] <= Len(puts[d]) /\ Len(puts[d]) <= MaxPuts
  /\ abandoned \subseteq Account
  /\ crossed \in [Device -> BOOLEAN]

(***************************************************************************)
(* The home screen, whose buttons force-unwrap the signed-in user, is open *)
(* only for somebody, whatever was left on the device: the flag and the    *)
(* user of Firebase Auth are kept apart but never disagree there.  This    *)
(* holds for two sign-ins at once too, the buttons stay enabled, as long   *)
(* as nobody signs out or changes the name (crossed) while one of them is  *)
(* still under way: the late one would go home after the sign-out.         *)
(***************************************************************************)
HomeKnowsUser ==
  \A d \in Device :
    (screen[d] = "home" /\ ~crossed[d]) => isLoggedIn[d] /\ currentUser[d] # Nobody

(***************************************************************************)
(* When nothing is being read any more, User.instance is a copy of the     *)
(* record of the user on the home screen, with the changes just made,      *)
(* whatever was killed, lost, resent or asked again in between.  This is   *)
(* as long as nobody else has an account: with several users on a device,  *)
(* a late answer for one who has signed out fills in User.instance of the  *)
(* next.                                                                   *)
(***************************************************************************)
ProfileIsOwn ==
  \A d \in Device :
    (screen[d] = "home" /\ reads[d] = <<>> /\ auth = {currentUser[d]}) =>
      instance[d] = Seen(d, currentUser[d]).name

(***************************************************************************)
(* The name a user has chosen and the server has stored is not taken back  *)
(* by a later sign-in.  Facebook users are the exception: they are         *)
(* registered again each time they sign in.  So is a name chosen while a   *)
(* second sign-in was under way (crossed), which may bring a registration  *)
(* with it.  A write with the name that is still outstanding brings it     *)
(* back.                                                                   *)
(***************************************************************************)
NameKept ==
  [][\A a \in EmailAccount : users[a].name = a =>
        \/ users'[a].name = a
        \/ \E d \in Device : crossed[d]
        \/ \E d \in Device : \E i \in DOMAIN puts'[d] :
             i > applied'[d] /\ puts'[d][i].account = a /\ puts'[d][i].name = a]_vars

\* Everybody searching force-casts the fields of all records: a record that
\* is there is whole.
RecordsWhole == \A a \in Account : users[a].name # NoName => users[a].whole

\* Signing out resets User.instance, so nobody is registered with settings
\* another user of the device has chosen.
NamesOwn == \A a \in Account : users[a].name \in {a, Default, NoName}

(***************************************************************************)
(* An account that was created has its record in the end, however often    *)
(* connections are lost and processes killed, unless its own registration  *)
(* was given up (abandoned): the picture's upload failed, or the process   *)
(* died before the server had the record.                                  *)
(***************************************************************************)
RegistrationCompletes == \A a \in EmailAccount : a \in auth ~> users[a].whole \/ a \in abandoned
=============================================================================
