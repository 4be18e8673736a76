---------------------------- MODULE SessionProofs ----------------------------
(***************************************************************************)
(* Proofs about Session, for any accounts and any bounds.                  *)
(***************************************************************************)
EXTENDS Session, NumberFacts, SequenceTheorems

-----------------------------------------------------------------------------
(***************************************************************************)
(* Queues of reads, in which nobody stands twice.                          *)
(***************************************************************************)
LEMMA AppendFacts ==
  ASSUME NEW S, NEW q \in Seq(S), NEW a \in S
  PROVE  /\ Append(q, a) \in Seq(S) /\ Append(q, a) # <<>>
         /\ Len(Append(q, a)) = Len(q) + 1 /\ Len(q) \in Nat
         /\ DOMAIN q = 1..Len(q) /\ DOMAIN Append(q, a) = 1..Len(q) + 1
         /\ \A i \in 1..Len(q) : Append(q, a)[i] = q[i]
         /\ Append(q, a)[Len(q) + 1] = a
<1>1. Append(q, a) \in Seq(S)
  BY AppendProperties
<1> QED
  BY <1>1, AppendProperties, LenProperties

LEMMA TailFacts ==
  ASSUME NEW S, NEW q \in Seq(S), q # <<>>
  PROVE  /\ Head(q) \in S /\ Tail(q) \in Seq(S) /\ Head(q) = q[1]
         /\ Len(q) \in Nat \ {0} /\ Len(Tail(q)) = Len(q) - 1
         /\ DOMAIN q = 1..Len(q) /\ DOMAIN Tail(q) = 1..Len(q) - 1
         /\ \A i \in 1..Len(q) - 1 : Tail(q)[i] = q[i + 1]
<1>1. Head(q) \in S /\ Tail(q) \in Seq(S)
  BY HeadTailProperties
<1>2. Len(q) \in Nat \ {0} /\ Head(q) = q[1]
  BY EmptySeq
<1> QED
  BY <1>1, <1>2, HeadTailProperties, LenProperties

LEMMA RangeFacts ==
  ASSUME NEW S, NEW q \in Seq(S)
  PROVE  /\ \A a : a \in Range(q) <=> \E i \in 1..Len(q) : q[i] = a
         /\ Range(q) \subseteq S
<1>1. DOMAIN q = 1..Len(q) /\ \A i \in 1..Len(q) : q[i] \in S
  BY LenProperties, ElementOfSeq
<1> QED
  BY <1>1 DEF Range

LEMMA NothingRead == <<>> \in Seq(Account) /\ IsInjective(<<>>) /\ Range(<<>>) = {}
<1>1. PICK e : e = <<>>
  OBVIOUS
<1>2. e \in Seq(Account) /\ Len(e) = 0
  BY <1>1, EmptySeq
<1>3. \A a : a \in Range(e) <=> \E i \in 1..Len(e) : e[i] = a
  BY <1>2, RangeFacts
<1>4. Range(e) = {}
  BY <1>2, <1>3
<1>5. DOMAIN e = 1..Len(e)
  BY <1>2, LenProperties
<1>6. IsInjective(e)
  BY <1>2, <1>5 DEF IsInjective
<1> QED
  BY <1>1, <1>2, <1>4, <1>6

\* Reading adds one account, unless it is there.
LEMMA ReadingFacts ==
  ASSUME NEW q \in Seq(Account), IsInjective(q), NEW a \in Account \cup {Nobody}
  PROVE  /\ Reading(q, a) \in Seq(Account) /\ IsInjective(Reading(q, a))
         /\ \A b \in Range(Reading(q, a)) : b \in Range(q) \/ (b = a /\ a # Nobody)
         /\ a # Nobody => Reading(q, a) # <<>>
         /\ a = Nobody => Reading(q, a) = q
<1>1. CASE a = Nobody \/ a \in Range(q)
  <2>1. Reading(q, a) = q
    BY <1>1 DEF Reading
  <2>2. a \in Range(q) => q # <<>>
    BY RangeFacts
  <2> QED
    BY <1>1, <2>1, <2>2
<1>2. CASE a # Nobody /\ a \notin Range(q)
  <2>1. Reading(q, a) = Append(q, a) /\ a \in Account
    BY <1>2 DEF Reading
  <2>2. PICK r \in Seq(Account) : r = Append(q, a)
    BY <2>1, AppendFacts
  <2>3. /\ r # <<>> /\ Len(r) = Len(q) + 1 /\ Len(q) \in Nat
        /\ DOMAIN q = 1..Len(q) /\ DOMAIN r = 1..Len(q) + 1
        /\ \A i \in 1..Len(q) : r[i] = q[i]
        /\ r[Len(q) + 1] = a
    BY <2>1, <2>2, AppendFacts
  <2>4. \A i \in 1..Len(q) : q[i] \in Range(q)
    BY RangeFacts
  <2>5. IsInjective(r)
    BY <1>2, <2>3, <2>4 DEF IsInjective
  <2>6. \A b \in Range(r) : b \in Range(q) \/ b = a
    <3>1. ASSUME NEW b \in Range(r) PROVE b \in Range(q) \/ b = a
      <4>1. PICK i \in 1..Len(q) + 1 : r[i] = b
        BY <2>3 DEF Range
      <4> QED
        BY <4>1, <2>3, <2>4
    <3> QED
      BY <3>1
  <2> QED
    BY <1>2, <2>1, <2>2, <2>3, <2>5, <2>6
<1> QED
  BY <1>1, <1>2

\* The answer to the oldest read.
LEMMA AnsweredFacts ==
  ASSUME NEW q \in Seq(Account), IsInjective(q), q # <<>>
  PROVE  /\ Tail(q) \in Seq(Account) /\ IsInjective(Tail(q)) /\ Head(q) \in Account
         /\ Head(q) \in Range(q) /\ \A b \in Range(Tail(q)) : b \in Range(q)
<1>1. /\ Head(q) \in Account /\ Tail(q) \in Seq(Account) /\ Head(q) = q[1]
      /\ Len(q) \in Nat \ {0} /\ Len(Tail(q)) = Len(q) - 1
      /\ DOMAIN q = 1..Len(q) /\ DOMAIN Tail(q) = 1..Len(q) - 1
      /\ \A i \in 1..Len(q) - 1 : Tail(q)[i] = q[i + 1]
  BY TailFacts
<1>2. PICK r \in Seq(Account) : r = Tail(q)
  BY <1>1
<1>3. IsInjective(r)
  BY <1>1, <1>2 DEF IsInjective
<1>4. \A b \in Range(r) : b \in Range(q)
  BY <1>1, <1>2 DEF Range
<1>5. Head(q) \in Range(q)
  BY <1>1 DEF Range
<1> QED
  BY <1>1, <1>2, <1>3, <1>4, <1>5

\* Asking again in any order.
LEMMA PermutedFacts ==
  ASSUME NEW q \in Seq(Account), IsInjective(q),
         NEW order \in Bijection(DOMAIN q, DOMAIN q)
  PROVE  /\ [i \in DOMAIN q |-> q[order[i]]] \in Seq(Account)
         /\ IsInjective([i \in DOMAIN q |-> q[order[i]]])
         /\ Range([i \in DOMAIN q |-> q[order[i]]]) \subseteq Range(q)
         /\ [i \in DOMAIN q |-> q[order[i]]] = <<>> => q = <<>>
<1> DEFINE r == [i \in DOMAIN q |-> q[order[i]]]
<1>1. DOMAIN q = 1..Len(q) /\ Len(q) \in Nat /\ \A i \in 1..Len(q) : q[i] \in Account
  BY LenProperties, ElementOfSeq
<1>2. order \in [DOMAIN q -> DOMAIN q]
      /\ \A i, j \in DOMAIN q : order[i] = order[j] => i = j
  BY DEF Bijection, Injection, IsInjective
<1>3. r \in [1..Len(q) -> Account]
  BY <1>1, <1>2
<1>4. r \in Seq(Account)
  BY <1>1, <1>3, SeqDef
<1>5. IsInjective(r)
  BY <1>2 DEF IsInjective
<1>6. Range(r) \subseteq Range(q)
  BY <1>2 DEF Range
<1>7. ASSUME r = <<>> PROVE q = <<>>
  <2>1. DOMAIN r = 1..0
    BY <1>4, <1>7, LenProperties, EmptySeq
  <2>2. Len(q) = 0
    <3>1. 1 \notin 1..Len(q)
      BY <2>1, <1>1
    <3> QED
      BY <3>1, <1>1
  <2> QED
    BY <2>2, EmptySeq
<1> QED
  BY <1>4, <1>5, <1>6, <1>7

-----------------------------------------------------------------------------
(***************************************************************************)
(* Type correctness.                                                       *)
(***************************************************************************)
Own(d, a) == { i \in DOMAIN puts[d] : puts[d][i].account = a }

LEMMA PutsFacts ==
  ASSUME TypeOK, NEW d \in Device
  PROVE  /\ puts[d] \in Seq(Put) /\ Len(puts[d]) \in Nat /\ DOMAIN puts[d] = 1..Len(puts[d])
         /\ applied[d] \in Nat /\ applied[d] <= Len(puts[d]) /\ Len(puts[d]) <= MaxPuts
         /\ \A i \in 1..Len(puts[d]) :
              /\ puts[d][i] \in Put /\ puts[d][i].account \in Account
              /\ puts[d][i].whole \in BOOLEAN /\ puts[d][i].name \in Name
<1>1. puts[d] \in Seq(Put)
  BY DEF TypeOK
<1>2. \A i \in 1..Len(puts[d]) : puts[d][i] \in Put
  BY <1>1, ElementOfSeq
<1>3. Len(puts[d]) \in Nat /\ DOMAIN puts[d] = 1..Len(puts[d])
  BY <1>1, LenProperties
<1> QED
  BY <1>1, <1>2, <1>3 DEF TypeOK, Put

\* The record as a device sees it has the name of the device's last write.
LEMMA SeenFacts ==
  ASSUME TypeOK, NEW d \in Device, NEW a \in Account
  PROVE  /\ Own(d, a) = {} => Seen(d, a) = users[a]
         /\ Own(d, a) # {} =>
              /\ Max(Own(d, a)) \in Own(d, a)
              /\ \A i \in Own(d, a) : i <= Max(Own(d, a))
              /\ Seen(d, a).name = puts[d][Max(Own(d, a))].name
<1>1. Len(puts[d]) \in Nat /\ DOMAIN puts[d] = 1..Len(puts[d])
  BY PutsFacts
<1>2. Own(d, a) \subseteq Nat /\ \A i \in Own(d, a) : i <= Len(puts[d])
  BY <1>1 DEF Own
<1>3. Own(d, a) # {} =>
        Max(Own(d, a)) \in Own(d, a) /\ \A i \in Own(d, a) : i <= Max(Own(d, a))
  BY <1>1, <1>2, GreatestNatural
<1> QED
  BY <1>3 DEF Seen, Own

\* A whole record has a name.
TypeInv ==
  /\ TypeOK
  /\ \A a \in Account : users[a].whole => users[a].name \in Name

LEMMA TypeInvInit == ASSUME Init PROVE TypeInv
<1>1. \A S : <<>> \in Seq(S) /\ Len(<<>>) = 0
  BY EmptySeq
<1>2. Empty \in Record /\ Empty.whole = FALSE /\ Default \in Name
  BY DEF Empty, Record, Name
<1>3. IsInjective(<<>>)
  BY DEF IsInjective
<1>4. \A d \in Device :
        /\ IsInjective(reads[d])
        /\ applied[d] <= Len(puts[d]) /\ Len(puts[d]) <= MaxPuts
  BY <1>1, <1>3, SessionAssumption DEF Init
<1>5. reads \in [Device -> Seq(Account)] /\ puts \in [Device -> Seq(Put)]
  BY <1>1 DEF Init
<1> QED
  BY <1>1, <1>2, <1>4, <1>5 DEF Init, TypeInv, TypeOK

\* Going home leaves a read of the user's record under way.
LEMMA GoHomeFacts ==
  ASSUME TypeOK, NEW d \in Device, NEW q \in Seq(Account), IsInjective(q), GoHome(d, q)
  PROVE  /\ reads' \in [Device -> Seq(Account)] /\ IsInjective(reads'[d])
         /\ \A e \in Device \ {d} : reads'[e] = reads[e] /\ screen'[e] = screen[e]
         /\ \A b \in Range(reads'[d]) :
              b \in Range(q) \/ (b = currentUser[d] /\ currentUser[d] # Nobody)
         /\ currentUser[d] # Nobody => reads'[d] # <<>>
         /\ currentUser[d] = Nobody => reads'[d] = q
         /\ screen' \in [Device -> {"login", "home"}] /\ screen'[d] = "home"
<1>1. currentUser[d] \in Account \cup {Nobody}
  BY DEF TypeOK
<1>2. PICK r : r = Reading(q, currentUser[d])
  OBVIOUS
<1>3. /\ r \in Seq(Account) /\ IsInjective(r)
      /\ \A b \in Range(r) : b \in Range(q) \/ (b = currentUser[d] /\ currentUser[d] # Nobody)
      /\ currentUser[d] # Nobody => r # <<>>
      /\ currentUser[d] = Nobody => r = q
  BY <1>1, <1>2, ReadingFacts
<1>4. /\ reads' = [reads EXCEPT ![d] = r] /\ screen' = [screen EXCEPT ![d] = "home"]
      /\ reads \in [Device -> Seq(Account)] /\ screen \in [Device -> {"login", "home"}]
  BY <1>2 DEF GoHome, TypeOK
<1>5. reads'[d] = r /\ \A e \in Device \ {d} : reads'[e] = reads[e] /\ screen'[e] = screen[e]
  BY <1>4
<1>6. reads' \in [Device -> Seq(Account)]
  BY <1>3, <1>4
<1>7. screen' \in [Device -> {"login", "home"}] /\ screen'[d] = "home"
  BY <1>4
<1> QED
  BY <1>3, <1>5, <1>6, <1>7

\* What a launch does to queues and screen.
LEMMA LaunchFacts ==
  ASSUME TypeOK, NEW d \in Device, Launch(d)
  PROVE  /\ reads' \in [Device -> Seq(Account)] /\ \A e \in Device : IsInjective(reads'[e])
         /\ screen' \in [Device -> {"login", "home"}]
         /\ \A e \in Device \ {d} : reads'[e] = reads[e] /\ screen'[e] = screen[e]
         /\ \A b \in Range(reads'[d]) : b = currentUser[d] /\ currentUser[d] # Nobody
         /\ screen'[d] = (IF isLoggedIn[d] THEN "home" ELSE "login")
         /\ isLoggedIn[d] /\ currentUser[d] # Nobody => reads'[d] # <<>>
         /\ ~isLoggedIn[d] => reads'[d] = <<>>
<1>1. <<>> \in Seq(Account) /\ IsInjective(<<>>) /\ Range(<<>>) = {}
  BY NothingRead
<1>2. \A e \in Device : IsInjective(reads[e])
  BY DEF TypeOK
<1>3. CASE isLoggedIn[d] /\ GoHome(d, <<>>)
  <2>1. /\ reads' \in [Device -> Seq(Account)] /\ IsInjective(reads'[d])
        /\ \A e \in Device \ {d} : reads'[e] = reads[e] /\ screen'[e] = screen[e]
        /\ \A b \in Range(reads'[d]) :
              b \in Range(<<>>) \/ (b = currentUser[d] /\ currentUser[d] # Nobody)
        /\ currentUser[d] # Nobody => reads'[d] # <<>>
        /\ screen' \in [Device -> {"login", "home"}] /\ screen'[d] = "home"
    BY <1>1, <1>3, GoHomeFacts
  <2>2. \A e \in Device : IsInjective(reads'[e])
    BY <1>2, <2>1, Zenon
  <2>3. \A b \in Range(reads'[d]) : b = currentUser[d] /\ currentUser[d] # Nobody
    BY <1>1, <2>1
  <2> QED
    BY <1>3, <2>1, <2>2, <2>3
<1>4. CASE ~isLoggedIn[d]
  <2>1. reads' = [reads EXCEPT ![d] = <<>>] /\ screen' = [screen EXCEPT ![d] = "login"]
    BY <1>4 DEF Launch
  <2>2. reads \in [Device -> Seq(Account)] /\ screen \in [Device -> {"login", "home"}]
    BY DEF TypeOK
  <2>3. reads'[d] = <<>> /\ screen'[d] = "login"
        /\ \A e \in Device \ {d} : reads'[e] = reads[e] /\ screen'[e] = screen[e]
    BY <2>1, <2>2
  <2>4. reads' \in [Device -> Seq(Account)]
    BY <1>1, <2>1, <2>2
  <2>5. screen' \in [Device -> {"login", "home"}]
    BY <2>1, <2>2
  <2> QED
    BY <1>1, <1>2, <1>4, <2>3, <2>4, <2>5
<1> QED
  BY <1>3, <1>4 DEF Launch

\* Appending a write.
LEMMA PutAdded ==
  ASSUME TypeOK, NEW d \in Device, NEW w \in Put, Len(puts[d]) < MaxPuts,
         puts' = [puts EXCEPT ![d] = Append(@, w)]
  PROVE  /\ puts' \in [Device -> Seq(Put)] /\ Len(puts'[d]) = Len(puts[d]) + 1
         /\ Len(puts'[d]) <= MaxPuts /\ DOMAIN puts'[d] = 1..Len(puts[d]) + 1
         /\ \A i \in 1..Len(puts[d]) : puts'[d][i] = puts[d][i]
         /\ puts'[d][Len(puts[d]) + 1] = w
         /\ \A e \in Device \ {d} : puts'[e] = puts[e]
<1>1. puts \in [Device -> Seq(Put)] /\ puts[d] \in Seq(Put) /\ Len(puts[d]) \in Nat
  BY PutsFacts DEF TypeOK
<1>2. PICK r : r = Append(puts[d], w)
  OBVIOUS
<1>3. /\ r \in Seq(Put) /\ Len(r) = Len(puts[d]) + 1 /\ DOMAIN r = 1..Len(puts[d]) + 1
      /\ \A i \in 1..Len(puts[d]) : r[i] = puts[d][i]
      /\ r[Len(puts[d]) + 1] = w
  BY <1>1, <1>2, AppendFacts
<1>4. puts' = [puts EXCEPT ![d] = r]
  BY <1>2
<1>5. puts'[d] = r /\ \A e \in Device \ {d} : puts'[e] = puts[e]
  BY <1>1, <1>4
<1>6. puts' \in [Device -> Seq(Put)]
  BY <1>1, <1>3, <1>4
<1>7. Len(r) <= MaxPuts
  BY <1>1, <1>3, SessionAssumption
<1> QED
  BY <1>3, <1>5, <1>6, <1>7

\* A step that leaves server, writes and reads alone.
LEMMA TypeQuiet ==
  ASSUME TypeInv, UNCHANGED <<auth, users, reads, puts, applied>>,
         isLoggedIn' \in [Device -> BOOLEAN], currentUser' \in [Device -> Account \cup {Nobody}],
         instance' \in [Device -> Name], screen' \in [Device -> {"login", "home"}],
         tasks' \in [Device -> SUBSET Task], abandoned' \subseteq Account,
         crossed' \in [Device -> BOOLEAN]
  PROVE  TypeInv'
  BY Zenon DEF TypeInv, TypeOK

\* A step that leaves server and writes alone.
LEMMA TypeReading ==
  ASSUME TypeInv, UNCHANGED <<users, puts, applied>>, auth' \subseteq Account,
         reads' \in [Device -> Seq(Account)], \A d \in Device : IsInjective(reads'[d]),
         isLoggedIn' \in [Device -> BOOLEAN], currentUser' \in [Device -> Account \cup {Nobody}],
         instance' \in [Device -> Name], screen' \in [Device -> {"login", "home"}],
         tasks' \in [Device -> SUBSET Task], abandoned' \subseteq Account,
         crossed' \in [Device -> BOOLEAN]
  PROVE  TypeInv'
  BY Zenon DEF TypeInv, TypeOK

\* A sign-in that ends, and one that goes on as something else.
LEMMA TaskFacts ==
  ASSUME TypeOK, NEW d \in Device, NEW t \in tasks[d]
  PROVE  t \in Task /\ t.account \in Account
  BY DEF TypeOK, Task

LEMMA FinishFacts ==
  ASSUME TypeOK, NEW d \in Device, NEW t, Finish(d, t)
  PROVE  /\ tasks' \in [Device -> SUBSET Task]
         /\ tasks'[d] = tasks[d] \ {t}
         /\ \A e \in Device \ {d} : tasks'[e] = tasks[e]
  BY DEF TypeOK, Finish

LEMMA ReplaceFacts ==
  ASSUME TypeOK, NEW d \in Device, NEW t \in tasks[d], NEW k \in {"create", "fetch", "register"},
         Replace(d, t, k)
  PROVE  /\ tasks' \in [Device -> SUBSET Task]
         /\ \E x \in Task : /\ x.kind = k /\ x.account = t.account
                            /\ tasks'[d] = (tasks[d] \ {t}) \cup {x}
         /\ \A e \in Device \ {d} : tasks'[e] = tasks[e]
<1>1. tasks \in [Device -> SUBSET Task] /\ t \in Task
  BY DEF TypeOK
<1>2. PICK x : x = [t EXCEPT !.kind = k]
  OBVIOUS
<1>3. x \in Task /\ x.kind = k /\ x.account = t.account
  BY <1>1, <1>2 DEF Task
<1>4. tasks' = [tasks EXCEPT ![d] = (@ \ {t}) \cup {x}]
  BY <1>2 DEF Replace
<1>5. /\ tasks'[d] = (tasks[d] \ {t}) \cup {x}
      /\ \A e \in Device \ {d} : tasks'[e] = tasks[e]
  BY <1>1, <1>4
<1>6. tasks' \in [Device -> SUBSET Task]
  BY <1>1, <1>3, <1>4
<1> QED
  BY <1>3, <1>5, <1>6

LEMMA TypeInvTask ==
  ASSUME TypeInv, NEW d \in Device, NEW t \in tasks[d],
         \/ NotFound(d, t) \/ AlreadyThere(d, t) \/ SignedIn(d, t) \/ Registered(d, t)
         \/ TaskFails(d, t)
  PROVE  TypeInv'
<1>0. /\ TypeOK /\ auth \subseteq Account /\ isLoggedIn \in [Device -> BOOLEAN]
      /\ currentUser \in [Device -> Account \cup {Nobody}] /\ instance \in [Device -> Name]
      /\ screen \in [Device -> {"login", "home"}] /\ reads \in [Device -> Seq(Account)]
      /\ \A e \in Device : IsInjective(reads[e])
      /\ abandoned \subseteq Account /\ crossed \in [Device -> BOOLEAN]
      /\ t.account \in Account /\ tasks \in [Device -> SUBSET Task]
  BY TaskFacts DEF TypeInv, TypeOK
<1>1. CASE NotFound(d, t)
  <2>1. tasks' \in [Device -> SUBSET Task]
    BY <1>0, <1>1, FinishFacts, ReplaceFacts DEF NotFound
  <2>2. UNCHANGED <<auth, users, reads, puts, applied, isLoggedIn, currentUser, instance, screen,
                    abandoned, crossed>>
    BY <1>1 DEF NotFound, server, durable, queues
  <2> QED
    BY <1>0, <2>1, <2>2, TypeQuiet
<1>2. CASE AlreadyThere(d, t)
  <2>1. tasks' \in [Device -> SUBSET Task]
    BY <1>0, <1>2, FinishFacts DEF AlreadyThere
  <2>2. UNCHANGED <<auth, users, reads, puts, applied, isLoggedIn, currentUser, instance, screen,
                    abandoned, crossed>>
    BY <1>2 DEF AlreadyThere, server, durable, queues
  <2> QED
    BY <1>0, <2>1, <2>2, TypeQuiet
<1>3. CASE SignedIn(d, t)
  <2>1. FollowUp(t.kind) \in {"create", "fetch", "register"}
    BY DEF FollowUp
  <2>2. tasks' \in [Device -> SUBSET Task]
    <3>1. PICK k \in {"create", "fetch", "register"} : Replace(d, t, k)
      BY <1>3, <2>1 DEF SignedIn
    <3> QED
      BY <1>0, <3>1, ReplaceFacts
  <2>3. UNCHANGED <<users, puts, applied, instance, screen, abandoned, crossed>>
    BY <1>3 DEF SignedIn
  <2>4. /\ auth' \subseteq Account /\ isLoggedIn' \in [Device -> BOOLEAN]
        /\ currentUser' \in [Device -> Account \cup {Nobody}]
    BY <1>0, <1>3 DEF SignedIn
  <2>5. PICK r : r = (IF FollowUp(t.kind) = "fetch" THEN Reading(reads[d], t.account) ELSE reads[d])
    OBVIOUS
  <2>6. r \in Seq(Account) /\ IsInjective(r)
    BY <1>0, <2>5, ReadingFacts
  <2>7. reads' = [reads EXCEPT ![d] = r]
    BY <1>3, <2>5 DEF SignedIn
  <2>8. reads' \in [Device -> Seq(Account)]
    BY <1>0, <2>6, <2>7
  <2>9. \A e \in Device : IsInjective(reads'[e])
    BY <1>0, <2>6, <2>7
  <2> QED
    BY <1>0, <2>2, <2>3, <2>4, <2>8, <2>9, TypeReading
<1>4. CASE Registered(d, t)
  <2>1. tasks' \in [Device -> SUBSET Task]
    BY <1>0, <1>4, FinishFacts DEF Registered
  <2>2. PICK w : w = [account |-> t.account, whole |-> TRUE, name |-> instance[d]]
    OBVIOUS
  <2>3. w \in Put
    BY <1>0, <2>2 DEF Put
  <2>4. puts' = [puts EXCEPT ![d] = Append(@, w)] /\ Len(puts[d]) < MaxPuts
    BY <1>4, <2>2 DEF Registered
  <2>5. /\ puts' \in [Device -> Seq(Put)] /\ Len(puts'[d]) = Len(puts[d]) + 1
        /\ Len(puts'[d]) <= MaxPuts
        /\ \A e \in Device \ {d} : puts'[e] = puts[e]
    BY <1>0, <2>3, <2>4, PutAdded
  <2>6. GoHome(d, reads[d]) /\ reads[d] \in Seq(Account) /\ IsInjective(reads[d])
    BY <1>0, <1>4 DEF Registered
  <2>7. /\ reads' \in [Device -> Seq(Account)] /\ IsInjective(reads'[d])
        /\ \A e \in Device \ {d} : reads'[e] = reads[e]
        /\ screen' \in [Device -> {"login", "home"}]
    BY <1>0, <2>6, GoHomeFacts
  <2>8. \A e \in Device : IsInjective(reads'[e])
    BY <1>0, <2>7, Zenon
  <2>9. UNCHANGED <<auth, users, isLoggedIn, currentUser, instance, applied, abandoned, crossed>>
    BY <1>4 DEF Registered, server, durable
  <2>10. \A e \in Device : applied'[e] <= Len(puts'[e]) /\ Len(puts'[e]) <= MaxPuts
    <3>1. ASSUME NEW e \in Device PROVE applied'[e] <= Len(puts'[e]) /\ Len(puts'[e]) <= MaxPuts
      <4>1. /\ applied[e] \in Nat /\ Len(puts[e]) \in Nat /\ applied'[e] = applied[e]
            /\ applied[e] <= Len(puts[e]) /\ Len(puts[e]) <= MaxPuts
        BY <1>0, <2>9, PutsFacts
      <4>2. CASE e = d
        <5>1. applied'[d] = applied[d] /\ applied[d] <= Len(puts[d])
          BY <4>1, <4>2
        <5>2. applied[d] \in Nat /\ Len(puts[d]) \in Nat /\ Len(puts'[d]) = Len(puts[d]) + 1
          BY <2>5, <4>1, <4>2
        <5>3. applied'[d] <= Len(puts'[d])
          BY <5>1, <5>2
        <5> QED
          BY <2>5, <4>2, <5>3
      <4>3. CASE e # d
        BY <2>5, <4>1, <4>3
      <4> QED
        BY <4>2, <4>3
    <3> QED
      BY <3>1
  <2> QED
    BY <1>0, <2>1, <2>5, <2>7, <2>8, <2>9, <2>10 DEF TypeInv, TypeOK
<1>5. CASE TaskFails(d, t)
  <2>1. tasks' \in [Device -> SUBSET Task]
    BY <1>0, <1>5, FinishFacts DEF TaskFails
  <2>2. abandoned' \subseteq Account
    BY <1>0, <1>5 DEF TaskFails
  <2>3. UNCHANGED <<auth, users, reads, puts, applied, isLoggedIn, currentUser, instance, screen,
                    crossed>>
    BY <1>5 DEF TaskFails, server, durable, queues
  <2> QED
    BY <1>0, <2>1, <2>2, <2>3, TypeQuiet
<1> QED
  BY <1>1, <1>2, <1>3, <1>4, <1>5

\* Steps of the screens.
LEMMA TypeInvScreens ==
  ASSUME TypeInv, NEW d \in Device,
         Tap(d) \/ SheetCancelled(d) \/ Refresh(d) \/ ChangeName(d) \/ SignOut(d)
  PROVE  TypeInv'
<1>0. /\ TypeOK /\ auth \subseteq Account /\ isLoggedIn \in [Device -> BOOLEAN]
      /\ currentUser \in [Device -> Account \cup {Nobody}] /\ instance \in [Device -> Name]
      /\ screen \in [Device -> {"login", "home"}] /\ reads \in [Device -> Seq(Account)]
      /\ \A e \in Device : IsInjective(reads[e])
      /\ abandoned \subseteq Account /\ crossed \in [Device -> BOOLEAN]
      /\ tasks \in [Device -> SUBSET Task]
  BY DEF TypeInv, TypeOK
<1>1. CASE Tap(d)
  <2>1. PICK t \in Task : tasks' = [tasks EXCEPT ![d] = @ \cup {t}]
    BY <1>1 DEF Tap, Task, Account
  <2>2. tasks' \in [Device -> SUBSET Task]
    BY <1>0, <2>1
  <2>3. UNCHANGED <<auth, users, reads, puts, applied, isLoggedIn, currentUser, instance, screen,
                    abandoned, crossed>>
    BY <1>1 DEF Tap, server, durable, queues
  <2> QED
    BY <1>0, <2>2, <2>3, TypeQuiet
<1>2. CASE SheetCancelled(d) \/ Refresh(d)
  <2>1. GoHome(d, reads[d]) /\ reads[d] \in Seq(Account) /\ IsInjective(reads[d])
    BY <1>0, <1>2 DEF SheetCancelled, Refresh
  <2>2. /\ reads' \in [Device -> Seq(Account)] /\ IsInjective(reads'[d])
        /\ \A e \in Device \ {d} : reads'[e] = reads[e]
        /\ screen' \in [Device -> {"login", "home"}]
    BY <1>0, <2>1, GoHomeFacts
  <2>3. \A e \in Device : IsInjective(reads'[e])
    BY <1>0, <2>2, Zenon
  <2>4. UNCHANGED <<auth, users, isLoggedIn, currentUser, instance, tasks, puts, applied,
                    abandoned, crossed>>
    BY <1>2 DEF SheetCancelled, Refresh, server, durable
  <2> QED
    BY <1>0, <2>2, <2>3, <2>4, TypeReading
<1>3. CASE ChangeName(d)
  <2>1. currentUser[d] \in Account
    BY <1>0, <1>3 DEF ChangeName
  <2>2. PICK w : w = [account |-> currentUser[d], whole |-> FALSE, name |-> currentUser[d]]
    OBVIOUS
  <2>3. w \in Put
    BY <2>1, <2>2 DEF Put, Name
  <2>4. puts' = [puts EXCEPT ![d] = Append(@, w)] /\ Len(puts[d]) < MaxPuts
    BY <1>3, <2>2 DEF ChangeName
  <2>5. /\ puts' \in [Device -> Seq(Put)] /\ Len(puts'[d]) = Len(puts[d]) + 1
        /\ Len(puts'[d]) <= MaxPuts
        /\ \A e \in Device \ {d} : puts'[e] = puts[e]
    BY <1>0, <2>3, <2>4, PutAdded
  <2>6. PICK r : r = AfterChange(d)
    OBVIOUS
  <2>7. r \in Seq(Account) /\ IsInjective(r)
    BY <1>0, <2>6, ReadingFacts DEF AfterChange
  <2>8. reads' = [reads EXCEPT ![d] = r]
    BY <1>3, <2>6 DEF ChangeName
  <2>9. reads' \in [Device -> Seq(Account)] /\ \A e \in Device : IsInjective(reads'[e])
    BY <1>0, <2>7, <2>8
  <2>10. UNCHANGED <<auth, users, isLoggedIn, currentUser, instance, screen, tasks, applied,
                     abandoned>>
    BY <1>3 DEF ChangeName, server, durable
  <2>11. crossed' \in [Device -> BOOLEAN]
    <3>1. PICK b \in BOOLEAN : b = (crossed[d] \/ tasks[d] # {})
      OBVIOUS
    <3>2. crossed' = [crossed EXCEPT ![d] = b]
      BY <1>3, <3>1 DEF ChangeName
    <3> QED
      BY <1>0, <3>2
  <2>12. \A e \in Device : applied'[e] <= Len(puts'[e]) /\ Len(puts'[e]) <= MaxPuts
    <3>1. ASSUME NEW e \in Device PROVE applied'[e] <= Len(puts'[e]) /\ Len(puts'[e]) <= MaxPuts
      <4>1. /\ applied[e] \in Nat /\ Len(puts[e]) \in Nat /\ applied'[e] = applied[e]
            /\ applied[e] <= Len(puts[e]) /\ Len(puts[e]) <= MaxPuts
        BY <1>0, <2>10, PutsFacts
      <4>2. CASE e = d
        BY <2>5, <4>1, <4>2
      <4>3. CASE e # d
        BY <2>5, <4>1, <4>3
      <4> QED
        BY <4>2, <4>3
    <3> QED
      BY <3>1
  <2> QED
    BY <1>0, <2>5, <2>9, <2>10, <2>11, <2>12 DEF TypeInv, TypeOK
<1>4. CASE SignOut(d)
  <2>1. UNCHANGED <<auth, users, reads, puts, applied, tasks, abandoned>>
    BY <1>4 DEF SignOut, server, queues
  <2>2. /\ isLoggedIn' \in [Device -> BOOLEAN] /\ instance' \in [Device -> Name]
        /\ currentUser' \in [Device -> Account \cup {Nobody}]
        /\ screen' \in [Device -> {"login", "home"}]
    BY <1>0, <1>4 DEF SignOut, FlagAfterSignOut, Name
  <2>3. crossed' \in [Device -> BOOLEAN]
    <3>1. PICK b \in BOOLEAN : b = (crossed[d] \/ tasks[d] # {})
      OBVIOUS
    <3>2. crossed' = [crossed EXCEPT ![d] = b]
      BY <1>4, <3>1 DEF SignOut
    <3> QED
      BY <1>0, <3>2
  <2> QED
    BY <1>0, <2>1, <2>2, <2>3, TypeQuiet
<1> QED
  BY <1>1, <1>2, <1>3, <1>4

\* Steps of the process, of the connection and of the server.
LEMMA TypeInvRest ==
  ASSUME TypeInv, NEW d \in Device,
         \/ Kill(d) \/ ReadCrashes(d) \/ ReadAnswered(d)
         \/ Apply(d) \/ Ack(d) \/ Disconnect(d)
  PROVE  TypeInv'
<1>0. /\ TypeOK /\ auth \subseteq Account /\ isLoggedIn \in [Device -> BOOLEAN]
      /\ currentUser \in [Device -> Account \cup {Nobody}] /\ instance \in [Device -> Name]
      /\ screen \in [Device -> {"login", "home"}] /\ reads \in [Device -> Seq(Account)]
      /\ \A e \in Device : IsInjective(reads[e])
      /\ abandoned \subseteq Account /\ crossed \in [Device -> BOOLEAN]
      /\ tasks \in [Device -> SUBSET Task] /\ users \in [Account -> Record]
      /\ puts \in [Device -> Seq(Put)] /\ applied \in [Device -> Nat]
      /\ \A e \in Device : applied[e] <= Len(puts[e]) /\ Len(puts[e]) <= MaxPuts
      /\ \A a \in Account : users[a].whole => users[a].name \in Name
  BY DEF TypeInv, TypeOK
<1>1. CASE Launch(d)
  <2>1. /\ reads' \in [Device -> Seq(Account)] /\ \A e \in Device : IsInjective(reads'[e])
        /\ screen' \in [Device -> {"login", "home"}]
    BY <1>0, <1>1, LaunchFacts
  <2>2. /\ instance' \in [Device -> Name] /\ tasks' \in [Device -> SUBSET Task]
        /\ crossed' \in [Device -> BOOLEAN] /\ applied' \in [Device -> Nat]
    BY <1>0, <1>1 DEF Launch, Name
  <2>3. \A S : <<>> \in Seq(S) /\ Len(<<>>) = 0
    BY EmptySeq
  <2>4. puts' \in [Device -> Seq(Put)]
    BY <1>0, <1>1, <2>3 DEF Launch
  <2>5. \A e \in Device : applied'[e] <= Len(puts'[e]) /\ Len(puts'[e]) <= MaxPuts
    BY <1>0, <1>1, <2>3, SessionAssumption DEF Launch
  <2>6. abandoned' \subseteq Account
    <3>1. \A t \in tasks[d] : t.account \in Account
      BY <1>0 DEF Task
    <3>2. \A w \in Range(puts[d]) : w.account \in Account
      <4>1. puts[d] \in Seq(Put)
        BY <1>0
      <4>2. Range(puts[d]) \subseteq Put
        BY <4>1, RangeFacts
      <4> QED
        BY <4>2 DEF Put
    <3> QED
      BY <1>0, <1>1, <3>1, <3>2 DEF Launch
  <2>7. UNCHANGED <<auth, users, isLoggedIn, currentUser>>
    BY <1>1 DEF Launch, server, durable
  <2> QED
    BY <1>0, <2>1, <2>2, <2>4, <2>5, <2>6, <2>7 DEF TypeInv, TypeOK
<1>2. CASE ReadAnswered(d)
  <2> DEFINE a == Head(reads[d])
             waiting == [kind |-> "fetch", account |-> a]
  <2>1. reads[d] # <<>> /\ reads[d] \in Seq(Account) /\ IsInjective(reads[d])
    BY <1>0, <1>2 DEF ReadAnswered
  <2>2. a \in Account /\ Tail(reads[d]) \in Seq(Account) /\ IsInjective(Tail(reads[d]))
    BY <2>1, AnsweredFacts
  <2>3. Finish(d, waiting) /\ Seen(d, a).whole
        /\ instance' = [instance EXCEPT ![d] = Seen(d, a).name]
    BY <1>2 DEF ReadAnswered, Complete
  <2>4. tasks' \in [Device -> SUBSET Task]
    BY <1>0, <2>3, FinishFacts
  <2>5. Seen(d, a).name \in Name
    <3>1. CASE Own(d, a) = {}
      BY <1>0, <2>2, <2>3, <3>1, SeenFacts
    <3>2. CASE Own(d, a) # {}
      <4>1. PICK i \in Own(d, a) : Seen(d, a).name = puts[d][i].name
        BY <1>0, <2>2, <3>2, SeenFacts
      <4> QED
        BY <1>0, <4>1, PutsFacts DEF Own
    <3> QED
      BY <3>1, <3>2
  <2>6. instance' \in [Device -> Name]
    BY <1>0, <2>3, <2>5
  <2>7. /\ reads' \in [Device -> Seq(Account)] /\ \A e \in Device : IsInjective(reads'[e])
        /\ screen' \in [Device -> {"login", "home"}]
    <3>1. CASE GoHome(d, Tail(reads[d]))
      <4>1. /\ reads' \in [Device -> Seq(Account)] /\ IsInjective(reads'[d])
            /\ \A e \in Device \ {d} : reads'[e] = reads[e]
            /\ screen' \in [Device -> {"login", "home"}]
        BY <1>0, <2>2, <3>1, GoHomeFacts
      <4> QED
        BY <1>0, <4>1, Zenon
    <3>2. CASE reads' = [reads EXCEPT ![d] = Tail(@)] /\ UNCHANGED screen
      <4>1. PICK q : q = Tail(reads[d])
        OBVIOUS
      <4> QED
        BY <1>0, <2>2, <3>2, <4>1
    <3> QED
      BY <1>2, <3>1, <3>2 DEF ReadAnswered
  <2>8. UNCHANGED <<auth, users, isLoggedIn, currentUser, puts, applied, abandoned, crossed>>
    BY <1>2 DEF ReadAnswered, server, durable
  <2> QED
    BY <1>0, <2>4, <2>6, <2>7, <2>8, TypeReading
<1>3. CASE Apply(d)
  <2>1. /\ applied[d] \in Nat /\ Len(puts[d]) \in Nat /\ applied[d] < Len(puts[d])
    BY <1>0, <1>3, PutsFacts DEF Apply
  <2>2. PICK w : w = puts[d][applied[d] + 1]
    OBVIOUS
  <2>3. w \in Put /\ w.account \in Account /\ w.whole \in BOOLEAN /\ w.name \in Name
    <3>1. \A i \in 1..Len(puts[d]) :
            /\ puts[d][i] \in Put /\ puts[d][i].account \in Account
            /\ puts[d][i].whole \in BOOLEAN /\ puts[d][i].name \in Name
      BY <1>0, PutsFacts
    <3>2. applied[d] + 1 \in 1..Len(puts[d])
      BY <2>1
    <3> QED
      BY <2>2, <3>1, <3>2
  <2>4. PICK r : r = Written(users[w.account], w)
    OBVIOUS
  <2>5. users' = [users EXCEPT ![w.account] = r]
    BY <1>3, <2>2, <2>4 DEF Apply
  <2>6. r \in Record /\ r.name \in Name
    <3>1. users[w.account].whole \in BOOLEAN
      BY <1>0, <2>3 DEF Record
    <3> QED
      BY <2>3, <2>4, <3>1 DEF Written, Record
  <2>7. /\ users' \in [Account -> Record]
        /\ \A a \in Account : users'[a].whole => users'[a].name \in Name
    BY <1>0, <2>3, <2>5, <2>6
  <2>8. applied' = [applied EXCEPT ![d] = @ + 1]
    BY <1>3 DEF Apply
  <2>9. applied' \in [Device -> Nat]
    BY <1>0, <2>8
  <2>10. UNCHANGED <<auth, isLoggedIn, currentUser, instance, screen, tasks, reads, puts,
                     abandoned, crossed>>
    BY <1>3 DEF Apply, durable
  <2>11. \A e \in Device : applied'[e] <= Len(puts'[e]) /\ Len(puts'[e]) <= MaxPuts
    BY <1>0, <2>1, <2>8, <2>10
  <2> QED
    BY <1>0, <2>7, <2>9, <2>10, <2>11 DEF TypeInv, TypeOK
<1>4. CASE Ack(d)
  <2>1. /\ applied[d] \in Nat /\ Len(puts[d]) \in Nat /\ 0 < applied[d]
        /\ applied[d] <= Len(puts[d]) /\ Len(puts[d]) <= MaxPuts /\ puts[d] \in Seq(Put)
    BY <1>0, <1>4, PutsFacts DEF Ack
  <2>2. puts[d] # <<>>
    BY <2>1, EmptySeq
  <2>3. PICK q : q = Tail(puts[d])
    OBVIOUS
  <2>4. q \in Seq(Put) /\ Len(q) = Len(puts[d]) - 1
    BY <2>1, <2>2, <2>3, TailFacts
  <2>5. puts' = [puts EXCEPT ![d] = q] /\ applied' = [applied EXCEPT ![d] = @ - 1]
    BY <1>4, <2>3 DEF Ack
  <2>6. puts' \in [Device -> Seq(Put)]
    BY <1>0, <2>4, <2>5
  <2>7. applied' \in [Device -> Nat]
    BY <1>0, <2>1, <2>5
  <2>8. \A e \in Device : applied'[e] <= Len(puts'[e]) /\ Len(puts'[e]) <= MaxPuts
    <3>1. applied'[d] = applied[d] - 1 /\ puts'[d] = q
          /\ \A e \in Device \ {d} : applied'[e] = applied[e] /\ puts'[e] = puts[e]
      BY <1>0, <2>5
    <3>2. applied'[d] <= Len(puts'[d]) /\ Len(puts'[d]) <= MaxPuts
      BY <2>1, <2>4, <3>1, SessionAssumption
    <3> QED
      BY <1>0, <3>1, <3>2, Zenon
  <2>9. UNCHANGED <<auth, users, isLoggedIn, currentUser, instance, screen, tasks, reads,
                    abandoned, crossed>>
    BY <1>4 DEF Ack, server, durable
  <2> QED
    BY <1>0, <2>6, <2>7, <2>8, <2>9 DEF TypeInv, TypeOK
<1>5. CASE Disconnect(d)
  <2>1. PICK order \in Bijection(DOMAIN reads[d], DOMAIN reads[d]) :
          reads' = [reads EXCEPT ![d] = [i \in DOMAIN @ |-> @[order[i]]]]
    BY <1>5 DEF Disconnect
  <2>2. PICK q : q = [i \in DOMAIN reads[d] |-> reads[d][order[i]]]
    OBVIOUS
  <2>3. reads[d] \in Seq(Account) /\ IsInjective(reads[d])
    BY <1>0
  <2>4. q \in Seq(Account) /\ IsInjective(q)
    BY <2>2, <2>3, PermutedFacts
  <2>5. reads' = [reads EXCEPT ![d] = q]
    BY <2>1, <2>2
  <2>6. reads' \in [Device -> Seq(Account)] /\ \A e \in Device : IsInjective(reads'[e])
    BY <1>0, <2>4, <2>5
  <2>7. UNCHANGED <<auth, users, isLoggedIn, currentUser, instance, screen, tasks, abandoned, crossed>>
    BY <1>5 DEF Disconnect, server, durable
  <2>8. puts' = puts /\ applied' = [applied EXCEPT ![d] = 0]
    BY <1>0, <1>5 DEF Disconnect, Resent
  <2>9. applied' \in [Device -> Nat]
    BY <1>0, <2>8
  <2>10. \A e \in Device : applied'[e] <= Len(puts'[e]) /\ Len(puts'[e]) <= MaxPuts
    <3>1. ASSUME NEW e \in Device PROVE applied'[e] <= Len(puts'[e]) /\ Len(puts'[e]) <= MaxPuts
      <4>1. Len(puts[e]) \in Nat /\ applied[e] \in Nat
        BY <1>0, PutsFacts
      <4>2. applied'[e] = 0 \/ applied'[e] = applied[e]
        BY <1>0, <2>8
      <4> QED
        BY <1>0, <2>8, <4>1, <4>2
    <3> QED
      BY <3>1
  <2> QED
    BY <1>0, <2>6, <2>7, <2>8, <2>9, <2>10 DEF TypeInv, TypeOK
<1> QED
  BY <1>1, <1>2, <1>3, <1>4, <1>5 DEF Kill, ReadCrashes

LEMMA TypeInvNext == ASSUME TypeInv, [Next]_vars PROVE TypeInv'
<1>1. CASE Next
  <2>1. PICK d \in Device :
          \/ Tap(d) \/ SheetCancelled(d) \/ TaskStep(d)
          \/ \E t \in tasks[d] : TaskFails(d, t)
          \/ Refresh(d) \/ ChangeName(d) \/ SignOut(d)
          \/ ReadAnswered(d) \/ ReadCrashes(d) \/ Apply(d) \/ Ack(d)
          \/ Kill(d) \/ Disconnect(d)
    BY <1>1 DEF Next
  <2>2. CASE TaskStep(d) \/ \E t \in tasks[d] : TaskFails(d, t)
    BY <2>2, TypeInvTask DEF TaskStep
  <2> QED
    BY <2>1, <2>2, TypeInvScreens, TypeInvRest
<1>2. CASE UNCHANGED vars
  BY <1>2, TypeQuiet DEF vars, server, durable, queues, TypeInv, TypeOK
<1> QED
  BY <1>1, <1>2

\* The device's and the server's state keep their types: no read is asked
\* for twice, no more writes are applied than are outstanding, and a record
\* registration has written has a name to show.
THEOREM TypeCorrect == Spec => []TypeOK
<1>1. Init => TypeInv
  BY TypeInvInit
<1>2. TypeInv /\ [Next]_vars => TypeInv'
  BY TypeInvNext
<1>3. TypeInv => TypeOK
  BY DEF TypeInv
<1> QED
  BY <1>1, <1>2, <1>3, PTL DEF Spec

-----------------------------------------------------------------------------
(***************************************************************************)
(* The home screen is open for somebody.                                   *)
(***************************************************************************)
\* The flag stands for a signed-in user, and as long as nobody crosses the
\* sign-ins the home screen and what leads to it stand for the flag.
Flag(d) ==
  /\ isLoggedIn[d] => currentUser[d] # Nobody
  /\ screen[d] = "home" /\ ~crossed[d] => isLoggedIn[d]
  /\ \A t \in tasks[d] : t.kind \in {"register", "fetch"} /\ ~crossed[d] => isLoggedIn[d]

FlagInv == \A d \in Device : Flag(d)

SameUser(e) ==
  /\ isLoggedIn'[e] = isLoggedIn[e] /\ currentUser'[e] = currentUser[e]
  /\ screen'[e] = screen[e] /\ crossed'[e] = crossed[e] /\ tasks'[e] = tasks[e]

LEMMA FlagSame == ASSUME FlagInv, NEW e \in Device, SameUser(e) PROVE Flag(e)'
  BY DEF FlagInv, Flag, SameUser

LEMMA FlagTask ==
  ASSUME TypeInv, FlagInv, NEW d \in Device, NEW t \in tasks[d],
         \/ NotFound(d, t) \/ AlreadyThere(d, t) \/ SignedIn(d, t) \/ Registered(d, t)
         \/ TaskFails(d, t)
  PROVE  FlagInv'
<1>0. TypeOK /\ t \in Task /\ t.account \in Account /\ Flag(d)
  BY TaskFacts DEF TypeInv, FlagInv
<1>1. CASE Finish(d, t) /\ UNCHANGED <<isLoggedIn, currentUser, crossed, screen>>
  <2>1. /\ tasks'[d] = tasks[d] \ {t}
        /\ \A e \in Device \ {d} : tasks'[e] = tasks[e]
    BY <1>0, <1>1, FinishFacts
  <2>2. Flag(d)'
    BY <1>0, <1>1, <2>1 DEF Flag
  <2>3. \A e \in Device \ {d} : SameUser(e)
    BY <1>1, <2>1 DEF SameUser
  <2> QED
    BY <2>2, <2>3, FlagSame DEF FlagInv
<1>2. CASE Replace(d, t, "create") /\ UNCHANGED <<isLoggedIn, currentUser, crossed, screen>>
  <2>1. PICK x \in Task : /\ x.kind = "create"
                          /\ tasks'[d] = (tasks[d] \ {t}) \cup {x}
                          /\ \A e \in Device \ {d} : tasks'[e] = tasks[e]
    BY <1>0, <1>2, ReplaceFacts
  <2>2. Flag(d)'
    BY <1>0, <1>2, <2>1 DEF Flag
  <2>3. \A e \in Device \ {d} : SameUser(e)
    BY <1>2, <2>1 DEF SameUser
  <2> QED
    BY <2>2, <2>3, FlagSame DEF FlagInv
<1>3. CASE SignedIn(d, t)
  <2>1. PICK k \in {"fetch", "register"} : Replace(d, t, k)
    BY <1>3 DEF SignedIn, FollowUp
  <2>2. \A e \in Device \ {d} : tasks'[e] = tasks[e]
    BY <1>0, <2>1, ReplaceFacts
  <2>3. /\ isLoggedIn' = [isLoggedIn EXCEPT ![d] = TRUE]
        /\ currentUser' = [currentUser EXCEPT ![d] = t.account]
        /\ UNCHANGED <<screen, crossed>>
    BY <1>3 DEF SignedIn
  <2>4. isLoggedIn \in [Device -> BOOLEAN] /\ currentUser \in [Device -> Account \cup {Nobody}]
    BY <1>0 DEF TypeOK
  <2>5. isLoggedIn'[d] = TRUE /\ currentUser'[d] = t.account
    BY <2>3, <2>4
  <2>6. Flag(d)'
    BY <1>0, <2>5, SessionAssumption DEF Flag
  <2>7. \A e \in Device \ {d} : SameUser(e)
    BY <2>2, <2>3, <2>4 DEF SameUser
  <2> QED
    BY <2>6, <2>7, FlagSame DEF FlagInv
<1>4. CASE Registered(d, t)
  <2>1. /\ tasks'[d] = tasks[d] \ {t}
        /\ \A e \in Device \ {d} : tasks'[e] = tasks[e]
    BY <1>0, <1>4, FinishFacts DEF Registered
  <2>2. UNCHANGED <<isLoggedIn, currentUser, crossed>> /\ t.kind = "register"
        /\ screen' = [screen EXCEPT ![d] = "home"]
    BY <1>4 DEF Registered, GoHome, durable
  <2>3. screen \in [Device -> {"login", "home"}]
    BY <1>0 DEF TypeOK
  <2>4. ~crossed[d] => isLoggedIn[d]
    BY <1>0, <2>2 DEF Flag
  <2>5. Flag(d)'
    BY <1>0, <2>1, <2>2, <2>4 DEF Flag
  <2>6. \A e \in Device \ {d} : SameUser(e)
    BY <2>1, <2>2, <2>3 DEF SameUser
  <2> QED
    BY <2>5, <2>6, FlagSame DEF FlagInv
<1> QED
  BY <1>1, <1>2, <1>3, <1>4 DEF NotFound, AlreadyThere, TaskFails, durable

LEMMA FlagRest ==
  ASSUME TypeInv, FlagInv, NEW d \in Device,
         \/ Tap(d) \/ SheetCancelled(d) \/ Refresh(d) \/ ChangeName(d) \/ SignOut(d)
         \/ Kill(d) \/ ReadCrashes(d) \/ ReadAnswered(d)
         \/ Apply(d) \/ Ack(d) \/ Disconnect(d)
  PROVE  FlagInv'
<1>0. /\ TypeOK /\ Flag(d) /\ isLoggedIn \in [Device -> BOOLEAN]
      /\ currentUser \in [Device -> Account \cup {Nobody}]
      /\ screen \in [Device -> {"login", "home"}]
      /\ crossed \in [Device -> BOOLEAN] /\ tasks \in [Device -> SUBSET Task]
      /\ reads[d] \in Seq(Account) /\ IsInjective(reads[d])
  BY DEF TypeInv, TypeOK, FlagInv
<1>1. CASE Tap(d)
  <2>1. PICK t \in Task : t.kind \notin {"register", "fetch"}
                          /\ tasks' = [tasks EXCEPT ![d] = @ \cup {t}]
    BY <1>1 DEF Tap, Task, Account
  <2>2. UNCHANGED <<isLoggedIn, currentUser, crossed, screen>>
    BY <1>1 DEF Tap, durable
  <2>3. tasks'[d] = tasks[d] \cup {t} /\ \A e \in Device \ {d} : tasks'[e] = tasks[e]
    BY <1>0, <2>1
  <2>4. Flag(d)'
    BY <1>0, <2>1, <2>2, <2>3 DEF Flag
  <2>5. \A e \in Device \ {d} : SameUser(e)
    BY <2>2, <2>3 DEF SameUser
  <2> QED
    BY <2>4, <2>5, FlagSame DEF FlagInv
<1>2. CASE SheetCancelled(d) \/ Refresh(d)
  <2>1. UNCHANGED <<isLoggedIn, currentUser, crossed, tasks>>
        /\ screen' = [screen EXCEPT ![d] = "home"]
    BY <1>2 DEF SheetCancelled, Refresh, GoHome, durable
  <2>2. ~crossed[d] => isLoggedIn[d]
    BY <1>0, <1>2 DEF Flag, SheetCancelled, Refresh
  <2>3. Flag(d)'
    BY <1>0, <2>1, <2>2 DEF Flag
  <2>4. \A e \in Device \ {d} : SameUser(e)
    BY <1>0, <2>1 DEF SameUser
  <2> QED
    BY <2>3, <2>4, FlagSame DEF FlagInv
<1>3. CASE ChangeName(d)
  <2>1. PICK b \in BOOLEAN : b = (crossed[d] \/ tasks[d] # {})
    OBVIOUS
  <2>2. crossed' = [crossed EXCEPT ![d] = b]
        /\ UNCHANGED <<isLoggedIn, currentUser, screen, tasks>>
    BY <1>3, <2>1 DEF ChangeName, durable
  <2>3. (~crossed'[d] => ~crossed[d]) /\ \A e \in Device \ {d} : crossed'[e] = crossed[e]
    BY <1>0, <2>1, <2>2
  <2>4. Flag(d)'
    BY <1>0, <2>2, <2>3 DEF Flag
  <2>5. \A e \in Device \ {d} : SameUser(e)
    BY <2>2, <2>3 DEF SameUser
  <2> QED
    BY <2>4, <2>5, FlagSame DEF FlagInv
<1>4. CASE SignOut(d)
  <2>1. PICK b \in BOOLEAN : b = (crossed[d] \/ tasks[d] # {})
    OBVIOUS
  <2>2. /\ crossed' = [crossed EXCEPT ![d] = b] /\ tasks' = tasks
        /\ currentUser' = [currentUser EXCEPT ![d] = Nobody]
        /\ isLoggedIn' = [isLoggedIn EXCEPT ![d] = FALSE]
        /\ screen' = [screen EXCEPT ![d] = "login"]
    BY <1>4, <2>1 DEF SignOut, FlagAfterSignOut
  <2>3. /\ ~isLoggedIn'[d] /\ screen'[d] = "login" /\ (~crossed'[d] => tasks'[d] = {})
    BY <1>0, <2>1, <2>2
  <2>4. Flag(d)'
    BY <2>3 DEF Flag
  <2>5. \A e \in Device \ {d} : SameUser(e)
    BY <1>0, <2>2 DEF SameUser
  <2> QED
    BY <2>4, <2>5, FlagSame DEF FlagInv
<1>5. CASE Launch(d)
  <2>1. /\ \A e \in Device \ {d} : screen'[e] = screen[e]
        /\ screen'[d] = (IF isLoggedIn[d] THEN "home" ELSE "login")
    BY <1>0, <1>5, LaunchFacts
  <2>2. /\ tasks' = [tasks EXCEPT ![d] = {}] /\ crossed' = [crossed EXCEPT ![d] = FALSE]
        /\ UNCHANGED <<isLoggedIn, currentUser>>
    BY <1>5 DEF Launch, durable
  <2>3. tasks'[d] = {}
    BY <1>0, <2>2
  <2>4. Flag(d)'
    BY <1>0, <2>1, <2>2, <2>3 DEF Flag
  <2>5. \A e \in Device \ {d} : SameUser(e)
    BY <1>0, <2>1, <2>2 DEF SameUser
  <2> QED
    BY <2>4, <2>5, FlagSame DEF FlagInv
<1>6. CASE ReadAnswered(d)
  <2>1. PICK t : /\ t.kind = "fetch" /\ Finish(d, t)
                 /\ \/ t \in tasks[d] /\ screen' = [screen EXCEPT ![d] = "home"]
                    \/ UNCHANGED screen
    BY <1>6 DEF ReadAnswered, GoHome
  <2>2. /\ tasks'[d] = tasks[d] \ {t}
        /\ \A e \in Device \ {d} : tasks'[e] = tasks[e]
    BY <1>0, <2>1, FinishFacts
  <2>3. UNCHANGED <<isLoggedIn, currentUser, crossed>>
    BY <1>6 DEF ReadAnswered, durable
  <2>4. t \in tasks[d] /\ ~crossed[d] => isLoggedIn[d]
    BY <1>0, <2>1 DEF Flag
  <2>5. Flag(d)'
    BY <1>0, <2>1, <2>2, <2>3, <2>4 DEF Flag
  <2>6. \A e \in Device \ {d} : SameUser(e)
    BY <1>0, <2>1, <2>2, <2>3 DEF SameUser
  <2> QED
    BY <2>5, <2>6, FlagSame DEF FlagInv
<1>7. CASE Apply(d) \/ Ack(d) \/ Disconnect(d)
  <2>1. \A e \in Device : SameUser(e)
    BY <1>7 DEF Apply, Ack, Disconnect, durable, SameUser
  <2> QED
    BY <2>1, FlagSame DEF FlagInv
<1> QED
  BY <1>1, <1>2, <1>3, <1>4, <1>5, <1>6, <1>7 DEF Kill, ReadCrashes

LEMMA FlagNext == ASSUME TypeInv, FlagInv, [Next]_vars PROVE FlagInv'
<1>1. CASE Next
  <2>1. PICK d \in Device :
          \/ Tap(d) \/ SheetCancelled(d) \/ TaskStep(d)
          \/ \E t \in tasks[d] : TaskFails(d, t)
          \/ Refresh(d) \/ ChangeName(d) \/ SignOut(d)
          \/ ReadAnswered(d) \/ ReadCrashes(d) \/ Apply(d) \/ Ack(d)
          \/ Kill(d) \/ Disconnect(d)
    BY <1>1 DEF Next
  <2>2. CASE TaskStep(d) \/ \E t \in tasks[d] : TaskFails(d, t)
    BY <2>2, FlagTask DEF TaskStep
  <2> QED
    BY <2>1, <2>2, FlagRest
<1>2. CASE UNCHANGED vars
  <2>1. \A e \in Device : SameUser(e)
    BY <1>2 DEF vars, durable, SameUser
  <2> QED
    BY <2>1, FlagSame DEF FlagInv
<1> QED
  BY <1>1, <1>2

\* The home screen is open only for somebody the flag and Firebase Auth agree
\* about, as long as nobody signs out or changes the name while a sign-in is
\* under way.  The flag alone would not do: it has to stand for a user
\* through every sign-in, so the sign-ins that lead home carry it too.
THEOREM HomeHasUser == Spec => []HomeKnowsUser
<1>1. Init => TypeInv /\ FlagInv
  BY TypeInvInit DEF Init, FlagInv, Flag
<1>2. TypeInv /\ FlagInv /\ [Next]_vars => (TypeInv /\ FlagInv)'
  BY TypeInvNext, FlagNext
<1>3. FlagInv => HomeKnowsUser
  BY DEF FlagInv, Flag, HomeKnowsUser
<1> QED
  BY <1>1, <1>2, <1>3, PTL DEF Spec

-----------------------------------------------------------------------------
(***************************************************************************)
(* Nothing is done in the name of an account that does not exist.          *)
(***************************************************************************)
DeviceStep(d) ==
  \/ Tap(d) \/ SheetCancelled(d) \/ TaskStep(d)
  \/ \E t \in tasks[d] : TaskFails(d, t)
  \/ Refresh(d) \/ ChangeName(d) \/ SignOut(d)
  \/ ReadAnswered(d) \/ ReadCrashes(d) \/ Apply(d) \/ Ack(d)
  \/ Kill(d) \/ Disconnect(d)

\* What the invariants below speak of on a device.
SameDevice(e) ==
  /\ currentUser'[e] = currentUser[e] /\ screen'[e] = screen[e]
  /\ tasks'[e] = tasks[e] /\ reads'[e] = reads[e]
  /\ puts'[e] = puts[e] /\ applied'[e] = applied[e]

LEMMA OthersStay ==
  ASSUME TypeInv, NEW d \in Device, DeviceStep(d), NEW e \in Device, e # d
  PROVE  SameDevice(e)
<1>0. /\ currentUser \in [Device -> Account \cup {Nobody}]
      /\ screen \in [Device -> {"login", "home"}] /\ tasks \in [Device -> SUBSET Task]
      /\ reads \in [Device -> Seq(Account)] /\ puts \in [Device -> Seq(Put)]
      /\ applied \in [Device -> Nat]
  BY DEF TypeInv, TypeOK
<1>1. CASE TaskStep(d) \/ \E t \in tasks[d] : TaskFails(d, t)
  BY <1>0, <1>1 DEF TaskStep, NotFound, AlreadyThere, SignedIn, Registered, TaskFails, Finish,
     Replace, GoHome, SameDevice, durable, queues
<1>2. CASE Tap(d) \/ SheetCancelled(d) \/ Refresh(d)
  BY <1>0, <1>2 DEF Tap, SheetCancelled, Refresh, GoHome, SameDevice, durable, queues
<1>3. CASE ChangeName(d)
  BY <1>0, <1>3 DEF ChangeName, SameDevice, durable
<1>4. CASE SignOut(d)
  BY <1>0, <1>4 DEF SignOut, SameDevice, queues
<1>5. CASE Launch(d)
  BY <1>0, <1>5 DEF Launch, GoHome, SameDevice, durable
<1>6. CASE ReadAnswered(d)
  BY <1>0, <1>6 DEF ReadAnswered, Finish, GoHome, SameDevice, durable
<1>7. CASE Apply(d) \/ Ack(d)
  BY <1>0, <1>7 DEF Apply, Ack, SameDevice, durable
<1>8. CASE Disconnect(d)
  BY <1>0, <1>8 DEF Disconnect, Resent, SameDevice, durable
<1> QED
  BY <1>1, <1>2, <1>3, <1>4, <1>5, <1>6, <1>7, <1>8 DEF DeviceStep, Kill, ReadCrashes

\* The server stores a write.
LEMMA ApplyFacts ==
  ASSUME TypeInv, NEW d \in Device, Apply(d)
  PROVE  /\ applied[d] + 1 \in 1..Len(puts[d]) /\ applied'[d] = applied[d] + 1
         /\ users'[puts[d][applied[d] + 1].account].name = puts[d][applied[d] + 1].name
         /\ \A a \in Account : a # puts[d][applied[d] + 1].account => users'[a] = users[a]
<1>1. /\ applied[d] \in Nat /\ Len(puts[d]) \in Nat /\ applied[d] < Len(puts[d])
  BY PutsFacts DEF Apply, TypeInv
<1>2. users \in [Account -> Record] /\ applied \in [Device -> Nat]
  BY DEF TypeInv, TypeOK
<1>3. PICK w : w = puts[d][applied[d] + 1]
  OBVIOUS
<1>4. applied[d] + 1 \in 1..Len(puts[d])
  BY <1>1
<1>5. w.account \in Account
  <2>1. \A i \in 1..Len(puts[d]) : puts[d][i].account \in Account
    BY PutsFacts DEF TypeInv
  <2> QED
    BY <1>3, <1>4, <2>1
<1>6. users' = [users EXCEPT ![w.account] = Written(@, w)]
      /\ applied' = [applied EXCEPT ![d] = @ + 1]
  BY <1>3 DEF Apply
<1>7. users'[w.account] = Written(users[w.account], w)
      /\ \A a \in Account : a # w.account => users'[a] = users[a]
  BY <1>2, <1>5, <1>6
<1>8. users'[w.account].name = w.name
  BY <1>7 DEF Written
<1> QED
  BY <1>2, <1>3, <1>4, <1>6, <1>7, <1>8

\* A write is confirmed.
LEMMA AckFacts ==
  ASSUME TypeInv, NEW d \in Device, Ack(d)
  PROVE  /\ Len(puts[d]) \in Nat \ {0} /\ Len(puts'[d]) = Len(puts[d]) - 1
         /\ DOMAIN puts'[d] = 1..Len(puts[d]) - 1
         /\ \A i \in 1..Len(puts[d]) - 1 : puts'[d][i] = puts[d][i + 1]
         /\ applied[d] \in Nat \ {0} /\ applied[d] <= Len(puts[d])
         /\ applied'[d] = applied[d] - 1
<1>1. /\ applied[d] \in Nat \ {0} /\ Len(puts[d]) \in Nat
      /\ applied[d] <= Len(puts[d]) /\ puts[d] \in Seq(Put)
  BY PutsFacts DEF TypeInv, Ack
<1>2. puts[d] # <<>>
  BY <1>1, EmptySeq
<1>3. PICK q : q = Tail(puts[d])
  OBVIOUS
<1>4. /\ Len(puts[d]) \in Nat \ {0} /\ Len(q) = Len(puts[d]) - 1
      /\ DOMAIN q = 1..Len(puts[d]) - 1
      /\ \A i \in 1..Len(puts[d]) - 1 : q[i] = puts[d][i + 1]
  BY <1>1, <1>2, <1>3, TailFacts
<1>5. puts' = [puts EXCEPT ![d] = q] /\ applied' = [applied EXCEPT ![d] = @ - 1]
  BY <1>3 DEF Ack
<1>6. puts'[d] = q /\ applied'[d] = applied[d] - 1
  BY <1>5 DEF TypeInv, TypeOK
<1> QED
  BY <1>1, <1>4, <1>6

\* What is known of an account that does not exist: nothing.
Known(d) ==
  /\ \A a \in Range(reads[d]) : a \in auth
  /\ \A i \in 1..Len(puts[d]) : puts[d][i].account \in auth
  /\ \A u \in tasks[d] : u.kind \in {"register", "fetch"} => u.account \in auth
  /\ \A u \in tasks[d] : u.kind = "facebook" => u.account \in FacebookAccount
  /\ currentUser[d] # Nobody => currentUser[d] \in auth
  /\ screen[d] = "home" => auth # {}

Recorded == \A a \in Account : users[a].name # NoName => a \in auth

KnownInv == Recorded /\ \A d \in Device : Known(d)

LEMMA KnownSame ==
  ASSUME NEW e, Known(e), SameDevice(e), auth \subseteq auth'
  PROVE  Known(e)'
  BY DEF Known, SameDevice

LEMMA KnownTask ==
  ASSUME TypeInv, KnownInv, NEW d \in Device, NEW t \in tasks[d],
         \/ NotFound(d, t) \/ AlreadyThere(d, t) \/ SignedIn(d, t) \/ Registered(d, t)
         \/ TaskFails(d, t)
  PROVE  Known(d)' /\ Recorded' /\ auth \subseteq auth'
<1>0. /\ TypeOK /\ Known(d) /\ Recorded /\ t \in Task /\ t.account \in Account
      /\ reads[d] \in Seq(Account) /\ IsInjective(reads[d])
  BY TaskFacts DEF TypeInv, TypeOK, KnownInv
<1>1. CASE Finish(d, t) /\ UNCHANGED <<auth, users, currentUser, screen, reads, puts>>
  <2>1. tasks'[d] = tasks[d] \ {t}
    BY <1>0, <1>1, FinishFacts
  <2>2. Known(d)'
    BY <1>0, <1>1, <2>1 DEF Known
  <2> QED
    BY <1>0, <1>1, <2>2 DEF Recorded
<1>2. CASE Replace(d, t, "create") /\ UNCHANGED <<auth, users, currentUser, screen, reads, puts>>
  <2>1. PICK x \in Task : x.kind = "create" /\ tasks'[d] = (tasks[d] \ {t}) \cup {x}
    BY <1>0, <1>2, ReplaceFacts
  <2>2. Known(d)'
    BY <1>0, <1>2, <2>1 DEF Known
  <2> QED
    BY <1>0, <1>2, <2>2 DEF Recorded
<1>3. CASE SignedIn(d, t)
  <2>1. PICK k \in {"fetch", "register"} : Replace(d, t, k)
    BY <1>3 DEF SignedIn, FollowUp
  <2>2. PICK x \in Task : /\ x.kind = k /\ x.account = t.account
                          /\ tasks'[d] = (tasks[d] \ {t}) \cup {x}
    BY <1>0, <2>1, ReplaceFacts
  <2>3. /\ auth' = auth \cup {t.account} /\ UNCHANGED <<users, screen, puts>>
        /\ currentUser'[d] = t.account
    BY <1>0, <1>3 DEF SignedIn, TypeOK
  <2>4. PICK r : r = (IF FollowUp(t.kind) = "fetch" THEN Reading(reads[d], t.account) ELSE reads[d])
    OBVIOUS
  <2>5. reads' = [reads EXCEPT ![d] = r]
    BY <1>3, <2>4 DEF SignedIn
  <2>6. reads'[d] = r
    BY <1>0, <2>5 DEF TypeOK
  <2>7. \A a \in Range(r) : a \in auth'
    BY <1>0, <2>3, <2>4, ReadingFacts DEF Known
  <2>8. Known(d)'
    <3>1. \A i \in 1..Len(puts'[d]) : puts'[d][i].account \in auth'
      BY <1>0, <2>3 DEF Known
    <3>2. \A u \in tasks'[d] : u.kind \in {"register", "fetch"} => u.account \in auth'
      BY <1>0, <2>2, <2>3 DEF Known
    <3>3. \A u \in tasks'[d] : u.kind = "facebook" => u.account \in FacebookAccount
      BY <1>0, <2>2 DEF Known
    <3>4. \A a \in Range(reads'[d]) : a \in auth'
      BY <2>6, <2>7
    <3>5. auth' # {} /\ currentUser'[d] \in auth'
      BY <2>3
    <3> QED
      BY <3>1, <3>2, <3>3, <3>4, <3>5 DEF Known
  <2> QED
    BY <1>0, <2>3, <2>8 DEF Recorded
<1>4. CASE Registered(d, t)
  <2>1. tasks'[d] = tasks[d] \ {t} /\ t.kind = "register" /\ UNCHANGED <<auth, users, currentUser>>
    BY <1>0, <1>4, FinishFacts DEF Registered, server, durable
  <2>2. t.account \in auth
    BY <1>0, <2>1 DEF Known
  <2>3. PICK w : w = [account |-> t.account, whole |-> TRUE, name |-> instance[d]]
    OBVIOUS
  <2>4. w \in Put /\ w.account = t.account
    BY <1>0, <2>3 DEF Put, TypeOK
  <2>5. puts' = [puts EXCEPT ![d] = Append(@, w)] /\ Len(puts[d]) < MaxPuts
    BY <1>4, <2>3 DEF Registered
  <2>6. /\ Len(puts'[d]) = Len(puts[d]) + 1
        /\ \A i \in 1..Len(puts[d]) : puts'[d][i] = puts[d][i]
        /\ puts'[d][Len(puts[d]) + 1] = w
    BY <1>0, <2>4, <2>5, PutAdded
  <2>7. Len(puts[d]) \in Nat
    BY <1>0, PutsFacts
  <2>8. \A i \in 1..Len(puts'[d]) : puts'[d][i].account \in auth'
    <3>1. ASSUME NEW i \in 1..Len(puts'[d]) PROVE puts'[d][i].account \in auth'
      <4>1. i \in 1..Len(puts[d]) \/ i = Len(puts[d]) + 1
        BY <2>6, <2>7
      <4> QED
        BY <1>0, <2>1, <2>2, <2>4, <2>6, <4>1 DEF Known
    <3> QED
      BY <3>1
  <2>9. GoHome(d, reads[d])
    BY <1>4 DEF Registered
  <2>10. \A b \in Range(reads'[d]) :
           b \in Range(reads[d]) \/ (b = currentUser[d] /\ currentUser[d] # Nobody)
    BY <1>0, <2>9, GoHomeFacts
  <2>11. Known(d)'
    <3>1. \A a \in Range(reads'[d]) : a \in auth'
      BY <1>0, <2>1, <2>10 DEF Known
    <3> QED
      BY <1>0, <2>1, <2>2, <2>8, <3>1 DEF Known
  <2> QED
    BY <1>0, <2>1, <2>11 DEF Recorded
<1> QED
  BY <1>1, <1>2, <1>3, <1>4 DEF NotFound, AlreadyThere, TaskFails, server, durable, queues

LEMMA KnownRest ==
  ASSUME TypeInv, FlagInv, KnownInv, NEW d \in Device,
         \/ Tap(d) \/ SheetCancelled(d) \/ Refresh(d) \/ ChangeName(d) \/ SignOut(d)
         \/ Kill(d) \/ ReadCrashes(d) \/ ReadAnswered(d)
         \/ Apply(d) \/ Ack(d) \/ Disconnect(d)
  PROVE  Known(d)' /\ Recorded' /\ auth \subseteq auth'
<1>0. /\ TypeOK /\ Known(d) /\ Recorded /\ Flag(d)
      /\ reads[d] \in Seq(Account) /\ IsInjective(reads[d])
      /\ currentUser \in [Device -> Account \cup {Nobody}]
      /\ screen \in [Device -> {"login", "home"}]
      /\ tasks \in [Device -> SUBSET Task]
  BY DEF TypeInv, TypeOK, KnownInv, FlagInv
<1>1. CASE Tap(d)
  <2>1. PICK t \in Task : /\ t.kind \notin {"register", "fetch"}
                          /\ t.kind = "facebook" => t.account \in FacebookAccount
                          /\ tasks' = [tasks EXCEPT ![d] = @ \cup {t}]
    BY <1>1 DEF Tap, Task, Account
  <2>2. tasks'[d] = tasks[d] \cup {t}
        /\ UNCHANGED <<auth, users, currentUser, screen, reads, puts>>
    BY <1>0, <1>1, <2>1 DEF Tap, server, durable, queues
  <2>3. Known(d)'
    BY <1>0, <2>1, <2>2 DEF Known
  <2> QED
    BY <1>0, <2>2, <2>3 DEF Recorded
<1>2. CASE SheetCancelled(d) \/ Refresh(d)
  <2>1. GoHome(d, reads[d]) /\ UNCHANGED <<auth, users, currentUser, tasks, puts>>
        /\ (isLoggedIn[d] \/ screen[d] = "home")
    BY <1>2 DEF SheetCancelled, Refresh, server, durable
  <2>2. \A b \in Range(reads'[d]) :
           b \in Range(reads[d]) \/ (b = currentUser[d] /\ currentUser[d] # Nobody)
    BY <1>0, <2>1, GoHomeFacts
  <2>3. Known(d)'
    BY <1>0, <2>1, <2>2 DEF Known, Flag
  <2> QED
    BY <1>0, <2>1, <2>3 DEF Recorded
<1>3. CASE ChangeName(d)
  <2>1. currentUser[d] \in Account /\ UNCHANGED <<auth, users, currentUser, tasks, screen>>
        /\ currentUser[d] # Nobody
    BY <1>0, <1>3 DEF ChangeName, server, durable
  <2>2. PICK w : w = [account |-> currentUser[d], whole |-> FALSE, name |-> currentUser[d]]
    OBVIOUS
  <2>3. w \in Put /\ w.account = currentUser[d]
    BY <2>1, <2>2 DEF Put, Name
  <2>4. puts' = [puts EXCEPT ![d] = Append(@, w)] /\ Len(puts[d]) < MaxPuts
    BY <1>3, <2>2 DEF ChangeName
  <2>5. /\ Len(puts'[d]) = Len(puts[d]) + 1
        /\ \A i \in 1..Len(puts[d]) : puts'[d][i] = puts[d][i]
        /\ puts'[d][Len(puts[d]) + 1] = w
    BY <1>0, <2>3, <2>4, PutAdded
  <2>6. Len(puts[d]) \in Nat
    BY <1>0, PutsFacts
  <2>7. \A i \in 1..Len(puts'[d]) : puts'[d][i].account \in auth'
    <3>1. ASSUME NEW i \in 1..Len(puts'[d]) PROVE puts'[d][i].account \in auth'
      <4>1. i \in 1..Len(puts[d]) \/ i = Len(puts[d]) + 1
        BY <2>5, <2>6
      <4> QED
        BY <1>0, <2>1, <2>3, <2>5, <4>1 DEF Known
    <3> QED
      BY <3>1
  <2>8. PICK r : r = AfterChange(d)
    OBVIOUS
  <2>9. reads' = [reads EXCEPT ![d] = r]
    BY <1>3, <2>8 DEF ChangeName
  <2>10. reads'[d] = r
    BY <2>9, <1>0 DEF TypeOK
  <2>11. \A b \in Range(r) : b \in Range(reads[d]) \/ b = currentUser[d]
    BY <1>0, <2>1, <2>8, ReadingFacts DEF AfterChange
  <2>12. \A a \in Range(reads'[d]) : a \in auth'
    BY <1>0, <2>1, <2>10, <2>11 DEF Known
  <2>13. Known(d)'
    BY <1>0, <2>1, <2>7, <2>12 DEF Known
  <2> QED
    BY <1>0, <2>1, <2>13 DEF Recorded
<1>4. CASE SignOut(d)
  <2>1. UNCHANGED <<auth, users, tasks, reads, puts>>
        /\ currentUser'[d] = Nobody /\ screen'[d] = "login"
    BY <1>0, <1>4 DEF SignOut, server, queues
  <2>2. Known(d)'
    BY <1>0, <2>1 DEF Known
  <2> QED
    BY <1>0, <2>1, <2>2 DEF Recorded
<1>5. CASE Launch(d)
  <2>1. /\ \A b \in Range(reads'[d]) : b = currentUser[d] /\ currentUser[d] # Nobody
        /\ screen'[d] = (IF isLoggedIn[d] THEN "home" ELSE "login")
    BY <1>0, <1>5, LaunchFacts
  <2>2. UNCHANGED <<auth, users, currentUser>> /\ tasks'[d] = {} /\ puts'[d] = <<>>
    BY <1>0, <1>5 DEF Launch, server, durable, TypeOK
  <2>3. Len(puts'[d]) = 0
    BY <2>2, EmptySeq
  <2>4. Known(d)'
    <3>1. \A i \in 1..Len(puts'[d]) : puts'[d][i].account \in auth'
      BY <2>3
    <3> QED
      BY <1>0, <2>1, <2>2, <3>1 DEF Known, Flag
  <2> QED
    BY <1>0, <2>2, <2>4 DEF Recorded
<1>6. CASE ReadAnswered(d)
  <2>1. reads[d] # <<>> /\ UNCHANGED <<auth, users, currentUser, puts>>
    BY <1>6 DEF ReadAnswered, server, durable
  <2>2. /\ Tail(reads[d]) \in Seq(Account) /\ IsInjective(Tail(reads[d]))
        /\ Head(reads[d]) \in Range(reads[d])
        /\ \A b \in Range(Tail(reads[d])) : b \in Range(reads[d])
    BY <1>0, <2>1, AnsweredFacts
  <2>3. PICK t : Finish(d, t)
    BY <1>6 DEF ReadAnswered
  <2>4. tasks'[d] = tasks[d] \ {t}
    BY <1>0, <2>3, FinishFacts
  <2>5. auth # {}
    BY <1>0, <2>2 DEF Known
  <2>6. \A b \in Range(reads'[d]) :
           b \in Range(reads[d]) \/ (b = currentUser[d] /\ currentUser[d] # Nobody)
    <3>1. CASE GoHome(d, Tail(reads[d]))
      <4>1. \A b \in Range(reads'[d]) :
              b \in Range(Tail(reads[d])) \/ (b = currentUser[d] /\ currentUser[d] # Nobody)
        BY <1>0, <2>2, <3>1, GoHomeFacts
      <4> QED
        BY <2>2, <4>1
    <3>2. CASE reads' = [reads EXCEPT ![d] = Tail(@)]
      <4>1. reads'[d] = Tail(reads[d])
        BY <1>0, <3>2 DEF TypeOK
      <4> QED
        BY <2>2, <4>1
    <3> QED
      BY <1>6, <3>1, <3>2 DEF ReadAnswered
  <2>7. Known(d)'
    BY <1>0, <2>1, <2>4, <2>5, <2>6 DEF Known
  <2> QED
    BY <1>0, <2>1, <2>7 DEF Recorded
<1>7. CASE Apply(d)
  <2>1. UNCHANGED <<auth, currentUser, screen, tasks, reads, puts>>
    BY <1>7 DEF Apply, durable
  <2>2. PICK w : w = puts[d][applied[d] + 1]
    OBVIOUS
  <2>3. /\ applied[d] + 1 \in 1..Len(puts[d])
        /\ \A a \in Account : a # w.account => users'[a] = users[a]
    BY <1>7, <2>2, ApplyFacts
  <2>4. w.account \in auth
    BY <1>0, <2>2, <2>3 DEF Known
  <2>5. Recorded'
    BY <1>0, <2>1, <2>3, <2>4 DEF Recorded
  <2> QED
    BY <1>0, <2>1, <2>5 DEF Known
<1>8. CASE Ack(d)
  <2>1. UNCHANGED <<auth, users, currentUser, screen, tasks, reads>>
    BY <1>8 DEF Ack, server, durable
  <2>2. /\ Len(puts[d]) \in Nat \ {0} /\ Len(puts'[d]) = Len(puts[d]) - 1
        /\ \A i \in 1..Len(puts[d]) - 1 : puts'[d][i] = puts[d][i + 1]
    BY <1>8, AckFacts
  <2>3. \A i \in 1..Len(puts'[d]) : puts'[d][i].account \in auth'
    <3>1. ASSUME NEW i \in 1..Len(puts'[d]) PROVE puts'[d][i].account \in auth'
      <4>1. i + 1 \in 1..Len(puts[d]) /\ puts'[d][i] = puts[d][i + 1]
        BY <2>2
      <4> QED
        BY <1>0, <2>1, <4>1 DEF Known
    <3> QED
      BY <3>1
  <2>4. Known(d)'
    BY <1>0, <2>1, <2>3 DEF Known
  <2> QED
    BY <1>0, <2>1, <2>4 DEF Recorded
<1>9. CASE Disconnect(d)
  <2>1. UNCHANGED <<auth, users, currentUser, screen, tasks>> /\ puts'[d] = puts[d]
    BY <1>0, <1>9 DEF Disconnect, Resent, server, durable, TypeOK
  <2>2. PICK order \in Bijection(DOMAIN reads[d], DOMAIN reads[d]) :
          reads' = [reads EXCEPT ![d] = [i \in DOMAIN @ |-> @[order[i]]]]
    BY <1>9 DEF Disconnect
  <2>3. PICK q : q = [i \in DOMAIN reads[d] |-> reads[d][order[i]]]
    OBVIOUS
  <2>4. Range(q) \subseteq Range(reads[d])
    <3>1. PICK s : s = reads[d]
      OBVIOUS
    <3>2. s \in Seq(Account) /\ IsInjective(s) /\ order \in Bijection(DOMAIN s, DOMAIN s)
      BY <1>0, <2>2, <3>1 DEF TypeOK
    <3>3. Range([i \in DOMAIN s |-> s[order[i]]]) \subseteq Range(s)
      BY <3>2, PermutedFacts
    <3> QED
      BY <2>3, <3>1, <3>3
  <2>5. reads' = [reads EXCEPT ![d] = q]
    BY <2>2, <2>3
  <2>6. reads'[d] = q
    BY <1>0, <2>5 DEF TypeOK
  <2>7. Known(d)'
    BY <1>0, <2>1, <2>4, <2>6 DEF Known
  <2> QED
    BY <1>0, <2>1, <2>7 DEF Recorded
<1> QED
  BY <1>1, <1>2, <1>3, <1>4, <1>5, <1>6, <1>7, <1>8, <1>9 DEF Kill, ReadCrashes

LEMMA KnownStep ==
  ASSUME TypeInv, FlagInv, KnownInv, NEW d \in Device, DeviceStep(d)
  PROVE  KnownInv' /\ auth \subseteq auth'
<1>1. Known(d)' /\ Recorded' /\ auth \subseteq auth'
  <2>1. CASE TaskStep(d) \/ \E t \in tasks[d] : TaskFails(d, t)
    BY <2>1, KnownTask DEF TaskStep
  <2> QED
    BY <2>1, KnownRest DEF DeviceStep
<1>2. \A e \in Device \ {d} : Known(e)'
  BY <1>1, OthersStay, KnownSame DEF KnownInv
<1> QED
  BY <1>1, <1>2 DEF KnownInv

\* The three invariants above, which the ones below build on.
SessionInv == TypeInv /\ FlagInv /\ KnownInv

LEMMA SessionInvInit == ASSUME Init PROVE SessionInv
<1>1. \A d \in Device : Known(d)
  <2>1. \A d \in Device : /\ reads[d] = <<>> /\ puts[d] = <<>> /\ tasks[d] = {}
                          /\ currentUser[d] = Nobody /\ screen[d] = "login"
    BY DEF Init
  <2>2. Range(<<>>) = {} /\ Len(<<>>) = 0
    BY NothingRead, EmptySeq
  <2> QED
    BY <2>1, <2>2 DEF Known
<1>2. Recorded
  BY DEF Init, Recorded, Empty
<1>3. FlagInv
  BY DEF Init, FlagInv, Flag
<1> QED
  BY <1>1, <1>2, <1>3, TypeInvInit DEF SessionInv, KnownInv

LEMMA StepOrNot == [Next]_vars <=> UNCHANGED vars \/ \E d \in Device : DeviceStep(d)
  BY DEF Next, DeviceStep

LEMMA SessionInvNext == ASSUME SessionInv, [Next]_vars PROVE SessionInv'
<1>1. TypeInv' /\ FlagInv'
  BY TypeInvNext, FlagNext DEF SessionInv
<1>2. CASE UNCHANGED vars
  <2>1. KnownInv'
    BY <1>2 DEF SessionInv, KnownInv, Known, Recorded, vars, server, durable, queues
  <2> QED
    BY <1>1, <2>1 DEF SessionInv
<1>3. ASSUME NEW d \in Device, DeviceStep(d) PROVE SessionInv'
  BY <1>1, <1>3, KnownStep DEF SessionInv
<1> QED
  BY <1>2, <1>3, StepOrNot

-----------------------------------------------------------------------------
(***************************************************************************)
(* The profile on the home screen is the user's own.                       *)
(***************************************************************************)
\* The name of a as a device sees it that has the writes q under way, when
\* the server's record has the name n.
NameIn(q, n, a) ==
  LET own == { i \in DOMAIN q : q[i].account = a }
  IN  IF own = {} THEN n ELSE q[Max(own)].name

LEMMA NameInFacts ==
  ASSUME NEW q \in Seq(Put), NEW n, NEW a
  PROVE  /\ (\A i \in 1..Len(q) : q[i].account # a) => NameIn(q, n, a) = n
         /\ \A i \in 1..Len(q) :
              q[i].account = a /\ (\A j \in 1..Len(q) : i < j => q[j].account # a) =>
                NameIn(q, n, a) = q[i].name
<1>1. PICK own : own = { i \in DOMAIN q : q[i].account = a }
  OBVIOUS
<1>2. DOMAIN q = 1..Len(q) /\ Len(q) \in Nat
  BY LenProperties
<1>3. NameIn(q, n, a) = IF own = {} THEN n ELSE q[Max(own)].name
  BY <1>1 DEF NameIn
<1>4. \A i : i \in own <=> i \in 1..Len(q) /\ q[i].account = a
  BY <1>1, <1>2
<1>5. own # {} => Max(own) \in own /\ \A i \in own : i <= Max(own)
  <2>1. own \subseteq Nat /\ \A i \in own : i <= Len(q)
    BY <1>2, <1>4
  <2> QED
    BY <1>2, <2>1, GreatestNatural
<1>6. (\A i \in 1..Len(q) : q[i].account # a) => NameIn(q, n, a) = n
  BY <1>3, <1>4
<1>7. ASSUME NEW i \in 1..Len(q), q[i].account = a,
             \A j \in 1..Len(q) : i < j => q[j].account # a
      PROVE  NameIn(q, n, a) = q[i].name
  <2>1. i \in own
    BY <1>4, <1>7
  <2>2. Max(own) = i
    BY <1>2, <1>4, <1>5, <1>7, <2>1
  <2> QED
    BY <1>3, <2>1, <2>2
<1> QED
  BY <1>6, <1>7

\* Of the writes of an account there is a last one.
IsLast(q, a, i) ==
  /\ i \in 1..Len(q) /\ q[i].account = a
  /\ \A j \in 1..Len(q) : i < j => q[j].account # a

LEMMA LastOwn ==
  ASSUME NEW q \in Seq(Put), NEW a, NEW k \in 1..Len(q), q[k].account = a
  PROVE  \E i : IsLast(q, a, i)
<1> DEFINE own == { i \in 1..Len(q) : q[i].account = a }
<1>1. Len(q) \in Nat
  BY LenProperties
<1>2. own \subseteq Nat /\ own # {} /\ \A i \in own : i <= Len(q)
  BY <1>1
<1>3. Max(own) \in own /\ \A i \in own : i <= Max(own)
  <2> HIDE DEF own
  <2> QED
    BY <1>1, <1>2, GreatestNatural
<1> QED
  BY <1>1, <1>3 DEF IsLast

LEMMA SeenName ==
  ASSUME NEW d, NEW a
  PROVE  Seen(d, a).name = NameIn(puts[d], users[a].name, a)
  BY DEF Seen, NameIn

\* Of the writes the server has stored, not yet confirmed, the last for each
\* account is what the account's record holds.
Lasting(d) ==
  \A i \in 1..applied[d] :
    (\A j \in 1..applied[d] : i < j => puts[d][j].account # puts[d][i].account) =>
      users[puts[d][i].account].name = puts[d][i].name

Shown(d) ==
  \A a \in Account :
    auth = {a} /\ screen[d] = "home" /\ reads[d] = <<>> =>
      instance[d] = NameIn(puts[d], users[a].name, a)

LEMMA LastingStep ==
  ASSUME SessionInv, NEW d \in Device, DeviceStep(d), Lasting(d)
  PROVE  Lasting(d)'
<1>0. /\ TypeOK /\ TypeInv /\ Len(puts[d]) \in Nat /\ applied[d] \in Nat
      /\ applied[d] <= Len(puts[d])
      /\ \A i \in 1..Len(puts[d]) : puts[d][i].account \in Account
  BY PutsFacts DEF SessionInv, TypeInv
<1>1. CASE UNCHANGED users /\ applied'[d] = applied[d]
           /\ \A i \in 1..applied[d] : puts'[d][i] = puts[d][i]
  BY <1>0, <1>1 DEF Lasting
<1>2. CASE applied'[d] = 0
  BY <1>2 DEF Lasting
<1>3. CASE Apply(d)
  <2>1. /\ applied[d] + 1 \in 1..Len(puts[d]) /\ applied'[d] = applied[d] + 1
        /\ users'[puts[d][applied[d] + 1].account].name = puts[d][applied[d] + 1].name
        /\ \A a \in Account : a # puts[d][applied[d] + 1].account => users'[a] = users[a]
        /\ puts' = puts
    BY <1>0, <1>3, ApplyFacts DEF Apply
  <2>2. ASSUME NEW i \in 1..applied'[d],
               \A j \in 1..applied'[d] : i < j => puts'[d][j].account # puts'[d][i].account
        PROVE  users'[puts'[d][i].account].name = puts'[d][i].name
    <3>1. CASE i = applied[d] + 1
      BY <2>1, <3>1
    <3>2. CASE i \in 1..applied[d]
      <4>1. applied[d] + 1 \in 1..applied'[d] /\ i < applied[d] + 1
        BY <1>0, <2>1, <3>2
      <4>2. puts[d][applied[d] + 1].account # puts[d][i].account
        BY <2>1, <2>2, <4>1
      <4>3. \A j \in 1..applied[d] : j \in 1..applied'[d]
        BY <1>0, <2>1
      <4>4. users[puts[d][i].account].name = puts[d][i].name
        BY <2>1, <2>2, <3>2, <4>3 DEF Lasting
      <4>5. puts[d][i].account \in Account
        BY <1>0, <3>2
      <4> QED
        BY <2>1, <4>2, <4>4, <4>5
    <3> QED
      BY <1>0, <2>1, <3>1, <3>2
  <2> QED
    BY <2>2 DEF Lasting
<1>4. CASE Ack(d)
  <2>1. /\ Len(puts[d]) \in Nat \ {0}
        /\ \A i \in 1..Len(puts[d]) - 1 : puts'[d][i] = puts[d][i + 1]
        /\ applied[d] \in Nat \ {0} /\ applied[d] <= Len(puts[d])
        /\ applied'[d] = applied[d] - 1
        /\ users' = users
    BY <1>0, <1>4, AckFacts DEF Ack, server
  <2>2. ASSUME NEW i \in 1..applied'[d],
               \A j \in 1..applied'[d] : i < j => puts'[d][j].account # puts'[d][i].account
        PROVE  users'[puts'[d][i].account].name = puts'[d][i].name
    <3>1. \A j \in 1..applied'[d] : puts'[d][j] = puts[d][j + 1]
      BY <2>1
    <3>2. i + 1 \in 1..applied[d]
      BY <2>1
    <3>3. ASSUME NEW j \in 1..applied[d], i + 1 < j
          PROVE  puts[d][j].account # puts[d][i + 1].account
      <4>1. j - 1 \in 1..applied'[d] /\ i < j - 1 /\ (j - 1) + 1 = j
        BY <2>1, <3>3
      <4>2. puts'[d][j - 1] = puts[d][j] /\ puts'[d][i] = puts[d][i + 1]
        BY <3>1, <4>1
      <4> QED
        BY <2>2, <4>1, <4>2
    <3>4. users[puts[d][i + 1].account].name = puts[d][i + 1].name
      BY <3>2, <3>3 DEF Lasting
    <3> QED
      BY <2>1, <3>1, <3>4
  <2> QED
    BY <2>2 DEF Lasting
<1>5. CASE Disconnect(d) \/ Launch(d)
  BY <1>0, <1>2, <1>5 DEF Disconnect, Launch, TypeOK
<1>6. CASE ChangeName(d) \/ \E t \in tasks[d] : Registered(d, t)
  <2>1. PICK w \in Put : puts' = [puts EXCEPT ![d] = Append(@, w)] /\ Len(puts[d]) < MaxPuts
    <3>1. CASE ChangeName(d)
      <4>1. [account |-> currentUser[d], whole |-> FALSE, name |-> currentUser[d]] \in Put
        BY <1>0, <3>1 DEF ChangeName, TypeOK, Put, Name
      <4> QED
        BY <3>1, <4>1 DEF ChangeName
    <3>2. ASSUME NEW t \in tasks[d], Registered(d, t)
          PROVE  \E w \in Put : puts' = [puts EXCEPT ![d] = Append(@, w)] /\ Len(puts[d]) < MaxPuts
      <4>1. [account |-> t.account, whole |-> TRUE, name |-> instance[d]] \in Put
        BY <1>0, TaskFacts DEF TypeOK, Put
      <4> QED
        BY <3>2, <4>1 DEF Registered
    <3> QED
      BY <1>6, <3>1, <3>2
  <2>2. \A i \in 1..Len(puts[d]) : puts'[d][i] = puts[d][i]
    BY <1>0, <2>1, PutAdded
  <2>3. UNCHANGED <<users, applied>>
    BY <1>6 DEF ChangeName, Registered, server
  <2> QED
    BY <1>0, <1>1, <2>2, <2>3
<1>7. CASE UNCHANGED <<users, puts, applied>>
  BY <1>1, <1>7
<1> QED
  BY <1>3, <1>4, <1>5, <1>6, <1>7 DEF DeviceStep, Tap, SheetCancelled, TaskStep, NotFound,
     AlreadyThere, SignedIn, TaskFails, Refresh, SignOut, ReadAnswered, ReadCrashes, Kill,
     server, queues

LEMMA ShownStep ==
  ASSUME SessionInv, NEW d \in Device, DeviceStep(d), Lasting(d), Shown(d)
  PROVE  Shown(d)'
<1>0. /\ TypeOK /\ TypeInv /\ Flag(d) /\ Known(d) /\ puts[d] \in Seq(Put)
      /\ Len(puts[d]) \in Nat /\ applied[d] \in Nat /\ applied[d] <= Len(puts[d])
      /\ reads[d] \in Seq(Account) /\ IsInjective(reads[d])
      /\ reads \in [Device -> Seq(Account)]
      /\ currentUser \in [Device -> Account \cup {Nobody}]
      /\ instance \in [Device -> Name] /\ screen \in [Device -> {"login", "home"}]
  BY PutsFacts DEF SessionInv, TypeInv, TypeOK, FlagInv, KnownInv
<1> SUFFICES ASSUME NEW a \in Account, auth' = {a}, screen'[d] = "home", reads'[d] = <<>>
             PROVE  instance'[d] = NameIn(puts'[d], users'[a].name, a)
  BY DEF Shown
<1>q. puts[d] \in Seq(Put)
  BY <1>0
<1>a. ASSUME NEW n, \A i \in 1..Len(puts[d]) : puts[d][i].account # a
      PROVE  NameIn(puts[d], n, a) = n
  BY <1>q, <1>a, NameInFacts
<1>b. ASSUME NEW n, NEW i \in 1..Len(puts[d]), puts[d][i].account = a,
             \A j \in 1..Len(puts[d]) : i < j => puts[d][j].account # a
      PROVE  NameIn(puts[d], n, a) = puts[d][i].name
  BY <1>q, <1>b, NameInFacts
<1>1. CASE /\ auth = {a} /\ screen[d] = "home" /\ reads[d] = <<>>
           /\ UNCHANGED users /\ instance'[d] = instance[d] /\ puts'[d] = puts[d]
  BY <1>1 DEF Shown
<1>2. CASE \E q \in Seq(Account) : GoHome(d, q) /\ IsInjective(q) /\ currentUser[d] # Nobody
  BY <1>0, <1>2, GoHomeFacts
<1>3. CASE SheetCancelled(d)
  BY <1>0, <1>2, <1>3 DEF SheetCancelled, Flag
<1>4. CASE Refresh(d)
  <2>1. /\ GoHome(d, reads[d]) /\ screen[d] = "home"
        /\ UNCHANGED <<auth, users, instance, puts>>
    BY <1>4 DEF Refresh, server
  <2>2. CASE currentUser[d] = Nobody
    <3>1. reads'[d] = reads[d]
      BY <1>0, <2>1, <2>2, GoHomeFacts
    <3> QED
      BY <1>1, <2>1, <3>1
  <2> QED
    BY <1>0, <1>2, <2>1, <2>2
<1>5. CASE TaskStep(d)
  <2>1. PICK t \in tasks[d] : NotFound(d, t) \/ AlreadyThere(d, t) \/ SignedIn(d, t) \/ Registered(d, t)
    BY <1>5 DEF TaskStep
  <2>2. CASE NotFound(d, t) \/ AlreadyThere(d, t)
    BY <1>1, <2>2 DEF NotFound, AlreadyThere, server, queues
  <2>3. CASE SignedIn(d, t)
    <3>1. /\ auth' = auth \cup {t.account} /\ UNCHANGED <<users, instance, screen, puts>>
      BY <2>3 DEF SignedIn
    <3>2. auth = {a}
      BY <1>0, <3>1 DEF Known
    <3>3. reads[d] = <<>>
      <4>1. PICK r : r = (IF FollowUp(t.kind) = "fetch" THEN Reading(reads[d], t.account) ELSE reads[d])
        OBVIOUS
      <4>2. reads' = [reads EXCEPT ![d] = r]
        BY <2>3, <4>1 DEF SignedIn
      <4>3. r = <<>>
        BY <1>0, <4>2
      <4>4. t.account \in Account /\ t.account # Nobody
        BY <1>0, TaskFacts, SessionAssumption
      <4>5. Reading(reads[d], t.account) # <<>>
        BY <1>0, <4>4, ReadingFacts
      <4> QED
        BY <4>1, <4>3, <4>5
    <3> QED
      BY <1>1, <3>1, <3>2, <3>3
  <2>4. CASE Registered(d, t)
    <3>1. /\ GoHome(d, reads[d]) /\ UNCHANGED <<auth, users, instance>> /\ t.kind = "register"
      BY <2>4 DEF Registered, server
    <3>2. CASE currentUser[d] = Nobody
      <4>1. t.account = a
        BY <1>0, <3>1 DEF Known
      <4>2. PICK w : w = [account |-> t.account, whole |-> TRUE, name |-> instance[d]]
        OBVIOUS
      <4>3. w \in Put /\ w.account = a /\ w.name = instance[d]
        BY <1>0, <4>1, <4>2 DEF Put
      <4>4. puts' = [puts EXCEPT ![d] = Append(@, w)] /\ Len(puts[d]) < MaxPuts
        BY <2>4, <4>2 DEF Registered
      <4>5. /\ puts' \in [Device -> Seq(Put)] /\ Len(puts'[d]) = Len(puts[d]) + 1
            /\ puts'[d][Len(puts[d]) + 1] = w
        BY <1>0, <4>3, <4>4, PutAdded
      <4>6. puts'[d] \in Seq(Put)
        BY <4>5
      <4>7. PICK k : k = Len(puts[d]) + 1
        OBVIOUS
      <4>8. /\ k \in 1..Len(puts'[d]) /\ puts'[d][k] = w
            /\ \A j \in 1..Len(puts'[d]) : ~(k < j)
        BY <1>0, <4>5, <4>7
      <4>9. NameIn(puts'[d], users'[a].name, a) = w.name
        BY <4>3, <4>6, <4>8, NameInFacts
      <4> QED
        BY <3>1, <4>3, <4>9
    <3> QED
      BY <1>0, <1>2, <3>1, <3>2
  <2> QED
    BY <2>1, <2>2, <2>3, <2>4
<1>6. CASE ChangeName(d)
  <2>1. PICK r : r = AfterChange(d)
    OBVIOUS
  <2>2. reads' = [reads EXCEPT ![d] = r] /\ currentUser[d] # Nobody
    BY <1>6, <2>1 DEF ChangeName
  <2>3. r # <<>>
    BY <1>0, <2>1, <2>2, ReadingFacts DEF AfterChange
  <2> QED
    BY <1>0, <2>2, <2>3
<1>7. CASE SignOut(d)
  BY <1>0, <1>7 DEF SignOut
<1>8. CASE Launch(d)
  BY <1>0, <1>8, LaunchFacts DEF Flag
<1>9. CASE ReadAnswered(d)
  <2>1. /\ reads[d] # <<>> /\ UNCHANGED <<auth, users, puts>>
        /\ instance' = [instance EXCEPT ![d] = Seen(d, Head(reads[d])).name]
    BY <1>9 DEF ReadAnswered, server
  <2>2. Head(reads[d]) = a
    BY <1>0, <2>1, AnsweredFacts DEF Known
  <2>3. instance'[d] = Seen(d, a).name
    BY <1>0, <2>1, <2>2
  <2> QED
    BY <2>1, <2>3, SeenName
<1>10. CASE Apply(d)
  <2>1. /\ applied[d] + 1 \in 1..Len(puts[d])
        /\ UNCHANGED <<auth, instance, screen, reads, puts>>
    BY <1>0, <1>10, ApplyFacts DEF Apply
  <2>2. puts[d][applied[d] + 1].account = a
    BY <1>0, <2>1 DEF Known
  <2>3. PICK i \in 1..Len(puts[d]) :
          puts[d][i].account = a /\ \A j \in 1..Len(puts[d]) : i < j => puts[d][j].account # a
    <3>1. \E i : IsLast(puts[d], a, i)
      BY <1>q, <2>1, <2>2, LastOwn
    <3> QED
      BY <3>1 DEF IsLast
  <2>4. \A n : NameIn(puts[d], n, a) = puts[d][i].name
    <3>1. ASSUME NEW n PROVE NameIn(puts[d], n, a) = puts[d][i].name
      BY <1>b, <2>3
    <3> QED
      BY <3>1
  <2> QED
    BY <2>1, <2>4 DEF Shown
<1>11. CASE Ack(d)
  <2>1. /\ Len(puts[d]) \in Nat \ {0} /\ Len(puts'[d]) = Len(puts[d]) - 1
        /\ \A i \in 1..Len(puts[d]) - 1 : puts'[d][i] = puts[d][i + 1]
        /\ applied[d] \in Nat \ {0}
        /\ UNCHANGED <<auth, users, instance, screen, reads>>
    BY <1>0, <1>11, AckFacts DEF Ack, server
  <2>2. puts[d] # <<>>
    BY <2>1, EmptySeq
  <2>3. puts'[d] \in Seq(Put)
    <3>1. PICK q : q = Tail(puts[d])
      OBVIOUS
    <3>2. q \in Seq(Put)
      BY <1>0, <2>2, <3>1, TailFacts
    <3>3. puts' = [puts EXCEPT ![d] = q]
      BY <1>11, <3>1 DEF Ack
    <3> QED
      BY <1>0, <3>2, <3>3 DEF TypeOK
  <2>4. CASE \E i \in 1..Len(puts'[d]) : puts'[d][i].account = a /\
               \A j \in 1..Len(puts'[d]) : i < j => puts'[d][j].account # a
    <3>1. PICK i \in 1..Len(puts'[d]) : puts'[d][i].account = a /\
                 \A j \in 1..Len(puts'[d]) : i < j => puts'[d][j].account # a
      BY <2>4
    <3>2. i + 1 \in 1..Len(puts[d]) /\ puts[d][i + 1] = puts'[d][i]
      BY <2>1
    <3>3. ASSUME NEW j \in 1..Len(puts[d]), i + 1 < j PROVE puts[d][j].account # a
      <4>1. j - 1 \in 1..Len(puts'[d]) /\ i < j - 1 /\ (j - 1) + 1 = j
        BY <2>1, <3>3
      <4>2. puts'[d][j - 1] = puts[d][j]
        BY <2>1, <4>1
      <4> QED
        BY <3>1, <4>1, <4>2
    <3>4. NameIn(puts[d], users[a].name, a) = puts[d][i + 1].name
      BY <1>b, <3>1, <3>2, <3>3
    <3>5. NameIn(puts'[d], users'[a].name, a) = puts'[d][i].name
      BY <2>3, <3>1, NameInFacts
    <3> QED
      BY <2>1, <3>2, <3>4, <3>5 DEF Shown
  <2>5. CASE \A i \in 1..Len(puts'[d]) : puts'[d][i].account # a
    <3>1. NameIn(puts'[d], users'[a].name, a) = users'[a].name
      BY <2>3, <2>5, NameInFacts
    <3>2. ASSUME NEW j \in 1..Len(puts[d]), 1 < j PROVE puts[d][j].account # a
      <4>1. j - 1 \in 1..Len(puts'[d]) /\ (j - 1) + 1 = j
        BY <2>1, <3>2
      <4>2. puts'[d][j - 1] = puts[d][j]
        BY <2>1, <4>1
      <4> QED
        BY <2>5, <4>1, <4>2
    <3>3. NameIn(puts[d], users[a].name, a) = users[a].name
      <4>1. CASE puts[d][1].account = a
        <5>1. NameIn(puts[d], users[a].name, a) = puts[d][1].name
          BY <1>b, <2>1, <3>2, <4>1
        <5>2. 1 \in 1..applied[d] /\ \A j \in 1..applied[d] : j \in 1..Len(puts[d])
          BY <1>0, <2>1
        <5>3. users[a].name = puts[d][1].name
          BY <3>2, <4>1, <5>2 DEF Lasting
        <5> QED
          BY <5>1, <5>3
      <4>2. CASE puts[d][1].account # a
        <5>1. \A j \in 1..Len(puts[d]) : puts[d][j].account # a
          BY <2>1, <3>2, <4>2
        <5> QED
          BY <1>a, <5>1
      <4> QED
        BY <4>1, <4>2
    <3> QED
      BY <2>1, <3>1, <3>3 DEF Shown
  <2>6. ASSUME NEW k \in 1..Len(puts'[d]), puts'[d][k].account = a
        PROVE  \E i \in 1..Len(puts'[d]) : puts'[d][i].account = a /\
                 \A j \in 1..Len(puts'[d]) : i < j => puts'[d][j].account # a
    <3>1. \E i : IsLast(puts'[d], a, i)
      BY <2>3, <2>6, LastOwn
    <3> QED
      BY <3>1 DEF IsLast
  <2> QED
    BY <2>4, <2>5, <2>6
<1>12. CASE Disconnect(d)
  <2>1. UNCHANGED <<auth, users, instance, screen>> /\ puts'[d] = puts[d]
    BY <1>0, <1>12 DEF Disconnect, Resent, server, TypeOK
  <2>2. PICK order \in Bijection(DOMAIN reads[d], DOMAIN reads[d]) :
          reads' = [reads EXCEPT ![d] = [i \in DOMAIN @ |-> @[order[i]]]]
    BY <1>12 DEF Disconnect
  <2>3. PICK q : q = [i \in DOMAIN reads[d] |-> reads[d][order[i]]]
    OBVIOUS
  <2>4. reads' = [reads EXCEPT ![d] = q]
    BY <2>2, <2>3
  <2>5. q = <<>>
    BY <1>0, <2>4
  <2>6. reads[d] = <<>>
    BY <1>0, <2>3, <2>5, PermutedFacts
  <2> QED
    BY <1>1, <2>1, <2>6
<1>13. CASE Tap(d) \/ \E t \in tasks[d] : TaskFails(d, t)
  BY <1>1, <1>13 DEF Tap, TaskFails, server, queues
<1> QED
  BY <1>3, <1>4, <1>5, <1>6, <1>7, <1>8, <1>9, <1>10, <1>11, <1>12, <1>13
     DEF DeviceStep, Kill, ReadCrashes

ShownInv == SessionInv /\ \A d \in Device : Lasting(d) /\ Shown(d)

LEMMA ShownInvNext ==
  ASSUME \A d, e \in Device : d = e, ShownInv, [Next]_vars
  PROVE  ShownInv'
<1>1. SessionInv /\ SessionInv'
  BY SessionInvNext DEF ShownInv
<1>2. CASE UNCHANGED vars
  BY <1>1, <1>2 DEF ShownInv, Lasting, Shown, vars, server, queues
<1>3. ASSUME NEW d \in Device, DeviceStep(d) PROVE ShownInv'
  <2>1. Lasting(d)' /\ Shown(d)'
    BY <1>1, <1>3, LastingStep, ShownStep DEF ShownInv
  <2> QED
    BY <1>1, <2>1 DEF ShownInv
<1> QED
  BY <1>2, <1>3, StepOrNot

\* With one device, the profile on the home screen is the record of the only
\* user, changes under way included, once nothing is being read: every way
\* home leaves a read behind, and a write that is confirmed is the one the
\* record holds.
THEOREM ProfileOfUser ==
  ASSUME \A d, e \in Device : d = e
  PROVE  Spec => []ProfileIsOwn
<1>1. Init => ShownInv
  <2>1. Init => \A d \in Device : applied[d] = 0 /\ screen[d] = "login"
    BY DEF Init
  <2>2. Init => \A d \in Device : Lasting(d) /\ Shown(d)
    BY <2>1 DEF Lasting, Shown
  <2> QED
    BY <2>2, SessionInvInit DEF ShownInv
<1>2. ShownInv /\ [Next]_vars => ShownInv'
  BY ShownInvNext
<1>3. ShownInv => ProfileIsOwn
  <2>1. SUFFICES ASSUME ShownInv, NEW d \in Device, screen[d] = "home", reads[d] = <<>>,
                        auth = {currentUser[d]}
                 PROVE  instance[d] = Seen(d, currentUser[d]).name
    BY DEF ProfileIsOwn
  <2>2. currentUser[d] \in Account
    BY <2>1 DEF ShownInv, SessionInv, TypeInv, TypeOK
  <2> QED
    BY <2>1, <2>2, SeenName DEF ShownInv, Shown
<1> QED
  BY <1>1, <1>2, <1>3, PTL DEF Spec

-----------------------------------------------------------------------------
(***************************************************************************)
(* A name the user has chosen is kept.                                     *)
(***************************************************************************)
\* Neither the server nor a write under way has the name a has chosen.
Unchosen(d, a) ==
  /\ users[a].name # a
  /\ \A i \in 1..Len(puts[d]) : puts[d][i].account = a => puts[d][i].name # a

\* A write after the i-th brings the chosen name.
Covered(d, a, i) ==
  \E j \in 1..Len(puts[d]) : i < j /\ puts[d][j].account = a /\ puts[d][j].name = a

\* Writes and registrations that would take a chosen name back.
Threats(d, a) ==
  /\ \A i \in 1..Len(puts[d]) :
       puts[d][i].account = a /\ puts[d][i].name # a => Covered(d, a, i) \/ Unchosen(d, a)
  /\ \A u \in tasks[d] : u.kind = "register" /\ u.account = a => Unchosen(d, a)

Chosen(d) == ~crossed[d] => \A a \in EmailAccount : Threats(d, a)

\* A step that adds no write and no registration.
LEMMA ChosenSame ==
  ASSUME NEW d, Chosen(d), crossed'[d] = crossed[d], UNCHANGED users, puts'[d] = puts[d],
         \A u \in tasks'[d] : u.kind = "register" => u \in tasks[d]
  PROVE  Chosen(d)'
  BY DEF Chosen, Threats, Covered, Unchosen

LEMMA ChosenTask ==
  ASSUME SessionInv, NEW d \in Device, Chosen(d), NEW t \in tasks[d],
         \/ NotFound(d, t) \/ AlreadyThere(d, t) \/ SignedIn(d, t) \/ Registered(d, t)
         \/ TaskFails(d, t)
  PROVE  Chosen(d)'
<1>0. /\ TypeOK /\ t \in Task /\ t.account \in Account /\ Known(d) /\ Recorded
      /\ Len(puts[d]) \in Nat /\ tasks \in [Device -> SUBSET Task]
      /\ \A i \in 1..Len(puts[d]) : puts[d][i].account \in Account
  BY TaskFacts, PutsFacts DEF SessionInv, TypeInv, KnownInv, TypeOK
<1>1. CASE Finish(d, t) /\ UNCHANGED <<users, puts, crossed>>
  BY <1>0, <1>1, FinishFacts, ChosenSame
<1>2. CASE Replace(d, t, "create") /\ UNCHANGED <<users, puts, crossed>>
  <2>1. PICK x \in Task : x.kind = "create" /\ tasks'[d] = (tasks[d] \ {t}) \cup {x}
    BY <1>0, <1>2, ReplaceFacts
  <2> QED
    BY <1>2, <2>1, ChosenSame
<1>3. CASE SignedIn(d, t)
  <2>1. UNCHANGED <<users, puts, crossed>>
    BY <1>3 DEF SignedIn
  <2>2. CASE Replace(d, t, "fetch")
    <3>1. PICK x \in Task : x.kind = "fetch" /\ tasks'[d] = (tasks[d] \ {t}) \cup {x}
      BY <1>0, <2>2, ReplaceFacts
    <3> QED
      BY <2>1, <3>1, ChosenSame
  <2>3. CASE Replace(d, t, "register") /\ t.kind \notin {"login", "google"}
    <3>1. PICK x \in Task : /\ x.kind = "register" /\ x.account = t.account
                            /\ tasks'[d] = (tasks[d] \ {t}) \cup {x}
      BY <1>0, <2>3, ReplaceFacts
    <3>2. ASSUME t.account \in EmailAccount PROVE Unchosen(d, t.account)
      <4>1. t.kind # "facebook"
        BY <1>0, <3>2, SessionAssumption DEF Known
      <4>2. t.account \notin auth
        BY <1>3, <2>3, <4>1 DEF SignedIn
      <4>3. users[t.account].name # t.account
        BY <1>0, <4>2, SessionAssumption DEF Recorded
      <4> QED
        BY <1>0, <4>2, <4>3 DEF Known, Unchosen
    <3>3. ASSUME ~crossed'[d], NEW a \in EmailAccount PROVE Threats(d, a)'
      <4>1. Threats(d, a)
        BY <2>1, <3>3 DEF Chosen
      <4>2. ASSUME NEW u \in tasks'[d], u.kind = "register", u.account = a
            PROVE  Unchosen(d, a)
        BY <3>1, <3>2, <4>1, <4>2 DEF Threats
      <4> QED
        BY <2>1, <4>1, <4>2 DEF Threats, Covered, Unchosen
    <3> QED
      BY <3>3 DEF Chosen
  <2> QED
    BY <1>3, <2>2, <2>3 DEF SignedIn, FollowUp
<1>4. CASE Registered(d, t)
  <2>1. UNCHANGED <<users, crossed>> /\ t.kind = "register"
    BY <1>4 DEF Registered, server
  <2>2. PICK w : w = [account |-> t.account, whole |-> TRUE, name |-> instance[d]]
    OBVIOUS
  <2>3. w \in Put /\ w.account = t.account
    BY <1>0, <2>2 DEF Put, TypeOK
  <2>4. puts' = [puts EXCEPT ![d] = Append(@, w)] /\ Len(puts[d]) < MaxPuts
    BY <1>4, <2>2 DEF Registered
  <2>5. /\ Len(puts'[d]) = Len(puts[d]) + 1
        /\ \A i \in 1..Len(puts[d]) : puts'[d][i] = puts[d][i]
        /\ puts'[d][Len(puts[d]) + 1] = w
    BY <1>0, <2>3, <2>4, PutAdded
  <2>6. tasks'[d] = tasks[d] \ {t}
    BY <1>0, <1>4, FinishFacts DEF Registered
  <2>7. ASSUME ~crossed'[d], NEW a \in EmailAccount PROVE Threats(d, a)'
    <3>1. Threats(d, a)
      BY <2>1, <2>7 DEF Chosen
    <3>2. t.account = a => Unchosen(d, a)
      BY <2>1, <3>1 DEF Threats
    <3>3. ASSUME NEW i \in 1..Len(puts[d]), Covered(d, a, i) PROVE Covered(d, a, i)'
      <4>1. PICK j \in 1..Len(puts[d]) : i < j /\ puts[d][j].account = a /\ puts[d][j].name = a
        BY <3>3 DEF Covered
      <4>2. j \in 1..Len(puts'[d]) /\ puts'[d][j] = puts[d][j]
        BY <1>0, <2>5, <4>1
      <4> QED
        BY <4>1, <4>2 DEF Covered
    <3>4. \A i \in 1..Len(puts'[d]) : i \in 1..Len(puts[d]) \/ i = Len(puts[d]) + 1
      BY <1>0, <2>5
    <3>5. ASSUME Unchosen(d, a), w.account = a => w.name # a PROVE Unchosen(d, a)'
      BY <2>1, <2>5, <3>4, <3>5 DEF Unchosen
    <3>6. ASSUME NEW i \in 1..Len(puts'[d]), puts'[d][i].account = a, puts'[d][i].name # a
          PROVE  (Covered(d, a, i) \/ Unchosen(d, a))'
      <4>1. CASE i = Len(puts[d]) + 1
        BY <2>3, <2>5, <3>2, <3>5, <3>6, <4>1
      <4>2. CASE i \in 1..Len(puts[d]) /\ Covered(d, a, i)
        BY <3>3, <4>2
      <4>3. CASE i \in 1..Len(puts[d]) /\ Unchosen(d, a) /\ (w.account = a => w.name # a)
        BY <3>5, <4>3
      <4>4. CASE i \in 1..Len(puts[d]) /\ w.account = a /\ w.name = a
        <5>1. Len(puts[d]) + 1 \in 1..Len(puts'[d]) /\ i < Len(puts[d]) + 1
          BY <1>0, <2>5, <4>4
        <5> QED
          BY <2>5, <4>4, <5>1 DEF Covered
      <4>5. i \in 1..Len(puts[d]) => Covered(d, a, i) \/ Unchosen(d, a)
        BY <2>5, <3>1, <3>6 DEF Threats
      <4> QED
        BY <3>4, <4>1, <4>2, <4>3, <4>4, <4>5
    <3>7. ASSUME NEW u \in tasks'[d], u.kind = "register", u.account = a
          PROVE  Unchosen(d, a)'
      <4>1. u \in tasks[d] /\ u # t /\ u \in Task
        BY <1>0, <2>6
      <4>2. t.account # a
        BY <1>0, <2>1, <3>7, <4>1 DEF Task
      <4>3. Unchosen(d, a)
        BY <3>1, <3>7, <4>1 DEF Threats
      <4> QED
        BY <2>3, <3>5, <4>2, <4>3
    <3> QED
      BY <3>6, <3>7 DEF Threats
  <2> QED
    BY <2>7 DEF Chosen
<1> QED
  BY <1>1, <1>2, <1>3, <1>4 DEF NotFound, AlreadyThere, TaskFails, server, queues

LEMMA ChosenRest ==
  ASSUME SessionInv, NEW d \in Device, Chosen(d),
         \/ Tap(d) \/ SheetCancelled(d) \/ Refresh(d) \/ ChangeName(d) \/ SignOut(d)
         \/ Kill(d) \/ ReadCrashes(d) \/ ReadAnswered(d)
         \/ Apply(d) \/ Ack(d) \/ Disconnect(d)
  PROVE  Chosen(d)'
<1>0. /\ TypeOK /\ TypeInv /\ Len(puts[d]) \in Nat /\ tasks \in [Device -> SUBSET Task]
      /\ crossed \in [Device -> BOOLEAN]
      /\ \A i \in 1..Len(puts[d]) : puts[d][i].account \in Account
  BY PutsFacts DEF SessionInv, TypeInv, TypeOK
<1>1. CASE Tap(d)
  <2>1. PICK t \in Task : t.kind # "register" /\ tasks' = [tasks EXCEPT ![d] = @ \cup {t}]
    BY <1>1 DEF Tap, Task, Account
  <2>2. tasks'[d] = tasks[d] \cup {t} /\ UNCHANGED <<users, puts, crossed>>
    BY <1>0, <1>1, <2>1 DEF Tap, server, queues
  <2> QED
    BY <2>1, <2>2, ChosenSame
<1>2. CASE SheetCancelled(d) \/ Refresh(d)
  BY <1>2, ChosenSame DEF SheetCancelled, Refresh, server
<1>3. CASE ChangeName(d)
  <2>1. currentUser[d] \in Account /\ UNCHANGED <<users, tasks>>
    BY <1>0, <1>3 DEF ChangeName, server, TypeOK
  <2>2. PICK w : w = [account |-> currentUser[d], whole |-> FALSE, name |-> currentUser[d]]
    OBVIOUS
  <2>3. w \in Put /\ w.account = currentUser[d] /\ w.name = currentUser[d]
    BY <2>1, <2>2 DEF Put, Name
  <2>4. puts' = [puts EXCEPT ![d] = Append(@, w)] /\ Len(puts[d]) < MaxPuts
    BY <1>3, <2>2 DEF ChangeName
  <2>5. /\ Len(puts'[d]) = Len(puts[d]) + 1
        /\ \A i \in 1..Len(puts[d]) : puts'[d][i] = puts[d][i]
        /\ puts'[d][Len(puts[d]) + 1] = w
    BY <1>0, <2>3, <2>4, PutAdded
  <2>6. ~crossed'[d] => ~crossed[d] /\ tasks[d] = {}
    <3>1. PICK b \in BOOLEAN : b = (crossed[d] \/ tasks[d] # {})
      OBVIOUS
    <3>2. crossed' = [crossed EXCEPT ![d] = b]
      BY <1>3, <3>1 DEF ChangeName
    <3> QED
      BY <1>0, <3>1, <3>2
  <2>7. ASSUME ~crossed'[d], NEW a \in EmailAccount PROVE Threats(d, a)'
    <3>1. Threats(d, a) /\ tasks'[d] = {}
      BY <2>1, <2>6, <2>7 DEF Chosen
    <3>2. \A i \in 1..Len(puts'[d]) : i \in 1..Len(puts[d]) \/ i = Len(puts[d]) + 1
      BY <1>0, <2>5
    <3>3. ASSUME NEW i \in 1..Len(puts'[d]), puts'[d][i].account = a, puts'[d][i].name # a
          PROVE  (Covered(d, a, i) \/ Unchosen(d, a))'
      <4>1. i \in 1..Len(puts[d])
        BY <2>3, <2>5, <3>2, <3>3
      <4>2. Len(puts[d]) + 1 \in 1..Len(puts'[d]) /\ i < Len(puts[d]) + 1
        BY <1>0, <2>5, <4>1
      <4>3. CASE currentUser[d] = a
        BY <2>3, <2>5, <4>2, <4>3 DEF Covered
      <4>4. CASE currentUser[d] # a /\ Covered(d, a, i)
        <5>1. PICK j \in 1..Len(puts[d]) : i < j /\ puts[d][j].account = a /\ puts[d][j].name = a
          BY <4>4 DEF Covered
        <5>2. j \in 1..Len(puts'[d]) /\ puts'[d][j] = puts[d][j]
          BY <1>0, <2>5, <5>1
        <5> QED
          BY <5>1, <5>2 DEF Covered
      <4>5. CASE currentUser[d] # a /\ Unchosen(d, a)
        BY <2>1, <2>3, <2>5, <3>2, <4>5 DEF Unchosen
      <4>6. Covered(d, a, i) \/ Unchosen(d, a)
        BY <2>5, <3>1, <3>3, <4>1 DEF Threats
      <4> QED
        BY <4>3, <4>4, <4>5, <4>6
    <3> QED
      BY <3>1, <3>3 DEF Threats
  <2> QED
    BY <2>7 DEF Chosen
<1>4. CASE SignOut(d)
  <2>1. PICK b \in BOOLEAN : b = (crossed[d] \/ tasks[d] # {})
    OBVIOUS
  <2>2. crossed' = [crossed EXCEPT ![d] = b] /\ UNCHANGED <<users, puts, tasks>>
    BY <1>4, <2>1 DEF SignOut, server, queues
  <2>3. CASE crossed'[d] = crossed[d]
    BY <2>2, <2>3, ChosenSame
  <2>4. CASE crossed'[d]
    BY <2>4 DEF Chosen
  <2> QED
    BY <1>0, <2>1, <2>2, <2>3, <2>4
<1>5. CASE Launch(d)
  <2>1. tasks'[d] = {} /\ puts'[d] = <<>>
    BY <1>0, <1>5 DEF Launch, TypeOK
  <2>2. Len(puts'[d]) = 0
    BY <2>1, EmptySeq
  <2> QED
    BY <2>1, <2>2 DEF Chosen, Threats
<1>6. CASE ReadAnswered(d)
  <2>1. PICK t : Finish(d, t)
    BY <1>6 DEF ReadAnswered
  <2>2. tasks'[d] = tasks[d] \ {t} /\ UNCHANGED <<users, puts, crossed>>
    BY <1>0, <1>6, <2>1, FinishFacts DEF ReadAnswered, server
  <2> QED
    BY <2>2, ChosenSame
<1>7. CASE Apply(d)
  <2>1. UNCHANGED <<tasks, puts, crossed>>
    BY <1>7 DEF Apply
  <2>2. PICK w : w = puts[d][applied[d] + 1]
    OBVIOUS
  <2>3. /\ applied[d] + 1 \in 1..Len(puts[d]) /\ users'[w.account].name = w.name
        /\ \A a \in Account : a # w.account => users'[a] = users[a]
    BY <1>0, <1>7, <2>2, ApplyFacts
  <2>4. ASSUME NEW a \in EmailAccount, Unchosen(d, a) PROVE Unchosen(d, a)'
    <3>1. w.account = a => w.name # a
      BY <2>2, <2>3, <2>4 DEF Unchosen
    <3>2. users'[a].name # a
      BY <2>3, <2>4, <3>1 DEF Unchosen, Account
    <3> QED
      BY <2>1, <2>4, <3>2 DEF Unchosen
  <2>5. \A a, i : Covered(d, a, i) => Covered(d, a, i)'
    BY <2>1 DEF Covered
  <2>6. ASSUME ~crossed'[d], NEW a \in EmailAccount PROVE Threats(d, a)'
    <3>1. Threats(d, a)
      BY <2>1, <2>6 DEF Chosen
    <3> QED
      BY <2>1, <2>4, <2>5, <3>1 DEF Threats
  <2> QED
    BY <2>6 DEF Chosen
<1>8. CASE Ack(d)
  <2>1. /\ Len(puts[d]) \in Nat \ {0} /\ Len(puts'[d]) = Len(puts[d]) - 1
        /\ \A i \in 1..Len(puts[d]) - 1 : puts'[d][i] = puts[d][i + 1]
        /\ UNCHANGED <<users, tasks, crossed>>
    BY <1>0, <1>8, AckFacts DEF Ack, server
  <2>2. \A i \in 1..Len(puts'[d]) : i + 1 \in 1..Len(puts[d]) /\ puts'[d][i] = puts[d][i + 1]
    BY <2>1
  <2>3. ASSUME NEW a \in EmailAccount, Unchosen(d, a) PROVE Unchosen(d, a)'
    BY <2>1, <2>2, <2>3 DEF Unchosen
  <2>4. ASSUME NEW a, NEW i \in 1..Len(puts'[d]), Covered(d, a, i + 1) PROVE Covered(d, a, i)'
    <3>1. PICK j \in 1..Len(puts[d]) : i + 1 < j /\ puts[d][j].account = a /\ puts[d][j].name = a
      BY <2>4 DEF Covered
    <3>2. j - 1 \in 1..Len(puts'[d]) /\ i < j - 1 /\ (j - 1) + 1 = j
      BY <2>1, <3>1
    <3>3. puts'[d][j - 1] = puts[d][j]
      BY <2>2, <3>2
    <3> QED
      BY <3>1, <3>2, <3>3 DEF Covered
  <2>5. ASSUME ~crossed'[d], NEW a \in EmailAccount PROVE Threats(d, a)'
    <3>1. Threats(d, a)
      BY <2>1, <2>5 DEF Chosen
    <3> QED
      BY <2>1, <2>2, <2>3, <2>4, <3>1 DEF Threats
  <2> QED
    BY <2>5 DEF Chosen
<1>9. CASE Disconnect(d)
  <2>1. UNCHANGED <<users, tasks, crossed>> /\ puts'[d] = puts[d]
    BY <1>0, <1>9 DEF Disconnect, Resent, server, TypeOK
  <2> QED
    BY <2>1, ChosenSame
<1> QED
  BY <1>1, <1>2, <1>3, <1>4, <1>5, <1>6, <1>7, <1>8, <1>9 DEF Kill, ReadCrashes

ChosenInv == SessionInv /\ \A d \in Device : Chosen(d)

LEMMA ChosenInvNext ==
  ASSUME \A d, e \in Device : d = e, ChosenInv, [Next]_vars
  PROVE  ChosenInv'
<1>1. SessionInv /\ SessionInv'
  BY SessionInvNext DEF ChosenInv
<1>2. CASE UNCHANGED vars
  <2>1. \A d \in Device : Chosen(d)'
    BY <1>2 DEF ChosenInv, Chosen, Threats, Covered, Unchosen, vars, server, queues
  <2> QED
    BY <1>1, <2>1 DEF ChosenInv
<1>3. ASSUME NEW d \in Device, DeviceStep(d) PROVE ChosenInv'
  <2>1. CASE TaskStep(d) \/ \E t \in tasks[d] : TaskFails(d, t)
    BY <1>1, <2>1, ChosenTask DEF ChosenInv, TaskStep
  <2>2. Chosen(d)'
    BY <1>1, <1>3, <2>1, ChosenTask, ChosenRest DEF ChosenInv, DeviceStep, TaskStep
  <2> QED
    BY <1>1, <2>2 DEF ChosenInv
<1> QED
  BY <1>2, <1>3, StepOrNot

\* The step formula of NameKept.
NameStays ==
  \A a \in EmailAccount : users[a].name = a =>
    \/ users'[a].name = a
    \/ \E d \in Device : crossed[d]
    \/ \E d \in Device : \E i \in DOMAIN puts'[d] :
         i > applied'[d] /\ puts'[d][i].account = a /\ puts'[d][i].name = a

LEMMA NameStaysStep == ASSUME ChosenInv, [Next]_vars PROVE NameStays
<1>1. CASE UNCHANGED users
  BY <1>1 DEF NameStays
<1>2. ASSUME NEW d \in Device, Apply(d) PROVE NameStays
  <2>1. TypeInv /\ TypeOK /\ Len(puts[d]) \in Nat /\ DOMAIN puts[d] = 1..Len(puts[d])
        /\ Chosen(d)
    BY PutsFacts DEF ChosenInv, SessionInv, TypeInv
  <2>2. /\ applied[d] + 1 \in 1..Len(puts[d]) /\ applied'[d] = applied[d] + 1
        /\ \A a \in Account : a # puts[d][applied[d] + 1].account => users'[a] = users[a]
        /\ users'[puts[d][applied[d] + 1].account].name = puts[d][applied[d] + 1].name
        /\ puts' = puts
    BY <1>2, <2>1, ApplyFacts DEF Apply
  <2>3. ASSUME NEW a \in EmailAccount, users[a].name = a, users'[a].name # a, ~crossed[d]
        PROVE  \E i \in DOMAIN puts'[d] :
                 i > applied'[d] /\ puts'[d][i].account = a /\ puts'[d][i].name = a
    <3>1. /\ puts[d][applied[d] + 1].account = a /\ puts[d][applied[d] + 1].name # a
      BY <2>2, <2>3 DEF Account
    <3>2. Covered(d, a, applied[d] + 1) \/ Unchosen(d, a)
      BY <2>1, <2>2, <2>3, <3>1 DEF Chosen, Threats
    <3>3. PICK j \in 1..Len(puts[d]) :
            applied[d] + 1 < j /\ puts[d][j].account = a /\ puts[d][j].name = a
      BY <2>3, <3>2 DEF Covered, Unchosen
    <3>4. j \in DOMAIN puts'[d] /\ j > applied'[d]
      BY <2>1, <2>2, <3>3
    <3> QED
      BY <2>2, <3>3, <3>4
  <2> QED
    BY <2>3 DEF NameStays
<1>3. ASSUME NEW d \in Device, DeviceStep(d) PROVE Apply(d) \/ UNCHANGED users
  BY <1>3 DEF DeviceStep, Tap, SheetCancelled, TaskStep, NotFound, AlreadyThere, SignedIn,
     Registered, TaskFails, Refresh, ChangeName, SignOut, ReadAnswered, ReadCrashes, Ack, Kill,
     Launch, Disconnect, server
<1>4. UNCHANGED vars => UNCHANGED users
  BY DEF vars, server
<1> QED
  BY <1>1, <1>2, <1>3, <1>4, StepOrNot

\* With one device, a name the user has chosen and the server has stored is
\* not taken back, whatever is killed, lost or sent again: a write with
\* another name is followed by one with the chosen name, or nothing has
\* been chosen yet, and a registration only waits while nothing has been.
THEOREM ChosenNameKept ==
  ASSUME \A d, e \in Device : d = e
  PROVE  Spec => NameKept
<1>1. Init => ChosenInv
  <2>1. Init => \A d \in Device : puts[d] = <<>> /\ tasks[d] = {}
    BY DEF Init
  <2>2. Len(<<>>) = 0
    BY EmptySeq
  <2>3. Init => \A d \in Device : Chosen(d)
    BY <2>1, <2>2 DEF Chosen, Threats
  <2> QED
    BY <2>3, SessionInvInit DEF ChosenInv
<1>2. ChosenInv /\ [Next]_vars => ChosenInv'
  BY ChosenInvNext
<1>3. ChosenInv /\ [Next]_vars => [NameStays]_vars
  BY NameStaysStep
<1>4. NameKept <=> [][NameStays]_vars
  BY DEF NameKept, NameStays
<1> QED
  BY <1>1, <1>2, <1>3, <1>4, PTL DEF Spec
=============================================================================
