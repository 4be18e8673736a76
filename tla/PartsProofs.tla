----------------------------- MODULE PartsProofs -----------------------------
(***************************************************************************)
(* Proofs about the smaller parts, each by itself, as MCParts checks them. *)
(***************************************************************************)
EXTENDS Parts, CompactionProofs

-----------------------------------------------------------------------------
(***************************************************************************)
(* Pictures.                                                               *)
(***************************************************************************)
Steps == {"put", "asked", "answered", "done", "lost"}
Task == [kind : Pics!Kind, step : Steps, address : Nat, error : BOOLEAN]

\* The storage has the upload of n, in the place i of its kind.
At(k, i, n) == i \in 1..Len(stored[k]) /\ stored[k][i] = n

PicturesType ==
  /\ task \in Seq(Task) /\ message \in Seq(Nat) /\ Len(message) = Len(task)
  /\ stored \in [Pics!Kind -> Seq(Nat)]
  /\ \A k \in Pics!Kind : \A i, n : At(k, i, n) => n \in 1..Len(task) /\ task[n].kind = k
  /\ \A k \in Pics!Kind : \A i, j, n : At(k, i, n) /\ At(k, j, n) => i = j
  /\ record \in Nat

\* The address of pick n is that of its own upload, or of a later one.
Timely(n) ==
  \E i, j : At(task[n].kind, i, task[n].address) /\ At(task[n].kind, j, n) /\ j <= i

AddressInv ==
  \A n \in 1..Len(task) :
    /\ task[n].step \in {"asked", "answered", "done"} /\ ~task[n].error =>
         \E i : At(task[n].kind, i, n)
    /\ task[n].step \in {"answered", "done"} /\ ~task[n].error => Timely(n)
    /\ message[n] # 0 =>
         task[n].kind = "chat" /\ task[n].step = "done" /\ message[n] = task[n].address

\* Uploads for the profile, as long as no two were under way at once.
Profile == { n \in 1..Len(task) : task[n].kind = "profile" }

ProfileInv ==
  ~together =>
    /\ \A n, m \in Profile : n < m => ~Pics!UnderWay(n)
    /\ \A n, m \in Profile : n < m /\ task[n].step = "done" /\ ~task[n].error =>
         \A j : At("profile", j, m) => \E i : At("profile", i, n) /\ i < j
    /\ \A m \in Profile : task[m].step = "done" =>
         record = task[m].address \/ \E n \in Profile : m < n /\ task[n].step = "done"

PicturesInv == PicturesType /\ AddressInv /\ ProfileInv

\* No picture has been picked.
LEMMA PicturesStart == Pics!Init => PicturesInv
<1> SUFFICES ASSUME Pics!Init PROVE PicturesInv
  OBVIOUS
<1>1. /\ task = <<>> /\ message = <<>> /\ record = 0
      /\ stored = [k \in Pics!Kind |-> <<>>]
  BY DEF Pics!Init, Pics!None
<1>2. <<>> \in Seq(Task) /\ <<>> \in Seq(Nat) /\ Len(<<>>) = 0
  BY EmptySeq
<1>3. \A k \in Pics!Kind : \A i, n : ~At(k, i, n)
  BY <1>1, <1>2 DEF At
<1> QED
  BY <1>1, <1>2, <1>3 DEF PicturesInv, PicturesType, AddressInv, ProfileInv, Profile

\* A step of an upload, or of several that are killed.
Moves ==
  /\ task' \in Seq(Task) /\ Len(task') = Len(task) /\ UNCHANGED <<stored, together>>
  /\ \A n \in 1..Len(task) : /\ task'[n].kind = task[n].kind
                             /\ Pics!UnderWay(n) \/ task'[n] = task[n]

\* The storage has more than before, in the same places.
LEMMA PlacesStay ==
  ASSUME PicturesType, NEW k \in Pics!Kind, NEW n \in Nat,
         stored' = [stored EXCEPT ![k] = Append(@, n)]
  PROVE  /\ stored' \in [Pics!Kind -> Seq(Nat)]
         /\ \A l \in Pics!Kind : \A i, m : At(l, i, m) => At(l, i, m)'
         /\ \A l \in Pics!Kind : \A i, m :
              At(l, i, m)' => At(l, i, m) \/ (l = k /\ m = n /\ i = Len(stored[k]) + 1)
         /\ \A i : i = Len(stored[k]) + 1 => At(k, i, n)'
         /\ \A l \in Pics!Kind : \A i, m : At(l, i, m) => i \in Nat /\ i < Len(stored[l]) + 1
<1>1. \A l \in Pics!Kind : stored[l] \in Seq(Nat) /\ Len(stored[l]) \in Nat
  BY LenProperties DEF PicturesType
<1>2. /\ stored'[k] = Append(stored[k], n) /\ stored' \in [Pics!Kind -> Seq(Nat)]
      /\ \A l \in Pics!Kind : l # k => stored'[l] = stored[l]
  BY <1>1, Appended DEF PicturesType
<1>3. /\ Len(stored'[k]) = Len(stored[k]) + 1
      /\ \A i \in 1..Len(stored[k]) : stored'[k][i] = stored[k][i]
      /\ stored'[k][Len(stored[k]) + 1] = n
  BY <1>1, <1>2, Appended
<1>4. \A l \in Pics!Kind : \A i, m : l # k => (At(l, i, m)' <=> At(l, i, m))
  BY <1>2 DEF At
<1>5. Len(stored[k]) \in Nat
  BY <1>1
<1>6. 1..(Len(stored[k]) + 1) = (1..Len(stored[k])) \cup {Len(stored[k]) + 1}
  BY <1>5
<1>7. \A i, m : At(k, i, m)' <=> At(k, i, m) \/ (m = n /\ i = Len(stored[k]) + 1)
  <2>1. Len(stored[k]) + 1 \notin 1..Len(stored[k])
    BY <1>5
  <2> QED
    BY <1>3, <1>6, <2>1 DEF At
<1>8. \A l \in Pics!Kind : \A i, m : At(l, i, m) => i \in Nat /\ i < Len(stored[l]) + 1
  BY <1>1 DEF At
<1>9. \A l \in Pics!Kind : \A i, m : At(l, i, m) => At(l, i, m)'
  BY <1>4, <1>7, Zenon
<1>10. \A l \in Pics!Kind : \A i, m :
         At(l, i, m)' => At(l, i, m) \/ (l = k /\ m = n /\ i = Len(stored[k]) + 1)
  BY <1>4, <1>7, Zenon
<1>11. \A i : i = Len(stored[k]) + 1 => At(k, i, n)'
  BY <1>7, Zenon
<1> QED
  BY <1>2, <1>8, <1>9, <1>10, <1>11, Zenon

\* A picture is picked, and its upload begins.
LEMMA PicturesPick ==
  ASSUME PicturesInv, NEW k \in Pics!Kind, Pics!PickImage(k)
  PROVE  PicturesInv'
<1>1. /\ task' = Append(task, Pics!Upload(k)) /\ message' = Append(message, 0)
      /\ together' = (together \/ (k = "profile" /\ \E n \in Pics!Pick : task[n].kind = "profile" /\ Pics!UnderWay(n)))
      /\ UNCHANGED <<stored, record>>
  BY DEF Pics!PickImage, Pics!None
<1>2. PicturesType /\ AddressInv /\ ProfileInv
  BY DEF PicturesInv
<1>3. Pics!Upload(k) \in Task /\ Pics!Upload(k).step = "put" /\ Pics!Upload(k).kind = k
  BY DEF Pics!Upload, Task, Steps, Pics!None
<1>4. PICK new : new = Len(task) + 1
  OBVIOUS
<1>5. /\ Len(task) \in Nat /\ Pics!Pick = 1..Len(task)
      /\ task' \in Seq(Task) /\ Len(task') = new /\ message' \in Seq(Nat) /\ Len(message') = new
      /\ \A n \in 1..Len(task) : task'[n] = task[n] /\ message'[n] = message[n]
      /\ task'[new].step = "put" /\ task'[new].kind = k /\ message'[new] = 0
  BY <1>1, <1>2, <1>3, <1>4, Elements, Appended DEF PicturesType, Pics!Pick
<1>6. 1..new = (1..Len(task)) \cup {new} /\ new \notin 1..Len(task) /\ \A n \in 1..Len(task) : n < new
  BY <1>4, <1>5
<1>7. \A l, i, n : At(l, i, n)' <=> At(l, i, n)
  BY <1>1 DEF At
<1>8. PicturesType'
  BY <1>1, <1>2, <1>5, <1>6, <1>7 DEF PicturesType
<1>9. AddressInv'
  <2>1. \A n \in 1..Len(task) : task'[n].step = task[n].step
    BY <1>5
  <2>2. \A n \in 1..Len(task) : Timely(n) => Timely(n)'
    BY <1>5, <1>7 DEF Timely
  <2> QED
    BY <2>1, <2>2, <1>2, <1>5, <1>6, <1>7 DEF AddressInv
<1>10. ProfileInv'
  <2>1. ~together' => ~together /\ (k = "profile" => \A n \in Profile : ~Pics!UnderWay(n))
    BY <1>1, <1>5 DEF Profile
  <2>2. Profile' = IF k = "profile" THEN Profile \cup {new} ELSE Profile
    BY <1>5, <1>6 DEF Profile
  <2>3. \A n \in Profile : /\ n \in 1..Len(task) /\ n < new /\ ~(new < n)
                           /\ task'[n] = task[n] /\ (Pics!UnderWay(n)' <=> Pics!UnderWay(n))
    BY <1>4, <1>5, <1>6 DEF Profile, Pics!UnderWay
  <2>4. \A j : ~At("profile", j, new)'
    BY <1>2, <1>6, <1>7 DEF PicturesType, Pics!Kind
  <2>5. ~(new < new) /\ task'[new].step # "done"
    BY <1>4, <1>5
  <2>6. ~together' => \A n, m \in Profile' : n < m => ~Pics!UnderWay(n)'
    BY <2>1, <2>2, <2>3, <2>5, <1>2 DEF ProfileInv
  <2>7. ~together' =>
          \A n, m \in Profile' : n < m /\ task'[n].step = "done" /\ ~task'[n].error =>
            \A j : At("profile", j, m)' => \E i : At("profile", i, n)' /\ i < j
    BY <2>1, <2>2, <2>3, <2>4, <2>5, <1>2, <1>7 DEF ProfileInv
  <2>8. ~together' =>
          \A m \in Profile' : task'[m].step = "done" =>
            record' = task'[m].address \/ \E n \in Profile' : m < n /\ task'[n].step = "done"
    <3>1. SUFFICES ASSUME ~together', NEW m \in Profile', task'[m].step = "done"
                   PROVE  record' = task'[m].address \/ \E n \in Profile' : m < n /\ task'[n].step = "done"
      OBVIOUS
    <3>2. m \in Profile /\ ~together /\ task'[m] = task[m] /\ record' = record
      BY <1>1, <2>1, <2>2, <2>3, <2>5, <3>1
    <3>3. record = task[m].address \/ \E n \in Profile : m < n /\ task[n].step = "done"
      BY <1>2, <3>1, <3>2 DEF ProfileInv
    <3>4. \A n \in Profile : n \in Profile' /\ task'[n] = task[n]
      BY <2>2, <2>3
    <3> QED
      BY <3>2, <3>3, <3>4
  <2> QED
    BY <2>6, <2>7, <2>8 DEF ProfileInv
<1> QED
  BY <1>8, <1>9, <1>10 DEF PicturesInv

\* The storage gets a picture: its place is after those of all others.
LEMMA PicturesStore ==
  ASSUME PicturesInv, NEW n \in Pics!Pick, Pics!Store(n)
  PROVE  PicturesInv'
<1>1. PicturesType /\ AddressInv /\ ProfileInv
  BY DEF PicturesInv
<1>2. /\ Len(task) \in Nat /\ Pics!Pick = 1..Len(task) /\ n \in Nat
      /\ \A m \in Pics!Pick : task[m] \in Task
  BY <1>1, Elements DEF PicturesType, Pics!Pick
<1>3. PICK k : k = task[n].kind
  OBVIOUS
<1>4. k \in Pics!Kind /\ stored' = [stored EXCEPT ![k] = Append(@, n)]
      /\ UNCHANGED <<task, message, record, together>>
  BY <1>2, <1>3 DEF Pics!Store, Task
<1>5. PICK new : new = Len(stored[k]) + 1
  OBVIOUS
<1>6. /\ stored' \in [Pics!Kind -> Seq(Nat)]
      /\ \A l \in Pics!Kind : \A i, m : At(l, i, m) => At(l, i, m)'
      /\ \A l \in Pics!Kind : \A i, m : At(l, i, m)' => At(l, i, m) \/ (l = k /\ m = n /\ i = new)
      /\ \A i, m : At(k, i, m) => i \in Nat /\ i < new
  BY <1>1, <1>2, <1>4, <1>5, PlacesStay
<1>7. \A i : ~At(k, i, n)
  <2>1. n \notin Pics!ToSet(stored[k])
    BY <1>3 DEF Pics!Store, Pics!Stored
  <2>2. stored[k] \in Seq(Nat)
    BY <1>1, <1>4 DEF PicturesType
  <2>3. \A i \in 1..Len(stored[k]) : stored[k][i] \in Pics!ToSet(stored[k])
    BY <2>2, Elements DEF Pics!ToSet
  <2> QED
    BY <2>1, <2>3 DEF At
<1>8. PicturesType'
  <2>1. \A l \in Pics!Kind : \A i, m : At(l, i, m)' => m \in 1..Len(task) /\ task[m].kind = l
    BY <1>1, <1>2, <1>3, <1>6 DEF PicturesType
  <2>2. \A l \in Pics!Kind : \A i, j, m : At(l, i, m)' /\ At(l, j, m)' => i = j
    <3>1. \A i, j, m : At(k, i, m)' /\ At(k, j, m)' => i = j
      BY <1>1, <1>4, <1>6, <1>7 DEF PicturesType
    <3>2. \A l \in Pics!Kind : \A i, m : l # k /\ At(l, i, m)' => At(l, i, m)
      BY <1>6
    <3> QED
      BY <1>1, <3>1, <3>2 DEF PicturesType
  <2> QED
    BY <1>1, <1>4, <1>6, <2>1, <2>2 DEF PicturesType
<1>9. AddressInv'
  <2>1. \A m \in 1..Len(task) : task[m].kind \in Pics!Kind
    BY <1>2 DEF Task, Pics!Pick
  <2>2. \A m \in 1..Len(task) : Timely(m) => Timely(m)'
    BY <2>1, <1>4, <1>6 DEF Timely
  <2> QED
    BY <2>1, <2>2, <1>1, <1>4, <1>6 DEF AddressInv
<1>10. ProfileInv'
  <2>1. Profile' = Profile /\ \A m \in Profile : Pics!UnderWay(m)' <=> Pics!UnderWay(m)
    BY <1>4 DEF Profile, Pics!UnderWay
  <2>2. ASSUME ~together, NEW o \in Profile, NEW m \in Profile, o < m, task[o].step = "done", ~task[o].error,
               NEW j, At("profile", j, m)'
        PROVE  \E i : At("profile", i, o)' /\ i < j
    <3>1. o \in 1..Len(task) /\ task[o].kind = "profile" /\ "profile" \in Pics!Kind
      BY DEF Profile, Pics!Kind
    <3>2. CASE At("profile", j, m)
      BY <3>1, <3>2, <2>2, <1>1, <1>6 DEF ProfileInv
    <3>3. CASE ~At("profile", j, m)
      <4>1. k = "profile" /\ j = new
        BY <3>1, <3>3, <2>2, <1>6
      <4>2. PICK i : At("profile", i, o)
        BY <3>1, <2>2, <1>1 DEF AddressInv
      <4> QED
        BY <3>1, <4>1, <4>2, <1>6
    <3> QED
      BY <3>2, <3>3
  <2> QED
    BY <2>1, <2>2, <1>1, <1>4 DEF ProfileInv
<1> QED
  BY <1>8, <1>9, <1>10 DEF PicturesInv

\* Uploads that move on without being done.
LEMMA PicturesMoves ==
  ASSUME PicturesInv, Moves, UNCHANGED <<message, record>>,
         \A n \in 1..Len(task) : task'[n] # task[n] =>
           /\ task'[n].step # "done"
           /\ task'[n].step \in {"asked", "answered"} /\ ~task'[n].error =>
                \E i : At(task[n].kind, i, n)
           /\ task'[n].step = "answered" /\ ~task'[n].error => Timely(n)'
  PROVE  PicturesInv'
<1>1. PicturesType /\ AddressInv /\ ProfileInv
  BY DEF PicturesInv
<1>2. \A l, i, n : At(l, i, n)' <=> At(l, i, n)
  BY DEF At, Moves
<1>3. /\ Len(task') = Len(task) /\ Profile' = Profile
      /\ \A n \in 1..Len(task) : task'[n].kind = task[n].kind
  BY DEF Moves, Profile
<1>4. \A n \in 1..Len(task) : ~Pics!UnderWay(n) => task'[n] = task[n]
  BY DEF Moves
<1>5. PicturesType'
  BY <1>1, <1>2, <1>3 DEF PicturesType, Moves
<1>6. AddressInv'
  <2>1. \A n \in 1..Len(task) : task'[n] = task[n] /\ Timely(n) => Timely(n)'
    BY <1>2 DEF Timely
  <2>2. \A n \in 1..Len(task) : task[n].step = "done" => ~Pics!UnderWay(n)
    BY DEF Pics!UnderWay
  <2>3. \A n \in 1..Len(task) :
          /\ task'[n].step \in {"asked", "answered", "done"} /\ ~task'[n].error =>
               (\E i : At(task[n].kind, i, n))'
          /\ task'[n].step \in {"answered", "done"} /\ ~task'[n].error => Timely(n)'
    BY <2>1, <1>1, <1>2, <1>3 DEF AddressInv
  <2>4. \A n \in 1..Len(task) : message'[n] # 0 =>
          task'[n].kind = "chat" /\ task'[n].step = "done" /\ message'[n] = task'[n].address
    BY <2>2, <1>1, <1>4 DEF AddressInv
  <2> QED
    BY <2>3, <2>4, <1>3 DEF AddressInv
<1>7. ProfileInv'
  <2>1. \A n \in Profile : /\ n \in 1..Len(task)
                           /\ Pics!UnderWay(n)' => Pics!UnderWay(n)
                           /\ task'[n].step = "done" => task'[n] = task[n]
                           /\ task[n].step = "done" => task'[n] = task[n]
    BY <1>4 DEF Profile, Pics!UnderWay
  <2>2. ~together' => ~together
    BY DEF Moves
  <2>3. ~together' => \A n, m \in Profile' : n < m => ~Pics!UnderWay(n)'
    BY <2>1, <2>2, <1>1, <1>3 DEF ProfileInv
  <2>4. ~together' =>
          \A n, m \in Profile' : n < m /\ task'[n].step = "done" /\ ~task'[n].error =>
            \A j : At("profile", j, m)' => \E i : At("profile", i, n)' /\ i < j
    BY <2>1, <2>2, <1>1, <1>2, <1>3 DEF ProfileInv
  <2>5. ~together' =>
          \A m \in Profile' : task'[m].step = "done" =>
            record' = task'[m].address \/ \E n \in Profile' : m < n /\ task'[n].step = "done"
    BY <2>1, <2>2, <1>1, <1>3 DEF ProfileInv
  <2> QED
    BY <2>3, <2>4, <2>5 DEF ProfileInv
<1> QED
  BY <1>5, <1>6, <1>7 DEF PicturesInv

\* One upload moves on.
LEMMA OneMoves ==
  ASSUME PicturesInv, NEW n \in Pics!Pick, NEW t \in Task, t.kind = task[n].kind, Pics!UnderWay(n),
         task' = [task EXCEPT ![n] = t], UNCHANGED <<stored, together>>
  PROVE  Moves /\ \A m \in 1..Len(task) : task'[m] = IF m = n THEN t ELSE task[m]
<1>1. task \in Seq(Task) /\ Pics!Pick = 1..Len(task)
  BY Elements DEF PicturesInv, PicturesType, Pics!Pick
<1>2. /\ task' \in Seq(Task) /\ Len(task') = Len(task)
      /\ \A m \in 1..Len(task) : task'[m] = IF m = n THEN t ELSE task[m]
  BY <1>1, ReplacedAt
<1> QED
  BY <1>2 DEF Moves

\* The types of a task.
LEMMA TaskOf ==
  ASSUME PicturesInv, NEW n \in Pics!Pick
  PROVE  task[n] \in Task /\ n \in 1..Len(task) /\ n \in Nat /\ Pics!Pick = 1..Len(task)
         /\ stored[task[n].kind] \in Seq(Nat)
<1>1. task \in Seq(Task) /\ stored \in [Pics!Kind -> Seq(Nat)]
  BY DEF PicturesInv, PicturesType
<1>2. Pics!Pick = 1..Len(task) /\ Len(task) \in Nat /\ task[n] \in Task
  BY <1>1, Elements DEF Pics!Pick
<1> QED
  BY <1>1, <1>2 DEF Task

\* The upload is over, well or not: the address is asked for.
LEMMA PicturesPut ==
  ASSUME PicturesInv, NEW n \in Pics!Pick, Pics!PutDone(n) \/ Pics!PutFails(n)
  PROVE  PicturesInv'
<1>1. task[n] \in Task /\ n \in 1..Len(task) /\ Pics!UnderWay(n) /\ stored[task[n].kind] \in Seq(Nat)
  BY TaskOf DEF Pics!PutDone, Pics!PutFails, Pics!UnderWay
<1>2. PICK t \in Task :
        /\ t.kind = task[n].kind /\ t.step = "asked"
        /\ t.error \/ Pics!Stored(n)
        /\ task' = [task EXCEPT ![n] = t] /\ UNCHANGED <<stored, message, record, together>>
  <2>1. CASE Pics!PutDone(n)
    <3> DEFINE t == [task[n] EXCEPT !.step = "asked"]
    <3>1. t \in Task /\ t.kind = task[n].kind /\ t.step = "asked"
      BY <1>1 DEF Task, Steps
    <3> QED
      BY <2>1, <3>1 DEF Pics!PutDone
  <2>2. CASE Pics!PutFails(n)
    <3> DEFINE t == [task[n] EXCEPT !.step = "asked", !.error = TRUE]
    <3>1. t \in Task /\ t.kind = task[n].kind /\ t.step = "asked" /\ t.error
      BY <1>1 DEF Task, Steps
    <3>2. task' = [task EXCEPT ![n] = t]
      BY <2>2 DEF Pics!PutFails
    <3> QED
      BY <2>2, <3>1, <3>2 DEF Pics!PutFails
  <2> QED
    BY <2>1, <2>2
<1>3. Pics!Stored(n) => \E i : At(task[n].kind, i, n)
  BY <1>1, Elements DEF Pics!Stored, Pics!ToSet, At
<1>4. Moves /\ \A m \in 1..Len(task) : task'[m] = IF m = n THEN t ELSE task[m]
  BY <1>1, <1>2, OneMoves
<1> QED
  BY <1>2, <1>3, <1>4, PicturesMoves

\* The address is that of the last upload of the kind.
LEMMA PicturesAddress ==
  ASSUME PicturesInv, NEW n \in Pics!Pick, Pics!AddressRead(n)
  PROVE  PicturesInv'
<1>1. task[n] \in Task /\ n \in 1..Len(task) /\ Pics!UnderWay(n) /\ stored[task[n].kind] \in Seq(Nat)
  BY TaskOf DEF Pics!AddressRead, Pics!UnderWay
<1> DEFINE q == stored[task[n].kind]
           t == [task[n] EXCEPT !.step = "answered", !.address = q[Len(q)]]
<1>2. Len(q) \in 1..Len(q) /\ q[Len(q)] \in Nat /\ Pics!Last(q) = q[Len(q)]
  BY <1>1, Elements DEF Pics!AddressRead, Pics!Last
<1>3. /\ t \in Task /\ t.kind = task[n].kind /\ t.step = "answered"
      /\ t.address = q[Len(q)] /\ t.error = task[n].error
  BY <1>1, <1>2 DEF Task, Steps
<1>4. task' = [task EXCEPT ![n] = t] /\ UNCHANGED <<stored, message, record, together>>
  BY <1>2 DEF Pics!AddressRead
<1> HIDE DEF t
<1>5. Moves /\ \A m \in 1..Len(task) : task'[m] = IF m = n THEN t ELSE task[m]
  BY <1>1, <1>3, <1>4, OneMoves
<1>6. ASSUME ~task[n].error PROVE (\E i : At(task[n].kind, i, n)) /\ Timely(n)'
  <2>1. PICK j : At(task[n].kind, j, n)
    BY <1>6, <1>1 DEF PicturesInv, AddressInv, Pics!AddressRead
  <2>2. At(task[n].kind, Len(q), t.address) /\ j <= Len(q)
    BY <2>1, <1>1, <1>2, <1>3, Elements DEF At
  <2>3. \A l, i, m : At(l, i, m)' <=> At(l, i, m)
    BY <1>4 DEF At
  <2>4. task'[n].kind = task[n].kind /\ task'[n].address = t.address
    BY <1>1, <1>3, <1>5
  <2> QED
    BY <2>1, <2>2, <2>3, <2>4 DEF Timely
<1> QED
  BY <1>3, <1>4, <1>5, <1>6, PicturesMoves

\* An upload is given up, or all that are under way.
LEMMA PicturesLost ==
  ASSUME PicturesInv, Pics!Kill \/ \E n \in Pics!Pick : Pics!NoAddress(n)
  PROVE  PicturesInv'
<1>1. Moves /\ UNCHANGED <<message, record>>
      /\ \A n \in 1..Len(task) : task'[n] # task[n] => task'[n].step = "lost"
  <2>1. CASE Pics!Kill
    <3> DEFINE T(n) == IF Pics!UnderWay(n) THEN [task[n] EXCEPT !.step = "lost"] ELSE task[n]
    <3>1. task \in Seq(Task) /\ Len(task) \in Nat /\ Pics!Pick = 1..Len(task)
          /\ \A n \in Pics!Pick : task[n] \in Task
      BY Elements DEF PicturesInv, PicturesType, Pics!Pick
    <3>2. task' = [n \in 1..Len(task) |-> T(n)] /\ UNCHANGED <<stored, message, record, together>>
      BY <2>1, <3>1 DEF Pics!Kill
    <3>3. \A n \in 1..Len(task) : /\ T(n) \in Task /\ T(n).kind = task[n].kind
                                  /\ T(n) = task[n] \/ (Pics!UnderWay(n) /\ T(n).step = "lost")
      BY <3>1 DEF Task, Steps
    <3> HIDE DEF T
    <3>4. task' \in Seq(Task) /\ Len(task') = Len(task) /\ \A n \in 1..Len(task) : task'[n] = T(n)
      BY <3>1, <3>2, <3>3, IsASeq, LenProperties
    <3> QED
      BY <3>2, <3>3, <3>4 DEF Moves
  <2>2. ASSUME NEW n \in Pics!Pick, Pics!NoAddress(n)
        PROVE  Moves /\ UNCHANGED <<message, record>>
               /\ \A m \in 1..Len(task) : task'[m] # task[m] => task'[m].step = "lost"
    <3> DEFINE t == [task[n] EXCEPT !.step = "lost"]
    <3>1. task[n] \in Task /\ Pics!UnderWay(n)
      BY <2>2, TaskOf DEF Pics!NoAddress, Pics!UnderWay
    <3>2. t \in Task /\ t.kind = task[n].kind /\ t.step = "lost"
      BY <3>1 DEF Task, Steps
    <3>3. task' = [task EXCEPT ![n] = t] /\ UNCHANGED <<stored, message, record, together>>
      BY <2>2 DEF Pics!NoAddress
    <3> HIDE DEF t
    <3>4. Moves /\ \A m \in 1..Len(task) : task'[m] = IF m = n THEN t ELSE task[m]
      BY <3>1, <3>2, <3>3, OneMoves
    <3> QED
      BY <3>2, <3>3, <3>4
  <2> QED
    BY <2>1, <2>2
<1> QED
  BY <1>1, PicturesMoves

\* The address goes into the message, or into the record.  If it is the
\* profile's, and never two were under way at once, no later pick exists.
LEMMA PicturesFinish ==
  ASSUME PicturesInv, NEW n \in Pics!Pick, Pics!Finish(n)
  PROVE  PicturesInv'
<1>1. /\ task[n] \in Task /\ n \in 1..Len(task) /\ n \in Nat /\ Pics!UnderWay(n)
      /\ task[n].step = "answered"
  BY TaskOf DEF Pics!Finish, Pics!UnderWay
<1>2. PicturesType /\ AddressInv /\ ProfileInv
  BY DEF PicturesInv
<1> DEFINE t == [task[n] EXCEPT !.step = "done"]
<1>3. /\ t \in Task /\ t.kind = task[n].kind /\ t.step = "done"
      /\ t.address = task[n].address /\ t.error = task[n].error
  BY <1>1 DEF Task, Steps
<1>4. task' = [task EXCEPT ![n] = t] /\ UNCHANGED <<stored, together>>
  BY DEF Pics!Finish
<1>5. /\ task[n].kind = "chat" => message' = [message EXCEPT ![n] = task[n].address] /\ record' = record
      /\ task[n].kind # "chat" => record' = task[n].address /\ message' = message
  BY DEF Pics!Finish, Pics!HandleSend, Pics!UpdateRecord
<1> HIDE DEF t
<1>6. Moves /\ \A m \in 1..Len(task) : task'[m] = IF m = n THEN t ELSE task[m]
  BY <1>1, <1>3, <1>4, OneMoves
<1>7. /\ Len(task') = Len(task) /\ Profile' = Profile
      /\ \A m \in 1..Len(task) : /\ task'[m].kind = task[m].kind /\ task'[m].address = task[m].address
                                 /\ task'[m].error = task[m].error
  BY <1>3, <1>6 DEF Moves, Profile
<1>8. \A l, i, m : At(l, i, m)' <=> At(l, i, m)
  BY <1>4 DEF At
<1>9. task[n].address \in Nat /\ n \in 1..Len(message)
  BY <1>1, <1>2 DEF Task, PicturesType
<1>10. /\ message' \in Seq(Nat) /\ Len(message') = Len(message) /\ record' \in Nat
       /\ \A m \in 1..Len(task) : message'[m] =
            IF m = n /\ task[n].kind = "chat" THEN task[n].address ELSE message[m]
  BY <1>2, <1>5, <1>9, ReplacedAt DEF PicturesType
<1>11. PicturesType'
  <2>1. task' \in Seq(Task) /\ message' \in Seq(Nat) /\ Len(message') = Len(task') /\ record' \in Nat
    BY <1>2, <1>6, <1>10 DEF PicturesType, Moves
  <2>2. stored' \in [Pics!Kind -> Seq(Nat)]
    BY <1>2, <1>4 DEF PicturesType
  <2>3. \A l \in Pics!Kind : \A i, m : At(l, i, m)' => m \in 1..Len(task') /\ task'[m].kind = l
    BY <1>2, <1>7, <1>8 DEF PicturesType
  <2>4. \A l \in Pics!Kind : \A i, j, m : At(l, i, m)' /\ At(l, j, m)' => i = j
    BY <1>2, <1>8 DEF PicturesType
  <2> QED
    BY <2>1, <2>2, <2>3, <2>4 DEF PicturesType
<1>12. AddressInv'
  <2>1. \A m \in 1..Len(task) : Timely(m) => Timely(m)'
    BY <1>7, <1>8 DEF Timely
  <2>2. \A m \in 1..Len(task) : (\E i : At(task[m].kind, i, m)) => (\E i : At(task[m].kind, i, m))'
    BY <1>7, <1>8
  <2>3. \A m \in 1..Len(task) :
          /\ task'[m].step \in {"asked", "answered", "done"} /\ ~task'[m].error =>
               (\E i : At(task[m].kind, i, m))'
          /\ task'[m].step \in {"answered", "done"} /\ ~task'[m].error => Timely(m)'
    BY <2>1, <2>2, <1>1, <1>2, <1>3, <1>6 DEF AddressInv
  <2>4. \A m \in 1..Len(task) : message'[m] # 0 =>
          task'[m].kind = "chat" /\ task'[m].step = "done" /\ message'[m] = task'[m].address
    BY <1>1, <1>2, <1>3, <1>6, <1>7, <1>10 DEF AddressInv
  <2> QED
    BY <2>3, <2>4, <1>7 DEF AddressInv
<1>13. ProfileInv'
  <2>1. ~together' => ~together
    BY <1>4
  <2>2. \A m \in Profile : /\ m \in 1..Len(task) /\ m \in Nat
                           /\ Pics!UnderWay(m)' => Pics!UnderWay(m)
                           /\ m # n => task'[m] = task[m]
    BY <1>3, <1>6 DEF Profile, Pics!UnderWay
  <2>3. ~together => \A m \in Profile : n \in Profile => ~(n < m)
    BY <1>1, <1>2 DEF ProfileInv
  <2>4. ~together' => \A o, m \in Profile' : o < m => ~Pics!UnderWay(o)'
    BY <2>1, <2>2, <1>2, <1>7 DEF ProfileInv
  <2>5. ~together' =>
          \A o, m \in Profile' : o < m /\ task'[o].step = "done" /\ ~task'[o].error =>
            \A j : At("profile", j, m)' => \E i : At("profile", i, o)' /\ i < j
    BY <2>1, <2>2, <2>3, <1>2, <1>7, <1>8 DEF ProfileInv
  <2>6. ASSUME ~together, NEW m \in Profile, task'[m].step = "done"
        PROVE  record' = task'[m].address \/ \E o \in Profile : m < o /\ task'[o].step = "done"
    <3>1. CASE n \notin Profile
      <4>1. record' = record
        BY <3>1, <1>1, <1>2, <1>5 DEF Profile, Task, Pics!Kind
      <4>2. \A o \in Profile : task'[o] = task[o]
        BY <3>1, <2>2
      <4> QED
        BY <4>1, <4>2, <2>6, <1>2 DEF ProfileInv
    <3>2. CASE n \in Profile /\ m # n
      <4>1. m < n
        BY <3>2, <2>2, <2>3, <2>6, <1>1
      <4> QED
        BY <4>1, <3>2, <1>1, <1>3, <1>6
    <3>3. CASE n \in Profile /\ m = n
      <4>1. task[n].kind # "chat"
        BY <3>3 DEF Profile
      <4> QED
        BY <3>3, <4>1, <1>1, <1>5, <1>7
    <3> QED
      BY <3>1, <3>2, <3>3
  <2> QED
    BY <2>1, <2>4, <2>5, <2>6, <1>7 DEF ProfileInv
<1> QED
  BY <1>11, <1>12, <1>13 DEF PicturesInv

\* What stands still.
LEMMA PicturesStill == PicturesInv /\ UNCHANGED Pics!vars => PicturesInv'
<1> SUFFICES ASSUME PicturesInv, UNCHANGED Pics!vars PROVE PicturesInv'
  OBVIOUS
<1>1. UNCHANGED <<task, stored, message, record, together>>
  BY DEF Pics!vars
<1>2. \A l, i, m : At(l, i, m)' <=> At(l, i, m)
  BY <1>1 DEF At
<1>3. \A n : (Timely(n)' <=> Timely(n)) /\ (Pics!UnderWay(n)' <=> Pics!UnderWay(n))
  BY <1>1, <1>2 DEF Timely, Pics!UnderWay
<1>4. PicturesType'
  BY <1>1, <1>2 DEF PicturesInv, PicturesType
<1>5. AddressInv'
  BY <1>1, <1>2, <1>3 DEF PicturesInv, AddressInv
<1>6. ProfileInv'
  <2>1. Profile' = Profile
    BY <1>1 DEF Profile
  <2> QED
    BY <2>1, <1>1, <1>2, <1>3 DEF PicturesInv, ProfileInv
<1> QED
  BY <1>4, <1>5, <1>6 DEF PicturesInv

-----------------------------------------------------------------------------
\* The place of an upload is the one that the model names.
LEMMA PlaceOf ==
  ASSUME PicturesType, NEW k \in Pics!Kind, NEW i, NEW n, At(k, i, n)
  PROVE  Pics!At(k, n) = i
<1>1. stored[k] \in Seq(Nat)
  BY DEF PicturesType
<1>2. i \in DOMAIN stored[k] /\ stored[k][i] = n
  BY <1>1, Elements DEF At
<1>3. \A j \in DOMAIN stored[k] : stored[k][j] = n => j = i
  <2>1. \A j \in DOMAIN stored[k] : stored[k][j] = n => At(k, j, n)
    BY <1>1, Elements DEF At
  <2> QED
    BY <2>1 DEF PicturesType
<1> QED
  BY <1>2, <1>3 DEF Pics!At

\* A message never has the address of an older picture than its own.
LEMMA InvNoOlder == PicturesInv => Pics!NoOlderPicture
<1> SUFFICES ASSUME PicturesInv, NEW n \in Pics!Pick, message[n] # Pics!None, ~task[n].error
             PROVE  Pics!Stored(n) /\ Pics!At("chat", message[n]) >= Pics!At("chat", n)
  BY DEF Pics!NoOlderPicture
<1>1. task[n] \in Task /\ n \in 1..Len(task) /\ stored[task[n].kind] \in Seq(Nat)
  BY TaskOf
<1>2. task[n].kind = "chat" /\ task[n].step = "done" /\ message[n] = task[n].address /\ Timely(n)
  BY <1>1 DEF PicturesInv, AddressInv, Pics!None
<1>3. PICK i, j : At("chat", i, message[n]) /\ At("chat", j, n) /\ j <= i
  BY <1>2 DEF Timely
<1>4. Pics!At("chat", message[n]) = i /\ Pics!At("chat", n) = j
  BY <1>3, PlaceOf DEF PicturesInv, Pics!Kind
<1>5. Pics!Stored(n)
  BY <1>1, <1>2, <1>3, Elements DEF At, Pics!Stored, Pics!ToSet
<1>6. i \in Nat /\ j \in Nat
  BY <1>1, <1>2, <1>3, Elements DEF At
<1> QED
  BY <1>3, <1>4, <1>5, <1>6

\* The last pick for the profile is the last upload, and the record has its
\* address.
LEMMA InvAlive == PicturesInv => Pics!ProfileAlive
<1> SUFFICES ASSUME PicturesInv, ~together,
                    \A n \in Pics!Pick : task[n].kind = "profile" => task[n].step = "done" /\ ~task[n].error,
                    stored["profile"] # <<>>
             PROVE  record = Pics!Last(stored["profile"])
  BY DEF Pics!ProfileAlive
<1> DEFINE q == stored["profile"]
<1>1. PicturesType /\ AddressInv /\ ProfileInv /\ "profile" \in Pics!Kind
  BY DEF PicturesInv, Pics!Kind
<1>2. q \in Seq(Nat) /\ Len(q) \in Nat /\ Len(q) \in 1..Len(q) /\ Pics!Last(q) = q[Len(q)]
  BY <1>1, Elements DEF PicturesType, Pics!Last
<1>3. At("profile", Len(q), q[Len(q)])
  BY <1>2 DEF At
<1>4. \A i, n : At("profile", i, n) => n \in Profile /\ i \in Nat /\ i <= Len(q)
  BY <1>1, <1>2 DEF PicturesType, Profile, At
<1>5. Profile \subseteq Nat /\ Len(task) \in Nat /\ \A n \in Profile : n <= Len(task)
  BY <1>1, Elements DEF PicturesType, Profile
<1>6. PICK m \in Profile : \A n \in Profile : n <= m
  BY <1>3, <1>4, <1>5, GreatestNatural
<1>7. \A n \in Profile : task[n].step = "done" /\ ~task[n].error /\ n \in 1..Len(task) /\ task[n].kind = "profile"
  BY <1>1, Elements DEF PicturesType, Profile, Pics!Pick
<1>8. record = task[m].address
  BY <1>1, <1>5, <1>6, <1>7 DEF ProfileInv
<1>9. PICK i, j : At("profile", i, task[m].address) /\ At("profile", j, m) /\ j <= i
  BY <1>1, <1>6, <1>7 DEF AddressInv, Timely
<1>10. ASSUME NEW l, NEW n, At("profile", l, n), j <= l PROVE n = m
  <2>1. n \in Profile /\ n <= m /\ n \in Nat /\ m \in Nat
    BY <1>4, <1>5, <1>6, <1>10
  <2>2. ASSUME n < m PROVE FALSE
    <3>1. PICK o : At("profile", o, n) /\ o < j
      BY <2>1, <2>2, <1>1, <1>6, <1>7, <1>9 DEF ProfileInv
    <3>2. o = l
      BY <3>1, <1>1, <1>10 DEF PicturesType
    <3> QED
      BY <3>1, <3>2, <1>4, <1>9, <1>10
  <2> QED
    BY <2>1, <2>2
<1>11. task[m].address = m /\ q[Len(q)] = m
  BY <1>3, <1>4, <1>9, <1>10
<1> QED
  BY <1>2, <1>8, <1>11

LEMMA PicturesStep == PicturesInv /\ [Pics!Next]_Pics!vars => PicturesInv'
BY PicturesPick, PicturesStore, PicturesPut, PicturesAddress, PicturesLost, PicturesFinish,
   PicturesStill DEF Pics!Next

LEMMA PicturesAlone == PartsSpec => [](part = "pictures" => PicturesInv)
<1>1. PartsInit => (part = "pictures" => PicturesInv)
  BY PicturesStart DEF PartsInit
<1>2. (part = "pictures" => PicturesInv) /\ [PartsNext]_partsVars => (part = "pictures" => PicturesInv)'
  <2> SUFFICES ASSUME part = "pictures" => PicturesInv, [PartsNext]_partsVars, part' = "pictures"
               PROVE  PicturesInv'
    OBVIOUS
  <2>1. part = "pictures" /\ [Pics!Next]_Pics!vars
    BY DEF PartsNext, partsVars, pVars, Pics!vars
  <2> QED
    BY <2>1, PicturesStep
<1> QED
  BY <1>1, <1>2, PTL DEF PartsSpec

\* After an upload without an error, a message has the address of its own
\* picture or of a later one, for any number of uploads, failures and kills.
THEOREM MessageOwnPicture == PartsSpec => []NoOlderPicture
<1>1. (part = "pictures" => PicturesInv) => NoOlderPicture
  BY InvNoOlder DEF NoOlderPicture
<1> QED
  BY <1>1, PicturesAlone, PTL

\* Pictures picked for the profile one after the other leave its record with
\* the address of what is stored.
THEOREM ProfileHasPicture == PartsSpec => []ProfileAlive
<1>1. (part = "pictures" => PicturesInv) => ProfileAlive
  BY InvAlive DEF ProfileAlive
<1> QED
  BY <1>1, PicturesAlone, PTL

-----------------------------------------------------------------------------
(***************************************************************************)
(* The skip list.                                                          *)
(***************************************************************************)
Node == 0..MaxKey
SkipLevel == 0..(MaxHeight - 1)
Store == [place : Node \X Nat, value : Nat]
Views == 0..Len(stores)

\* A link of a level above the lowest, to one of the nodes ks or to Null.
Upper(s, ks) ==
  /\ s.place[1] \in Node /\ s.place[2] \in SkipLevel /\ s.place[2] # 0
  /\ s.value \in ks \cup {Skip!Null} /\ s.place[1] < s.value

\* A change of the height.
Height(s) == s.place = Skip!MaxHeightPlace /\ s.value \in 1..MaxHeight

\* What a reader may see: all links lead forward to nodes that are linked on
\* the lowest level, where they pass over none.
ViewInv ==
  \A v \in Views :
    /\ \A n \in Node, l \in SkipLevel :
         Skip!Value(<<n, l>>, v) \in Skip!Linked(v) \cup {Skip!Null} /\ n < Skip!Value(<<n, l>>, v)
    /\ \A n \in Skip!Linked(v) \cup {0}, k \in Skip!Linked(v) :
         n < k => Skip!Value(<<n, 0>>, v) <= k
    /\ Skip!Value(Skip!MaxHeightPlace, v) \in 1..MaxHeight

\* The node k, which is to come between p and x, is not linked yet: the link
\* to it on the lowest level is the store c of those to be made.
Between(k, p, x, c) ==
  /\ k \in Skip!Key /\ p \in Skip!Linked(Len(stores)) \cup {0} /\ p < k /\ k < x
  /\ x = Skip!Now(<<p, 0>>)
  /\ c \in 1..Len(pending) /\ c <= 3
  /\ pending[c].place = <<p, 0>> /\ pending[c].value = k
  /\ IF c = 1 THEN Skip!Now(<<k, 0>>) = x
              ELSE pending[c - 1].place = <<k, 0>> /\ pending[c - 1].value = x
  /\ c = 3 => Height(pending[1])
  /\ \A j \in 1..Len(pending) : c < j => Upper(pending[j], Skip!Linked(Len(stores)) \cup {k})

PendingInv ==
  \/ \A j \in 1..Len(pending) : Upper(pending[j], Skip!Linked(Len(stores)))
  \/ \E k, p, x, c \in Nat : Between(k, p, x, c)

Busy == [step : {"search", "done"}, left : Int, kind : {"geq", "less"}, key : Nat,
         began : Nat, view : Nat, node : Nat, level : SkipLevel]

\* What the search has passed and where it is.
SearchInv ==
  /\ search.view \in Views /\ search.left \in Int
  /\ search.step \in {"idle", "search", "done"}
  /\ search.step \in {"search", "done"} =>
       /\ search \in Busy
       /\ search.began <= search.view /\ search.key <= Skip!Null
  /\ search.step = "search" => search.node \in Skip!Linked(search.view) \cup {0} /\ search.node < search.key
  /\ search.step = "done" =>
       /\ search.node \in Skip!Linked(search.view) \cup {0, Skip!Null}
       /\ IF search.kind = "geq"
            THEN search.key <= search.node
                 /\ \A k \in Skip!Linked(search.began) : search.key <= k => search.node <= k
            ELSE search.node < search.key
                 /\ \A k \in Skip!Linked(search.began) : k < search.key => k <= search.node

SkipType == stores \in Seq(Store) /\ pending \in Seq(Store)

SkipInv == SkipType /\ ViewInv /\ PendingInv /\ SearchInv

\* The greatest element is what is called Max.
LEMMA GreatestIs ==
  ASSUME NEW T, T \subseteq Nat, NEW b \in T, \A y \in T : y <= b
  PROVE  Skip!Max(T) = b
<1>1. Skip!Max(T) = Max(T)
  BY DEF Skip!Max, Max
<1>2. Max(T) \in T /\ \A y \in T : y <= Max(T)
  BY GreatestNatural
<1>3. Max(T) \in Nat /\ b \in Nat /\ Max(T) <= b /\ b <= Max(T)
  BY <1>2
<1> QED
  BY <1>1, <1>3

\* The types of a store.
LEMMA StoreOf ==
  ASSUME stores \in Seq(Store)
  PROVE  /\ Len(stores) \in Nat /\ Views \subseteq Nat
         /\ \A i \in 1..Len(stores) :
              stores[i] \in Store /\ stores[i].value \in Nat /\ stores[i].place \in Node \X Nat
<1>1. Len(stores) \in Nat /\ \A i \in 1..Len(stores) : stores[i] \in Store
  BY Elements
<1> QED
  BY <1>1 DEF Store, Views

\* Who sees more stores sees more nodes linked.
LEMMA LinkedGrows ==
  ASSUME NEW v \in Views, NEW w \in Views, v <= w, stores \in Seq(Store)
  PROVE  Skip!Linked(v) \subseteq Skip!Linked(w) /\ Skip!Linked(w) \subseteq Skip!Key
<1>1. v \in Nat /\ w \in Nat /\ \A j \in 1..v : j \in 1..w
  BY StoreOf
<1> QED
  BY <1>1 DEF Skip!Linked

\* A load gives the value of its place as it is at the view the reader has then.
LEMMA LoadIs ==
  ASSUME stores \in Seq(Store), NEW place, NEW v \in Views, NEW r \in Skip!Loads(place, v)
  PROVE  r.view \in Views /\ v <= r.view /\ r.value = Skip!Value(place, r.view)
<1>1. CASE r = [value |-> Skip!Value(place, v), view |-> v]
  BY <1>1, StoreOf
<1>2. ASSUME NEW i \in (v + 1)..Len(stores), stores[i].place = place,
             r = [value |-> stores[i].value, view |-> i]
      PROVE  r.view \in Views /\ v <= r.view /\ r.value = Skip!Value(place, r.view)
  <2>1. v \in Nat /\ Len(stores) \in Nat
    BY StoreOf
  <2>2. i \in Nat /\ i \in Views /\ v <= i /\ i \in 1..i
    BY <2>1 DEF Views
  <2> DEFINE at == { j \in 1..i : stores[j].place = place }
  <2>3. at \subseteq Nat /\ i \in at /\ \A y \in at : y <= i
    BY <1>2, <2>2
  <2> HIDE DEF at
  <2>4. Skip!Max(at) = i /\ at # {}
    BY <2>3, GreatestIs
  <2>5. Skip!Value(place, i) = stores[i].value
    BY <2>4 DEF Skip!Value, at
  <2> QED
    BY <1>2, <2>2, <2>5
<1> QED
  BY <1>1, <1>2 DEF Skip!Loads

\* A store changes what its place has, for the views that see it.
LEMMA ValueStored ==
  ASSUME stores \in Seq(Store), NEW s \in Store, stores' = Append(stores, s), NEW place
  PROVE  /\ \A v \in Views : Skip!Value(place, v)' = Skip!Value(place, v)
         /\ \A v : v = Len(stores) + 1 =>
              Skip!Value(place, v)' = IF s.place = place THEN s.value ELSE Skip!Value(place, Len(stores))
<1>1. /\ Len(stores) \in Nat /\ Len(stores') = Len(stores) + 1
      /\ \A i \in 1..Len(stores) : stores'[i] = stores[i]
      /\ stores'[Len(stores) + 1] = s
  BY StoreOf, Appended
<1>2. ASSUME NEW v \in Views PROVE Skip!Value(place, v)' = Skip!Value(place, v)
  <2>1. \A i \in 1..v : stores'[i] = stores[i]
    BY <1>1 DEF Views
  <2> DEFINE at == { i \in 1..v : stores[i].place = place }
  <2>2. { i \in 1..v : stores'[i].place = place } = at
    BY <2>1
  <2>3. at # {} => Skip!Max(at) \in 1..v
    <3>1. at # {} => \E b \in at : \A y \in at : y <= b
      <4>1. v \in Nat /\ at \subseteq Nat /\ \A y \in at : y <= v
        BY <1>1 DEF Views
      <4> HIDE DEF at
      <4> QED
        BY <4>1, GreatestNatural
    <3>2. at \subseteq Nat /\ at \subseteq 1..v
      OBVIOUS
    <3> HIDE DEF at
    <3> QED
      BY <3>1, <3>2, GreatestIs
  <2>4. at # {} => stores'[Skip!Max(at)] = stores[Skip!Max(at)]
    BY <2>1, <2>3
  <2> QED
    BY <2>2, <2>4 DEF Skip!Value, Skip!MaxHeightPlace, Skip!HeadNode, Skip!Null
<1>3. ASSUME NEW v, v = Len(stores) + 1
      PROVE  Skip!Value(place, v)' = IF s.place = place THEN s.value ELSE Skip!Value(place, Len(stores))
  <2> DEFINE at == { i \in 1..v : stores'[i].place = place }
  <2>1. v \in Nat /\ 1..v = (1..Len(stores)) \cup {v} /\ Len(stores) \in Views
    BY <1>1, <1>3 DEF Views
  <2>2. CASE s.place = place
    <3>1. at \subseteq Nat /\ v \in at /\ \A y \in at : y <= v
      BY <1>1, <1>3, <2>1, <2>2
    <3> HIDE DEF at
    <3>2. Skip!Max(at) = v /\ at # {}
      BY <3>1, GreatestIs
    <3> QED
      BY <1>1, <1>3, <2>2, <3>2 DEF Skip!Value, at
  <2>3. CASE s.place # place
    <3>1. at = { i \in 1..Len(stores) : stores'[i].place = place }
      BY <1>1, <1>3, <2>1, <2>3
    <3>2. \A w : w = Len(stores) => Skip!Value(place, w)' = Skip!Value(place, v)'
      BY <3>1 DEF Skip!Value
    <3> QED
      BY <1>2, <2>1, <2>3, <3>2
  <2> QED
    BY <2>2, <2>3
<1> QED
  BY <1>2, <1>3

\* What one more store links.
LEMMA LinkedStored ==
  ASSUME stores \in Seq(Store), NEW s \in Store, stores' = Append(stores, s)
  PROVE  /\ \A v \in Views : Skip!Linked(v)' = Skip!Linked(v)
         /\ \A v : v = Len(stores) + 1 =>
              Skip!Linked(v)' = Skip!Linked(Len(stores)) \cup
                               (IF s.place[2] = 0 THEN {s.value} \cap Skip!Key ELSE {})
<1>1. /\ Len(stores) \in Nat /\ Len(stores') = Len(stores) + 1
      /\ \A i \in 1..Len(stores) : stores'[i] = stores[i]
      /\ stores'[Len(stores) + 1] = s
  BY StoreOf, Appended
<1>2. ASSUME NEW v \in Views PROVE Skip!Linked(v)' = Skip!Linked(v)
  <2>1. \A i \in 1..v : stores'[i] = stores[i]
    BY <1>1 DEF Views
  <2> QED
    BY <2>1 DEF Skip!Linked, Skip!Key
<1>3. ASSUME NEW v, v = Len(stores) + 1
      PROVE  Skip!Linked(v)' = Skip!Linked(Len(stores)) \cup
                              (IF s.place[2] = 0 THEN {s.value} \cap Skip!Key ELSE {})
  <2>1. 1..v = (1..Len(stores)) \cup {v} /\ stores'[v] = s
    BY <1>1, <1>3
  <2> QED
    BY <1>1, <2>1 DEF Skip!Linked, Skip!Key
<1> QED
  BY <1>2, <1>3

\* The keys, levels (kMaxHeight, 12) and searches are counted.
Sizes == MaxKey \in Nat /\ MaxHeight \in Nat \ {0} /\ MaxReads \in Nat

\* A store makes no view worse if it makes none of what is seen after it worse.
LEMMA ViewAfter ==
  ASSUME stores \in Seq(Store), ViewInv, NEW s \in Store, stores' = Append(stores, s),
         NEW v, v = Len(stores) + 1,
         \A n \in Node, l \in SkipLevel :
           Skip!Value(<<n, l>>, v)' \in Skip!Linked(v)' \cup {Skip!Null} /\ n < Skip!Value(<<n, l>>, v)',
         \A n \in Skip!Linked(v)' \cup {0}, k \in Skip!Linked(v)' :
           n < k => Skip!Value(<<n, 0>>, v)' <= k,
         Skip!Value(Skip!MaxHeightPlace, v)' \in 1..MaxHeight
  PROVE  ViewInv'
<1>1. Len(stores') = Len(stores) + 1 /\ Len(stores) \in Nat
  BY StoreOf, Appended
<1>2. Views' = Views \cup {v}
  BY <1>1 DEF Views
<1>3. ASSUME NEW w \in Views
      PROVE  /\ \A n \in Node, l \in SkipLevel :
                  Skip!Value(<<n, l>>, w)' \in Skip!Linked(w)' \cup {Skip!Null} /\ n < Skip!Value(<<n, l>>, w)'
             /\ \A n \in Skip!Linked(w)' \cup {0}, k \in Skip!Linked(w)' :
                  n < k => Skip!Value(<<n, 0>>, w)' <= k
             /\ Skip!Value(Skip!MaxHeightPlace, w)' \in 1..MaxHeight
  <2>1. Skip!Linked(w)' = Skip!Linked(w) /\ \A place : Skip!Value(place, w)' = Skip!Value(place, w)
    BY LinkedStored, ValueStored
  <2>2. Skip!MaxHeightPlace' = Skip!MaxHeightPlace
    BY DEF Skip!MaxHeightPlace, Skip!HeadNode
  <2> QED
    BY <2>1, <2>2 DEF ViewInv
<1> QED
  BY <1>2, <1>3 DEF ViewInv

\* What is seen of the list now.
LEMMA NowSeen ==
  ASSUME stores \in Seq(Store), ViewInv, NEW ks, ks = Skip!Linked(Len(stores))
  PROVE  /\ \A n \in Node, l \in SkipLevel :
              Skip!Now(<<n, l>>) \in ks \cup {Skip!Null} /\ n < Skip!Now(<<n, l>>)
         /\ \A n \in ks \cup {0}, k \in ks : n < k => Skip!Now(<<n, 0>>) <= k
         /\ Skip!Now(Skip!MaxHeightPlace) \in 1..MaxHeight
         /\ ks \subseteq Skip!Key
<1>1. Len(stores) \in Views
  BY StoreOf DEF Views
<1>2. ks \subseteq Skip!Key
  BY DEF Skip!Linked
<1> QED
  BY <1>1, <1>2 DEF ViewInv, Skip!Now

\* Levels above the lowest, the height, and a node's own link before the node
\* is linked: the lowest level is what it was.
LEMMA StoredAbove ==
  ASSUME Sizes, stores \in Seq(Store), ViewInv, NEW s \in Store, stores' = Append(stores, s),
         NEW ks, ks = Skip!Linked(Len(stores)),
         \/ Upper(s, ks)
         \/ Height(s)
         \/ \E k \in Skip!Key \ ks : s.place = <<k, 0>> /\ s.value \in ks \cup {Skip!Null} /\ k < s.value
  PROVE  /\ ViewInv'
         /\ Skip!Linked(Len(stores))' = ks
         /\ \A place : Skip!Now(place)' = IF s.place = place THEN s.value ELSE Skip!Now(place)
<1>1. PICK v : v = Len(stores) + 1
  OBVIOUS
<1>2. Len(stores') = v
  BY <1>1, Appended
<1>3. \A place : Skip!Value(place, v)' = IF s.place = place THEN s.value ELSE Skip!Now(place)
  BY <1>1, ValueStored DEF Skip!Now
<1>4. /\ \A n \in Node, l \in SkipLevel :
           Skip!Now(<<n, l>>) \in ks \cup {Skip!Null} /\ n < Skip!Now(<<n, l>>)
      /\ \A n \in ks \cup {0}, k \in ks : n < k => Skip!Now(<<n, 0>>) <= k
      /\ Skip!Now(Skip!MaxHeightPlace) \in 1..MaxHeight
      /\ ks \subseteq Skip!Key
  BY NowSeen
<1>5. Skip!Linked(v)' = ks
  <2>1. Skip!Linked(v)' = ks \cup (IF s.place[2] = 0 THEN {s.value} \cap Skip!Key ELSE {})
    BY <1>1, LinkedStored
  <2>2. CASE Upper(s, ks)
    BY <2>1, <2>2 DEF Upper
  <2>3. CASE Height(s)
    <3>1. s.place[2] # 0
      BY <2>3 DEF Height, Skip!MaxHeightPlace, Sizes
    <3> QED
      BY <2>1, <3>1
  <2>4. CASE s.value \in ks \cup {Skip!Null}
    <3>1. Skip!Null \notin Skip!Key
      BY DEF Sizes, Skip!Null, Skip!Key
    <3> QED
      BY <2>1, <2>4, <3>1
  <2> QED
    BY <2>2, <2>3, <2>4
<1>6. /\ Skip!Null' = Skip!Null /\ Skip!MaxHeightPlace' = Skip!MaxHeightPlace
  BY DEF Skip!Null, Skip!MaxHeightPlace, Skip!HeadNode
<1>7. 0 \in SkipLevel /\ MaxHeight \notin SkipLevel /\ 0 # MaxHeight
  BY DEF SkipLevel, Sizes
<1>8. \A n, l : <<n, l>> = s.place => s.place[1] = n /\ s.place[2] = l
  OBVIOUS
<1>9. ASSUME NEW n \in Node, NEW l \in SkipLevel
      PROVE  Skip!Value(<<n, l>>, v)' \in Skip!Linked(v)' \cup {Skip!Null} /\ n < Skip!Value(<<n, l>>, v)'
  <2>1. CASE s.place # <<n, l>>
    BY <2>1, <1>3, <1>4, <1>5
  <2>2. CASE s.place = <<n, l>>
    <3>1. s.value \in ks \cup {Skip!Null} /\ n < s.value
      BY <2>2, <1>7, <1>8 DEF Upper, Height, Skip!MaxHeightPlace
    <3> QED
      BY <2>2, <3>1, <1>3, <1>5
  <2> QED
    BY <2>1, <2>2
<1>10. ASSUME NEW n \in ks \cup {0}, NEW k \in ks, n < k
       PROVE  Skip!Value(<<n, 0>>, v)' <= k
  <2>1. s.place # <<n, 0>>
    <3>1. 0 \notin Skip!Key
      BY DEF Skip!Key
    <3> QED
      BY <3>1, <1>7, <1>8 DEF Upper, Height, Skip!MaxHeightPlace
  <2> QED
    BY <2>1, <1>3, <1>4, <1>10
<1>11. Skip!Value(Skip!MaxHeightPlace, v)' \in 1..MaxHeight
  <2>1. CASE s.place = Skip!MaxHeightPlace
    <3>1. s.value \in 1..MaxHeight
      BY <2>1, <1>7 DEF Upper, Height, Skip!MaxHeightPlace
    <3> QED
      BY <2>1, <3>1, <1>3, <1>6
  <2>2. CASE s.place # Skip!MaxHeightPlace
    BY <2>2, <1>3, <1>4, <1>6
  <2> QED
    BY <2>1, <2>2
<1>12. ViewInv'
  BY <1>1, <1>5, <1>9, <1>10, <1>11, ViewAfter
<1>13. Skip!Linked(Len(stores))' = ks /\ \A place : Skip!Now(place)' = Skip!Value(place, v)'
  BY <1>2, <1>5 DEF Skip!Now, Skip!Linked, Skip!Key
<1> QED
  BY <1>3, <1>12, <1>13

\* The link of the lowest level: the node is between its neighbours.
LEMMA StoredLink ==
  ASSUME Sizes, stores \in Seq(Store), ViewInv, NEW s \in Store, stores' = Append(stores, s),
         NEW ks, ks = Skip!Linked(Len(stores)),
         NEW k \in Skip!Key, NEW p \in ks \cup {0}, p < k, k < Skip!Now(<<p, 0>>),
         Skip!Now(<<k, 0>>) = Skip!Now(<<p, 0>>), s.place = <<p, 0>>, s.value = k
  PROVE  ViewInv' /\ Skip!Linked(Len(stores))' = ks \cup {k}
<1>1. PICK v : v = Len(stores) + 1
  OBVIOUS
<1>2. Len(stores') = v
  BY <1>1, Appended
<1>3. \A place : Skip!Value(place, v)' = IF s.place = place THEN k ELSE Skip!Now(place)
  BY <1>1, ValueStored DEF Skip!Now
<1>4. /\ \A n \in Node, l \in SkipLevel :
           Skip!Now(<<n, l>>) \in ks \cup {Skip!Null} /\ n < Skip!Now(<<n, l>>)
      /\ \A n \in ks \cup {0}, m \in ks : n < m => Skip!Now(<<n, 0>>) <= m
      /\ Skip!Now(Skip!MaxHeightPlace) \in 1..MaxHeight
      /\ ks \subseteq Skip!Key
  BY NowSeen
<1>5. Skip!Linked(v)' = ks \cup {k}
  <2>1. s.place[2] = 0
    OBVIOUS
  <2>2. Skip!Linked(v)' = ks \cup ({s.value} \cap Skip!Key)
    BY <2>1, <1>1, LinkedStored
  <2> QED
    BY <2>2
<1>6. Skip!Null' = Skip!Null /\ Skip!MaxHeightPlace' = Skip!MaxHeightPlace
  BY DEF Skip!Null, Skip!MaxHeightPlace, Skip!HeadNode
<1>7. /\ 0 \in SkipLevel /\ 0 # MaxHeight /\ Skip!Key \subseteq Node /\ Skip!Key \subseteq Nat
      /\ ks \cup {0, k} \subseteq Node /\ Node \subseteq Nat
      /\ \A m \in Skip!Key : 0 < m
  BY <1>4 DEF SkipLevel, Sizes, Skip!Key, Node
<1>8. \A n, l : <<n, l>> = s.place <=> n = p /\ l = 0
  OBVIOUS
<1>9. ASSUME NEW n \in Node, NEW l \in SkipLevel
      PROVE  Skip!Value(<<n, l>>, v)' \in Skip!Linked(v)' \cup {Skip!Null} /\ n < Skip!Value(<<n, l>>, v)'
  <2>1. CASE n = p /\ l = 0
    BY <2>1, <1>3, <1>5, <1>8
  <2>2. CASE ~(n = p /\ l = 0)
    BY <2>2, <1>3, <1>4, <1>5, <1>8
  <2> QED
    BY <2>1, <2>2
<1>10. ASSUME NEW n \in ks \cup {k, 0}, NEW m \in ks \cup {k}, n < m
       PROVE  Skip!Value(<<n, 0>>, v)' <= m
  <2> DEFINE x == Skip!Now(<<p, 0>>)
  <2>0. \A j \in Node : Skip!Now(<<j, 0>>) \in Nat
    <3>1. ks \cup {Skip!Null} \subseteq Nat
      <4>1. Skip!Null \in Nat
        BY DEF Sizes, Skip!Null
      <4>2. ks \subseteq Nat
        BY <1>4, <1>7
      <4> QED
        BY <4>1, <4>2
    <3> QED
      BY <3>1, <1>4, <1>7
  <2>1. x \in Nat /\ n \in Nat /\ m \in Nat /\ k \in Nat /\ p \in Nat /\ p \in Node /\ n \in Node
    BY <2>0, <1>7
  <2>2. \A j \in ks : p < j => x <= j
    BY <1>4
  <2>3. CASE n = p
    <3>1. Skip!Value(<<n, 0>>, v)' = k
      BY <2>3, <1>3, <1>8
    <3>2. m # k => x <= m
      BY <1>10, <2>2, <2>3
    <3> QED
      BY <3>1, <3>2, <2>1
  <2>4. CASE n = k /\ n # p
    <3>1. Skip!Value(<<n, 0>>, v)' = x
      BY <2>4, <1>3, <1>8
    <3>2. m # k /\ p < m
      BY <1>10, <2>1, <2>4
    <3> QED
      BY <3>1, <3>2, <2>2
  <2>5. CASE n # k /\ n # p
    <3>1. Skip!Value(<<n, 0>>, v)' = Skip!Now(<<n, 0>>)
      BY <2>5, <1>3, <1>8
    <3>2. CASE m # k
      BY <3>1, <3>2, <1>4, <1>10, <2>5
    <3>3. CASE m = k
      <4>1. CASE n < p
        <5>1. p \in ks
          BY <4>1, <2>1
        <5>2. Skip!Now(<<n, 0>>) <= p /\ Skip!Now(<<n, 0>>) \in Nat
          BY <5>1, <4>1, <2>0, <2>1, <2>5, <1>4
        <5> QED
          BY <3>1, <3>3, <5>2, <2>1
      <4>2. CASE p < n
        <5>1. n \in ks
          BY <4>2, <2>1, <2>5
        <5>2. x <= n
          BY <5>1, <4>2, <2>2
        <5> QED
          BY <5>2, <3>3, <1>10, <2>1
      <4> QED
        BY <4>1, <4>2, <2>1, <2>5
    <3> QED
      BY <3>2, <3>3
  <2> QED
    BY <2>3, <2>4, <2>5
<1>11. Skip!Value(Skip!MaxHeightPlace, v)' \in 1..MaxHeight
  <2>1. s.place # Skip!MaxHeightPlace
    BY <1>7 DEF Skip!MaxHeightPlace
  <2> QED
    BY <2>1, <1>3, <1>4, <1>6
<1>12. ViewInv'
  BY <1>1, <1>5, <1>9, <1>10, <1>11, ViewAfter
<1>13. Skip!Linked(Len(stores))' = ks \cup {k}
  BY <1>2, <1>5 DEF Skip!Linked, Skip!Key
<1> QED
  BY <1>12, <1>13

\* Nodes, levels and NULL as numbers.
LEMMA Nulls ==
  ASSUME Sizes
  PROVE  /\ Skip!Null \in Nat /\ Skip!Key \subseteq Nat /\ Node \subseteq Nat /\ Skip!Key \subseteq Node /\ 0 \in Node
         /\ \A k \in Skip!Key : 0 < k /\ k < Skip!Null
         /\ 0 \in SkipLevel /\ MaxHeight \notin SkipLevel /\ MaxHeight # 0 /\ SkipLevel \subseteq Nat
BY DEF Sizes, Skip!Null, Skip!Key, Node, SkipLevel

\* The inserter makes its next store.
LEMMA SkipStore ==
  ASSUME Sizes, SkipType, ViewInv, PendingInv, Skip!Store
  PROVE  SkipType' /\ ViewInv' /\ PendingInv' /\ search' = search
<1> DEFINE s == pending[1]
           ks == Skip!Linked(Len(stores))
<1>1. pending \in Seq(Store) /\ stores \in Seq(Store) /\ pending # <<>>
  BY DEF SkipType, Skip!Store
<1>2. /\ pending' \in Seq(Store) /\ Len(pending) \in Nat /\ 1 \in 1..Len(pending)
      /\ Len(pending') = Len(pending) - 1
      /\ \A j \in 1..Len(pending') : j + 1 \in 1..Len(pending) /\ pending'[j] = pending[j + 1]
  <2>1. pending' = Tail(pending)
    BY DEF Skip!Store
  <2>2. Len(pending) \in Nat /\ Len(pending) # 0
    BY <1>1, Elements
  <2> QED
    BY <1>1, <2>1, <2>2, HeadTailProperties
<1>3. s \in Store /\ stores' = Append(stores, s) /\ stores' \in Seq(Store) /\ search' = search
  BY <1>1, <1>2, Elements, Appended, HeadTailProperties DEF Skip!Store
<1>4. SkipType'
  BY <1>2, <1>3 DEF SkipType
<1> HIDE DEF s, ks
<1>5. ks = Skip!Linked(Len(stores)) /\ s = pending[1]
  BY DEF ks, s
<1>6. CASE \A j \in 1..Len(pending) : Upper(pending[j], ks)
  <2>1. Upper(s, ks)
    BY <1>2, <1>5, <1>6
  <2>2. ViewInv' /\ Skip!Linked(Len(stores))' = ks
    BY <2>1, <1>1, <1>3, <1>5, StoredAbove
  <2>3. \A j \in 1..Len(pending') : Upper(pending'[j], ks)
    BY <1>2, <1>6
  <2>4. \A j \in 1..Len(pending') : Upper(pending'[j], Skip!Linked(Len(stores))')
    BY <2>2, <2>3
  <2>5. \A j \in 1..Len(pending') : Upper(pending[j], Skip!Linked(Len(stores)))'
    BY <2>4 DEF Upper, Skip!Null, Node, SkipLevel
  <2> QED
    BY <2>2, <2>5, <1>3, <1>4 DEF PendingInv
<1>7. ASSUME NEW k \in Nat, NEW p \in Nat, NEW x \in Nat, NEW c \in Nat, Between(k, p, x, c)
      PROVE  ViewInv' /\ PendingInv'
  <2>1. /\ k \in Skip!Key /\ p \in ks \cup {0} /\ p < k /\ k < x
        /\ x = Skip!Now(<<p, 0>>)
        /\ c \in 1..Len(pending) /\ c <= 3
        /\ pending[c].place = <<p, 0>> /\ pending[c].value = k
        /\ IF c = 1 THEN Skip!Now(<<k, 0>>) = x
                    ELSE pending[c - 1].place = <<k, 0>> /\ pending[c - 1].value = x
        /\ c = 3 => Height(s)
        /\ \A j \in 1..Len(pending) : c < j => Upper(pending[j], ks \cup {k})
    BY <1>5, <1>7 DEF Between
  <2>2. /\ \A n \in Node, l \in SkipLevel :
             Skip!Now(<<n, l>>) \in ks \cup {Skip!Null} /\ n < Skip!Now(<<n, l>>)
        /\ \A n \in ks \cup {0}, m \in ks : n < m => Skip!Now(<<n, 0>>) <= m
        /\ ks \subseteq Skip!Key
    BY <1>1, <1>5, NowSeen
  <2>3. k \notin ks
    BY <2>1, <2>2
  <2>4. CASE c = 1
    <3>1. ViewInv' /\ Skip!Linked(Len(stores))' = ks \cup {k}
      BY <2>1, <2>4, <1>1, <1>3, <1>5, StoredLink
    <3>2. \A j \in 1..Len(pending') : Upper(pending'[j], ks \cup {k})
      <4>1. \A j \in 1..Len(pending') : c < j + 1 /\ j + 1 \in 1..Len(pending) /\ pending'[j] = pending[j + 1]
        BY <2>4, <1>2
      <4>2. \A i \in 1..Len(pending) : c < i => Upper(pending[i], ks \cup {k})
        BY <2>1
      <4> QED
        BY <4>1, <4>2
    <3>3. \A j \in 1..Len(pending') : Upper(pending'[j], Skip!Linked(Len(stores))')
      BY <3>1, <3>2
    <3>4. \A j \in 1..Len(pending') : Upper(pending[j], Skip!Linked(Len(stores)))'
      BY <3>3 DEF Upper, Skip!Null, Node, SkipLevel
    <3> QED
      BY <3>1, <3>4 DEF PendingInv
  <2>5. CASE c # 1
    <3>1. PICK d : d = c - 1 /\ d \in Nat /\ d + 1 = c /\ d \in 1..Len(pending') /\ d <= 3
      BY <2>1, <2>5, <1>2
    <3>2. p \in Node /\ 0 \in SkipLevel /\ x \in ks \cup {Skip!Null} /\ s.place # <<p, 0>>
      <4>1. CASE c = 2
        BY <4>1, <2>1, <2>2, <1>5, Nulls
      <4>2. CASE c = 3
        BY <4>2, <2>1, <2>2, Nulls DEF Height, Skip!MaxHeightPlace
      <4> QED
        BY <4>1, <4>2, <2>1, <2>5
    <3>3. Height(s) \/ (k \in Skip!Key \ ks /\ s.place = <<k, 0>> /\ s.value \in ks \cup {Skip!Null} /\ k < s.value)
      <4>1. CASE c = 2
        BY <4>1, <3>2, <2>1, <2>3, <1>5
      <4>2. CASE c = 3
        BY <4>2, <2>1
      <4> QED
        BY <4>1, <4>2, <2>1, <2>5
    <3>4. /\ ViewInv' /\ Skip!Linked(Len(stores))' = ks
          /\ \A place : Skip!Now(place)' = IF s.place = place THEN s.value ELSE Skip!Now(place)
      BY <3>3, <1>1, <1>3, <1>5, StoredAbove
    <3>5. Skip!Now(<<p, 0>>)' = x
      BY <3>2, <3>4, <2>1
    <3>6. pending'[d].place = <<p, 0>> /\ pending'[d].value = k
      BY <3>1, <2>1, <1>2
    <3>7. d = 1 => Skip!Now(<<k, 0>>)' = x
      <4>1. SUFFICES ASSUME d = 1 PROVE Skip!Now(<<k, 0>>)' = x
        OBVIOUS
      <4>2. c = 2 /\ c # 1
        BY <3>1, <4>1
      <4>3. pending[c - 1] = pending[1]
        BY <4>2
      <4>4. s.place = <<k, 0>> /\ s.value = x
        BY <4>2, <4>3, <2>1, <1>5
      <4> QED
        BY <4>4, <3>4
    <3>8. d # 1 => pending'[d - 1].place = <<k, 0>> /\ pending'[d - 1].value = x
      <4>1. SUFFICES ASSUME d # 1 PROVE pending'[d - 1].place = <<k, 0>> /\ pending'[d - 1].value = x
        OBVIOUS
      <4>2. d - 1 \in 1..Len(pending') /\ (d - 1) + 1 = c - 1 /\ c # 1
        BY <3>1, <4>1
      <4>3. pending'[d - 1] = pending[(d - 1) + 1]
        BY <4>2, <1>2
      <4> QED
        BY <4>2, <4>3, <2>1
    <3>9. d # 3
      BY <3>1, <2>1
    <3>10. \A j \in 1..Len(pending') : d < j => Upper(pending'[j], ks \cup {k})
      <4>1. \A j \in 1..Len(pending') :
              (d < j => c < j + 1) /\ j + 1 \in 1..Len(pending) /\ pending'[j] = pending[j + 1]
        BY <3>1, <1>2
      <4>2. \A i \in 1..Len(pending) : c < i => Upper(pending[i], ks \cup {k})
        BY <2>1
      <4> QED
        BY <4>1, <4>2
    <3>11. \A j \in 1..Len(pending') : d < j => Upper(pending[j], Skip!Linked(Len(stores)) \cup {k})'
      <4>1. \A j \in 1..Len(pending') : d < j => Upper(pending'[j], Skip!Linked(Len(stores))' \cup {k})
        BY <3>4, <3>10
      <4> QED
        BY <4>1 DEF Upper, Skip!Null, Node, SkipLevel
    <3>12. Between(k, p, x, d)'
      <4>1. Skip!Key' = Skip!Key
        BY DEF Skip!Key
      <4> QED
        BY <4>1, <3>1, <3>4, <3>5, <3>6, <3>7, <3>8, <3>9, <3>11, <2>1 DEF Between
    <3> QED
      BY <3>1, <3>4, <3>12 DEF PendingInv
  <2> QED
    BY <2>4, <2>5
<1> QED
  BY <1>3, <1>4, <1>5, <1>6, <1>7 DEF PendingInv

-----------------------------------------------------------------------------
(***************************************************************************)
(* FindGreaterOrEqual as the inserter runs it: a recursion that goes       *)
(* forward, over links next[n] that do.                                    *)
(***************************************************************************)
LEMMA Passing ==
  ASSUME Sizes, NEW next \in [Node -> Nat], \A n \in Node : n < next[n], NEW k \in Skip!Key
  PROVE  \E f : f = [n \in Node |-> IF next[n] < k THEN f[next[n]] ELSE n]
<1>1. k \in Nat /\ k <= MaxKey /\ MaxKey \in Nat /\ Node = 0..MaxKey
  BY DEF Sizes, Skip!Key, Node
<1> DEFINE Good(f, n) == f[n] = IF next[n] < k THEN f[next[n]] ELSE n
           S == { d \in Nat : \E f \in [Node -> Node] : \A n \in Node : k <= n + d => Good(f, n) }
<1>2. 0 \in S
  <2> DEFINE id == [n \in Node |-> n]
  <2>1. id \in [Node -> Node]
    OBVIOUS
  <2>2. \A n \in Node : k <= n + 0 => Good(id, n)
    <3>1. \A n \in Node : n \in Nat /\ next[n] \in Nat /\ (k <= n + 0 => ~(next[n] < k))
      BY <1>1
    <3> QED
      BY <3>1
  <2> QED
    BY <2>1, <2>2
<1>3. ASSUME NEW d \in Nat, d \in S PROVE d + 1 \in S
  <2>1. PICK f \in [Node -> Node] : \A n \in Node : k <= n + d => Good(f, n)
    BY <1>3
  <2>2. CASE ~(\E m \in Node : m + d + 1 = k)
    <3>1. \A n \in Node : k <= n + (d + 1) => k <= n + d
      BY <1>1, <2>2
    <3> QED
      BY <2>1, <3>1
  <2>3. ASSUME NEW m \in Node, m + d + 1 = k PROVE d + 1 \in S
    <3> DEFINE a == IF next[m] < k THEN f[next[m]] ELSE m
               g == [f EXCEPT ![m] = a]
    <3>1. next[m] < k => next[m] \in Node
      BY <1>1
    <3>2. a \in Node /\ g \in [Node -> Node]
      BY <3>1
    <3>3. \A n \in Node : g[n] = IF n = m THEN a ELSE f[n]
      OBVIOUS
    <3>4. ASSUME NEW n \in Node
          PROVE  /\ k <= n + (d + 1) => n = m \/ k <= n + d
                 /\ n = m \/ k <= n + d => next[n] # m
                 /\ next[n] < k => next[n] \in Node
      <4> HIDE DEF a, g
      <4>1. n \in Nat /\ m \in Nat /\ next[n] \in Nat /\ k \in Nat
        BY <1>1, Nulls
      <4>2. n < next[n] /\ m + d + 1 = k
        BY <2>3
      <4>3. k <= n + (d + 1) => n = m \/ k <= n + d
        BY <4>1, <4>2
      <4>4. n = m \/ k <= n + d => next[n] # m
        BY <4>1, <4>2
      <4> QED
        BY <4>1, <4>3, <4>4, <1>1
    <3>6. ~(k <= m + d)
      BY <1>1, <2>3
    <3> HIDE DEF g
    <3>7. \A n \in Node : k <= n + (d + 1) => Good(g, n)
      BY <2>1, <3>3, <3>4, <3>6
    <3> QED
      BY <3>2, <3>7
  <2> QED
    BY <2>2, <2>3
<1>4. Nat \subseteq S
  <2> HIDE DEF S
  <2> QED
    BY <1>2, <1>3, NaturalInduction
<1>5. PICK f \in [Node -> Node] : \A n \in Node : k <= n + k => Good(f, n)
  BY <1>1, <1>4
<1>6. \A n \in Node : k <= n + k
  BY <1>1
<1>7. f = [n \in Node |-> IF next[n] < k THEN f[next[n]] ELSE n]
  BY <1>5, <1>6
<1> QED
  BY <1>7

\* It ends at a node it may be at, the last before k.
LEMMA Passed ==
  ASSUME Sizes, NEW next \in [Node -> Nat], \A n \in Node : n < next[n], NEW k \in Skip!Key,
         NEW f, f = [n \in Node |-> IF next[n] < k THEN f[next[n]] ELSE n],
         NEW R, R \subseteq Node, 0 \in R, \A n \in R : next[n] < k => next[n] \in R
  PROVE  f[0] \in R /\ f[0] < k /\ k <= next[f[0]]
<1>1. k \in Nat /\ 0 < k /\ MaxKey \in Nat /\ Node = 0..MaxKey
  BY DEF Sizes, Skip!Key, Node
<1> DEFINE S == { d \in Nat : \A n \in R : k <= n + d /\ n < k =>
                                f[n] \in R /\ f[n] < k /\ k <= next[f[n]] }
<1>2. 0 \in S
  BY <1>1
<1>3. ASSUME NEW d \in Nat, d \in S PROVE d + 1 \in S
  <2>1. ASSUME NEW n \in R, k <= n + (d + 1), n < k
        PROVE  f[n] \in R /\ f[n] < k /\ k <= next[f[n]]
    <3>1. n \in Node /\ n \in Nat /\ next[n] \in Nat /\ n < next[n]
      BY <1>1
    <3>2. f[n] = IF next[n] < k THEN f[next[n]] ELSE n
      BY <3>1
    <3>3. CASE next[n] < k
      <4>1. next[n] \in R /\ k <= next[n] + d
        BY <3>1, <3>3, <2>1, <1>1
      <4> QED
        BY <4>1, <3>2, <3>3, <1>3
    <3>4. CASE ~(next[n] < k)
      BY <3>1, <3>2, <3>4, <2>1, <1>1
    <3> QED
      BY <3>3, <3>4
  <2> QED
    BY <2>1
<1>4. Nat \subseteq S
  <2> HIDE DEF S
  <2> QED
    BY <1>2, <1>3, NaturalInduction
<1>5. \A n \in R : k <= n + k /\ n < k => f[n] \in R /\ f[n] < k /\ k <= next[f[n]]
  BY <1>1, <1>4
<1> QED
  <2>1. k <= 0 + k /\ 0 < k
    BY <1>1
  <2> QED
    BY <1>5, <2>1

\* prev[l]: a node in the list, or the head, and the last on its level before k.
LEMMA PrevIs ==
  ASSUME Sizes, SkipType, ViewInv, NEW k \in Skip!Key, NEW l \in SkipLevel,
         NEW ks, ks = Skip!Linked(Len(stores))
  PROVE  /\ Skip!Prev(k, l) \in ks \cup {0} /\ Skip!Prev(k, l) < k
         /\ k <= Skip!Now(<<Skip!Prev(k, l), l>>)
         /\ Skip!Now(<<Skip!Prev(k, l), l>>) \in ks \cup {Skip!Null}
<1>1. /\ \A n \in Node : Skip!Now(<<n, l>>) \in ks \cup {Skip!Null} /\ n < Skip!Now(<<n, l>>)
      /\ ks \subseteq Skip!Key
  BY NowSeen DEF SkipType
<1> DEFINE next == [n \in Node |-> Skip!Now(<<n, l>>)]
<1>2. next \in [Node -> Nat] /\ \A n \in Node : n < next[n]
  <2>1. ks \cup {Skip!Null} \subseteq Nat
    BY <1>1, Nulls
  <2> QED
    BY <1>1, <2>1
<1>3. ks \cup {0} \subseteq Node /\ k # Skip!Null /\ ~(Skip!Null < k)
  BY <1>1, Nulls
<1>4. \E f : f = [n \in Node |-> IF next[n] < k THEN f[next[n]] ELSE n]
  <2> HIDE DEF next
  <2> QED
    BY <1>2, Passing
<1>5. PICK g : g = [n \in Node |-> IF next[n] < k THEN g[next[n]] ELSE n]
  BY <1>4
<1>6. g = [n \in 0..MaxKey |-> IF Skip!Now(<<n, l>>) < k THEN g[Skip!Now(<<n, l>>)] ELSE n]
  BY <1>5 DEF Node
<1>7. PICK f : /\ f = [n \in 0..MaxKey |-> IF Skip!Now(<<n, l>>) < k THEN f[Skip!Now(<<n, l>>)] ELSE n]
               /\ Skip!Prev(k, l) = f[0]
  BY <1>6 DEF Skip!Prev, Skip!HeadNode
<1>8. f = [n \in Node |-> IF next[n] < k THEN f[next[n]] ELSE n]
  BY <1>7 DEF Node
<1>9. \A n \in ks \cup {0} : next[n] < k => next[n] \in ks \cup {0}
  BY <1>1, <1>3
<1>10. f[0] \in ks \cup {0} /\ f[0] < k /\ k <= next[f[0]]
  <2> HIDE DEF next
  <2> QED
    BY <1>2, <1>3, <1>8, <1>9, Passed
<1> QED
  BY <1>1, <1>3, <1>7, <1>10

\* A recursion up from 0, which takes step[l][f[l]] to get f[l + 1].
Climbs(f, h, e, step) == f[0] = e /\ \A l \in 0..(h - 1) : f[l + 1] = step[l][f[l]]

\* A function that is defined from each level to the next exists.
LEMMA Climbing ==
  ASSUME NEW h \in Nat, NEW S, NEW e \in S, NEW step \in [0..(h - 1) -> [S -> S]]
  PROVE  \E f \in [0..h -> S] : Climbs(f, h, e, step)
<1> DEFINE T == { d \in Nat : \E f \in [0..h -> S] :
                    f[0] = e /\ \A l \in 0..(h - 1) : l < d => f[l + 1] = step[l][f[l]] }
<1>1. 0 \in T
  <2>1. PICK f : f = [l \in 0..h |-> e]
    OBVIOUS
  <2>2. f \in [0..h -> S] /\ f[0] = e /\ \A l \in 0..(h - 1) : ~(l < 0)
    BY <2>1
  <2> QED
    BY <2>2
<1>2. ASSUME NEW d \in Nat, d \in T PROVE d + 1 \in T
  <2>1. PICK f \in [0..h -> S] : f[0] = e /\ \A l \in 0..(h - 1) : l < d => f[l + 1] = step[l][f[l]]
    BY <1>2
  <2>2. CASE d \notin 0..(h - 1)
    <3>1. \A l \in 0..(h - 1) : l < d + 1 => l < d
      BY <2>2
    <3>2. \A l \in 0..(h - 1) : l < d + 1 => f[l + 1] = step[l][f[l]]
      BY <2>1, <3>1
    <3> QED
      BY <2>1, <3>2
  <2>3. CASE d \in 0..(h - 1)
    <3>1. PICK a : a = step[d][f[d]]
      OBVIOUS
    <3>2. a \in S
      BY <2>3, <3>1
    <3>3. PICK g : g = [f EXCEPT ![d + 1] = a]
      OBVIOUS
    <3>4. g \in [0..h -> S] /\ \A l \in 0..h : g[l] = IF l = d + 1 THEN a ELSE f[l]
      BY <3>2, <3>3
    <3>5. \A l \in 0..(h - 1) : l \in 0..h /\ l + 1 \in 0..h /\ (l < d + 1 => l # d + 1 /\ (l = d \/ (l < d /\ l + 1 # d + 1)))
      OBVIOUS
    <3>6. g[0] = e
      BY <2>1, <3>4
    <3>7. ASSUME NEW l \in 0..(h - 1), l < d + 1 PROVE g[l + 1] = step[l][g[l]]
      <4>1. l \in 0..h /\ l + 1 \in 0..h /\ g[l] = f[l]
        BY <3>4, <3>5, <3>7
      <4>2. CASE l = d
        BY <4>1, <4>2, <3>1, <3>4
      <4>3. CASE l < d /\ l + 1 # d + 1
        BY <4>1, <4>3, <2>1, <3>4
      <4> QED
        BY <4>2, <4>3, <3>5, <3>7
    <3> QED
      BY <3>4, <3>6, <3>7
  <2> QED
    BY <2>2, <2>3
<1>3. Nat \subseteq T
  <2> HIDE DEF T
  <2> QED
    BY <1>1, <1>2, NaturalInduction
<1>4. \A l \in 0..(h - 1) : l < h
  OBVIOUS
<1>5. h \in T
  BY <1>3
<1> QED
  BY <1>4, <1>5 DEF Climbs

\* The first row comes first, and what all later rows have all the rest has.
LEMMA Chained ==
  ASSUME NEW h \in Nat \ {0}, NEW S, NEW row \in [0..(h - 1) -> Seq(S)],
         NEW f, f[0] = <<>>, \A l \in 0..(h - 1) : f[l + 1] = f[l] \o row[l],
         NEW W, \A l \in 1..(h - 1) : \A i \in 1..Len(row[l]) : row[l][i] \in W
  PROVE  /\ f[h] \in Seq(S) /\ Len(row[0]) <= Len(f[h])
         /\ \A i \in 1..Len(row[0]) : f[h][i] = row[0][i]
         /\ \A i \in 1..Len(f[h]) : Len(row[0]) < i => f[h][i] \in W
<1>1. row[0] \in Seq(S) /\ Len(row[0]) \in Nat
  BY LenProperties
<1>2. f[1] = f[0] \o row[0] /\ f[0] = <<>>
  <2>1. 0 \in 0..(h - 1) /\ 0 + 1 = 1
    OBVIOUS
  <2> QED
    BY <2>1, Zenon
<1> DEFINE Good(q) == /\ q \in Seq(S) /\ Len(row[0]) <= Len(q)
                      /\ \A i \in 1..Len(row[0]) : q[i] = row[0][i]
                      /\ \A i \in 1..Len(q) : Len(row[0]) < i => q[i] \in W
           T == { d \in Nat : d + 1 \in 0..h => Good(f[d + 1]) }
<1>3. 0 \in T
  <2>1. f[1] = row[0]
    BY <1>1, <1>2, ConcatEmptySeq
  <2>2. Good(row[0])
    BY <1>1
  <2>3. 0 + 1 = 1 /\ 0 \in Nat
    OBVIOUS
  <2> HIDE DEF Good
  <2> QED
    BY <2>1, <2>2, <2>3
<1>4. ASSUME NEW d \in Nat, d \in T, (d + 1) + 1 \in 0..h PROVE Good(f[(d + 1) + 1])
  <2>1. PICK e : e = d + 1
    OBVIOUS
  <2>2. e \in 0..h /\ e \in 1..(h - 1) /\ e \in 0..(h - 1) /\ e + 1 \in 0..h /\ e + 1 # 0 /\ (e + 1) - 1 = e
    BY <1>4, <2>1
  <2>3. f[e + 1] = f[e] \o row[e]
    BY <2>2
  <2>4. Good(f[e])
    BY <1>4, <2>1, <2>2
  <2>5. PICK q : q = f[e]
    OBVIOUS
  <2>6. PICK r : r = row[e]
    OBVIOUS
  <2>7. r \in Seq(S) /\ \A i \in 1..Len(r) : r[i] \in W
    BY <2>2, <2>6
  <2>8. Good(q)
    BY <2>4, <2>5
  <2>9. /\ q \o r \in Seq(S) /\ Len(q \o r) = Len(q) + Len(r) /\ Len(q) \in Nat /\ Len(r) \in Nat
        /\ \A i \in 1..(Len(q) + Len(r)) : (q \o r)[i] = IF i <= Len(q) THEN q[i] ELSE r[i - Len(q)]
    BY <2>7, <2>8, ConcatProperties, LenProperties
  <2>10. \A i \in 1..(Len(q) + Len(r)) : IF i <= Len(q) THEN i \in 1..Len(q) ELSE i - Len(q) \in 1..Len(r)
    BY <2>9
  <2>11. \A i \in 1..Len(row[0]) : i \in 1..(Len(q) + Len(r)) /\ i <= Len(q)
    BY <1>1, <2>8, <2>9
  <2>12. Good(q \o r)
    <3>1. Len(row[0]) <= Len(q \o r)
      BY <1>1, <2>8, <2>9
    <3>2. \A i \in 1..Len(row[0]) : (q \o r)[i] = row[0][i]
      BY <2>8, <2>9, <2>11
    <3>3. \A i \in 1..Len(q \o r) : Len(row[0]) < i => (q \o r)[i] \in W
      BY <2>7, <2>8, <2>9, <2>10
    <3> QED
      BY <2>9, <3>1, <3>2, <3>3
  <2> HIDE DEF Good
  <2> QED
    BY <2>1, <2>3, <2>5, <2>6, <2>12
<1>5. \A d \in Nat : d \in T => d + 1 \in T
  <2> HIDE DEF Good
  <2> QED
    BY <1>4
<1>6. Nat \subseteq T
  <2> HIDE DEF T
  <2> QED
    BY <1>3, <1>5, NaturalInduction
<1>7. h - 1 \in Nat /\ (h - 1) + 1 = h /\ h \in 0..h
  OBVIOUS
<1>8. Good(f[h])
  <2> HIDE DEF Good
  <2> QED
    BY <1>6, <1>7
<1> QED
  BY <1>8

\* The links of a node that is inserted.
LEMMA LinksAre ==
  ASSUME Sizes, SkipType, ViewInv, NEW k \in Skip!Key, NEW h \in 1..MaxHeight,
         NEW ks, ks = Skip!Linked(Len(stores)), k \notin ks
  PROVE  LET q == Skip!LinksUpTo(k, h)
             p == Skip!Prev(k, 0)
             x == Skip!Now(<<p, 0>>)
         IN  /\ q \in Seq(Store) /\ 2 <= Len(q)
             /\ q[1] = [place |-> <<k, 0>>, value |-> x] /\ q[2] = [place |-> <<p, 0>>, value |-> k]
             /\ \A j \in 1..Len(q) : 2 < j => Upper(q[j], ks \cup {k})
<1> DEFINE row == [l \in 0..(h - 1) |-> Skip!Links(k, l)]
           own(l) == [place |-> <<k, l>>, value |-> Skip!Now(<<Skip!Prev(k, l), l>>)]
           link(l) == [place |-> <<Skip!Prev(k, l), l>>, value |-> k]
<1>1. h \in Nat \ {0} /\ \A l \in 0..(h - 1) : l \in SkipLevel /\ l \in Nat
  BY DEF Sizes, SkipLevel
<1>2. ks \subseteq Skip!Key
  BY NowSeen DEF SkipType
<1>3. ASSUME NEW l \in 0..(h - 1)
      PROVE  /\ own(l) \in Store /\ link(l) \in Store
             /\ l # 0 => Upper(own(l), ks \cup {k}) /\ Upper(link(l), ks \cup {k})
  <2> DEFINE p == Skip!Prev(k, l)
             x == Skip!Now(<<p, l>>)
  <2>1. p \in ks \cup {0} /\ p < k /\ k <= x /\ x \in ks \cup {Skip!Null} /\ l \in SkipLevel
    BY <1>1, PrevIs
  <2>2. x # k
    BY <2>1, Nulls
  <2> HIDE DEF p, x
  <2>3. k \in Nat /\ k \in Node /\ x \in Nat /\ p \in Node /\ p \in Nat
    BY <2>1, <1>2, Nulls
  <2>4. k < x
    BY <2>1, <2>2, <2>3
  <2>5. own(l) = [place |-> <<k, l>>, value |-> x] /\ link(l) = [place |-> <<p, l>>, value |-> k]
    BY DEF p, x
  <2>6. own(l) \in Store /\ link(l) \in Store
    BY <2>3, <2>5, <1>1 DEF Store
  <2>7. own(l).place[1] = k /\ own(l).place[2] = l /\ own(l).value = x
    BY <2>5
  <2>8. link(l).place[1] = p /\ link(l).place[2] = l /\ link(l).value = k
    BY <2>5
  <2> HIDE DEF own, link
  <2>9. l # 0 => Upper(own(l), ks \cup {k}) /\ Upper(link(l), ks \cup {k})
    BY <2>1, <2>3, <2>4, <2>7, <2>8 DEF Upper
  <2> QED
    BY <2>6, <2>9
<1>4. \A l \in 0..(h - 1) : /\ Skip!Links(k, l) = <<own(l), link(l)>>
  BY DEF Skip!Links
<1> HIDE DEF own, link
<1>5. \A l \in 0..(h - 1) : /\ row[l] \in Seq(Store) /\ Len(row[l]) = 2
                            /\ row[l][1] = own(l) /\ row[l][2] = link(l)
  <2>1. ASSUME NEW l \in 0..(h - 1)
        PROVE  /\ row[l] \in Seq(Store) /\ Len(row[l]) = 2
               /\ row[l][1] = own(l) /\ row[l][2] = link(l)
    <3>1. PICK a, b : a = own(l) /\ b = link(l)
      OBVIOUS
    <3>2. row[l] = <<a, b>> /\ a \in Store /\ b \in Store
      BY <1>3, <1>4, <3>1
    <3> HIDE DEF row
    <3>3. /\ row[l] \in Seq(Store) /\ Len(row[l]) = 2
          /\ row[l][1] = a /\ row[l][2] = b
      BY <3>2
    <3> QED
      BY <3>1, <3>3
  <2> HIDE DEF row
  <2> QED
    BY <2>1
<1>6. row \in [0..(h - 1) -> Seq(Store)]
  BY <1>5
<1> DEFINE W == { s \in Store : Upper(s, ks \cup {k}) }
<1>7. \A l \in 1..(h - 1) : \A i \in 1..Len(row[l]) : row[l][i] \in W
  <2>1. ASSUME NEW l \in 1..(h - 1) PROVE own(l) \in W /\ link(l) \in W /\ l \in 0..(h - 1)
    <3>1. l \in 0..(h - 1) /\ l # 0
      BY <1>1
    <3> QED
      BY <3>1, <1>3
  <2>2. \A i : i \in 1..2 <=> i = 1 \/ i = 2
    OBVIOUS
  <2> HIDE DEF row, W
  <2> QED
    BY <1>5, <2>1, <2>2
<1>8. PICK step : step = [l \in 0..(h - 1) |-> [q \in Seq(Store) |-> q \o row[l]]]
  OBVIOUS
<1>9. \A q \in Seq(Store), l \in 0..(h - 1) :
        step[l][q] = q \o Skip!Links(k, l) /\ q \o Skip!Links(k, l) \in Seq(Store)
  BY <1>6, <1>8, ConcatProperties
<1>10. PICK g \in [0..h -> Seq(Store)] : g[0] = <<>> /\ \A l \in 0..(h - 1) : g[l + 1] = step[l][g[l]]
  <2>1. step \in [0..(h - 1) -> [Seq(Store) -> Seq(Store)]]
    <3> HIDE DEF row
    <3>1. \A l \in 0..(h - 1), q \in Seq(Store) : q \o row[l] \in Seq(Store)
      BY <1>6, ConcatProperties
    <3> QED
      BY <1>8, <3>1
  <2>2. <<>> \in Seq(Store)
    BY EmptySeq
  <2>3. h \in Nat
    BY <1>1
  <2> HIDE DEF row, W
  <2>4. PICK Z, e : Z = Seq(Store) /\ e = <<>>
    OBVIOUS
  <2>5. step \in [0..(h - 1) -> [Z -> Z]] /\ e \in Z
    BY <2>1, <2>2, <2>4
  <2>6. \E g \in [0..h -> Z] : Climbs(g, h, e, step)
    BY <2>3, <2>5, Climbing
  <2> QED
    BY <2>4, <2>6 DEF Climbs
<1>11. PICK f : /\ f = [l \in 0..h |-> IF l = 0 THEN <<>> ELSE f[l - 1] \o Skip!Links(k, l - 1)]
                /\ Skip!LinksUpTo(k, h) = f[h]
  <2>1. \A l \in 0..h : g[l] = IF l = 0 THEN <<>> ELSE g[l - 1] \o Skip!Links(k, l - 1)
    <3>1. \A l \in 0..h : l # 0 => l - 1 \in 0..(h - 1) /\ (l - 1) + 1 = l /\ l - 1 \in 0..h
      BY <1>1
    <3>2. ASSUME NEW l \in 0..h, l # 0 PROVE g[l] = g[l - 1] \o Skip!Links(k, l - 1)
      <4>1. PICK m : m = l - 1
        OBVIOUS
      <4>2. m \in 0..(h - 1) /\ m + 1 = l /\ g[m] \in Seq(Store)
        BY <3>1, <3>2, <4>1
      <4>3. g[m + 1] = g[m] \o Skip!Links(k, m)
        BY <4>2, <1>9, <1>10
      <4> QED
        BY <4>1, <4>2, <4>3
    <3> QED
      BY <3>2, <1>10
  <2>2. g = [l \in 0..h |-> IF l = 0 THEN <<>> ELSE g[l - 1] \o Skip!Links(k, l - 1)]
    BY <2>1
  <2> QED
    BY <2>2 DEF Skip!LinksUpTo
<1>12. f[0] = <<>> /\ \A l \in 0..(h - 1) : f[l + 1] = f[l] \o row[l]
  <2>1. 0 \in 0..h
    BY <1>1
  <2>2. \A l \in 0..(h - 1) : l + 1 \in 0..h /\ l + 1 # 0 /\ (l + 1) - 1 = l
    BY <1>1
  <2> QED
    BY <2>1, <2>2, <1>11
<1>13. /\ f[h] \in Seq(Store) /\ Len(row[0]) <= Len(f[h])
       /\ \A i \in 1..Len(row[0]) : f[h][i] = row[0][i]
       /\ \A i \in 1..Len(f[h]) : Len(row[0]) < i => f[h][i] \in W
  <2> HIDE DEF row, W
  <2> QED
    BY <1>1, <1>6, <1>7, <1>12, Chained
<1>14. 0 \in 0..(h - 1) /\ Len(row[0]) = 2 /\ row[0][1] = own(0) /\ row[0][2] = link(0)
  BY <1>1, <1>5
<1>15. f[h][1] = own(0) /\ f[h][2] = link(0)
  <2>1. 1 \in 1..2 /\ 2 \in 1..2
    OBVIOUS
  <2> HIDE DEF row
  <2> QED
    BY <2>1, <1>13, <1>14
<1> QED
  BY <1>11, <1>13, <1>14, <1>15 DEF own, link

\* What readers see does not depend on what is pending.
LEMMA ViewStands ==
  ASSUME ViewInv, UNCHANGED stores
  PROVE  ViewInv'
<1>1. \A v : Skip!Linked(v)' = Skip!Linked(v) /\ \A place : Skip!Value(place, v)' = Skip!Value(place, v)
  BY DEF Skip!Linked, Skip!Key, Skip!Value, Skip!MaxHeightPlace, Skip!HeadNode, Skip!Null
<1>2. Views' = Views /\ Skip!Null' = Skip!Null /\ Skip!MaxHeightPlace' = Skip!MaxHeightPlace
  BY DEF Views, Skip!Null, Skip!MaxHeightPlace, Skip!HeadNode
<1> QED
  BY <1>1, <1>2 DEF ViewInv

\* An insert finds its places and has all its stores to make.
LEMMA SkipInsert ==
  ASSUME Sizes, SkipType, ViewInv, NEW k \in Skip!Key, NEW h \in 1..MaxHeight, Skip!Insert(k, h)
  PROVE  SkipType' /\ ViewInv' /\ PendingInv' /\ UNCHANGED <<stores, search>>
<1> DEFINE ks == Skip!Linked(Len(stores))
           p == Skip!Prev(k, 0)
           x == Skip!Now(<<p, 0>>)
           q == Skip!LinksUpTo(k, h)
           top == [place |-> Skip!MaxHeightPlace, value |-> h]
           first == IF h > Skip!Now(Skip!MaxHeightPlace) THEN <<top>> ELSE <<>>
<1>1. k \notin ks /\ pending' = first \o q /\ UNCHANGED <<stores, search>>
  BY DEF Skip!Insert
<1>2. /\ q \in Seq(Store) /\ 2 <= Len(q)
      /\ q[1] = [place |-> <<k, 0>>, value |-> x] /\ q[2] = [place |-> <<p, 0>>, value |-> k]
      /\ \A j \in 1..Len(q) : 2 < j => Upper(q[j], ks \cup {k})
  BY <1>1, LinksAre
<1>3. p \in ks \cup {0} /\ p < k /\ k <= x /\ x \in ks \cup {Skip!Null}
  <2>1. 0 \in SkipLevel
    BY Nulls
  <2> QED
    BY <2>1, PrevIs
<1>4. k < x /\ k \in Nat /\ p \in Nat /\ x \in Nat
  <2>1. ks \subseteq Skip!Key /\ x # k
    BY <1>1, <1>3, NowSeen, Nulls DEF SkipType
  <2>2. k \in Nat /\ p \in Nat /\ x \in Nat
    BY <1>3, <2>1, Nulls
  <2> QED
    BY <1>3, <2>1, <2>2
<1>5. top \in Store /\ Height(top)
  <2>1. h \in Nat /\ Skip!MaxHeightPlace \in Node \X Nat
    BY Nulls DEF Skip!MaxHeightPlace, Skip!HeadNode, Sizes
  <2> QED
    BY <2>1 DEF Height, Store
<1> HIDE DEF ks, p, x, q, top
<1> DEFINE Shifted(d) == /\ pending' \in Seq(Store) /\ Len(pending') = Len(q) + d
                         /\ \A j \in 1..Len(q) : pending'[j + d] = q[j]
                         /\ d = 1 => pending'[1] = top
<1>6. Len(q) \in Nat /\ (Shifted(0) \/ Shifted(1))
  <2>1. Len(q) \in Nat
    BY <1>2, LenProperties
  <2>2. CASE h > Skip!Now(Skip!MaxHeightPlace)
    <3>1. <<top>> \in Seq(Store) /\ Len(<<top>>) = 1 /\ <<top>>[1] = top
      BY <1>5
    <3>2. /\ pending' \in Seq(Store) /\ Len(pending') = 1 + Len(q)
          /\ \A i \in 1..(1 + Len(q)) : pending'[i] = IF i <= 1 THEN <<top>>[i] ELSE q[i - 1]
      BY <3>1, <2>2, <1>1, <1>2, ConcatProperties
    <3>3. \A j \in 1..Len(q) : j + 1 \in 1..(1 + Len(q)) /\ ~(j + 1 <= 1) /\ (j + 1) - 1 = j
      BY <2>1
    <3>4. \A j \in 1..Len(q) : pending'[j + 1] = q[j]
      BY <3>2, <3>3
    <3>5. pending'[1] = top
      BY <3>1, <3>2, <2>1
    <3>6. Len(pending') = Len(q) + 1
      BY <3>2, <2>1
    <3>7. Shifted(1)
      BY <3>2, <3>4, <3>5, <3>6
    <3> QED
      BY <2>1, <3>7
  <2>3. CASE ~(h > Skip!Now(Skip!MaxHeightPlace))
    <3>1. pending' = q
      BY <2>3, <1>1, <1>2, ConcatEmptySeq
    <3>2. \A j \in 1..Len(q) : j + 0 = j
      BY <2>1
    <3>3. Len(pending') = Len(q) + 0
      BY <3>1, <2>1
    <3>4. \A j \in 1..Len(q) : pending'[j + 0] = q[j]
      BY <3>1, <3>2
    <3>5. Shifted(0)
      BY <3>1, <3>3, <3>4, <1>2
    <3> QED
      BY <2>1, <3>5
  <2> QED
    BY <2>2, <2>3
<1>7. PICK d \in {0, 1} : Shifted(d)
  <2> HIDE DEF Shifted
  <2> QED
    BY <1>6
<1>8. PICK c : c = d + 2
  OBVIOUS
<1>9. c \in {2, 3} /\ c \in Nat /\ (c = 3 => d = 1) /\ d = c - 2
  BY <1>8
<1>10. c \in 1..Len(pending') /\ pending'[c] = q[2] /\ pending'[c - 1] = q[1] /\ c # 1 /\ c \in Nat /\ c <= 3
  <2>1. 1 \in 1..Len(q) /\ 2 \in 1..Len(q) /\ 2 + d = c /\ 1 + d = c - 1
    BY <1>2, <1>6, <1>8
  <2>2. pending'[2 + d] = q[2] /\ pending'[1 + d] = q[1]
    BY <1>7, <2>1
  <2>3. c \in 1..Len(pending') /\ c # 1 /\ c \in Nat /\ c <= 3
    BY <1>2, <1>6, <1>7, <1>8
  <2> QED
    BY <2>1, <2>2, <2>3
<1>11. \A j \in 1..Len(pending') : c < j => Upper(pending'[j], ks \cup {k})
  <2>1. ASSUME NEW j \in 1..Len(pending'), c < j PROVE Upper(pending'[j], ks \cup {k})
    <3>1. PICK i : i = j - d
      OBVIOUS
    <3>2. i \in 1..Len(q) /\ 2 < i /\ i + d = j
      BY <2>1, <3>1, <1>6, <1>7, <1>8
    <3> QED
      BY <3>2, <1>2, <1>7
  <2> QED
    BY <2>1
<1>12. Skip!Linked(Len(stores))' = ks /\ Skip!Now(<<p, 0>>) = x
  BY <1>1 DEF ks, x, Skip!Linked, Skip!Key
<1>13. \A place : Skip!Now(place)' = Skip!Now(place)
  BY <1>1 DEF Skip!Now, Skip!Value, Skip!MaxHeightPlace, Skip!HeadNode, Skip!Null
<1>14. \A j \in 1..Len(pending') : c < j => Upper(pending[j], Skip!Linked(Len(stores)) \cup {k})'
  <2>1. \A j \in 1..Len(pending') : c < j => Upper(pending'[j], Skip!Linked(Len(stores))' \cup {k})
    BY <1>11, <1>12
  <2> QED
    BY <2>1 DEF Upper, Skip!Null, Node, SkipLevel
<1>15. /\ pending'[c].place = <<p, 0>> /\ pending'[c].value = k
       /\ pending'[c - 1].place = <<k, 0>> /\ pending'[c - 1].value = x
  BY <1>2, <1>10
<1>16. \A b, y : b = p /\ y = x => Between(k, b, y, c)'
  <2> SUFFICES ASSUME NEW b, NEW y, b = p, y = x PROVE Between(k, b, y, c)'
    BY Zenon
  <2>1. k \in Skip!Key' /\ Skip!Now(<<b, 0>>)' = y
    BY <1>12, <1>13 DEF Skip!Key
  <2>2. c = 3 => Height(pending[1])'
    BY <1>5, <1>7, <1>9 DEF Height, Skip!MaxHeightPlace, Skip!HeadNode
  <2> QED
    BY <2>1, <2>2, <1>3, <1>4, <1>10, <1>12, <1>14, <1>15 DEF Between
<1>17. PendingInv'
  BY <1>4, <1>10, <1>16 DEF PendingInv
<1>18. ViewInv'
  BY <1>1, ViewStands
<1> QED
  BY <1>1, <1>7, <1>17, <1>18 DEF SkipType

-----------------------------------------------------------------------------
\* The types of a search.
LEMMA Fields ==
  ASSUME NEW r \in Busy
  PROVE  /\ r.left \in Int /\ r.kind \in {"geq", "less"} /\ r.key \in Nat /\ r.began \in Nat
         /\ r.view \in Nat /\ r.node \in Nat /\ r.level \in SkipLevel
BY DEF Busy

\* A search that goes on from where it is now.
LEMMA GoesOn ==
  ASSUME NEW r \in Busy, r.step = "search", r.view \in Views, r.began <= r.view, r.key <= Skip!Null,
         r.node \in Skip!Linked(r.view) \cup {0}, r.node < r.key, search' = r, UNCHANGED stores
  PROVE  SearchInv'
<1>1. Views' = Views /\ Busy' = Busy /\ Skip!Null' = Skip!Null
  BY DEF Views, SkipLevel, Busy, Skip!Null
<1>2. Skip!Linked(search.view)' = Skip!Linked(r.view)
  BY DEF Skip!Linked, Skip!Key
<1>3. r.left \in Int
  BY Fields
<1>4. /\ search'.view \in Views' /\ search'.left \in Int /\ search'.step = "search" /\ search' \in Busy'
      /\ search'.began <= search'.view /\ search'.key <= Skip!Null' /\ search'.node < search'.key
  BY <1>1, <1>3
<1>5. search'.node \in Skip!Linked(search.view)' \cup {0}
  BY <1>2
<1> QED
  BY <1>4, <1>5 DEF SearchInv

\* What the reader has seen stays as it is.
LEMMA SearchKept ==
  ASSUME Sizes, SkipType, SearchInv, search' = search, Skip!Store \/ UNCHANGED stores
  PROVE  SearchInv'
<1>1. \A v \in Views : v \in Views' /\ Skip!Linked(v)' = Skip!Linked(v)
  <2>1. CASE UNCHANGED stores
    BY <2>1 DEF Views, Skip!Linked, Skip!Key
  <2>2. CASE Skip!Store
    <3>1. pending \in Seq(Store) /\ pending # <<>> /\ stores \in Seq(Store)
      BY <2>2 DEF Skip!Store, SkipType
    <3>2. Head(pending) \in Store /\ stores' = Append(stores, Head(pending))
      BY <2>2, <3>1, HeadTailProperties DEF Skip!Store
    <3>3. Len(stores') = Len(stores) + 1 /\ Len(stores) \in Nat
      BY <3>1, <3>2, Appended, StoreOf
    <3> QED
      BY <3>1, <3>2, <3>3, LinkedStored DEF Views
  <2> QED
    BY <2>1, <2>2
<1>2. search.view \in Views
  BY DEF SearchInv
<1>3. search.step \in {"search", "done"} => search.began \in Views
  <2>1. search.step \in {"search", "done"} => search.began \in Nat /\ search.began <= search.view
    BY Fields DEF SearchInv
  <2> QED
    BY <2>1, <1>2, StoreOf DEF SkipType, Views
<1>4. Skip!Null' = Skip!Null /\ Busy' = Busy
  BY DEF Skip!Null, SkipLevel, Busy
<1> QED
  BY <1>1, <1>2, <1>3, <1>4 DEF SearchInv

\* A search begins at the head, from a height that there is or was.
LEMMA SkipBegin ==
  ASSUME Sizes, SkipType, ViewInv, SearchInv, NEW kind \in {"geq", "less"}, NEW k \in Skip!Key \cup {Skip!Null},
         Skip!Begin(kind, k)
  PROVE  SearchInv' /\ UNCHANGED <<stores, pending>>
<1> DEFINE Begun(v, h) ==
      search' = [step |-> "search", left |-> search.left - 1, kind |-> kind, key |-> k,
                 began |-> v, view |-> v, node |-> 0, level |-> h.value - 1]
<1>0. PICK v \in search.view..Len(stores) : \E h \in Skip!Loads(Skip!MaxHeightPlace, v) : Begun(v, h)
  BY DEF Skip!Begin, Skip!HeadNode
<1>1. PICK h \in Skip!Loads(Skip!MaxHeightPlace, v) : Begun(v, h)
  BY <1>0
<1>2. UNCHANGED <<stores, pending>>
  BY DEF Skip!Begin
<1>3. v \in Views /\ v \in Nat
  BY StoreOf DEF SkipType, SearchInv, Views
<1>4. h.value \in 1..MaxHeight
  <2>1. h.view \in Views /\ h.value = Skip!Value(Skip!MaxHeightPlace, h.view)
    BY <1>3, LoadIs DEF SkipType
  <2> QED
    BY <2>1 DEF ViewInv
<1>5. h.value - 1 \in SkipLevel /\ k \in Nat /\ 0 < k /\ k <= Skip!Null
  <2>1. h.value - 1 \in SkipLevel
    BY <1>4 DEF SkipLevel, Sizes
  <2>2. k \in Nat /\ 0 < k /\ k <= Skip!Null
    <3>1. CASE k = Skip!Null
      BY <3>1 DEF Skip!Null, Sizes
    <3>2. CASE k \in Skip!Key
      BY <3>2 DEF Skip!Key, Skip!Null, Sizes
    <3> QED
      BY <3>1, <3>2
  <2> QED
    BY <2>1, <2>2
<1>6. search' \in Busy
  BY <1>1, <1>3, <1>5 DEF Busy, SearchInv
<1>7. Views' = Views /\ Busy' = Busy /\ Skip!Null' = Skip!Null
  BY <1>2 DEF Views, SkipLevel, Busy, Skip!Null
<1>8. SearchInv'
  BY <1>1, <1>3, <1>5, <1>6, <1>7 DEF SearchInv
<1> QED
  BY <1>2, <1>8

\* The iterator goes on from the node it is at.
LEMMA SkipIterate ==
  ASSUME Sizes, SkipType, SearchInv, Skip!IteratorNext
  PROVE  SearchInv' /\ UNCHANGED <<stores, pending>>
<1>1. /\ search.step = "done" /\ search.node \in Skip!Key /\ UNCHANGED <<stores, pending>>
      /\ search' = [search EXCEPT !.step = "search", !.left = @ - 1, !.kind = "geq",
                       !.key = search.node + 1, !.began = search.view, !.level = 0]
  BY DEF Skip!IteratorNext
<1>2. /\ search \in Busy
      /\ search.view \in Views /\ search.node \in Skip!Linked(search.view) \cup {0, Skip!Null}
  BY <1>1 DEF SearchInv
<1>3. search.node \in Skip!Linked(search.view) /\ search.node \in Nat
  BY <1>1, <1>2, Nulls
<1>4. search.view \in Nat /\ search.left \in Int /\ 0 \in SkipLevel
  BY <1>2, Nulls, Fields
<1>5. PICK a, k, v : a = search.left - 1 /\ k = search.node + 1 /\ v = search.view
  OBVIOUS
<1>6. a \in Int /\ k \in Nat /\ v \in Nat
  BY <1>3, <1>4, <1>5
<1>7. search' = [search EXCEPT !.step = "search", !.left = a, !.kind = "geq",
                   !.key = k, !.began = v, !.level = 0]
  BY <1>1, <1>5
<1>8. /\ search'.step = "search" /\ search'.key = k /\ search'.began = v
      /\ search'.view = v /\ search'.node = search.node /\ search' \in Busy
  BY <1>2, <1>4, <1>5, <1>6, <1>7 DEF Busy
<1>9. search.node < k /\ k <= Skip!Null
  BY <1>1, <1>3, <1>5 DEF Skip!Key, Skip!Null, Sizes
<1>10. SearchInv'
  <2>1. PICK r : r = search'
    OBVIOUS
  <2>2. /\ r \in Busy /\ r.step = "search" /\ r.view = search.view /\ r.began = r.view
        /\ r.key = k /\ r.node = search.node
    BY <2>1, <1>5, <1>8
  <2>3. r.view \in Views /\ r.began <= r.view /\ r.node \in Skip!Linked(r.view) \cup {0}
    BY <2>2, <1>2, <1>3, <1>4
  <2> QED
    BY <2>1, <2>2, <2>3, <1>1, <1>9, GoesOn
<1> QED
  BY <1>1, <1>10

\* One turn: whatever the reader sees of the next node, it passes over none
\* that was linked when it began.
LEMMA SkipSearch ==
  ASSUME Sizes, SkipType, ViewInv, SearchInv, Skip!Search
  PROVE  SearchInv' /\ UNCHANGED <<stores, pending>>
<1> DEFINE Passes(next) == next.value < search.key /\ search' = [search EXCEPT !.node = next.value, !.view = next.view]
           Descends(next) == ~(next.value < search.key) /\ search.level > 0
                             /\ search' = [search EXCEPT !.level = @ - 1, !.view = next.view]
           Ends(next) == ~(next.value < search.key) /\ ~(search.level > 0)
                         /\ search' = [search EXCEPT !.step = "done", !.view = next.view,
                                         !.node = IF search.kind = "geq" THEN next.value ELSE @]
<1>1. search.step = "search" /\ UNCHANGED <<stores, pending>>
  BY DEF Skip!Search
<1>2. PICK next \in Skip!Loads(<<search.node, search.level>>, search.view) :
        Passes(next) \/ Descends(next) \/ Ends(next)
  BY DEF Skip!Search
<1>3. PICK n, l, v, w : n = search.node /\ l = search.level /\ v = search.view /\ w = next.view
  OBVIOUS
<1>4. /\ search \in Busy /\ v \in Views /\ search.began <= v /\ l \in SkipLevel
      /\ n \in Skip!Linked(v) \cup {0} /\ n < search.key
      /\ search.left \in Int /\ search.key \in Nat /\ search.began \in Nat
  BY <1>1, <1>3, Fields DEF SearchInv
<1>5. w \in Views /\ v <= w /\ next.value = Skip!Value(<<n, l>>, w)
  BY <1>2, <1>3, <1>4, LoadIs DEF SkipType
<1>6. /\ Skip!Linked(v) \subseteq Skip!Linked(w) /\ Skip!Linked(w) \subseteq Skip!Key
      /\ n \in Node /\ v \in Nat /\ w \in Nat /\ search.began \in Views
  <2>1. v \in Nat /\ w \in Nat /\ search.began \in Nat /\ search.began \in Views
    BY <1>4, <1>5, StoreOf DEF SkipType, Views
  <2>2. Skip!Linked(v) \subseteq Skip!Linked(w) /\ Skip!Linked(w) \subseteq Skip!Key
    BY <1>4, <1>5, LinkedGrows DEF SkipType
  <2> QED
    BY <2>1, <2>2, <1>4, Nulls
<1>7. Skip!Linked(search.began) \subseteq Skip!Linked(w)
  <2>1. search.began \in Nat /\ search.began <= w
    BY <1>4, <1>5, <1>6
  <2> QED
    BY <2>1, <1>5, <1>6, LinkedGrows DEF SkipType
<1>8. next.value \in Skip!Linked(w) \cup {Skip!Null} /\ n < next.value
  BY <1>4, <1>5, <1>6 DEF ViewInv
<1>9. next.value \in Nat /\ search.key \in Nat /\ n \in Nat
  BY <1>4, <1>6, <1>8, Nulls
<1>10. \A u : Skip!Linked(u)' = Skip!Linked(u)
  BY <1>1 DEF Skip!Linked, Skip!Key
<1>11. Views' = Views /\ Busy' = Busy /\ Skip!Null' = Skip!Null
  BY <1>1 DEF Views, SkipLevel, Busy, Skip!Null
<1>12. search.key <= Skip!Null /\ search.began <= w
  BY <1>1, <1>3, <1>4, <1>5, <1>6 DEF SearchInv
<1>13. CASE Passes(next)
  <2>1. /\ search'.step = "search" /\ search'.left = search.left /\ search'.key = search.key
        /\ search'.began = search.began /\ search'.view = w /\ search'.node = next.value
        /\ search' \in Busy
    BY <1>1, <1>3, <1>4, <1>6, <1>9, <1>13 DEF Busy
  <2>2. next.value \in Skip!Linked(w) /\ next.value < search.key
    BY <1>8, <1>9, <1>12, <1>13, Nulls
  <2>3. PICK r : r = search'
    OBVIOUS
  <2> QED
    BY <2>1, <2>2, <2>3, <1>1, <1>5, <1>12, GoesOn
<1>14. CASE Descends(next)
  <2>1. search.level - 1 \in SkipLevel
    BY <1>3, <1>4, <1>14 DEF SkipLevel, Sizes
  <2>2. /\ search'.step = "search" /\ search'.left = search.left /\ search'.key = search.key
        /\ search'.began = search.began /\ search'.view = w /\ search'.node = n
        /\ search' \in Busy
    BY <2>1, <1>1, <1>3, <1>4, <1>6, <1>14 DEF Busy
  <2>3. n \in Skip!Linked(w) \cup {0}
    BY <1>4, <1>6
  <2>4. PICK r : r = search'
    OBVIOUS
  <2> QED
    BY <2>2, <2>3, <2>4, <1>1, <1>4, <1>5, <1>12, GoesOn
<1>15. CASE Ends(next)
  <2>1. l = 0
    BY <1>3, <1>4, <1>15 DEF SkipLevel, Sizes
  <2>2. /\ search'.step = "done" /\ search'.left = search.left /\ search'.key = search.key
        /\ search'.began = search.began /\ search'.view = w /\ search'.kind = search.kind
        /\ search'.node = IF search.kind = "geq" THEN next.value ELSE n
        /\ search' \in Busy
    BY <1>1, <1>3, <1>4, <1>6, <1>9, <1>15 DEF Busy
  <2>3. search'.node \in Skip!Linked(search.view)' \cup {0, Skip!Null}
    BY <2>2, <1>4, <1>6, <1>8, <1>10
  <2>4. \A k \in Skip!Linked(w) : n < k => next.value <= k
    BY <2>1, <1>4, <1>5, <1>6 DEF ViewInv
  <2>5. \A k \in Skip!Linked(search.began) : k \in Skip!Linked(w) /\ k \in Nat
    BY <1>6, <1>7, Nulls
  <2>6. search.key <= next.value
    BY <1>9, <1>15
  <2>7. \A k \in Skip!Linked(search.began) : search.key <= k => next.value <= k
    BY <2>4, <2>5, <1>4, <1>9
  <2>8. \A k \in Skip!Linked(search.began) : k < search.key => k <= n
    BY <2>4, <2>5, <2>6, <1>9
  <2>9. Skip!Linked(search.began)' = Skip!Linked(search.began)
    BY <1>1, <2>2 DEF Skip!Linked, Skip!Key
  <2>10. /\ search'.view \in Views' /\ search'.left \in Int /\ search' \in Busy'
         /\ search'.began <= search'.view /\ search'.key <= Skip!Null'
    BY <2>2, <1>4, <1>5, <1>11, <1>12
  <2>11. IF search'.kind = "geq"
           THEN search'.key <= search'.node
                /\ \A k \in Skip!Linked(search.began)' : search'.key <= k => search'.node <= k
           ELSE search'.node < search'.key
                /\ \A k \in Skip!Linked(search.began)' : k < search'.key => k <= search'.node
    BY <2>2, <2>6, <2>7, <2>8, <2>9, <1>4
  <2> QED
    BY <2>2, <2>3, <2>10, <2>11, <1>1, <1>11 DEF SearchInv
<1> QED
  BY <1>1, <1>2, <1>13, <1>14, <1>15

\* The empty list.
LEMMA SkipStart == Sizes /\ Skip!Init => SkipInv
<1> SUFFICES ASSUME Sizes, Skip!Init PROVE SkipInv
  OBVIOUS
<1>1. /\ stores = <<>> /\ pending = <<>> /\ search = [step |-> "idle", left |-> MaxReads, view |-> 0]
  BY DEF Skip!Init
<1>2. Len(stores) = 0 /\ Len(pending) = 0 /\ Views = {0}
  BY <1>1, EmptySeq DEF Views
<1>3. SkipType
  BY <1>1, EmptySeq DEF SkipType
<1>4. \A v \in Views : Skip!Linked(v) = {}
  BY <1>2 DEF Skip!Linked
<1>5. \A v \in Views : \A place : Skip!Value(place, v) = IF place = Skip!MaxHeightPlace THEN 1 ELSE Skip!Null
  <2>1. \A place : { i \in 1..0 : stores[i].place = place } = {}
    OBVIOUS
  <2> QED
    BY <1>2, <2>1 DEF Skip!Value
<1>6. ViewInv
  <2>1. \A n \in Node, l \in SkipLevel : <<n, l>> # Skip!MaxHeightPlace /\ n < Skip!Null
    <3>1. \A n \in Node, l \in SkipLevel : l # MaxHeight
      BY Nulls
    <3>2. \A n \in Node : n < Skip!Null
      BY DEF Node, Skip!Null, Sizes
    <3> QED
      BY <3>1, <3>2 DEF Skip!MaxHeightPlace
  <2>2. 1 \in 1..MaxHeight
    BY DEF Sizes
  <2> QED
    BY <2>1, <2>2, <1>4, <1>5 DEF ViewInv
<1>7. PendingInv
  BY <1>2 DEF PendingInv
<1>8. SearchInv
  BY <1>1, <1>2 DEF SearchInv, Sizes
<1> QED
  BY <1>3, <1>6, <1>7, <1>8 DEF SkipInv

\* What stands still.
LEMMA SkipStands ==
  ASSUME Sizes, SkipType, PendingInv, UNCHANGED <<stores, pending>>
  PROVE  SkipType' /\ PendingInv'
<1>1. SkipType'
  BY DEF SkipType
<1>2. Skip!Linked(Len(stores))' = Skip!Linked(Len(stores)) /\ \A place : Skip!Now(place)' = Skip!Now(place)
  BY DEF Skip!Linked, Skip!Key, Skip!Now, Skip!Value, Skip!MaxHeightPlace, Skip!HeadNode, Skip!Null
<1>3. \A s, ks : Upper(s, ks)' <=> Upper(s, ks)
  BY DEF Upper, Skip!Null, Node, SkipLevel
<1>4. CASE \A j \in 1..Len(pending) : Upper(pending[j], Skip!Linked(Len(stores)))
  <2>1. \A j \in 1..Len(pending') : Upper(pending[j], Skip!Linked(Len(stores)))'
    BY <1>2, <1>4 DEF Upper, Skip!Null, Node, SkipLevel
  <2>2. (\A j \in 1..Len(pending) : Upper(pending[j], Skip!Linked(Len(stores))))'
    BY <2>1
  <2> QED
    BY <2>2, <1>1 DEF PendingInv
<1>5. ASSUME NEW k \in Nat, NEW p \in Nat, NEW x \in Nat, NEW c \in Nat, Between(k, p, x, c)
      PROVE  PendingInv'
  <2>1. \A j \in 1..Len(pending') : c < j => Upper(pending[j], Skip!Linked(Len(stores)) \cup {k})'
    <3>1. \A j \in 1..Len(pending) : c < j => Upper(pending[j], Skip!Linked(Len(stores)) \cup {k})
      BY <1>5 DEF Between
    <3> QED
      BY <1>2, <3>1 DEF Upper, Skip!Null, Node, SkipLevel
  <2>2. Between(k, p, x, c)'
    <3>1. Skip!Key' = Skip!Key
      BY DEF Skip!Key
    <3>2. c = 3 => Height(pending[1])'
      BY <1>5 DEF Between, Height, Skip!MaxHeightPlace, Skip!HeadNode
    <3> QED
      BY <2>1, <3>1, <3>2, <1>2, <1>5 DEF Between
  <2> QED
    BY <2>2 DEF PendingInv
<1> QED
  BY <1>1, <1>4, <1>5 DEF PendingInv

\* Every step keeps the invariant.
LEMMA SkipStep == Sizes /\ SkipInv /\ [Skip!Next]_Skip!vars => SkipInv'
<1> SUFFICES ASSUME Sizes, SkipInv, [Skip!Next]_Skip!vars PROVE SkipInv'
  OBVIOUS
<1>1. SkipType /\ ViewInv /\ PendingInv /\ SearchInv
  BY DEF SkipInv
<1>2. ASSUME NEW k \in Skip!Key, NEW h \in 1..MaxHeight, Skip!Insert(k, h) PROVE SkipInv'
  <2>1. SkipType' /\ ViewInv' /\ PendingInv' /\ UNCHANGED <<stores, search>>
    BY <1>1, <1>2, SkipInsert
  <2> QED
    BY <2>1, <1>1, SearchKept DEF SkipInv
<1>3. CASE Skip!Store
  BY <1>1, <1>3, SkipStore, SearchKept DEF SkipInv
<1>4. ASSUME SearchInv', UNCHANGED <<stores, pending>> PROVE SkipInv'
  BY <1>1, <1>4, ViewStands, SkipStands DEF SkipInv
<1>5. ASSUME NEW kind \in {"geq", "less"}, NEW k \in Skip!Key \cup {Skip!Null}, Skip!Begin(kind, k) PROVE SkipInv'
  BY <1>1, <1>4, <1>5, SkipBegin
<1>6. CASE Skip!IteratorNext
  BY <1>1, <1>4, <1>6, SkipIterate
<1>7. CASE Skip!Search
  BY <1>1, <1>4, <1>7, SkipSearch
<1>8. CASE UNCHANGED Skip!vars
  <2>1. UNCHANGED <<stores, pending, search>>
    BY <1>8 DEF Skip!vars
  <2> QED
    BY <2>1, <1>1, <1>4, SearchKept
<1> QED
  BY <1>2, <1>3, <1>5, <1>6, <1>7, <1>8 DEF Skip!Next

\* What a search returns is linked, on the right side, and the nearest of what
\* was linked when it began.
LEMMA InvSearch == Sizes /\ SkipInv => Skip!SearchRight
<1> SUFFICES ASSUME Sizes, SkipInv, search.step = "done"
             PROVE  /\ search.node \in Skip!Linked(Len(stores)) \cup {0, Skip!Null}
                    /\ IF search.kind = "geq"
                         THEN search.node >= search.key
                              /\ \A k \in Skip!Linked(search.began) : k >= search.key => search.node <= k
                         ELSE search.node < search.key
                              /\ \A k \in Skip!Linked(search.began) : k < search.key => k <= search.node
  BY DEF Skip!SearchRight, Skip!HeadNode
<1>1. SearchInv /\ stores \in Seq(Store)
  BY DEF SkipInv, SkipType
<1>2. search.view \in Views /\ Len(stores) \in Views /\ search.view <= Len(stores)
  BY <1>1, StoreOf DEF SearchInv, Views
<1>3. Skip!Linked(search.view) \subseteq Skip!Linked(Len(stores))
  BY <1>1, <1>2, LinkedGrows
<1>5. \A k \in Skip!Linked(search.began) : k \in Nat
  BY Nulls DEF Skip!Linked
<1>6. search.key \in Nat /\ search.node \in Nat
  BY <1>1, Fields DEF SearchInv
<1> QED
  BY <1>1, <1>3, <1>5, <1>6 DEF SearchInv

LEMMA SkipAlone == PartsSpec => [](part = "skiplist" => SkipInv)
<1>1. Sizes
  BY CompactionAssumption, SkipListAssumption DEF Sizes
<1>2. PartsInit => (part = "skiplist" => SkipInv)
  BY <1>1, SkipStart DEF PartsInit
<1>3. (part = "skiplist" => SkipInv) /\ [PartsNext]_partsVars => (part = "skiplist" => SkipInv)'
  <2> SUFFICES ASSUME part = "skiplist" => SkipInv, [PartsNext]_partsVars, part' = "skiplist"
               PROVE  SkipInv'
    OBVIOUS
  <2>1. part = "skiplist" /\ [Skip!Next]_Skip!vars
    BY DEF PartsNext, partsVars, kVars, Skip!vars
  <2> QED
    BY <1>1, <2>1, SkipStep
<1> QED
  BY <1>2, <1>3, PTL DEF PartsSpec

\* A lock-free search passes over no key that was in the list when it began
\* and returns nothing that is not in it, for any number of keys, levels,
\* inserts and searches, and whatever the reader sees of each store.
THEOREM SearchFinds == PartsSpec => []SearchRight
<1>1. (part = "skiplist" => SkipInv) => SearchRight
  BY InvSearch, CompactionAssumption, SkipListAssumption DEF SearchRight, Sizes
<1> QED
  BY <1>1, SkipAlone, PTL

-----------------------------------------------------------------------------
(***************************************************************************)
(* The levels.                                                             *)
(***************************************************************************)
LEMMA CompactionAlone == PartsSpec => [](part = "compaction" => CompactionInv)
<1>1. PartsInit => (part = "compaction" => CompactionInv)
  BY CompactionStart DEF PartsInit
<1>2. (part = "compaction" => CompactionInv) /\ [PartsNext]_partsVars =>
        (part = "compaction" => CompactionInv)'
  <2> SUFFICES ASSUME part = "compaction" => CompactionInv, [PartsNext]_partsVars, part' = "compaction"
               PROVE  CompactionInv'
    OBVIOUS
  <2>1. part = "compaction" /\ [Next]_vars
    BY DEF PartsNext, partsVars, cVars, vars
  <2> QED
    BY <2>1, CompactionStep
<1> QED
  BY <1>1, <1>2, PTL DEF PartsSpec

\* On every level but the first the tables follow each other without overlap
\* (MaybeAddFile), for any number of levels, keys, writes and snapshots,
\* whatever is flushed in the middle of a compaction; unless that came into
\* the gap of a range compaction.
THEOREM LevelsStayApart == PartsSpec => []Levels
<1>1. (part = "compaction" => CompactionInv) => Levels
  BY InvDisjoint DEF Levels
<1> QED
  BY <1>1, CompactionAlone, PTL

\* Version::Get finds the last value written before the reader's snapshot,
\* whatever was flushed, moved, merged and dropped meanwhile, as long as no
\* compaction cut between two entries of a key and no flush came into the gap
\* of a range compaction.
THEOREM ReadersFindNewest == PartsSpec => []Snapshots
<1>1. (part = "compaction" => CompactionInv) => Snapshots
  BY InvReads DEF Snapshots
<1> QED
  BY <1>1, CompactionAlone, PTL
-----------------------------------------------------------------------------
(***************************************************************************)
(* The searched lists.                                                     *)
(***************************************************************************)
SearchQuery == [text : Text, records : SUBSET Record]
Queries == 1..Len(sQuery)
Distinct(s) == \A i, j \in DOMAIN s : s[i] = s[j] => i = j

\* The queries that wait for p, at one of the two reads.
Waits(p) == Range(sReading[p]) \cup Range(sWaiting[p])

PeopleType ==
  /\ sQuery \in Seq(SearchQuery) /\ sList \in Seq(Record)
  /\ sArray \in [Queries -> Seq(Record)]
  /\ sRecords \subseteq Record /\ IsFiniteSet(sRecords) /\ sKnown \subseteq sRecords
  /\ sReading \in [Record -> Seq(Queries)] /\ sWaiting \in [Record -> Seq(Queries)]
  /\ sAsked \in Seq(Queries)

\* A query has found whom the client knows, it matches, and it does not wait
\* for; once.
ArrayInv ==
  /\ \A q \in Queries, p \in Record :
       p \in Range(sArray[q]) <=> p \in sKnown /\ q \notin Waits(p) /\ p \in Matching[sQuery[q].text]
  /\ \A q \in Queries : Distinct(sArray[q])
  /\ \A p \in Record : Range(sReading[p]) \cap Range(sWaiting[p]) = {}
  /\ \A p \in Record \ sKnown : Waits(p) = {}

\* The list of friends is the array of some query.
ListInv ==
  sScreen = "friends" =>
    \/ sList = <<>> /\ \A q \in Queries : sArray[q] = <<>>
    \/ sList # <<>> /\ \E q \in Queries : sList = sArray[q]

\* The list of users is the newest query's, unless that is under way.
UsersInv ==
  /\ sScreen = "friends" => sAsked = <<>>
  /\ sScreen # "friends" => sKnown = {}
  /\ \A q \in Queries : sQuery[q].records \subseteq sRecords
  /\ sAsked # <<>> => sAsked[Len(sAsked)] = Len(sQuery)
  /\ sScreen # "friends" /\ sAsked = <<>> /\ Len(sQuery) # 0 =>
       /\ Matching[sQuery[Len(sQuery)].text] \cap sQuery[Len(sQuery)].records \subseteq Range(sList)
       /\ Range(sList) \subseteq Matching[sQuery[Len(sQuery)].text]

PeopleInv == PeopleType /\ ArrayInv /\ ListInv /\ UsersInv

LEMMA NoElements == Range(<<>>) = {} /\ Distinct(<<>>) /\ Len(<<>>) = 0 /\ \A S : <<>> \in Seq(S)
<1>1. DOMAIN <<>> = {} /\ Len(<<>>) = 0 /\ \A S : <<>> \in Seq(S)
  BY EmptySeq
<1> QED
  BY <1>1 DEF Range, Distinct

LEMMA RangeIs ==
  ASSUME NEW S, NEW s \in Seq(S)
  PROVE  /\ \A x : x \in Range(s) <=> \E i \in 1..Len(s) : x = s[i]
         /\ Range(s) \subseteq S /\ (Range(s) = {} => s = <<>>)
<1>1. DOMAIN s = 1..Len(s) /\ Len(s) \in Nat /\ (s # <<>> => Len(s) # 0) /\ \A i \in 1..Len(s) : s[i] \in S
  BY Elements
<1>2. \A x : x \in Range(s) <=> \E i \in 1..Len(s) : x = s[i]
  BY <1>1 DEF Range
<1>3. s # <<>> => 1 \in 1..Len(s)
  BY <1>1
<1> QED
  BY <1>1, <1>2, <1>3

LEMMA SeqWider ==
  ASSUME NEW S, NEW T, S \subseteq T, NEW s \in Seq(S)
  PROVE  s \in Seq(T)
<1>1. Len(s) \in Nat /\ DOMAIN s = 1..Len(s) /\ \A i \in 1..Len(s) : s[i] \in T
  BY Elements
<1>2. s = [i \in 1..Len(s) |-> s[i]]
  BY <1>1
<1> QED
  BY <1>1, <1>2, SeqDef

LEMMA RangeAppend ==
  ASSUME NEW S, NEW s \in Seq(S), NEW a \in S
  PROVE  /\ Range(Append(s, a)) = Range(s) \cup {a}
         /\ Distinct(s) /\ a \notin Range(s) => Distinct(Append(s, a))
         /\ Append(s, a) # <<>>
<1>1. PICK t : t = Append(s, a)
  OBVIOUS
<1>2. /\ t \in Seq(S) /\ Len(t) = Len(s) + 1 /\ t[Len(s) + 1] = a
      /\ \A i \in 1..Len(s) : t[i] = s[i]
  BY <1>1, Appended
<1>3. /\ Len(s) \in Nat /\ DOMAIN s = 1..Len(s) /\ DOMAIN t = 1..Len(t)
      /\ (t = <<>> => Len(t) = 0)
  BY <1>2, Elements
<1>4. \A i : i \in 1..(Len(s) + 1) <=> i \in 1..Len(s) \/ i = Len(s) + 1
  BY <1>3
<1>5. Range(t) = Range(s) \cup {a}
  BY <1>2, <1>3, <1>4 DEF Range
<1>6. ASSUME Distinct(s), a \notin Range(s) PROVE Distinct(t)
  <2>1. \A i \in 1..Len(s) : s[i] # a
    BY <1>3, <1>6 DEF Range
  <2> QED
    BY <1>2, <1>3, <1>4, <1>6, <2>1 DEF Distinct
<1>7. t # <<>>
  BY <1>2, <1>3
<1> QED
  BY <1>1, <1>5, <1>6, <1>7

LEMMA RangeConcat ==
  ASSUME NEW S, NEW s \in Seq(S), NEW t \in Seq(S)
  PROVE  s \o t \in Seq(S) /\ Range(s \o t) = Range(s) \cup Range(t)
<1>1. PICK w : w = s \o t
  OBVIOUS
<1>2. /\ w \in Seq(S) /\ Len(w) = Len(s) + Len(t)
      /\ \A i \in 1..(Len(s) + Len(t)) : w[i] = IF i <= Len(s) THEN s[i] ELSE t[i - Len(s)]
  BY <1>1, ConcatProperties
<1>3. /\ Len(s) \in Nat /\ Len(t) \in Nat /\ DOMAIN s = 1..Len(s) /\ DOMAIN t = 1..Len(t)
      /\ DOMAIN w = 1..Len(w)
  BY <1>2, Elements
<1>4. ASSUME NEW i \in DOMAIN w PROVE w[i] \in Range(s) \cup Range(t)
  <2>1. i <= Len(s) => i \in 1..Len(s) /\ w[i] = s[i]
    BY <1>2, <1>3
  <2>2. ~(i <= Len(s)) => i - Len(s) \in 1..Len(t) /\ w[i] = t[i - Len(s)]
    BY <1>2, <1>3
  <2> QED
    BY <1>3, <2>1, <2>2 DEF Range
<1>5. ASSUME NEW i \in DOMAIN s PROVE i \in DOMAIN w /\ w[i] = s[i]
  <2>1. i \in 1..(Len(s) + Len(t)) /\ i <= Len(s)
    BY <1>3
  <2> QED
    BY <1>2, <1>3, <2>1
<1>6. ASSUME NEW i \in DOMAIN t PROVE i + Len(s) \in DOMAIN w /\ w[i + Len(s)] = t[i]
  <2>1. i + Len(s) \in 1..(Len(s) + Len(t)) /\ ~(i + Len(s) <= Len(s)) /\ i + Len(s) - Len(s) = i
    BY <1>3
  <2> QED
    BY <1>2, <1>3, <2>1
<1>7. Range(w) = Range(s) \cup Range(t)
  <2>1. Range(w) \subseteq Range(s) \cup Range(t)
    BY <1>4 DEF Range
  <2>2. Range(s) \subseteq Range(w)
    BY <1>5 DEF Range
  <2>3. Range(t) \subseteq Range(w)
    BY <1>6 DEF Range
  <2> QED
    BY <2>1, <2>2, <2>3
<1> QED
  BY <1>1, <1>2, <1>7

LEMMA PeopleStart == People!Init => PeopleInv
<1> SUFFICES ASSUME People!Init PROVE PeopleInv
  OBVIOUS
<1>1. /\ sRecords = {} /\ sQuery = <<>> /\ sArray = <<>> /\ sList = <<>> /\ sKnown = {}
      /\ sAsked = <<>> /\ sReading = [p \in Record |-> <<>>] /\ sWaiting = [p \in Record |-> <<>>]
  BY DEF People!Init
<1>2. Len(sQuery) = 0 /\ Queries = {}
  BY <1>1, NoElements DEF Queries
<1>3. \A p \in Record : Range(sReading[p]) = {} /\ Range(sWaiting[p]) = {}
  BY <1>1, NoElements
<1>4. PeopleType
  <2>1. DOMAIN sArray = {}
    BY <1>1
  <2>2. sArray \in [Queries -> Seq(Record)]
    BY <1>1, <1>2
  <2> QED
    BY <1>1, <2>2, NoElements, FS_EmptySet DEF PeopleType
<1>5. ArrayInv
  BY <1>2, <1>3 DEF ArrayInv, Waits
<1>6. ListInv /\ UsersInv
  BY <1>1, <1>2 DEF ListInv, UsersInv
<1> QED
  BY <1>4, <1>5, <1>6 DEF PeopleInv

\* What the callbacks of the copy of p for some queries do.
FoundFor(Q, p) ==
  /\ sArray' \in [Queries -> Seq(Record)] /\ sList' \in Seq(Record)
  /\ \A q \in Queries, r \in Record :
       r \in Range(sArray'[q]) <=>
         r \in Range(sArray[q]) \/ (r = p /\ q \in Q /\ p \in Matching[sQuery[q].text])
  /\ \A q \in Queries : Distinct(sArray'[q])
  /\ \/ sList' = sList /\ sArray' = sArray
     \/ sList' # <<>> /\ \E q \in Queries : sList' = sArray'[q]

LEMMA FoundIs ==
  ASSUME PeopleInv, NEW p \in Record, NEW s \in Seq(Queries),
         \A q \in Range(s) : p \notin Range(sArray[q]), People!Found(s, p)
  PROVE  FoundFor(Range(s), p)
<1> DEFINE found == People!Finding(s, p)
           Hit(q) == \E i \in found : s[i] = q
<1>1. sArray \in [Queries -> Seq(Record)] /\ sList \in Seq(Record) /\ \A q \in Queries : Distinct(sArray[q])
  BY DEF PeopleInv, PeopleType, ArrayInv
<1>2. DOMAIN s = 1..Len(s) /\ Len(s) \in Nat /\ \A i \in 1..Len(s) : s[i] \in Queries
  BY Elements
<1>3. People!Query = Queries
  <2>1. sQuery \in Seq(SearchQuery)
    BY DEF PeopleInv, PeopleType
  <2> QED
    BY <2>1, Elements DEF People!Query, Queries
<1>4. found = { i \in 1..Len(s) : p \in Matching[sQuery[s[i]].text] }
  BY <1>2 DEF People!Finding, People!Result
<1>5. /\ sArray' = [q \in Queries |-> IF Hit(q) THEN Append(sArray[q], p) ELSE sArray[q]]
      /\ sList' = IF found = {} THEN sList ELSE sArray'[s[Max(found)]]
  BY <1>3 DEF People!Found, People!Max, Max
<1>6. \A q \in Queries : Hit(q) <=> q \in Range(s) /\ p \in Matching[sQuery[q].text]
  <2>1. \A q : q \in Range(s) <=> \E i \in 1..Len(s) : q = s[i]
    BY RangeIs
  <2> QED
    BY <1>4, <2>1
<1> HIDE DEF Hit
<1>7. ASSUME NEW q \in Queries
      PROVE  /\ sArray'[q] \in Seq(Record) /\ Distinct(sArray'[q])
             /\ Range(sArray'[q]) = Range(sArray[q]) \cup (IF Hit(q) THEN {p} ELSE {})
             /\ (Hit(q) => sArray'[q] # <<>>)
  <2>1. sArray[q] \in Seq(Record) /\ Distinct(sArray[q])
    BY <1>1
  <2>2. CASE Hit(q)
    <3>1. p \notin Range(sArray[q])
      BY <1>6, <2>2
    <3>2. sArray'[q] = Append(sArray[q], p)
      BY <1>5, <2>2
    <3>3. Append(sArray[q], p) \in Seq(Record)
      BY <2>1, Appended
    <3>4. /\ Range(Append(sArray[q], p)) = Range(sArray[q]) \cup {p}
          /\ Distinct(Append(sArray[q], p)) /\ Append(sArray[q], p) # <<>>
      BY <2>1, <3>1, RangeAppend
    <3> QED
      BY <2>2, <3>2, <3>3, <3>4
  <2>3. CASE ~Hit(q)
    <3>1. sArray'[q] = sArray[q]
      BY <1>5, <2>3
    <3> QED
      BY <2>1, <2>3, <3>1
  <2> QED
    BY <2>2, <2>3
<1>8. sArray' \in [Queries -> Seq(Record)]
  <2>1. DOMAIN sArray' = Queries /\ sArray' = [q \in Queries |-> sArray'[q]]
    BY <1>5
  <2> QED
    BY <1>7, <2>1
<1>9. \A q \in Queries, r \in Record :
        r \in Range(sArray'[q]) <=>
          r \in Range(sArray[q]) \/ (r = p /\ q \in Range(s) /\ p \in Matching[sQuery[q].text])
  BY <1>6, <1>7
<1>10. CASE found = {}
  <2>1. \A q \in Queries : ~Hit(q)
    BY <1>10 DEF Hit
  <2>2. sArray' = [q \in Queries |-> sArray[q]]
    BY <1>5, <2>1
  <2>3. sArray' = sArray /\ sList' = sList
    BY <1>1, <1>5, <1>10, <2>2
  <2> QED
    BY <1>1, <1>7, <1>8, <1>9, <2>3 DEF FoundFor
<1>11. CASE found # {}
  <2>1. found \subseteq Nat /\ \A i \in found : i <= Len(s)
    BY <1>2, <1>4
  <2>2. PICK i : i = Max(found)
    OBVIOUS
  <2> HIDE DEF found
  <2>3. i \in found
    BY <1>2, <1>11, <2>1, <2>2, GreatestNatural
  <2>4. PICK q : q = s[i]
    OBVIOUS
  <2>5. q \in Queries /\ Hit(q)
    BY <1>2, <1>4, <2>3, <2>4 DEF Hit
  <2>6. sList' = sArray'[q]
    BY <1>5, <1>11, <2>2, <2>4
  <2>7. sList' \in Seq(Record) /\ sList' # <<>>
    BY <1>7, <2>5, <2>6
  <2> QED
    BY <1>7, <1>8, <1>9, <2>5, <2>6, <2>7 DEF FoundFor
<1> QED
  BY <1>10, <1>11

\* A new query.
QueryAdded(n) ==
  /\ n \in Nat /\ Len(sQuery') = n + 1
  /\ Queries' = Queries \cup {n + 1} /\ n + 1 \notin Queries
  /\ sQuery' \in Seq(SearchQuery) /\ sArray' \in [Queries' -> Seq(Record)]
  /\ \A q \in Queries : sQuery'[q] = sQuery[q] /\ sArray'[q] = sArray[q]
  /\ sQuery'[n + 1].records = sRecords /\ sArray'[n + 1] = <<>>

LEMMA QueryStarted ==
  ASSUME PeopleType, NEW t \in Text, NEW n, n = Len(sQuery), People!Started(t)
  PROVE  QueryAdded(n)
<1>1. PICK e : e = [text |-> t, records |-> sRecords]
  OBVIOUS
<1>2. sQuery \in Seq(SearchQuery) /\ e \in SearchQuery /\ e.records = sRecords
  BY <1>1 DEF PeopleType, SearchQuery
<1>3. n \in Nat
  BY <1>2, Elements
<1>4. sQuery' = Append(sQuery, e)
  BY <1>1 DEF People!Started
<1>5. /\ sQuery' \in Seq(SearchQuery) /\ Len(sQuery') = n + 1 /\ sQuery'[n + 1] = e
      /\ \A q \in 1..n : sQuery'[q] = sQuery[q]
  BY <1>2, <1>4, Appended
<1>6. Queries = 1..n /\ Queries' = 1..(n + 1)
  BY <1>5 DEF Queries
<1>7. Queries' = Queries \cup {n + 1} /\ n + 1 \notin Queries
  BY <1>3, <1>6
<1>8. sArray \in Seq(Seq(Record)) /\ Len(sArray) = n
  <2>1. sArray \in [1..n -> Seq(Record)]
    BY <1>6 DEF PeopleType
  <2> QED
    BY <1>3, <2>1
<1>9. sArray' = Append(sArray, <<>>)
  BY DEF People!Started
<1>10. <<>> \in Seq(Record)
  BY NoElements
<1>11. /\ sArray' \in Seq(Seq(Record)) /\ Len(sArray') = n + 1 /\ sArray'[n + 1] = <<>>
       /\ \A q \in 1..n : sArray'[q] = sArray[q]
  BY <1>8, <1>9, <1>10, Appended
<1>12. sArray' \in [Queries' -> Seq(Record)]
  <2>1. DOMAIN sArray' = 1..(n + 1) /\ \A q \in 1..(n + 1) : sArray'[q] \in Seq(Record)
    BY <1>11, Elements
  <2>2. sArray' = [q \in DOMAIN sArray' |-> sArray'[q]]
    BY <1>11
  <2> QED
    BY <1>6, <2>1, <2>2
<1>13. \A q \in Queries : sQuery'[q] = sQuery[q] /\ sArray'[q] = sArray[q]
  BY <1>5, <1>6, <1>11
<1>14. sQuery'[n + 1].records = sRecords
  BY <1>2, <1>5
<1> QED
  BY <1>3, <1>5, <1>7, <1>11, <1>12, <1>13, <1>14 DEF QueryAdded

\* What stays as it was.
LEMMA WaitsSame ==
  ASSUME NEW p, sReading'[p] = sReading[p], sWaiting'[p] = sWaiting[p]
  PROVE  Waits(p)' = Waits(p)
BY DEF Waits

LEMMA PeopleJoin ==
  ASSUME PeopleInv, NEW p \in Record, People!Join(p)
  PROVE  PeopleInv'
<1>1. PeopleType /\ ArrayInv /\ ListInv /\ UsersInv
  BY DEF PeopleInv
<1>2. /\ sRecords' = sRecords \cup {p}
      /\ UNCHANGED <<sScreen, sQuery, sArray, sList, sKnown, sReading, sWaiting, sAsked>>
  BY DEF People!Join
<1>3. PeopleType'
  <2>1. IsFiniteSet(sRecords')
    BY <1>1, <1>2, FS_AddElement DEF PeopleType
  <2> QED
    BY <1>1, <1>2, <2>1 DEF PeopleType, Queries
<1>4. ArrayInv' /\ ListInv'
  BY <1>1, <1>2 DEF ArrayInv, ListInv, Waits, Queries
<1>5. UsersInv'
  BY <1>1, <1>2 DEF UsersInv, Queries
<1> QED
  BY <1>3, <1>4, <1>5 DEF PeopleInv

LEMMA PeopleSearchFriends ==
  ASSUME PeopleInv, NEW t \in Text, People!SearchFriends(t)
  PROVE  PeopleInv'
<1>0. PICK n : n = Len(sQuery)
  OBVIOUS
<1>1. PeopleType /\ ArrayInv /\ ListInv /\ UsersInv
  BY DEF PeopleInv
<1>2. sScreen = "friends" /\ People!Started(t) /\ sAsked = <<>>
      /\ UNCHANGED <<sScreen, sRecords, sList, sKnown, sWaiting, sAsked>>
  BY <1>1 DEF People!SearchFriends, UsersInv
<1>3. /\ Len(sQuery') = n + 1 /\ n \in Nat
      /\ Queries' = Queries \cup {n + 1} /\ n + 1 \notin Queries
      /\ sQuery' \in Seq(SearchQuery) /\ sArray' \in [Queries' -> Seq(Record)]
      /\ \A q \in Queries : sQuery'[q] = sQuery[q] /\ sArray'[q] = sArray[q]
      /\ sQuery'[n + 1].records = sRecords /\ sArray'[n + 1] = <<>>
  BY <1>0, <1>1, <1>2, QueryStarted DEF QueryAdded
<1>4. sReading' = [p \in Record |-> IF p \in sKnown THEN Append(sReading[p], n + 1) ELSE sReading[p]]
  BY <1>3 DEF People!SearchFriends
<1>5. ASSUME NEW p \in Record
      PROVE  /\ sReading'[p] \in Seq(Queries') /\ sWaiting'[p] \in Seq(Queries')
             /\ Range(sReading[p]) \subseteq Queries /\ Range(sWaiting[p]) \subseteq Queries
             /\ Range(sReading'[p]) = Range(sReading[p]) \cup (IF p \in sKnown THEN {n + 1} ELSE {})
             /\ sWaiting'[p] = sWaiting[p]
  <2>1. sReading[p] \in Seq(Queries) /\ sWaiting[p] \in Seq(Queries)
    BY <1>1 DEF PeopleType
  <2>2. \A s \in Seq(Queries) : s \in Seq(Queries')
    <3> SUFFICES ASSUME NEW s \in Seq(Queries) PROVE s \in Seq(Queries')
      OBVIOUS
    <3>1. Queries \subseteq Queries'
      BY <1>3
    <3> QED
      BY <3>1, SeqWider
  <2>3. Range(sReading[p]) \subseteq Queries /\ Range(sWaiting[p]) \subseteq Queries
    BY <2>1, RangeIs
  <2>4. CASE p \in sKnown
    <3>1. sReading[p] \in Seq(Queries') /\ n + 1 \in Queries'
      BY <2>1, <2>2, <1>3
    <3>2. /\ Append(sReading[p], n + 1) \in Seq(Queries')
          /\ Range(Append(sReading[p], n + 1)) = Range(sReading[p]) \cup {n + 1}
      BY <3>1, Appended, RangeAppend
    <3> QED
      BY <1>2, <1>4, <2>1, <2>2, <2>3, <2>4, <3>2
  <2>5. CASE p \notin sKnown
    BY <1>2, <1>4, <2>1, <2>2, <2>3, <2>5
  <2> QED
    BY <2>4, <2>5
<1>6. \A p \in Record : /\ Waits(p)' = Waits(p) \cup (IF p \in sKnown THEN {n + 1} ELSE {})
                        /\ Waits(p) \subseteq Queries
  BY <1>5 DEF Waits
<1>7. PeopleType'
  <2>1. sReading' \in [Record -> Seq(Queries')]
    BY <1>4, <1>5
  <2>2. sWaiting' \in [Record -> Seq(Queries')]
    <3>1. sWaiting' = [p \in Record |-> sWaiting'[p]]
      BY <1>1, <1>2 DEF PeopleType
    <3> QED
      BY <1>5, <3>1
  <2> QED
    BY <1>1, <1>2, <1>3, <2>1, <2>2, NoElements DEF PeopleType
<1>8. ArrayInv'
  <2>1. ASSUME NEW q \in Queries', NEW p \in Record
        PROVE  p \in Range(sArray'[q]) <=>
                 p \in sKnown /\ q \notin Waits(p)' /\ p \in Matching[sQuery'[q].text]
    <3>1. CASE q = n + 1
      <4>1. p \notin Range(sArray'[q])
        BY <1>3, <3>1, NoElements
      <4>2. p \in sKnown => q \in Waits(p)'
        BY <1>6, <3>1
      <4> QED
        BY <4>1, <4>2
    <3>2. CASE q \in Queries
      <4>1. q # n + 1 /\ sArray'[q] = sArray[q] /\ sQuery'[q] = sQuery[q]
        BY <1>3, <3>2
      <4>2. q \in Waits(p)' <=> q \in Waits(p)
        BY <1>6, <4>1
      <4>3. p \in Range(sArray[q]) <=> p \in sKnown /\ q \notin Waits(p) /\ p \in Matching[sQuery[q].text]
        BY <1>1, <3>2 DEF ArrayInv
      <4> QED
        BY <4>1, <4>2, <4>3
    <3> QED
      BY <1>3, <3>1, <3>2
  <2>2. \A q \in Queries' : Distinct(sArray'[q])
    BY <1>1, <1>3, NoElements DEF ArrayInv
  <2>3. \A p \in Record : Range(sReading'[p]) \cap Range(sWaiting'[p]) = {}
    <3> SUFFICES ASSUME NEW p \in Record PROVE Range(sReading'[p]) \cap Range(sWaiting'[p]) = {}
      OBVIOUS
    <3>1. Range(sReading[p]) \cap Range(sWaiting[p]) = {}
      BY <1>1 DEF ArrayInv
    <3>2. n + 1 \notin Range(sWaiting[p])
      BY <1>3, <1>5
    <3>3. sWaiting'[p] = sWaiting[p]
          /\ Range(sReading'[p]) = Range(sReading[p]) \cup (IF p \in sKnown THEN {n + 1} ELSE {})
      BY <1>5
    <3> QED
      BY <3>1, <3>2, <3>3
  <2>4. \A p \in Record \ sKnown : Waits(p)' = {}
    BY <1>1, <1>6 DEF ArrayInv
  <2>5. sKnown' = sKnown
    BY <1>2
  <2>6. \A q \in Queries', p \in Record :
          p \in Range(sArray'[q]) <=> p \in sKnown' /\ q \notin Waits(p)' /\ p \in Matching[sQuery'[q].text]
    BY <2>1, <2>5
  <2> QED
    BY <2>2, <2>3, <2>4, <2>5, <2>6 DEF ArrayInv
<1>9. ListInv'
  <2>1. CASE sList = <<>> /\ \A q \in Queries : sArray[q] = <<>>
    <3>1. \A q \in Queries' : sArray'[q] = <<>>
      BY <1>3, <2>1
    <3> QED
      BY <1>2, <2>1, <3>1 DEF ListInv
  <2>2. ASSUME sList # <<>>, NEW q \in Queries, sList = sArray[q] PROVE ListInv'
    <3>1. q \in Queries' /\ sList' = sArray'[q]
      BY <1>2, <1>3, <2>2
    <3> QED
      BY <1>2, <2>2, <3>1 DEF ListInv
  <2> QED
    BY <1>1, <1>2, <2>1, <2>2 DEF ListInv
<1>10. UsersInv'
  <2>1. \A q \in Queries' : sQuery'[q].records \subseteq sRecords'
    BY <1>1, <1>2, <1>3 DEF UsersInv
  <2> QED
    BY <1>2, <2>1 DEF UsersInv
<1> QED
  BY <1>7, <1>8, <1>9, <1>10 DEF PeopleInv

LEMMA PeopleChildAdded ==
  ASSUME PeopleInv, NEW p \in Record, People!ChildAdded(p)
  PROVE  PeopleInv'
<1>1. PeopleType /\ ArrayInv /\ ListInv /\ UsersInv
  BY DEF PeopleInv
<1>2. /\ sScreen = "friends" /\ p \in sRecords /\ p \notin sKnown
      /\ sKnown' = sKnown \cup {p}
      /\ UNCHANGED <<sScreen, sRecords, sQuery, sArray, sList, sWaiting, sAsked>>
  BY DEF People!ChildAdded
<1>3. PICK n : n = Len(sQuery)
  OBVIOUS
<1>4. DOMAIN sQuery = 1..n /\ n \in Nat /\ Queries = 1..n /\ Queries' = Queries
  BY <1>1, <1>2, <1>3, Elements DEF PeopleType, Queries
<1>5. PICK new : new = [q \in 1..n |-> q]
  OBVIOUS
<1>6. sReading' = [sReading EXCEPT ![p] = sReading[p] \o new]
  BY <1>4, <1>5 DEF People!ChildAdded, People!Query
<1>7. new \in Seq(Queries) /\ Range(new) = Queries
  <2>1. new \in [1..n -> Queries] /\ DOMAIN new = 1..n
    BY <1>4, <1>5
  <2>2. new \in Seq(Queries)
    BY <1>4, <2>1, SeqDef
  <2>3. Range(new) = Queries
    BY <1>4, <1>5, <2>1 DEF Range
  <2> QED
    BY <2>2, <2>3
<1>8. sReading \in [Record -> Seq(Queries)]
  BY <1>1 DEF PeopleType
<1>9. /\ sReading'[p] \in Seq(Queries) /\ Range(sReading'[p]) = Range(sReading[p]) \cup Queries
      /\ sReading' \in [Record -> Seq(Queries)]
      /\ \A r \in Record \ {p} : sReading'[r] = sReading[r]
  <2>1. sReading[p] \in Seq(Queries)
    BY <1>8
  <2>2. /\ sReading[p] \o new \in Seq(Queries)
        /\ Range(sReading[p] \o new) = Range(sReading[p]) \cup Range(new)
    BY <1>7, <2>1, RangeConcat
  <2>3. sReading'[p] = sReading[p] \o new
    BY <1>6, <1>8
  <2>4. sReading' \in [Record -> Seq(Queries)] /\ \A r \in Record \ {p} : sReading'[r] = sReading[r]
    BY <1>6, <1>8, <2>2
  <2> QED
    BY <1>7, <2>2, <2>3, <2>4
<1>10. sWaiting' = sWaiting
  BY <1>2
<1>11. \A r \in Record \ {p} : Waits(r)' = Waits(r)
  BY <1>9, <1>10 DEF Waits
<1>12. /\ Waits(p) = {} /\ Waits(p)' = Queries
       /\ Range(sReading[p]) = {} /\ Range(sWaiting[p]) = {}
  <2>1. Waits(p) = {}
    BY <1>1, <1>2 DEF ArrayInv
  <2>2. Range(sReading[p]) = {} /\ Range(sWaiting[p]) = {}
    BY <2>1 DEF Waits
  <2> QED
    BY <1>9, <1>10, <2>1, <2>2 DEF Waits
<1>13. PeopleType'
  <2>1. sKnown' \subseteq sRecords'
    BY <1>1, <1>2 DEF PeopleType
  <2> QED
    BY <1>1, <1>2, <1>4, <1>9, <2>1 DEF PeopleType
<1>14. ArrayInv'
  <2>1. ASSUME NEW q \in Queries, NEW r \in Record
        PROVE  r \in Range(sArray[q]) <=> r \in sKnown' /\ q \notin Waits(r)' /\ r \in Matching[sQuery[q].text]
    <3>1. r \in Range(sArray[q]) <=> r \in sKnown /\ q \notin Waits(r) /\ r \in Matching[sQuery[q].text]
      BY <1>1 DEF ArrayInv
    <3>2. CASE r = p
      BY <1>2, <1>12, <3>1, <3>2
    <3>3. CASE r # p
      BY <1>2, <1>11, <3>1, <3>3
    <3> QED
      BY <3>2, <3>3
  <2>2. \A q \in Queries : Distinct(sArray[q])
    BY <1>1 DEF ArrayInv
  <2>3. \A r \in Record : Range(sReading'[r]) \cap Range(sWaiting'[r]) = {}
    <3> SUFFICES ASSUME NEW r \in Record PROVE Range(sReading'[r]) \cap Range(sWaiting'[r]) = {}
      OBVIOUS
    <3>1. CASE r = p
      BY <1>10, <1>12, <3>1
    <3>2. CASE r # p
      BY <1>1, <1>9, <1>10, <3>2 DEF ArrayInv
    <3> QED
      BY <3>1, <3>2
  <2>4. \A r \in Record \ sKnown' : Waits(r)' = {}
    BY <1>1, <1>2, <1>11 DEF ArrayInv
  <2>5. sArray' = sArray /\ sQuery' = sQuery
    BY <1>2
  <2>6. \A q \in Queries', r \in Record :
          r \in Range(sArray'[q]) <=> r \in sKnown' /\ q \notin Waits(r)' /\ r \in Matching[sQuery'[q].text]
    BY <1>4, <2>1, <2>5
  <2>7. \A q \in Queries' : Distinct(sArray'[q])
    BY <1>4, <2>2, <2>5
  <2> QED
    BY <2>3, <2>4, <2>6, <2>7 DEF ArrayInv
<1>15. ListInv'
  BY <1>1, <1>2, <1>4 DEF ListInv
<1>16. UsersInv'
  <2>1. sScreen' = "friends" /\ sAsked' = <<>> /\ \A q \in Queries' : sQuery'[q].records \subseteq sRecords'
    BY <1>1, <1>2, <1>4 DEF UsersInv
  <2> QED
    BY <2>1 DEF UsersInv
<1> QED
  BY <1>13, <1>14, <1>15, <1>16 DEF PeopleInv

\* What the callbacks of the copy of p leave, when they were all that one of
\* the two reads of p waited for.
LEMMA FoundInv ==
  ASSUME PeopleInv, NEW p \in Record, NEW Q, FoundFor(Q, p), p \in sKnown \/ Q = {},
         UNCHANGED <<sScreen, sRecords, sQuery, sKnown, sAsked>>,
         sReading' \in [Record -> Seq(Queries)], sWaiting' \in [Record -> Seq(Queries)],
         \A r \in Record \ {p} : sReading'[r] = sReading[r] /\ sWaiting'[r] = sWaiting[r],
         Range(sReading'[p]) \cap Range(sWaiting'[p]) = {},
         Q \subseteq Waits(p), Waits(p)' = Waits(p) \ Q, sList' = sList \/ sScreen = "friends"
  PROVE  PeopleInv'
<1>1. PeopleType /\ ArrayInv /\ ListInv /\ UsersInv
  BY DEF PeopleInv
<1>2. Queries' = Queries /\ sQuery' = sQuery
  BY DEF Queries
<1>3. PeopleType'
  BY <1>1, <1>2 DEF PeopleType, FoundFor
<1>4. \A r \in Record \ {p} : Waits(r)' = Waits(r)
  BY DEF Waits
<1>5. ArrayInv'
  <2>1. ASSUME NEW q \in Queries, NEW r \in Record
        PROVE  r \in Range(sArray'[q]) <=> r \in sKnown /\ q \notin Waits(r)' /\ r \in Matching[sQuery[q].text]
    <3>1. r \in Range(sArray[q]) <=> r \in sKnown /\ q \notin Waits(r) /\ r \in Matching[sQuery[q].text]
      BY <1>1 DEF ArrayInv
    <3>2. r \in Range(sArray'[q]) <=>
            r \in Range(sArray[q]) \/ (r = p /\ q \in Q /\ p \in Matching[sQuery[q].text])
      BY DEF FoundFor
    <3>3. CASE r = p
      BY <3>1, <3>2, <3>3
    <3>4. CASE r # p
      BY <1>4, <3>1, <3>2, <3>4
    <3> QED
      BY <3>3, <3>4
  <2>2. \A q \in Queries', r \in Record :
          r \in Range(sArray'[q]) <=> r \in sKnown' /\ q \notin Waits(r)' /\ r \in Matching[sQuery'[q].text]
    BY <1>2, <2>1
  <2>3. \A q \in Queries' : Distinct(sArray'[q])
    BY <1>2 DEF FoundFor
  <2>4. \A r \in Record : Range(sReading'[r]) \cap Range(sWaiting'[r]) = {}
    <3> SUFFICES ASSUME NEW r \in Record PROVE Range(sReading'[r]) \cap Range(sWaiting'[r]) = {}
      OBVIOUS
    <3>1. Range(sReading[r]) \cap Range(sWaiting[r]) = {}
      BY <1>1 DEF ArrayInv
    <3> QED
      BY <3>1
  <2>5. \A r \in Record \ sKnown' : Waits(r)' = {}
    <3> SUFFICES ASSUME NEW r \in Record \ sKnown PROVE Waits(r)' = {}
      OBVIOUS
    <3>1. Waits(r) = {}
      BY <1>1 DEF ArrayInv
    <3> QED
      BY <1>4, <3>1
  <2> QED
    BY <2>2, <2>3, <2>4, <2>5 DEF ArrayInv
<1>6. ListInv'
  <2>1. CASE sList' = sList /\ sArray' = sArray
    BY <1>1, <1>2, <2>1 DEF ListInv
  <2>2. CASE sList' # <<>> /\ \E q \in Queries : sList' = sArray'[q]
    BY <1>2, <2>2 DEF ListInv
  <2> QED
    BY <2>1, <2>2 DEF FoundFor
<1>7. UsersInv'
  <2>1. /\ sScreen' = "friends" => sAsked' = <<>>
        /\ sScreen' # "friends" => sKnown' = {}
        /\ \A q \in Queries' : sQuery'[q].records \subseteq sRecords'
    BY <1>1, <1>2 DEF UsersInv
  <2>2. Len(sQuery') = Len(sQuery) /\ sAsked' = sAsked /\ sScreen' = sScreen
    BY <1>2
  <2>3. CASE sScreen = "friends"
    BY <1>1, <2>1, <2>2, <2>3 DEF UsersInv
  <2>4. CASE sList' = sList
    BY <1>1, <1>2, <2>1, <2>2, <2>4 DEF UsersInv
  <2> QED
    BY <2>3, <2>4
<1> QED
  BY <1>3, <1>5, <1>6, <1>7 DEF PeopleInv

LEMMA PeopleRecordRead ==
  ASSUME PeopleInv, NEW p \in Record, People!RecordRead(p)
  PROVE  PeopleInv'
<1>1. PeopleType /\ ArrayInv /\ ListInv /\ UsersInv
  BY DEF PeopleInv
<1>2. /\ sReading[p] # <<>> /\ sReading' = [sReading EXCEPT ![p] = <<>>]
      /\ UNCHANGED <<sScreen, sRecords, sQuery, sKnown, sAsked>>
      /\ \/ People!Found(sReading[p], p) /\ sWaiting' = sWaiting
         \/ /\ sWaiting' = [sWaiting EXCEPT ![p] = sWaiting[p] \o sReading[p]]
            /\ sArray' = sArray /\ sList' = sList
  BY DEF People!RecordRead
<1>3. /\ sReading \in [Record -> Seq(Queries)] /\ sWaiting \in [Record -> Seq(Queries)]
      /\ sReading[p] \in Seq(Queries) /\ sWaiting[p] \in Seq(Queries)
  BY <1>1 DEF PeopleType
<1>4. Range(sReading[p]) \subseteq Queries /\ Range(sReading[p]) # {}
  BY <1>2, <1>3, RangeIs
<1>5. p \in sKnown /\ sScreen = "friends"
  <2>1. Waits(p) # {}
    BY <1>4 DEF Waits
  <2> QED
    BY <1>1, <2>1 DEF ArrayInv, UsersInv
<1>6. /\ sReading' \in [Record -> Seq(Queries)] /\ Range(sReading'[p]) = {}
      /\ \A r \in Record \ {p} : sReading'[r] = sReading[r]
  <2>1. sReading'[p] = <<>> /\ <<>> \in Seq(Queries)
    BY <1>2, <1>3, NoElements
  <2> QED
    BY <1>2, <1>3, <2>1, NoElements
<1>7. Range(sReading[p]) \cap Range(sWaiting[p]) = {}
  BY <1>1 DEF ArrayInv
<1>8. CASE People!Found(sReading[p], p) /\ sWaiting' = sWaiting
  <2>1. \A q \in Range(sReading[p]) : p \notin Range(sArray[q])
    <3> SUFFICES ASSUME NEW q \in Range(sReading[p]) PROVE p \notin Range(sArray[q])
      OBVIOUS
    <3>1. q \in Queries /\ q \in Waits(p)
      BY <1>4 DEF Waits
    <3> QED
      BY <1>1, <3>1 DEF ArrayInv
  <2>2. FoundFor(Range(sReading[p]), p)
    BY <1>3, <1>8, <2>1, FoundIs
  <2>3. /\ Range(sReading[p]) \subseteq Waits(p)
        /\ Waits(p)' = Waits(p) \ Range(sReading[p])
    BY <1>6, <1>7, <1>8 DEF Waits
  <2>4. /\ sWaiting' \in [Record -> Seq(Queries)]
        /\ \A r \in Record \ {p} : sReading'[r] = sReading[r] /\ sWaiting'[r] = sWaiting[r]
        /\ Range(sReading'[p]) \cap Range(sWaiting'[p]) = {}
    BY <1>3, <1>6, <1>8
  <2> QED
    BY <1>2, <1>5, <1>6, <2>2, <2>3, <2>4, FoundInv
<1>9. CASE /\ sWaiting' = [sWaiting EXCEPT ![p] = sWaiting[p] \o sReading[p]]
           /\ sArray' = sArray /\ sList' = sList
  <2>1. /\ sWaiting[p] \o sReading[p] \in Seq(Queries)
        /\ Range(sWaiting[p] \o sReading[p]) = Range(sWaiting[p]) \cup Range(sReading[p])
    BY <1>3, RangeConcat
  <2>2. sWaiting'[p] = sWaiting[p] \o sReading[p]
    BY <1>3, <1>9
  <2>3. sWaiting' \in [Record -> Seq(Queries)] /\ \A r \in Record \ {p} : sWaiting'[r] = sWaiting[r]
    BY <1>3, <1>9, <2>1
  <2>4. Waits(p)' = Waits(p) \ {} /\ Range(sReading'[p]) \cap Range(sWaiting'[p]) = {}
    BY <1>6, <2>1, <2>2 DEF Waits
  <2>5. FoundFor({}, p)
    BY <1>1, <1>9 DEF FoundFor, PeopleType, ArrayInv
  <2>6. \A r \in Record \ {p} : sReading'[r] = sReading[r] /\ sWaiting'[r] = sWaiting[r]
    BY <1>6, <2>3
  <2> QED
    BY <1>2, <1>5, <1>6, <2>3, <2>4, <2>5, <2>6, FoundInv
<1> QED
  BY <1>2, <1>8, <1>9

LEMMA PeopleCopyRead ==
  ASSUME PeopleInv, NEW p \in Record, People!CopyRead(p)
  PROVE  PeopleInv'
<1>1. PeopleType /\ ArrayInv /\ ListInv /\ UsersInv
  BY DEF PeopleInv
<1>2. /\ sWaiting[p] # <<>> /\ sWaiting' = [sWaiting EXCEPT ![p] = <<>>]
      /\ UNCHANGED <<sScreen, sRecords, sQuery, sKnown, sAsked, sReading>>
      /\ People!Found(sWaiting[p], p)
  BY DEF People!CopyRead
<1>3. /\ sReading \in [Record -> Seq(Queries)] /\ sWaiting \in [Record -> Seq(Queries)]
      /\ sWaiting[p] \in Seq(Queries)
  BY <1>1 DEF PeopleType
<1>4. Range(sWaiting[p]) \subseteq Queries /\ Range(sWaiting[p]) # {}
  BY <1>2, <1>3, RangeIs
<1>5. p \in sKnown /\ sScreen = "friends"
  <2>1. Waits(p) # {}
    BY <1>4 DEF Waits
  <2> QED
    BY <1>1, <2>1 DEF ArrayInv, UsersInv
<1>6. /\ sWaiting' \in [Record -> Seq(Queries)] /\ Range(sWaiting'[p]) = {}
      /\ \A r \in Record \ {p} : sWaiting'[r] = sWaiting[r]
  <2>1. sWaiting'[p] = <<>> /\ <<>> \in Seq(Queries)
    BY <1>2, <1>3, NoElements
  <2> QED
    BY <1>2, <1>3, <2>1, NoElements
<1>7. Range(sReading[p]) \cap Range(sWaiting[p]) = {}
  BY <1>1 DEF ArrayInv
<1>8. \A q \in Range(sWaiting[p]) : p \notin Range(sArray[q])
  <2> SUFFICES ASSUME NEW q \in Range(sWaiting[p]) PROVE p \notin Range(sArray[q])
    OBVIOUS
  <2>1. q \in Queries /\ q \in Waits(p)
    BY <1>4 DEF Waits
  <2> QED
    BY <1>1, <2>1 DEF ArrayInv
<1>9. FoundFor(Range(sWaiting[p]), p)
  BY <1>2, <1>3, <1>8, FoundIs
<1>10. /\ Range(sWaiting[p]) \subseteq Waits(p)
       /\ Waits(p)' = Waits(p) \ Range(sWaiting[p])
  BY <1>2, <1>6, <1>7 DEF Waits
<1>11. /\ sReading' \in [Record -> Seq(Queries)]
       /\ \A r \in Record \ {p} : sReading'[r] = sReading[r] /\ sWaiting'[r] = sWaiting[r]
       /\ Range(sReading'[p]) \cap Range(sWaiting'[p]) = {}
  BY <1>2, <1>3, <1>6
<1> QED
  BY <1>2, <1>5, <1>6, <1>9, <1>10, <1>11, FoundInv

LEMMA PeopleSearchUsers ==
  ASSUME PeopleInv, NEW t \in Text, People!SearchUsers(t)
  PROVE  PeopleInv'
<1>1. PeopleType /\ ArrayInv /\ ListInv /\ UsersInv
  BY DEF PeopleInv
<1>2. PICK n : n = Len(sQuery)
  OBVIOUS
<1>3. /\ sScreen = "users" /\ People!Started(t) /\ sAsked' = Append(sAsked, Len(sQuery'))
      /\ UNCHANGED <<sScreen, sRecords, sList, sKnown, sReading, sWaiting>>
  BY DEF People!SearchUsers
<1>4. /\ Len(sQuery') = n + 1 /\ n \in Nat
      /\ Queries' = Queries \cup {n + 1} /\ n + 1 \notin Queries
      /\ sQuery' \in Seq(SearchQuery) /\ sArray' \in [Queries' -> Seq(Record)]
      /\ \A q \in Queries : sQuery'[q] = sQuery[q] /\ sArray'[q] = sArray[q]
      /\ sQuery'[n + 1].records = sRecords /\ sArray'[n + 1] = <<>>
  BY <1>1, <1>2, <1>3, QueryStarted DEF QueryAdded
<1>5. sKnown = {} /\ \A p \in Record : Waits(p) = {}
  BY <1>1, <1>3 DEF UsersInv, ArrayInv
<1>6. \A p \in Record : Waits(p)' = {}
  BY <1>3, <1>5 DEF Waits
<1>7. PeopleType'
  <2>1. \A s \in Seq(Queries) : s \in Seq(Queries')
    <3> SUFFICES ASSUME NEW s \in Seq(Queries) PROVE s \in Seq(Queries')
      OBVIOUS
    <3>1. Queries \subseteq Queries'
      BY <1>4
    <3> QED
      BY <3>1, SeqWider
  <2>2. sReading' \in [Record -> Seq(Queries')] /\ sWaiting' \in [Record -> Seq(Queries')]
    <3>1. sReading \in [Record -> Seq(Queries)] /\ sWaiting \in [Record -> Seq(Queries)]
      BY <1>1 DEF PeopleType
    <3> QED
      BY <1>3, <2>1, <3>1
  <2>3. sAsked' \in Seq(Queries')
    <3>1. sAsked \in Seq(Queries') /\ n + 1 \in Queries'
      BY <1>1, <1>4, <2>1 DEF PeopleType
    <3> QED
      BY <1>3, <1>4, <3>1, Appended
  <2> QED
    BY <1>1, <1>3, <1>4, <2>2, <2>3 DEF PeopleType
<1>8. ArrayInv'
  <2>1. ASSUME NEW q \in Queries' PROVE Range(sArray'[q]) = {} /\ Distinct(sArray'[q])
    <3>1. CASE q = n + 1
      BY <1>4, <3>1, NoElements
    <3>2. CASE q \in Queries
      <4>1. sArray[q] \in Seq(Record) /\ Distinct(sArray[q])
        BY <1>1, <3>2 DEF PeopleType, ArrayInv
      <4>2. \A p \in Record : p \notin Range(sArray[q])
        BY <1>1, <1>5, <3>2 DEF ArrayInv
      <4>3. Range(sArray[q]) \subseteq Record
        BY <4>1, RangeIs
      <4> QED
        BY <1>4, <3>2, <4>1, <4>2, <4>3
    <3> QED
      BY <1>4, <3>1, <3>2
  <2>2. sKnown' = {}
    BY <1>3, <1>5
  <2>3. \A p \in Record : Range(sReading'[p]) \cap Range(sWaiting'[p]) = {}
    BY <1>1, <1>3 DEF ArrayInv
  <2> QED
    BY <1>6, <2>1, <2>2, <2>3 DEF ArrayInv
<1>9. ListInv'
  BY <1>3 DEF ListInv
<1>10. UsersInv'
  <2>1. \A q \in Queries' : sQuery'[q].records \subseteq sRecords'
    BY <1>1, <1>3, <1>4 DEF UsersInv
  <2>2. sAsked' # <<>> /\ sAsked'[Len(sAsked')] = Len(sQuery')
    <3>1. sAsked \in Seq(Nat) /\ Len(sQuery') \in Nat
      <4>1. sAsked \in Seq(Queries) /\ Queries \subseteq Nat
        BY <1>1 DEF PeopleType, Queries
      <4>2. sAsked \in Seq(Nat)
        BY <4>1, SeqWider
      <4> QED
        BY <1>4, <4>2
    <3>2. PICK k : k = Len(sAsked)
      OBVIOUS
    <3>3. /\ sAsked' # <<>> /\ Len(sAsked') = k + 1 /\ sAsked'[k + 1] = Len(sQuery')
      BY <1>3, <3>1, <3>2, Appended, RangeAppend
    <3> QED
      BY <3>3
  <2> QED
    BY <1>3, <1>5, <2>1, <2>2 DEF UsersInv
<1> QED
  BY <1>7, <1>8, <1>9, <1>10 DEF PeopleInv

\* A finite set is the range of the sequence that is made of it.
LEMMA SequenceOf ==
  ASSUME NEW S, IsFiniteSet(S)
  PROVE  People!SetToSeq(S) \in Seq(S) /\ Range(People!SetToSeq(S)) = S
<1>1. PICK n : n = Cardinality(S)
  OBVIOUS
<1>2. n \in Nat /\ ExistsBijection(1..n, S)
  BY <1>1, FS_CardinalityType
<1>3. PICK g \in [1..n -> S] : \A i, j \in 1..n : g[i] = g[j] => i = j
  BY <1>2 DEF ExistsBijection, Bijection, Injection, IsInjective
<1>4. \E f \in [1..n -> S] : People!IsInjective(f)
  BY <1>3 DEF People!IsInjective
<1>5. People!Cardinality(S) = n
  BY <1>1 DEF People!Cardinality, Cardinality
<1>6. People!SetToSeq(S) = CHOOSE f \in [1..n -> S] : People!IsInjective(f)
  BY <1>5 DEF People!SetToSeq
<1>7. PICK h : h = People!SetToSeq(S)
  OBVIOUS
<1>8. h \in [1..n -> S] /\ People!IsInjective(h)
  BY <1>4, <1>6, <1>7
<1>9. h \in Injection(1..n, S)
  BY <1>8 DEF Injection, IsInjective, People!IsInjective
<1>10. Cardinality(1..n) = n
  BY <1>2, FS_Interval
<1>11. h \in Surjection(1..n, S)
  BY <1>1, <1>9, <1>10, FS_Injection
<1>12. h \in Seq(S)
  BY <1>2, <1>8, SeqDef
<1>13. Range(h) = S
  BY <1>8, <1>11 DEF Range, Surjection
<1> QED
  BY <1>7, <1>12, <1>13

LEMMA PeopleUsersRead == ASSUME PeopleInv, People!UsersRead PROVE PeopleInv'
<1>1. PeopleType /\ ArrayInv /\ ListInv /\ UsersInv
  BY DEF PeopleInv
<1>2. /\ sAsked # <<>> /\ sAsked' = <<>>
      /\ UNCHANGED <<sScreen, sRecords, sQuery, sArray, sKnown, sReading, sWaiting>>
  BY DEF People!UsersRead
<1>3. PICK n : n = Len(sQuery)
  OBVIOUS
<1>5. sScreen # "friends" /\ sAsked[Len(sAsked)] = n
  BY <1>1, <1>2, <1>3 DEF UsersInv
<1>6. Queries' = Queries /\ n \in Queries
  <2>1. sAsked \in Seq(Queries)
    BY <1>1 DEF PeopleType
  <2>2. Len(sAsked) \in 1..Len(sAsked)
    BY <1>2, <2>1, Elements
  <2>3. sAsked[Len(sAsked)] \in Queries
    BY <2>1, <2>2, Elements
  <2> QED
    BY <1>2, <1>5, <2>3 DEF Queries
<1>7. PICK S : S = Matching[sQuery[n].text] \cap sRecords
  OBVIOUS
<1>8. sList' = People!SetToSeq(S)
  BY <1>5, <1>7 DEF People!UsersRead, People!Told, People!Last, People!Result
<1>9. S \subseteq Record /\ IsFiniteSet(S)
  BY <1>1, <1>7, FS_Subset DEF PeopleType
<1>10. sList' \in Seq(Record) /\ Range(sList') = S
  BY <1>8, <1>9, SequenceOf, SeqWider
<1>11. PeopleType'
  BY <1>1, <1>2, <1>6, <1>10, NoElements DEF PeopleType
<1>12. ArrayInv' /\ ListInv'
  BY <1>1, <1>2, <1>5, <1>6 DEF ArrayInv, ListInv, Waits
<1>13. UsersInv'
  <2>1. \A q \in Queries : sQuery[q].records \subseteq sRecords
    BY <1>1 DEF UsersInv
  <2>2. /\ Matching[sQuery[n].text] \cap sQuery[n].records \subseteq S
        /\ S \subseteq Matching[sQuery[n].text]
    BY <1>6, <1>7, <2>1
  <2>3. sKnown = {}
    BY <1>1, <1>5 DEF UsersInv
  <2>4. Len(sQuery') = n /\ sQuery' = sQuery
    BY <1>2, <1>3
  <2> QED
    BY <1>2, <1>5, <1>6, <1>10, <2>1, <2>2, <2>3, <2>4 DEF UsersInv
<1> QED
  BY <1>11, <1>12, <1>13 DEF PeopleInv

LEMMA PeopleStep == PeopleInv /\ [People!Next]_sVars => PeopleInv'
<1> SUFFICES ASSUME PeopleInv, [People!Next]_sVars PROVE PeopleInv'
  OBVIOUS
<1>1. ASSUME NEW p \in Record, People!Join(p) PROVE PeopleInv'
  BY <1>1, PeopleJoin
<1>2. ASSUME NEW p \in Record, People!ChildAdded(p) PROVE PeopleInv'
  BY <1>2, PeopleChildAdded
<1>3. ASSUME NEW p \in Record, People!RecordRead(p) PROVE PeopleInv'
  BY <1>3, PeopleRecordRead
<1>4. ASSUME NEW p \in Record, People!CopyRead(p) PROVE PeopleInv'
  BY <1>4, PeopleCopyRead
<1>5. ASSUME NEW t \in Text, People!SearchFriends(t) PROVE PeopleInv'
  BY <1>5, PeopleSearchFriends
<1>6. ASSUME NEW t \in Text, People!SearchUsers(t) PROVE PeopleInv'
  BY <1>6, PeopleSearchUsers
<1>7. CASE People!UsersRead
  BY <1>7, PeopleUsersRead
<1>8. CASE UNCHANGED sVars
  <2>1. UNCHANGED <<sScreen, sRecords, sQuery, sArray, sList, sKnown, sReading, sWaiting, sAsked>>
    BY <1>8 DEF sVars
  <2>2. Queries' = Queries /\ \A p : Waits(p)' = Waits(p)
    BY <2>1 DEF Queries, Waits
  <2> QED
    BY <2>1, <2>2 DEF PeopleInv, PeopleType, ArrayInv, ListInv, UsersInv
<1> QED
  BY <1>1, <1>2, <1>3, <1>4, <1>5, <1>6, <1>7, <1>8 DEF People!Next

\* A sequence without repetitions has as many entries made from records of p
\* as there are such records in its range.
LEMMA TimesOf ==
  ASSUME NEW s \in Seq(Record), Distinct(s), NEW p
  PROVE  LET I == { i \in DOMAIN s : Whose[s[i]] = p }
             R == { r \in Range(s) : Whose[r] = p }
         IN  People!Cardinality(I) = People!Cardinality(R)
<1> DEFINE I == { i \in DOMAIN s : Whose[s[i]] = p }
           R == { r \in Range(s) : Whose[r] = p }
           f == [i \in I |-> s[i]]
<1>1. IsFiniteSet(I)
  <2>1. DOMAIN s = 1..Len(s) /\ Len(s) \in Nat
    BY Elements
  <2>2. IsFiniteSet(DOMAIN s)
    BY <2>1, FS_Interval
  <2> QED
    BY <2>2, FS_Subset
<1>2. f \in [I -> R]
  BY DEF Range
<1>3. f \in Injection(I, R)
  BY <1>2 DEF Injection, IsInjective, Distinct
<1>4. f \in Surjection(I, R)
  BY <1>2 DEF Surjection, Range
<1>5. ExistsBijection(I, R)
  BY <1>3, <1>4 DEF ExistsBijection, Bijection
<1> HIDE DEF I, R, f
<1>6. Cardinality(I) = Cardinality(R)
  BY <1>1, <1>5, FS_Bijection
<1>7. People!Cardinality(I) = Cardinality(I) /\ People!Cardinality(R) = Cardinality(R)
  BY DEF People!Cardinality, Cardinality
<1>8. People!Cardinality(I) = People!Cardinality(R)
  BY <1>6, <1>7
<1> QED
  BY <1>8 DEF I, R

LEMMA InvSettled == PeopleInv => People!Settled
<1> SUFFICES ASSUME PeopleInv, People!Quiet, sQuery # <<>> PROVE People!Settled
  BY DEF People!Settled
<1>1. PeopleType /\ ArrayInv /\ ListInv /\ UsersInv
  BY DEF PeopleInv
<1>2. PICK n : n = Len(sQuery)
  OBVIOUS
<1>3. People!Query = Queries /\ Queries = 1..n /\ n \in Nat /\ n # 0
  BY <1>1, <1>2, Elements DEF PeopleType, People!Query, Queries
<1>4. \A p \in Record : Waits(p) = {}
  BY NoElements DEF People!Quiet, Waits
<1>5. CASE sScreen = "friends"
  <2>1. sKnown = sRecords
    BY <1>5 DEF People!Quiet
  <2>2. ASSUME NEW q \in Queries
        PROVE  Range(sArray[q]) = Matching[sQuery[q].text] \cap sRecords /\ Distinct(sArray[q])
    <3>1. sArray[q] \in Seq(Record) /\ Distinct(sArray[q]) /\ sRecords \subseteq Record
      BY <1>1 DEF PeopleType, ArrayInv
    <3>2. Range(sArray[q]) \subseteq Record
      BY <3>1, RangeIs
    <3>3. \A p \in Record : p \in Range(sArray[q]) <=> p \in sRecords /\ p \in Matching[sQuery[q].text]
      BY <1>1, <1>4, <2>1 DEF ArrayInv
    <3> QED
      BY <3>1, <3>2, <3>3
  <2>3. CASE sList = <<>> /\ \A q \in Queries : sArray[q] = <<>>
    <3>1. \A q \in People!Query : People!Result(q) \cap sRecords = {}
      <4> SUFFICES ASSUME NEW q \in Queries PROVE Matching[sQuery[q].text] \cap sRecords = {}
        BY <1>3 DEF People!Result
      <4> QED
        BY <2>2, <2>3, NoElements
    <3> QED
      BY <1>5, <2>3, <3>1 DEF People!Settled
  <2>4. ASSUME sList # <<>>, NEW q \in Queries, sList = sArray[q] PROVE People!Settled
    <3>1. sList \in Seq(Record) /\ Distinct(sList)
      BY <1>1, <2>2, <2>4 DEF PeopleType
    <3>2. Range(sList) = People!Result(q) \cap sRecords
      BY <2>2, <2>4 DEF People!Result
    <3>3. ASSUME NEW p \in Person
          PROVE  People!Times(p) = People!Cardinality({ r \in People!Result(q) \cap sRecords : Whose[r] = p })
      BY <3>1, <3>2, TimesOf DEF People!Times
    <3> QED
      BY <1>3, <1>5, <2>4, <3>3 DEF People!Settled
  <2> QED
    BY <1>1, <1>5, <2>3, <2>4 DEF ListInv
<1>6. CASE sScreen # "friends"
  <2>1. sAsked = <<>>
    BY DEF People!Quiet
  <2>2. /\ Matching[sQuery[n].text] \cap sQuery[n].records \subseteq Range(sList)
        /\ Range(sList) \subseteq Matching[sQuery[n].text]
    BY <1>1, <1>2, <1>3, <1>6, <2>1 DEF UsersInv
  <2>3. People!ToSet(sList) = Range(sList)
    BY DEF People!ToSet, Range
  <2> QED
    BY <1>2, <1>6, <2>2, <2>3 DEF People!Settled, People!Result
<1> QED
  BY <1>5, <1>6

LEMMA PeopleAlone == PartsSpec => [](part = "search" => PeopleInv)
<1>1. PartsInit => (part = "search" => PeopleInv)
  BY PeopleStart DEF PartsInit
<1>2. (part = "search" => PeopleInv) /\ [PartsNext]_partsVars => (part = "search" => PeopleInv)'
  <2> SUFFICES ASSUME part = "search" => PeopleInv, [PartsNext]_partsVars, part' = "search"
               PROVE  PeopleInv'
    OBVIOUS
  <2>1. part = "search" /\ [People!Next]_sVars
    BY DEF PartsNext, partsVars
  <2> QED
    BY <2>1, PeopleStep
<1> QED
  BY <1>1, <1>2, PTL DEF PartsSpec

\* Whatever the order of the answers: a list of friends that has come to rest
\* is the whole result of one of the queries (getAllFrinds), everybody as often
\* as he has friends records that match, and a list of users that of the newest
\* (getUsersFromDatabase), for any number of people, records, texts and queries.
THEOREM ListIsSettled == PartsSpec => []ListSettled
<1>1. (part = "search" => PeopleInv) => ListSettled
  BY InvSettled DEF ListSettled
<1> QED
  BY <1>1, PeopleAlone, PTL

-----------------------------------------------------------------------------
(***************************************************************************)
(* The cache of tables.                                                    *)
(***************************************************************************)
TabSlot == Tabs!Slot
Handle == [table : Table \cup {0}, refs : Nat, inCache : BOOLEAN]
CacheType == [entry : [TabSlot -> Handle], table : [Table -> TabSlot \cup {0}], lru : Seq(TabSlot)]

\* The cache c, when U[s] readers use the entry s: the hash table and the
\* entries in the cache point to each other, the references are those of the
\* readers and one of the cache, and the list has what no reader uses.
CacheInv(c, U) ==
  /\ c \in CacheType /\ U \in [TabSlot -> Nat]
  /\ \A t \in Table : c.table[t] # 0 => c.entry[c.table[t]].inCache /\ c.entry[c.table[t]].table = t
  /\ \A s \in TabSlot : c.entry[s].inCache =>
       c.entry[s].table \in Table /\ c.table[c.entry[s].table] = s /\ c.entry[s].refs = U[s] + 1
  /\ \A s \in TabSlot : ~c.entry[s].inCache => c.entry[s].refs = U[s]
  /\ Distinct(c.lru)
  /\ \A s \in TabSlot : s \in Range(c.lru) <=> c.entry[s].inCache /\ U[s] = 0

Cached(c) == { s \in TabSlot : c.entry[s].inCache }

\* No entry changes its table.
TablesKept(c, d) == \A s \in TabSlot : d.entry[s].table = c.entry[s].table

LEMMA SameCount == ASSUME NEW S PROVE Tabs!Cardinality(S) = Cardinality(S)
BY DEF Tabs!Cardinality, Cardinality

LEMMA SlotIs ==
  /\ Cardinality(Reader) \in Nat /\ Tabs!Bound \in Nat /\ TabSlot = 1..(Tabs!Bound + 1) /\ 0 \notin TabSlot
  /\ Tabs!Bound >= Capacity + Cardinality(Reader) /\ Tabs!Bound >= Cardinality(Reader) + Cardinality(Reader)
<1>1. Cardinality(Reader) \in Nat /\ Capacity \in Nat
  BY TableCacheAssumption, FS_CardinalityType
<1>2. Tabs!Bound = (IF Capacity > Cardinality(Reader) THEN Capacity ELSE Cardinality(Reader)) + Cardinality(Reader)
  BY SameCount DEF Tabs!Bound, Tabs!Larger
<1>3. TabSlot = 1..(Tabs!Bound + 1)
  BY DEF TabSlot, Tabs!Slot
<1> QED
  BY <1>1, <1>2, <1>3

\* LRU_Remove.
LEMMA Unlinked ==
  ASSUME NEW S, NEW q \in Seq(S), Distinct(q), NEW e
  PROVE  /\ Tabs!RemoveFirst(q, e) \in Seq(S) /\ Distinct(Tabs!RemoveFirst(q, e))
         /\ Range(Tabs!RemoveFirst(q, e)) = Range(q) \ {e}
<1>1. PICK n : n = Len(q)
  OBVIOUS
<1>2. n \in Nat /\ DOMAIN q = 1..n /\ \A i \in 1..n : q[i] \in S
  BY <1>1, Elements
<1>3. CASE \A i \in 1..n : q[i] # e
  <2>1. Tabs!RemoveFirst(q, e) = q
    BY <1>1, <1>3 DEF Tabs!RemoveFirst
  <2>2. e \notin Range(q)
    BY <1>2, <1>3 DEF Range
  <2> QED
    BY <2>1, <2>2
<1>4. ASSUME NEW k \in 1..n, q[k] = e
      PROVE  /\ Tabs!RemoveFirst(q, e) \in Seq(S) /\ Distinct(Tabs!RemoveFirst(q, e))
             /\ Range(Tabs!RemoveFirst(q, e)) = Range(q) \ {e}
  <2>1. { i \in 1..n : q[i] = e } = {k}
    BY <1>2, <1>4 DEF Distinct
  <2>2. Tabs!RemoveFirst(q, e) = SubSeq(q, 1, k - 1) \o SubSeq(q, k + 1, n)
    <3>1. Tabs!SelectInSeq(q, LAMBDA v : v = e) = k
      BY <1>1, <2>1 DEF Tabs!SelectInSeq, Tabs!Min
    <3> QED
      BY <1>1, <1>4, <3>1 DEF Tabs!RemoveFirst, Tabs!RemoveAt
  <2>3. PICK a : a = SubSeq(q, 1, k - 1)
    OBVIOUS
  <2>4. PICK b : b = SubSeq(q, k + 1, n)
    OBVIOUS
  <2>5. a \in Seq(S) /\ Len(a) = k - 1 /\ \A i \in 1..(k - 1) : a[i] = q[i]
    <3>1. 1 \in Int /\ k - 1 \in Int /\ \A i \in 1..(k - 1) : q[i] \in S
      BY <1>2
    <3>2. /\ SubSeq(q, 1, k - 1) \in Seq(S)
          /\ Len(SubSeq(q, 1, k - 1)) = IF 1 <= k - 1 THEN k - 1 - 1 + 1 ELSE 0
          /\ \A i \in 1..(k - 1 - 1 + 1) : SubSeq(q, 1, k - 1)[i] = q[1 + i - 1]
      BY <3>1, SubSeqProperties
    <3> QED
      BY <1>2, <2>3, <3>2
  <2>6. b \in Seq(S) /\ Len(b) = n - k /\ \A i \in 1..(n - k) : b[i] = q[k + i]
    <3>1. k + 1 \in Int /\ n \in Int /\ \A i \in (k + 1)..n : q[i] \in S
      BY <1>2
    <3>2. /\ SubSeq(q, k + 1, n) \in Seq(S)
          /\ Len(SubSeq(q, k + 1, n)) = IF k + 1 <= n THEN n - (k + 1) + 1 ELSE 0
          /\ \A i \in 1..(n - (k + 1) + 1) : SubSeq(q, k + 1, n)[i] = q[k + 1 + i - 1]
      BY <3>1, SubSeqProperties
    <3> QED
      BY <1>2, <2>4, <3>2
  <2>7. Range(a) = { q[i] : i \in 1..(k - 1) }
    <3>1. DOMAIN a = 1..(k - 1)
      BY <2>5, Elements
    <3> QED
      BY <2>5, <3>1 DEF Range
  <2>8. Range(b) = { q[i] : i \in (k + 1)..n }
    <3>1. DOMAIN b = 1..(n - k)
      BY <2>6, Elements
    <3>2. \A i \in (k + 1)..n : i - k \in 1..(n - k) /\ b[i - k] = q[i]
      BY <1>2, <2>6
    <3>3. \A i \in 1..(n - k) : k + i \in (k + 1)..n /\ b[i] = q[k + i]
      BY <1>2, <2>6
    <3> QED
      BY <3>1, <3>2, <3>3 DEF Range
  <2>9. Range(a) \cup Range(b) = Range(q) \ {e}
    <3>1. \A i \in 1..n : i = k \/ i \in 1..(k - 1) \/ i \in (k + 1)..n
      BY <1>2
    <3>2. \A i \in 1..n : q[i] = e => i = k
      BY <1>2, <1>4 DEF Distinct
    <3>3. \A i \in (1..(k - 1)) \cup ((k + 1)..n) : i \in 1..n /\ i # k
      BY <1>2
    <3> QED
      BY <1>2, <1>4, <2>7, <2>8, <3>1, <3>2, <3>3 DEF Range
  <2>10. a \o b \in Seq(S) /\ Range(a \o b) = Range(a) \cup Range(b)
    BY <2>5, <2>6, RangeConcat
  <2>11. Distinct(a \o b)
    <3>1. /\ Len(a \o b) = Len(a) + Len(b)
          /\ \A i \in 1..(Len(a) + Len(b)) : (a \o b)[i] = IF i <= Len(a) THEN a[i] ELSE b[i - Len(a)]
      BY <2>5, <2>6, ConcatProperties
    <3>2. PICK w : w = a \o b
      OBVIOUS
    <3>3. /\ DOMAIN w = 1..(n - 1)
          /\ \A i \in 1..(n - 1) : w[i] = IF i <= k - 1 THEN a[i] ELSE b[i - (k - 1)]
      BY <1>2, <2>5, <2>6, <2>10, <3>1, <3>2, Elements
    <3>4. \A i \in 1..(n - 1) : w[i] = q[IF i <= k - 1 THEN i ELSE i + 1]
      <4> SUFFICES ASSUME NEW i \in 1..(n - 1) PROVE w[i] = q[IF i <= k - 1 THEN i ELSE i + 1]
        OBVIOUS
      <4>1. CASE i <= k - 1
        BY <1>2, <2>5, <3>3, <4>1
      <4>2. CASE ~(i <= k - 1)
        <5>1. i - (k - 1) \in 1..(n - k) /\ k + (i - (k - 1)) = i + 1
          BY <1>2, <4>2
        <5>2. b[i - (k - 1)] = q[k + (i - (k - 1))]
          BY <2>6, <5>1
        <5> QED
          BY <3>3, <4>2, <5>1, <5>2
      <4> QED
        BY <4>1, <4>2
    <3>5. ASSUME NEW i \in 1..(n - 1), NEW j \in 1..(n - 1), w[i] = w[j] PROVE i = j
      <4>1. PICK x, y : x = (IF i <= k - 1 THEN i ELSE i + 1) /\ y = (IF j <= k - 1 THEN j ELSE j + 1)
        OBVIOUS
      <4>2. x \in 1..n /\ y \in 1..n /\ (x = y => i = j)
        BY <1>2, <4>1
      <4>3. q[x] = q[y]
        BY <3>4, <3>5, <4>1
      <4> QED
        BY <1>2, <4>2, <4>3 DEF Distinct
    <3> QED
      BY <3>2, <3>3, <3>5 DEF Distinct
  <2> QED
    BY <2>2, <2>3, <2>4, <2>9, <2>10, <2>11
<1> QED
  BY <1>3, <1>4

\* What the invariant says of one entry.
LEMMA EntryIs ==
  ASSUME NEW c, NEW U, CacheInv(c, U), NEW s \in TabSlot
  PROVE  /\ c.entry[s] \in Handle /\ c.entry[s].refs \in Nat /\ U[s] \in Nat
         /\ c.entry[s].inCache \in BOOLEAN /\ c.entry[s].table \in Table \cup {0}
BY DEF CacheInv, CacheType, Handle

\* F is E but for the references of entry s.
Recount(F, E, s, n) == F = [E EXCEPT ![s].refs = n]

\* What changing the references of an entry leaves.
LEMMA RefsChanged ==
  ASSUME NEW E \in [TabSlot -> Handle], NEW s \in TabSlot, NEW n \in Nat,
         NEW F, Recount(F, E, s, n)
  PROVE  /\ F \in [TabSlot -> Handle] /\ F[s].refs = n /\ \A x \in TabSlot \ {s} : F[x] = E[x]
         /\ F[s].table = E[s].table /\ (F[s].inCache <=> E[s].inCache)
<1>1. E[s] \in Handle
  OBVIOUS
<1>2. F[s] = [E[s] EXCEPT !.refs = n]
  BY DEF Recount
<1>3. F[s] \in Handle /\ F[s].refs = n /\ F[s].table = E[s].table /\ (F[s].inCache <=> E[s].inCache)
  BY <1>1, <1>2 DEF Handle
<1>4. F = [x \in TabSlot |-> IF x = s THEN F[s] ELSE E[x]]
  BY DEF Recount
<1> QED
  BY <1>3, <1>4

LEMMA RefKeeps ==
  ASSUME NEW c, NEW U, CacheInv(c, U), NEW s \in TabSlot, c.entry[s].inCache,
         NEW V \in [TabSlot -> Nat], V[s] = U[s] + 1, \A x \in TabSlot \ {s} : V[x] = U[x],
         NEW d, d = Tabs!Ref(c, s)
  PROVE  CacheInv(d, V) /\ TablesKept(c, d) /\ Cached(d) = Cached(c) /\ d.table = c.table
<1>1. /\ c \in CacheType /\ c.entry \in [TabSlot -> Handle] /\ c.lru \in Seq(TabSlot) /\ Distinct(c.lru)
      /\ c.table \in [Table -> TabSlot \cup {0}]
  BY DEF CacheInv, CacheType
<1>2. /\ d.entry = [c.entry EXCEPT ![s].refs = @ + 1] /\ d.table = c.table
      /\ d.lru = Tabs!RemoveFirst(c.lru, s)
      /\ d = [entry |-> d.entry, table |-> d.table, lru |-> d.lru]
  BY <1>1 DEF Tabs!Ref, CacheType
<1>3. \A x \in TabSlot :
        /\ d.entry[x] \in Handle /\ d.entry[x].table = c.entry[x].table
        /\ d.entry[x].inCache <=> c.entry[x].inCache
        /\ d.entry[x].refs = IF x = s THEN c.entry[x].refs + 1 ELSE c.entry[x].refs
  <2>1. PICK k : k = c.entry[s].refs + 1
    OBVIOUS
  <2>2. k \in Nat
    BY <2>1, EntryIs
  <2>3. d.entry = [c.entry EXCEPT ![s].refs = k]
    BY <1>2, <2>1
  <2>4. /\ d.entry \in [TabSlot -> Handle] /\ d.entry[s].refs = k
        /\ \A x \in TabSlot \ {s} : d.entry[x] = c.entry[x]
        /\ d.entry[s].table = c.entry[s].table /\ (d.entry[s].inCache <=> c.entry[s].inCache)
    <3>1. PICK E : E = c.entry
      OBVIOUS
    <3>2. PICK F : F = d.entry
      OBVIOUS
    <3>3. E \in [TabSlot -> Handle] /\ Recount(F, E, s, k)
      BY <1>1, <2>3, <3>1, <3>2 DEF Recount
    <3>4. /\ F \in [TabSlot -> Handle] /\ F[s].refs = k /\ \A x \in TabSlot \ {s} : F[x] = E[x]
          /\ F[s].table = E[s].table /\ (F[s].inCache <=> E[s].inCache)
      BY <2>2, <3>3, RefsChanged
    <3> QED
      BY <3>1, <3>2, <3>4
  <2> QED
    BY <2>1, <2>4
<1>4. d.lru \in Seq(TabSlot) /\ Distinct(d.lru) /\ Range(d.lru) = Range(c.lru) \ {s}
  BY <1>1, <1>2, Unlinked
<1>5. d \in CacheType
  <2>1. d.entry \in [TabSlot -> Handle]
    BY <1>1, <1>2, <1>3
  <2> QED
    BY <1>1, <1>2, <1>4, <2>1 DEF CacheType
<1>6. \A t \in Table : d.table[t] # 0 => d.entry[d.table[t]].inCache /\ d.entry[d.table[t]].table = t
  BY <1>1, <1>2, <1>3 DEF CacheInv
<1>7. ASSUME NEW x \in TabSlot
      PROVE  /\ d.entry[x].inCache => d.entry[x].table \in Table /\ d.table[d.entry[x].table] = x
             /\ d.entry[x].inCache => d.entry[x].refs = V[x] + 1
             /\ ~d.entry[x].inCache => d.entry[x].refs = V[x]
             /\ x \in Range(d.lru) <=> d.entry[x].inCache /\ V[x] = 0
  <2>1. U[x] \in Nat /\ U[s] \in Nat /\ V[s] # 0
    BY EntryIs
  <2>2. /\ c.entry[x].inCache => c.entry[x].table \in Table /\ c.table[c.entry[x].table] = x
        /\ c.entry[x].inCache => c.entry[x].refs = U[x] + 1
        /\ ~c.entry[x].inCache => c.entry[x].refs = U[x]
        /\ x \in Range(c.lru) <=> c.entry[x].inCache /\ U[x] = 0
    BY DEF CacheInv
  <2>3. CASE x = s
    BY <1>2, <1>3, <1>4, <2>1, <2>2, <2>3
  <2>4. CASE x # s
    BY <1>2, <1>3, <1>4, <2>2, <2>4
  <2> QED
    BY <2>3, <2>4
<1>8. TablesKept(c, d) /\ Cached(d) = Cached(c)
  BY <1>3 DEF TablesKept, Cached
<1> QED
  BY <1>2, <1>4, <1>5, <1>6, <1>7, <1>8 DEF CacheInv

LEMMA UnrefKeeps ==
  ASSUME NEW c, NEW U, CacheInv(c, U), NEW s \in TabSlot,
         NEW V \in [TabSlot -> Nat], U[s] = V[s] + 1, \A x \in TabSlot \ {s} : V[x] = U[x],
         NEW d, d = Tabs!Unref(c, s)
  PROVE  CacheInv(d, V) /\ TablesKept(c, d) /\ Cached(d) = Cached(c) /\ d.table = c.table
<1>1. /\ c \in CacheType /\ c.entry \in [TabSlot -> Handle] /\ c.lru \in Seq(TabSlot) /\ Distinct(c.lru)
      /\ c.table \in [Table -> TabSlot \cup {0}]
  BY DEF CacheInv, CacheType
<1>2. /\ d.entry = [c.entry EXCEPT ![s].refs = @ - 1] /\ d.table = c.table
      /\ d.lru = IF c.entry[s].inCache /\ c.entry[s].refs = 2 THEN Append(c.lru, s) ELSE c.lru
      /\ d = [entry |-> d.entry, table |-> d.table, lru |-> d.lru]
  BY <1>1 DEF Tabs!Unref, CacheType
<1>3. /\ U[s] \in Nat /\ V[s] \in Nat /\ c.entry[s].refs \in Nat /\ s \notin Range(c.lru)
      /\ c.entry[s].inCache => c.entry[s].refs = V[s] + 2
      /\ ~c.entry[s].inCache => c.entry[s].refs = V[s] + 1
  <2>1. /\ c.entry[s].inCache => c.entry[s].refs = U[s] + 1
        /\ ~c.entry[s].inCache => c.entry[s].refs = U[s]
        /\ s \in Range(c.lru) => U[s] = 0
    BY DEF CacheInv
  <2>2. U[s] \in Nat /\ V[s] \in Nat /\ c.entry[s].refs \in Nat
    BY EntryIs
  <2> QED
    BY <2>1, <2>2
<1>4. \A x \in TabSlot :
        /\ d.entry[x] \in Handle /\ d.entry[x].table = c.entry[x].table
        /\ d.entry[x].inCache <=> c.entry[x].inCache
        /\ d.entry[x].refs = IF x = s THEN c.entry[x].refs - 1 ELSE c.entry[x].refs
  <2>1. PICK k : k = c.entry[s].refs - 1
    OBVIOUS
  <2>2. k \in Nat
    BY <1>3, <2>1, EntryIs
  <2>3. d.entry = [c.entry EXCEPT ![s].refs = k]
    BY <1>2, <2>1
  <2>4. /\ d.entry \in [TabSlot -> Handle] /\ d.entry[s].refs = k
        /\ \A x \in TabSlot \ {s} : d.entry[x] = c.entry[x]
        /\ d.entry[s].table = c.entry[s].table /\ (d.entry[s].inCache <=> c.entry[s].inCache)
    <3>1. PICK E : E = c.entry
      OBVIOUS
    <3>2. PICK F : F = d.entry
      OBVIOUS
    <3>3. E \in [TabSlot -> Handle] /\ Recount(F, E, s, k)
      BY <1>1, <2>3, <3>1, <3>2 DEF Recount
    <3>4. /\ F \in [TabSlot -> Handle] /\ F[s].refs = k /\ \A x \in TabSlot \ {s} : F[x] = E[x]
          /\ F[s].table = E[s].table /\ (F[s].inCache <=> E[s].inCache)
      BY <2>2, <3>3, RefsChanged
    <3> QED
      BY <3>1, <3>2, <3>4
  <2> QED
    BY <2>1, <2>4
<1>5. /\ d.lru \in Seq(TabSlot) /\ Distinct(d.lru)
      /\ Range(d.lru) = Range(c.lru) \cup (IF c.entry[s].inCache /\ V[s] = 0 THEN {s} ELSE {})
  <2>1. CASE c.entry[s].inCache /\ V[s] = 0
    <3>1. d.lru = Append(c.lru, s)
      BY <1>2, <1>3, <2>1
    <3>2. Append(c.lru, s) \in Seq(TabSlot)
      BY <1>1, Appended
    <3>3. Range(Append(c.lru, s)) = Range(c.lru) \cup {s} /\ Distinct(Append(c.lru, s))
      BY <1>1, <1>3, RangeAppend
    <3> QED
      BY <2>1, <3>1, <3>2, <3>3
  <2>2. CASE ~(c.entry[s].inCache /\ V[s] = 0)
    <3>1. d.lru = c.lru
      BY <1>2, <1>3, <2>2
    <3> QED
      BY <1>1, <2>2, <3>1
  <2> QED
    BY <2>1, <2>2
<1>6. d \in CacheType
  <2>1. d.entry \in [TabSlot -> Handle]
    BY <1>1, <1>2, <1>4
  <2> QED
    BY <1>1, <1>2, <1>5, <2>1 DEF CacheType
<1>7. \A t \in Table : d.table[t] # 0 => d.entry[d.table[t]].inCache /\ d.entry[d.table[t]].table = t
  BY <1>1, <1>2, <1>4 DEF CacheInv
<1>8. ASSUME NEW x \in TabSlot
      PROVE  /\ d.entry[x].inCache => d.entry[x].table \in Table /\ d.table[d.entry[x].table] = x
             /\ d.entry[x].inCache => d.entry[x].refs = V[x] + 1
             /\ ~d.entry[x].inCache => d.entry[x].refs = V[x]
             /\ x \in Range(d.lru) <=> d.entry[x].inCache /\ V[x] = 0
  <2>1. /\ c.entry[x].inCache => c.entry[x].table \in Table /\ c.table[c.entry[x].table] = x
        /\ c.entry[x].inCache => c.entry[x].refs = U[x] + 1
        /\ ~c.entry[x].inCache => c.entry[x].refs = U[x]
        /\ x \in Range(c.lru) <=> c.entry[x].inCache /\ U[x] = 0
    BY DEF CacheInv
  <2>2. CASE x = s
    <3>1. d.entry[s].refs = c.entry[s].refs - 1 /\ (d.entry[s].inCache <=> c.entry[s].inCache)
      BY <1>4
    <3>2. /\ d.entry[s].inCache => d.entry[s].refs = V[s] + 1
          /\ ~d.entry[s].inCache => d.entry[s].refs = V[s]
      BY <1>3, <3>1
    <3>3. s \in Range(d.lru) <=> d.entry[s].inCache /\ V[s] = 0
      BY <1>3, <1>5, <3>1
    <3> QED
      BY <1>2, <1>4, <2>1, <2>2, <3>2, <3>3
  <2>3. CASE x # s
    BY <1>2, <1>4, <1>5, <2>1, <2>3
  <2> QED
    BY <2>2, <2>3
<1>9. TablesKept(c, d) /\ Cached(d) = Cached(c)
  BY <1>4 DEF TablesKept, Cached
<1> QED
  BY <1>2, <1>5, <1>6, <1>7, <1>8, <1>9 DEF CacheInv

\* An entry leaves the hash table and the cache; its reference is left, as if
\* one more reader used it.
LEMMA DetachKeeps ==
  ASSUME NEW c, NEW U, CacheInv(c, U), NEW t \in Table, NEW s \in TabSlot, s = c.table[t],
         NEW V \in [TabSlot -> Nat], V[s] = U[s] + 1, \A x \in TabSlot \ {s} : V[x] = U[x],
         NEW d, d.entry = [c.entry EXCEPT ![s].inCache = FALSE], d.table = [c.table EXCEPT ![t] = 0],
         d.lru = Tabs!RemoveFirst(c.lru, s), d = [entry |-> d.entry, table |-> d.table, lru |-> d.lru]
  PROVE  CacheInv(d, V) /\ TablesKept(c, d) /\ Cached(d) = Cached(c) \ {s}
<1>1. /\ c.entry \in [TabSlot -> Handle] /\ c.lru \in Seq(TabSlot) /\ Distinct(c.lru)
      /\ c.table \in [Table -> TabSlot \cup {0}] /\ s # 0
  BY SlotIs DEF CacheInv, CacheType
<1>2. /\ c.entry[s].inCache /\ c.entry[s].table = t /\ c.entry[s].refs = U[s] + 1
  BY <1>1 DEF CacheInv
<1>3. /\ d.entry[s] \in Handle /\ d.entry[s].table = c.entry[s].table
      /\ d.entry[s].refs = c.entry[s].refs /\ ~d.entry[s].inCache
      /\ \A x \in TabSlot \ {s} : d.entry[x] = c.entry[x]
  <2>1. PICK E, F : E = c.entry /\ F = d.entry
    OBVIOUS
  <2>2. E \in [TabSlot -> Handle] /\ F = [E EXCEPT ![s].inCache = FALSE]
    BY <1>1, <2>1
  <2>3. F[s] = [E[s] EXCEPT !.inCache = FALSE] /\ E[s] \in Handle /\ \A x \in TabSlot \ {s} : F[x] = E[x]
    BY <2>2
  <2>4. F[s] \in Handle /\ F[s].table = E[s].table /\ F[s].refs = E[s].refs /\ ~F[s].inCache
    BY <2>3 DEF Handle
  <2> QED
    BY <2>1, <2>3, <2>4
<1>4. d.lru \in Seq(TabSlot) /\ Distinct(d.lru) /\ Range(d.lru) = Range(c.lru) \ {s}
  BY <1>1, Unlinked
<1>5. d.table \in [Table -> TabSlot \cup {0}] /\ d.table[t] = 0 /\ \A u \in Table \ {t} : d.table[u] = c.table[u]
  BY <1>1
<1>6. d \in CacheType
  <2>1. d.entry \in [TabSlot -> Handle]
    BY <1>1, <1>3
  <2> QED
    BY <1>4, <1>5, <2>1 DEF CacheType
<1>7. ASSUME NEW u \in Table, d.table[u] # 0
      PROVE  d.entry[d.table[u]].inCache /\ d.entry[d.table[u]].table = u
  <2>1. u # t /\ d.table[u] = c.table[u]
    BY <1>5, <1>7
  <2>2. c.table[u] \in TabSlot /\ c.entry[c.table[u]].inCache /\ c.entry[c.table[u]].table = u
    BY <1>1, <1>7, <2>1 DEF CacheInv
  <2>3. c.table[u] # s
    BY <1>2, <2>1, <2>2
  <2> QED
    BY <1>3, <2>1, <2>2, <2>3
<1>8. ASSUME NEW x \in TabSlot
      PROVE  /\ d.entry[x].inCache => d.entry[x].table \in Table /\ d.table[d.entry[x].table] = x
             /\ d.entry[x].inCache => d.entry[x].refs = V[x] + 1
             /\ ~d.entry[x].inCache => d.entry[x].refs = V[x]
             /\ x \in Range(d.lru) <=> d.entry[x].inCache /\ V[x] = 0
  <2>1. /\ c.entry[x].inCache => c.entry[x].table \in Table /\ c.table[c.entry[x].table] = x
        /\ c.entry[x].inCache => c.entry[x].refs = U[x] + 1
        /\ ~c.entry[x].inCache => c.entry[x].refs = U[x]
        /\ x \in Range(c.lru) <=> c.entry[x].inCache /\ U[x] = 0
    BY DEF CacheInv
  <2>2. CASE x = s
    BY <1>2, <1>3, <1>4, <2>2
  <2>3. CASE x # s
    <3>1. c.entry[x].inCache => c.entry[x].table # t
      BY <2>1, <2>3
    <3> QED
      BY <1>3, <1>4, <1>5, <2>1, <2>3, <3>1
  <2> QED
    BY <2>2, <2>3
<1>9. TablesKept(c, d) /\ Cached(d) = Cached(c) \ {s}
  BY <1>3 DEF TablesKept, Cached
<1> QED
  BY <1>4, <1>6, <1>7, <1>8, <1>9 DEF CacheInv

LEMMA EraseKeeps ==
  ASSUME NEW c, NEW U, CacheInv(c, U), NEW t \in Table, NEW d, d = Tabs!Erase(c, t)
  PROVE  CacheInv(d, U) /\ TablesKept(c, d) /\ Cached(d) \subseteq Cached(c) /\ d.table[t] = 0
<1>1. PICK s : s = c.table[t]
  OBVIOUS
<1>2. /\ c = [entry |-> c.entry, table |-> c.table, lru |-> c.lru]
      /\ c.table \in [Table -> TabSlot \cup {0}] /\ s \in TabSlot \cup {0} /\ U \in [TabSlot -> Nat]
      /\ c.entry \in [TabSlot -> Handle]
  BY <1>1 DEF CacheInv, CacheType
<1>3. CASE s = 0
  <2>1. d = c
    BY <1>1, <1>3 DEF Tabs!Erase, Tabs!None
  <2> QED
    BY <1>1, <1>3, <2>1 DEF TablesKept
<1>4. CASE s # 0
  <2>1. PICK b : b = [entry |-> [c.entry EXCEPT ![s].inCache = FALSE], table |-> [c.table EXCEPT ![t] = 0],
                      lru |-> Tabs!RemoveFirst(c.lru, s)]
    OBVIOUS
  <2>2. d = Tabs!Unref(b, s)
    <3>1. d = Tabs!FinishErase([c EXCEPT !.table[t] = 0], s)
      BY <1>1, <1>4 DEF Tabs!Erase, Tabs!None
    <3>2. [c EXCEPT !.table[t] = 0] = [entry |-> c.entry, table |-> [c.table EXCEPT ![t] = 0], lru |-> c.lru]
      BY <1>2
    <3>3. PICK a : a = [c EXCEPT !.table[t] = 0]
      OBVIOUS
    <3>4. PICK l : l = Tabs!RemoveFirst(c.lru, s)
      OBVIOUS
    <3>5. a.lru = c.lru /\ a.entry = c.entry
      BY <3>2, <3>3
    <3>6. Tabs!RemoveFirst(a.lru, s) = l
      BY <3>4, <3>5
    <3>7. Tabs!FinishErase(a, s) = Tabs!Unref([a EXCEPT !.entry[s].inCache = FALSE, !.lru = l], s)
      BY <3>6 DEF Tabs!FinishErase
    <3>8. [a EXCEPT !.entry[s].inCache = FALSE, !.lru = l] = b
      <4>1. a = [entry |-> c.entry, table |-> a.table, lru |-> c.lru] /\ a.table = [c.table EXCEPT ![t] = 0]
        BY <3>2, <3>3
      <4>2. b = [entry |-> [c.entry EXCEPT ![s].inCache = FALSE], table |-> a.table, lru |-> l]
        BY <2>1, <3>4, <4>1
      <4>3. PICK h, m, e : h = a.table /\ m = c.lru /\ e = c.entry
        OBVIOUS
      <4>4. a = [entry |-> e, table |-> h, lru |-> m] /\ b = [entry |-> [e EXCEPT ![s].inCache = FALSE], table |-> h, lru |-> l]
        BY <4>1, <4>2, <4>3
      <4>5. PICK f : f = [a EXCEPT !.entry[s].inCache = FALSE, !.lru = l]
        OBVIOUS
      <4>6. /\ f.entry = [e EXCEPT ![s].inCache = FALSE] /\ f.table = h /\ f.lru = l
            /\ f = [entry |-> f.entry, table |-> f.table, lru |-> f.lru]
        BY <4>4, <4>5
      <4> QED
        BY <4>4, <4>5, <4>6
    <3> QED
      BY <3>1, <3>3, <3>7, <3>8
  <2>3. PICK V : V = [U EXCEPT ![s] = U[s] + 1]
    OBVIOUS
  <2>4. s \in TabSlot /\ V \in [TabSlot -> Nat] /\ V[s] = U[s] + 1 /\ \A x \in TabSlot \ {s} : V[x] = U[x]
    BY <1>2, <1>4, <2>3
  <2>5. /\ b.entry = [c.entry EXCEPT ![s].inCache = FALSE] /\ b.table = [c.table EXCEPT ![t] = 0]
        /\ b.lru = Tabs!RemoveFirst(c.lru, s) /\ b = [entry |-> b.entry, table |-> b.table, lru |-> b.lru]
    BY <2>1
  <2>6. CacheInv(b, V) /\ TablesKept(c, b) /\ Cached(b) = Cached(c) \ {s}
    BY <1>1, <2>4, <2>5, DetachKeeps
  <2>7. CacheInv(d, U) /\ TablesKept(b, d) /\ Cached(d) = Cached(b) /\ d.table = b.table
    BY <1>2, <2>2, <2>4, <2>6, UnrefKeeps
  <2> QED
    BY <1>2, <2>5, <2>6, <2>7 DEF TablesKept
<1> QED
  BY <1>3, <1>4

\* A new entry, before anything is evicted.
Added(c, d, t, s) ==
  /\ d.entry = [c.entry EXCEPT ![s] = [table |-> t, refs |-> 2, inCache |-> TRUE]]
  /\ d.table = [c.table EXCEPT ![t] = s] /\ d.lru = c.lru
  /\ d = [entry |-> d.entry, table |-> d.table, lru |-> d.lru]

LEMMA AddedKeeps ==
  ASSUME NEW c, NEW U, CacheInv(c, U), NEW t \in Table, NEW s \in TabSlot, c.entry[s].refs = 0, c.table[t] = 0,
         NEW V \in [TabSlot -> Nat], V[s] = 1, \A x \in TabSlot \ {s} : V[x] = U[x],
         NEW d, Added(c, d, t, s)
  PROVE  /\ CacheInv(d, V) /\ d.entry[s].table = t /\ Cached(d) = Cached(c) \cup {s}
         /\ \A x \in TabSlot \ {s} : d.entry[x] = c.entry[x]
<1>1. /\ c.entry \in [TabSlot -> Handle] /\ c.lru \in Seq(TabSlot) /\ Distinct(c.lru)
      /\ c.table \in [Table -> TabSlot \cup {0}] /\ s # 0
  BY SlotIs DEF CacheInv, CacheType
<1>2. /\ d.entry = [c.entry EXCEPT ![s] = [table |-> t, refs |-> 2, inCache |-> TRUE]]
      /\ d.table = [c.table EXCEPT ![t] = s] /\ d.lru = c.lru
      /\ d = [entry |-> d.entry, table |-> d.table, lru |-> d.lru]
  BY DEF Added
<1>3. ~c.entry[s].inCache /\ U[s] = 0
  <2>1. U[s] \in Nat
    BY EntryIs
  <2> QED
    BY <2>1 DEF CacheInv
<1>4. /\ d.entry[s] \in Handle /\ d.entry[s].table = t /\ d.entry[s].refs = 2 /\ d.entry[s].inCache
      /\ \A x \in TabSlot \ {s} : d.entry[x] = c.entry[x]
  BY <1>1, <1>2 DEF Handle
<1>5. d.table \in [Table -> TabSlot \cup {0}] /\ d.table[t] = s /\ \A u \in Table \ {t} : d.table[u] = c.table[u]
  BY <1>1, <1>2
<1>6. d \in CacheType
  <2>1. d.entry \in [TabSlot -> Handle]
    BY <1>1, <1>2, <1>4
  <2> QED
    BY <1>1, <1>2, <1>5, <2>1 DEF CacheType
<1>7. ASSUME NEW u \in Table, d.table[u] # 0
      PROVE  d.entry[d.table[u]].inCache /\ d.entry[d.table[u]].table = u
  <2>1. CASE u = t
    BY <1>4, <1>5, <2>1
  <2>2. CASE u # t
    <3>1. c.table[u] \in TabSlot /\ c.entry[c.table[u]].inCache /\ c.entry[c.table[u]].table = u
      BY <1>1, <1>2, <1>5, <1>7, <2>2 DEF CacheInv
    <3>2. c.table[u] # s
      BY <1>3, <3>1
    <3> QED
      BY <1>4, <1>5, <2>2, <3>1, <3>2
  <2> QED
    BY <2>1, <2>2
<1>8. ASSUME NEW x \in TabSlot
      PROVE  /\ d.entry[x].inCache => d.entry[x].table \in Table /\ d.table[d.entry[x].table] = x
             /\ d.entry[x].inCache => d.entry[x].refs = V[x] + 1
             /\ ~d.entry[x].inCache => d.entry[x].refs = V[x]
             /\ x \in Range(d.lru) <=> d.entry[x].inCache /\ V[x] = 0
  <2>1. /\ c.entry[x].inCache => c.entry[x].table \in Table /\ c.table[c.entry[x].table] = x
        /\ c.entry[x].inCache => c.entry[x].refs = U[x] + 1
        /\ ~c.entry[x].inCache => c.entry[x].refs = U[x]
        /\ x \in Range(c.lru) <=> c.entry[x].inCache /\ U[x] = 0
    BY DEF CacheInv
  <2>2. CASE x = s
    BY <1>2, <1>3, <1>4, <1>5, <2>1, <2>2
  <2>3. CASE x # s
    <3>1. c.entry[x].inCache => c.entry[x].table # t
      BY <2>1, SlotIs
    <3> QED
      BY <1>2, <1>4, <1>5, <2>1, <2>3, <3>1
  <2> QED
    BY <2>2, <2>3
<1>9. Cached(d) = Cached(c) \cup {s}
  BY <1>4 DEF Cached
<1> QED
  BY <1>1, <1>2, <1>4, <1>6, <1>7, <1>8, <1>9 DEF CacheInv

LEMMA CachedFinite ==
  ASSUME NEW c
  PROVE  IsFiniteSet(Cached(c)) /\ Cardinality(Cached(c)) \in Nat /\ Tabs!Usage(c) = Cardinality(Cached(c))
<1>1. IsFiniteSet(TabSlot)
  <2>1. 1 \in Int /\ Tabs!Bound + 1 \in Int
    BY SlotIs
  <2> QED
    BY <2>1, SlotIs, FS_Interval
<1>2. Cached(c) \in SUBSET TabSlot
  BY DEF Cached
<1>3. IsFiniteSet(Cached(c)) /\ Cardinality(Cached(c)) \in Nat
  BY <1>1, <1>2, FS_Subset, FS_CardinalityType
<1>4. Tabs!Usage(c) = Cardinality(Cached(c))
  BY SameCount DEF Tabs!Usage, Cached, TabSlot
<1> QED
  BY <1>3, <1>4

\* The first m elements of a sequence without repetitions are m.
LEMMA FirstCount ==
  ASSUME NEW S, NEW q \in Seq(S), Distinct(q), NEW m \in 0..Len(q)
  PROVE  IsFiniteSet({ q[i] : i \in 1..m }) /\ Cardinality({ q[i] : i \in 1..m }) = m
<1>1. PICK T : T = { q[i] : i \in 1..m }
  OBVIOUS
<1>2. DOMAIN q = 1..Len(q) /\ Len(q) \in Nat /\ m \in Nat
  BY Elements
<1>3. PICK f : f = [i \in 1..m |-> q[i]]
  OBVIOUS
<1>4. f \in Surjection(1..m, T)
  BY <1>1, <1>3 DEF Surjection
<1>5. f \in Injection(1..m, T)
  <2>1. f \in [1..m -> T]
    BY <1>1, <1>3
  <2>2. \A i, j \in 1..m : f[i] = f[j] => i = j
    <3>1. \A i \in 1..m : i \in DOMAIN q
      BY <1>2
    <3> QED
      BY <1>3, <3>1 DEF Distinct
  <2>3. DOMAIN f = 1..m
    BY <1>3
  <2> QED
    BY <2>1, <2>2, <2>3 DEF Injection, IsInjective
<1>6. IsFiniteSet(1..m) /\ Cardinality(1..m) = m
  <2>1. 1 \in Int /\ m \in Int
    BY <1>2
  <2>2. IsFiniteSet(1..m) /\ Cardinality(1..m) = IF 1 > m THEN 0 ELSE m - 1 + 1
    BY <2>1, FS_Interval
  <2> QED
    BY <1>2, <2>2
<1> QED
  BY <1>1, <1>4, <1>5, <1>6, FS_Surjection

\* What is left of a set without a part.
LEMMA Difference ==
  ASSUME NEW S, IsFiniteSet(S), NEW T, T \subseteq S
  PROVE  /\ IsFiniteSet(S \ T) /\ IsFiniteSet(T) /\ Cardinality(T) \in Nat /\ Cardinality(S \ T) \in Nat
         /\ Cardinality(S) = Cardinality(S \ T) + Cardinality(T)
<1>1. IsFiniteSet(S \ T) /\ IsFiniteSet(T)
  <2>1. S \ T \in SUBSET S /\ T \in SUBSET S
    OBVIOUS
  <2> QED
    BY <2>1, FS_Subset
<1>2. Cardinality(T) \in Nat /\ Cardinality(S \ T) \in Nat
  BY <1>1, FS_CardinalityType
<1>3. (S \ T) \cup T = S /\ (S \ T) \cap T = {}
  OBVIOUS
<1>4. Cardinality((S \ T) \cup T) = Cardinality(S \ T) + Cardinality(T) - Cardinality((S \ T) \cap T)
  BY <1>1, FS_Union
<1>5. Cardinality(S) = Cardinality(S \ T) + Cardinality(T) - Cardinality({})
  BY <1>3, <1>4, Zenon
<1>6. Cardinality({}) = 0
  BY FS_EmptySet
<1>7. Cardinality(S) = Cardinality(S \ T) + Cardinality(T)
  BY <1>2, <1>5, <1>6
<1> QED
  BY <1>1, <1>2, <1>7

LEMMA ShrunkKeeps ==
  ASSUME NEW c, NEW U, CacheInv(c, U), NEW d, d = Tabs!Shrunk(c)
  PROVE  /\ CacheInv(d, U) /\ TablesKept(c, d)
         /\ Cardinality(Cached(d)) <= Capacity \/ \A s \in Cached(d) : U[s] # 0
<1>1. /\ c.entry \in [TabSlot -> Handle] /\ c.lru \in Seq(TabSlot) /\ Distinct(c.lru)
      /\ c.table \in [Table -> TabSlot \cup {0}] /\ U \in [TabSlot -> Nat]
      /\ c = [entry |-> c.entry, table |-> c.table, lru |-> c.lru]
  BY DEF CacheInv, CacheType
<1>2. PICK n : n = Len(c.lru)
  OBVIOUS
<1>3. n \in Nat /\ DOMAIN c.lru = 1..n /\ \A i \in 1..n : c.lru[i] \in TabSlot /\ c.lru[i] \in Range(c.lru)
  BY <1>1, <1>2, Elements DEF Range
<1>4. PICK over : over = IF Tabs!Usage(c) > Capacity THEN Tabs!Usage(c) - Capacity ELSE 0
  OBVIOUS
<1>5. PICK m : m = IF over < n THEN over ELSE n
  OBVIOUS
<1>6. over \in Nat /\ m \in 0..n /\ Capacity \in Nat /\ Tabs!Usage(c) <= over + Capacity /\ (m = over \/ m = n)
  BY <1>3, <1>4, <1>5, CachedFinite, TableCacheAssumption
<1>7. PICK gone : gone = { c.lru[i] : i \in 1..m }
  OBVIOUS
<1>8. /\ gone \subseteq Cached(c) /\ \A s \in gone : U[s] = 0 /\ c.table[c.entry[s].table] = s /\ c.entry[s].refs = 1
  <2>1. ASSUME NEW s \in gone
        PROVE  s \in TabSlot /\ c.entry[s].inCache /\ U[s] = 0 /\ c.table[c.entry[s].table] = s /\ c.entry[s].refs = 1
    <3>1. s \in TabSlot /\ s \in Range(c.lru)
      BY <1>3, <1>6, <1>7
    <3>2. c.entry[s].inCache /\ U[s] = 0
      BY <3>1 DEF CacheInv
    <3> QED
      BY <3>1, <3>2 DEF CacheInv
  <2> QED
    BY <2>1 DEF Cached
<1>9. gone = { c.table[c.entry[c.lru[i]].table] : i \in 1..m }
  <2>1. \A i \in 1..m : c.table[c.entry[c.lru[i]].table] = c.lru[i]
    BY <1>7, <1>8
  <2> QED
    BY <1>7, <2>1
<1>10. /\ d.entry = [s \in TabSlot |-> IF s \in gone THEN [table |-> c.entry[s].table, refs |-> c.entry[s].refs - 1, inCache |-> FALSE]
                                       ELSE c.entry[s]]
       /\ d.table = [t \in Table |-> IF c.table[t] \in gone THEN 0 ELSE c.table[t]]
       /\ d.lru = SubSeq(c.lru, m + 1, n)
       /\ d = [entry |-> d.entry, table |-> d.table, lru |-> d.lru]
  BY <1>1, <1>2, <1>4, <1>5, <1>9 DEF Tabs!Shrunk, Tabs!None, TabSlot
<1>11. \A x \in gone : /\ d.entry[x] \in Handle /\ d.entry[x].table = c.entry[x].table
                       /\ d.entry[x].refs = 0 /\ ~d.entry[x].inCache
  <2> SUFFICES ASSUME NEW x \in gone
               PROVE  /\ d.entry[x] \in Handle /\ d.entry[x].table = c.entry[x].table
                      /\ d.entry[x].refs = 0 /\ ~d.entry[x].inCache
    OBVIOUS
  <2>1. x \in TabSlot /\ c.entry[x].refs = 1
    BY <1>8 DEF Cached
  <2>2. d.entry[x] = [table |-> c.entry[x].table, refs |-> 0, inCache |-> FALSE]
    <3>1. d.entry[x] = [table |-> c.entry[x].table, refs |-> c.entry[x].refs - 1, inCache |-> FALSE]
      BY <1>10, <2>1
    <3> QED
      BY <2>1, <3>1
  <2>3. c.entry[x].table \in Table \cup {0}
    BY <2>1, EntryIs
  <2> QED
    BY <2>2, <2>3 DEF Handle
<1>12. \A x \in TabSlot \ gone : d.entry[x] = c.entry[x]
  BY <1>10
<1>13. d.lru \in Seq(TabSlot) /\ Distinct(d.lru) /\ Range(d.lru) = Range(c.lru) \ gone
  <2>1. PICK q : q = SubSeq(c.lru, m + 1, n)
    OBVIOUS
  <2>2. q \in Seq(TabSlot) /\ Len(q) = n - m /\ \A i \in 1..(n - m) : q[i] = c.lru[m + i]
    <3>1. m + 1 \in Int /\ n \in Int /\ \A i \in (m + 1)..n : c.lru[i] \in TabSlot
      BY <1>3, <1>6
    <3>2. /\ SubSeq(c.lru, m + 1, n) \in Seq(TabSlot)
          /\ Len(SubSeq(c.lru, m + 1, n)) = IF m + 1 <= n THEN n - (m + 1) + 1 ELSE 0
          /\ \A i \in 1..(n - (m + 1) + 1) : SubSeq(c.lru, m + 1, n)[i] = c.lru[m + 1 + i - 1]
      BY <3>1, SubSeqProperties
    <3> QED
      BY <1>3, <1>6, <2>1, <3>2
  <2>3. DOMAIN q = 1..(n - m)
    BY <2>2, Elements
  <2>4. Distinct(q)
    <3> SUFFICES ASSUME NEW i \in 1..(n - m), NEW j \in 1..(n - m), q[i] = q[j] PROVE i = j
      BY <2>3 DEF Distinct
    <3>1. m + i \in 1..n /\ m + j \in 1..n
      BY <1>3, <1>6
    <3>2. c.lru[m + i] = c.lru[m + j]
      BY <2>2
    <3>3. m + i = m + j
      BY <1>1, <1>3, <3>1, <3>2 DEF Distinct
    <3> QED
      BY <1>6, <3>3
  <2>5. Range(q) = { c.lru[i] : i \in (m + 1)..n }
    <3>1. \A i \in (m + 1)..n : i - m \in 1..(n - m) /\ q[i - m] = c.lru[i]
      BY <1>3, <1>6, <2>2
    <3>2. \A i \in 1..(n - m) : m + i \in (m + 1)..n /\ q[i] = c.lru[m + i]
      BY <1>3, <1>6, <2>2
    <3> QED
      BY <2>3, <3>1, <3>2 DEF Range
  <2>6. Range(c.lru) = { c.lru[i] : i \in 1..n }
    BY <1>3 DEF Range
  <2>7. \A i \in 1..m, j \in (m + 1)..n : c.lru[i] # c.lru[j]
    <3> SUFFICES ASSUME NEW i \in 1..m, NEW j \in (m + 1)..n, c.lru[i] = c.lru[j] PROVE FALSE
      OBVIOUS
    <3>1. i \in 1..n /\ j \in 1..n /\ i # j
      BY <1>3, <1>6
    <3> QED
      BY <1>1, <1>3, <3>1 DEF Distinct
  <2>8. \A i \in 1..n : i \in 1..m \/ i \in (m + 1)..n
    BY <1>6
  <2>9. \A i \in (m + 1)..n : i \in 1..n
    BY <1>6
  <2>10. Range(q) = Range(c.lru) \ gone
    BY <1>7, <2>5, <2>6, <2>7, <2>8, <2>9
  <2> QED
    BY <1>10, <2>1, <2>2, <2>4, <2>10
<1>14. d \in CacheType
  <2>1. d.entry \in [TabSlot -> Handle]
    <3>1. d.entry = [x \in TabSlot |-> d.entry[x]]
      BY <1>10
    <3>2. \A x \in TabSlot : d.entry[x] \in Handle
      BY <1>1, <1>11, <1>12
    <3> QED
      BY <3>1, <3>2
  <2>2. d.table \in [Table -> TabSlot \cup {0}]
    BY <1>1, <1>10
  <2> QED
    BY <1>10, <1>13, <2>1, <2>2 DEF CacheType
<1>15. ASSUME NEW t \in Table, d.table[t] # 0
       PROVE  d.entry[d.table[t]].inCache /\ d.entry[d.table[t]].table = t
  <2>1. d.table[t] = c.table[t] /\ c.table[t] \notin gone /\ c.table[t] # 0 /\ c.table[t] \in TabSlot
    BY <1>1, <1>10, <1>15
  <2>2. c.entry[c.table[t]].inCache /\ c.entry[c.table[t]].table = t
    BY <2>1 DEF CacheInv
  <2> QED
    BY <1>12, <2>1, <2>2
<1>16. ASSUME NEW x \in TabSlot
       PROVE  /\ d.entry[x].inCache => d.entry[x].table \in Table /\ d.table[d.entry[x].table] = x
              /\ d.entry[x].inCache => d.entry[x].refs = U[x] + 1
              /\ ~d.entry[x].inCache => d.entry[x].refs = U[x]
              /\ x \in Range(d.lru) <=> d.entry[x].inCache /\ U[x] = 0
  <2>1. /\ c.entry[x].inCache => c.entry[x].table \in Table /\ c.table[c.entry[x].table] = x
        /\ c.entry[x].inCache => c.entry[x].refs = U[x] + 1
        /\ ~c.entry[x].inCache => c.entry[x].refs = U[x]
        /\ x \in Range(c.lru) <=> c.entry[x].inCache /\ U[x] = 0
    BY DEF CacheInv
  <2>2. CASE x \in gone
    BY <1>8, <1>11, <1>13, <2>2
  <2>3. CASE x \notin gone
    <3>1. d.entry[x] = c.entry[x] /\ (x \in Range(d.lru) <=> x \in Range(c.lru))
      BY <1>12, <1>13, <2>3
    <3>2. c.entry[x].inCache => d.table[c.entry[x].table] = x
      BY <1>10, <2>1, <2>3
    <3> QED
      BY <2>1, <3>1, <3>2
  <2> QED
    BY <2>2, <2>3
<1>17. CacheInv(d, U)
  BY <1>1, <1>13, <1>14, <1>15, <1>16 DEF CacheInv
<1>18. TablesKept(c, d) /\ Cached(d) = Cached(c) \ gone
  BY <1>11, <1>12 DEF TablesKept, Cached
<1>19. CASE m = over
  <2>1. Cardinality(gone) = m
    BY <1>1, <1>2, <1>6, <1>7, FirstCount
  <2>2. /\ Cardinality(Cached(c)) = Cardinality(Cached(d)) + Cardinality(gone)
        /\ Cardinality(Cached(d)) \in Nat /\ Cardinality(gone) \in Nat
    BY <1>8, <1>18, CachedFinite, Difference
  <2>3. Cardinality(Cached(c)) <= over + Capacity
    BY <1>6, CachedFinite
  <2>4. Cardinality(Cached(d)) <= Capacity
    BY <1>6, <1>19, <2>1, <2>2, <2>3
  <2> QED
    BY <1>17, <1>18, <2>4
<1>20. CASE m = n
  <2>1. gone = Range(c.lru)
    BY <1>3, <1>7, <1>20 DEF Range
  <2>2. \A s \in Cached(d) : U[s] # 0
    BY <1>18, <2>1 DEF CacheInv, Cached
  <2> QED
    BY <1>17, <1>18, <2>2
<1> QED
  BY <1>6, <1>19, <1>20

LEMMA InsertKeeps ==
  ASSUME NEW c, NEW U, CacheInv(c, U), NEW t \in Table, NEW s \in TabSlot, c.entry[s].refs = 0,
         NEW V \in [TabSlot -> Nat], V[s] = 1, \A x \in TabSlot \ {s} : V[x] = U[x],
         NEW d, d = Tabs!Insert(c, t, s)
  PROVE  /\ CacheInv(d, V) /\ d.entry[s].table = t
         /\ \A x \in TabSlot \ {s} : d.entry[x].table = c.entry[x].table
         /\ Cardinality(Cached(d)) <= Capacity \/ \A x \in Cached(d) : V[x] # 0
<1>1. PICK a : a = Tabs!Erase(c, t)
  OBVIOUS
<1>2. CacheInv(a, U) /\ TablesKept(c, a) /\ Cached(a) \subseteq Cached(c) /\ a.table[t] = 0
  BY <1>1, EraseKeeps
<1>3. a.entry[s].refs = 0
  <2>1. U[s] \in Nat
    BY EntryIs
  <2>2. ~c.entry[s].inCache /\ U[s] = 0
    BY <2>1 DEF CacheInv
  <2>3. ~a.entry[s].inCache
    BY <1>2, <2>2 DEF Cached
  <2> QED
    BY <1>2, <2>2, <2>3 DEF CacheInv
<1>4. PICK b : b = [a EXCEPT !.entry[s] = [table |-> t, refs |-> 2, inCache |-> TRUE], !.table[t] = s]
  OBVIOUS
<1>5. CacheInv(b, V) /\ b.entry[s].table = t /\ \A x \in TabSlot \ {s} : b.entry[x] = a.entry[x]
  <2>1. a = [entry |-> a.entry, table |-> a.table, lru |-> a.lru]
    BY <1>2 DEF CacheInv, CacheType
  <2>2. Added(a, b, t, s)
    BY <1>4, <2>1 DEF Added
  <2> QED
    BY <1>2, <1>3, <2>2, AddedKeeps
<1>6. d = Tabs!Shrunk(b)
  BY <1>1, <1>4 DEF Tabs!Insert
<1>7. /\ CacheInv(d, V) /\ TablesKept(b, d)
      /\ Cardinality(Cached(d)) <= Capacity \/ \A x \in Cached(d) : V[x] # 0
  BY <1>5, <1>6, ShrunkKeeps
<1> QED
  BY <1>2, <1>5, <1>7 DEF TablesKept

\* The readers.
ReaderType == [Reader -> [step : {"idle", "opening", "using"}, table : Table \cup {0}, handle : TabSlot \cup {0}]]
HeldBy(f, s) == { r \in Reader : f[r].handle = s }
Held(f) == [s \in TabSlot |-> Cardinality(HeldBy(f, s))]

\* The cache c with the readers f: the references of the entries are those the
\* readers have, and what is cached is bounded.
TabsGood(c, f) ==
  /\ f \in ReaderType /\ CacheInv(c, Held(f))
  /\ \A r \in Reader : /\ f[r].step = "using" <=> f[r].handle # 0
                       /\ f[r].step # "idle" => f[r].table \in Table
                       /\ f[r].step = "using" => c.entry[f[r].handle].table = f[r].table
  /\ Cardinality(Cached(c)) <= Capacity \/ Cardinality(Cached(c)) <= Cardinality(Reader)

TabsInv == TabsGood(cache, reader)

LEMMA ReaderIs ==
  ASSUME NEW f \in ReaderType, NEW r \in Reader
  PROVE  /\ f[r].step \in {"idle", "opening", "using"} /\ f[r].table \in Table \cup {0}
         /\ f[r].handle \in TabSlot \cup {0}
BY DEF ReaderType

LEMMA HeldIs ==
  ASSUME NEW f, NEW s \in TabSlot
  PROVE  /\ IsFiniteSet(HeldBy(f, s)) /\ Held(f)[s] = Cardinality(HeldBy(f, s)) /\ Held(f)[s] \in Nat
         /\ Held(f)[s] = 0 <=> \A r \in Reader : f[r].handle # s
<1>1. HeldBy(f, s) \in SUBSET Reader
  BY DEF HeldBy
<1>2. IsFiniteSet(HeldBy(f, s))
  BY <1>1, TableCacheAssumption, FS_Subset
<1>3. Cardinality(HeldBy(f, s)) \in Nat /\ (Cardinality(HeldBy(f, s)) = 0 <=> HeldBy(f, s) = {})
  BY <1>2, FS_CardinalityType, FS_EmptySet
<1>4. HeldBy(f, s) = {} <=> \A r \in Reader : f[r].handle # s
  BY DEF HeldBy
<1>5. Held(f)[s] = Cardinality(HeldBy(f, s))
  BY DEF Held
<1> QED
  BY <1>2, <1>3, <1>4, <1>5

LEMMA HeldType == ASSUME NEW f PROVE Held(f) \in [TabSlot -> Nat]
<1>1. \A s \in TabSlot : Held(f)[s] \in Nat
  BY HeldIs
<1>2. Held(f) = [s \in TabSlot |-> Held(f)[s]]
  BY DEF Held
<1> QED
  BY <1>1, <1>2

LEMMA HeldSame ==
  ASSUME NEW f, NEW g, \A r \in Reader : g[r].handle = f[r].handle
  PROVE  Held(g) = Held(f)
<1>1. \A s : HeldBy(g, s) = HeldBy(f, s)
  BY DEF HeldBy
<1> QED
  BY <1>1 DEF Held

\* A reader gets a handle; or, the other way round, gives it back.
LEMMA HeldMore ==
  ASSUME NEW f, NEW g, NEW r \in Reader, \A q \in Reader \ {r} : g[q].handle = f[q].handle,
         NEW s \in TabSlot, f[r].handle = 0, g[r].handle = s
  PROVE  Held(g)[s] = Held(f)[s] + 1 /\ \A x \in TabSlot \ {s} : Held(g)[x] = Held(f)[x]
<1>1. HeldBy(g, s) = HeldBy(f, s) \cup {r} /\ r \notin HeldBy(f, s)
  BY SlotIs DEF HeldBy
<1>2. \A x \in TabSlot \ {s} : HeldBy(g, x) = HeldBy(f, x)
  BY SlotIs DEF HeldBy
<1>3. Cardinality(HeldBy(f, s) \cup {r}) = Cardinality(HeldBy(f, s)) + 1
  BY <1>1, HeldIs, FS_AddElement
<1>4. \A x \in TabSlot : Held(g)[x] = Cardinality(HeldBy(g, x)) /\ Held(f)[x] = Cardinality(HeldBy(f, x))
  BY DEF Held
<1>5. Held(g)[s] = Held(f)[s] + 1
  BY <1>1, <1>3, <1>4
<1>6. ASSUME NEW x \in TabSlot \ {s} PROVE Held(g)[x] = Held(f)[x]
  BY <1>2, <1>4
<1> QED
  BY <1>5, <1>6

\* What is all used by readers is not more than these.
LEMMA OntoCount ==
  ASSUME NEW R, IsFiniteSet(R), NEW S, NEW h, \A s \in S : \E r \in R : h[r] = s
  PROVE  IsFiniteSet(S) /\ Cardinality(S) <= Cardinality(R) /\ Cardinality(S) \in Nat /\ Cardinality(R) \in Nat
<1>1. PICK Q : Q = { r \in R : h[r] \in S }
  OBVIOUS
<1>2. PICK e : e = [r \in Q |-> h[r]]
  OBVIOUS
<1>3. e \in Surjection(Q, S)
  BY <1>1, <1>2 DEF Surjection
<1>4. Q \in SUBSET R
  BY <1>1
<1>5. IsFiniteSet(Q) /\ Cardinality(Q) <= Cardinality(R)
  BY <1>4, FS_Subset
<1>6. IsFiniteSet(S) /\ Cardinality(S) <= Cardinality(Q)
  BY <1>3, <1>5, FS_Surjection
<1>7. Cardinality(S) \in Nat /\ Cardinality(Q) \in Nat /\ Cardinality(R) \in Nat
  BY <1>5, <1>6, FS_CardinalityType
<1> QED
  BY <1>5, <1>6, <1>7

LEMMA OpenCount ==
  ASSUME NEW c, NEW f, TabsGood(c, f)
  PROVE  /\ IsFiniteSet(Tabs!Open(c))
         /\ Cardinality(Tabs!Open(c)) + Cardinality({ r \in Reader : f[r].step = "opening" }) <= Tabs!Bound
         /\ Cardinality(Tabs!Open(c)) \in Nat /\ Cardinality({ r \in Reader : f[r].step = "opening" }) \in Nat
<1>1. PICK O, C : O = Tabs!Open(c) /\ C = Cached(c)
  OBVIOUS
<1>2. PICK A, B : A = { r \in Reader : f[r].step = "using" } /\ B = { r \in Reader : f[r].step = "opening" }
  OBVIOUS
<1>3. O = { s \in TabSlot : c.entry[s].refs > 0 }
  BY <1>1 DEF Tabs!Open, TabSlot
<1>4. C \subseteq O
  <2> SUFFICES ASSUME NEW s \in TabSlot, c.entry[s].inCache PROVE c.entry[s].refs > 0
    BY <1>1, <1>3 DEF Cached
  <2>1. c.entry[s].refs = Held(f)[s] + 1
    BY DEF TabsGood, CacheInv
  <2> QED
    BY <2>1, HeldIs
<1>5. ASSUME NEW s \in O \ C PROVE \E r \in A : f[r].handle = s
  <2>1. s \in TabSlot /\ c.entry[s].refs > 0 /\ ~c.entry[s].inCache
    BY <1>1, <1>3 DEF Cached
  <2>2. c.entry[s].refs = Held(f)[s]
    BY <2>1 DEF TabsGood, CacheInv
  <2>3. PICK r \in Reader : f[r].handle = s
    BY <2>1, <2>2, HeldIs
  <2>4. f[r].step = "using"
    BY <2>1, <2>3, SlotIs DEF TabsGood
  <2> QED
    BY <1>2, <2>3, <2>4
<1>6. A \in SUBSET Reader /\ B \in SUBSET Reader /\ A \cap B = {} /\ A \cup B \in SUBSET Reader
  BY <1>2
<1>7. IsFiniteSet(A) /\ IsFiniteSet(B) /\ Cardinality(A \cup B) <= Cardinality(Reader)
  BY <1>6, TableCacheAssumption, FS_Subset
<1>8. Cardinality(A \cup B) = Cardinality(A) + Cardinality(B)
  <2>1. Cardinality(A \cup B) = Cardinality(A) + Cardinality(B) - Cardinality(A \cap B)
    BY <1>7, FS_Union
  <2>2. Cardinality(A \cap B) = 0
    BY <1>6, FS_EmptySet
  <2>3. Cardinality(A) \in Nat /\ Cardinality(B) \in Nat
    BY <1>7, FS_CardinalityType
  <2> QED
    BY <2>1, <2>2, <2>3
<1>9. PICK h : h = [r \in A |-> f[r].handle]
  OBVIOUS
<1>10. IsFiniteSet(O \ C) /\ Cardinality(O \ C) <= Cardinality(A) /\ Cardinality(O \ C) \in Nat /\ Cardinality(A) \in Nat
  <2>1. \A s \in O \ C : \E r \in A : h[r] = s
    BY <1>5, <1>9
  <2> QED
    BY <1>7, <2>1, OntoCount
<1>11. IsFiniteSet(C) /\ Cardinality(C) \in Nat
  BY <1>1, CachedFinite
<1>12. IsFiniteSet(O)
  <2>1. (O \ C) \cup C = O
    BY <1>4
  <2>2. IsFiniteSet((O \ C) \cup C)
    BY <1>10, <1>11, FS_Union
  <2> QED
    BY <2>1, <2>2
<1>13. Cardinality(O) = Cardinality(O \ C) + Cardinality(C) /\ Cardinality(O) \in Nat
  BY <1>4, <1>12, Difference, FS_CardinalityType
<1>14. Cardinality(B) \in Nat /\ Cardinality(Reader) \in Nat
  BY <1>7, SlotIs, FS_CardinalityType
<1>15. Cardinality(C) + Cardinality(Reader) <= Tabs!Bound
  <2>1. Cardinality(C) <= Capacity \/ Cardinality(C) <= Cardinality(Reader)
    BY <1>1 DEF TabsGood
  <2>2. Capacity \in Nat
    BY TableCacheAssumption
  <2> QED
    BY <1>11, <2>1, <2>2, SlotIs
<1>16. Cardinality(O) + Cardinality(B) <= Tabs!Bound
  BY <1>7, <1>8, <1>10, <1>11, <1>13, <1>14, <1>15, SlotIs
<1> QED
  BY <1>1, <1>2, <1>12, <1>13, <1>14, <1>16

LEMMA TabsStart == Tabs!Init => TabsInv
<1> SUFFICES ASSUME Tabs!Init PROVE TabsGood(cache, reader)
  BY DEF TabsInv
<1>1. PICK e : e = [table |-> 0, refs |-> 0, inCache |-> FALSE]
  OBVIOUS
<1>2. PICK i : i = [step |-> "idle", table |-> 0, handle |-> 0]
  OBVIOUS
<1>3. /\ cache = [entry |-> [s \in TabSlot |-> e], table |-> [t \in Table |-> 0], lru |-> <<>>]
      /\ reader = [r \in Reader |-> i]
  BY <1>1, <1>2 DEF Tabs!Init, Tabs!None, TabSlot
<1>4. e \in Handle /\ e.refs = 0 /\ ~e.inCache
  BY <1>1 DEF Handle
<1>5. i.step = "idle" /\ i.handle = 0 /\ reader \in ReaderType
  BY <1>2, <1>3 DEF ReaderType
<1>6. /\ cache.entry = [s \in TabSlot |-> e] /\ cache.table = [t \in Table |-> 0] /\ cache.lru = <<>>
      /\ cache \in CacheType
  <2>1. <<>> \in Seq(TabSlot)
    BY NoElements
  <2> QED
    BY <1>3, <1>4, <2>1 DEF CacheType
<1>7. \A s \in TabSlot : Held(reader)[s] = 0
  BY <1>3, <1>5, HeldIs, SlotIs
<1>8. CacheInv(cache, Held(reader))
  <2>1. Range(cache.lru) = {} /\ Distinct(cache.lru)
    BY <1>6, NoElements
  <2> QED
    BY <1>4, <1>6, <1>7, <2>1, HeldType DEF CacheInv
<1>9. Cardinality(Cached(cache)) = 0
  <2>1. Cached(cache) = {}
    BY <1>4, <1>6 DEF Cached
  <2> QED
    BY <2>1, FS_EmptySet
<1> QED
  BY <1>3, <1>5, <1>8, <1>9, SlotIs DEF TabsGood

\* A step that leaves the cached entries, or some of them, and the tables of
\* those in use.
LEMMA TabsAgain ==
  ASSUME NEW c, NEW f, TabsGood(c, f), NEW d, NEW g, g \in ReaderType, CacheInv(d, Held(g)),
         Cached(d) \subseteq Cached(c),
         \A r \in Reader : /\ g[r].step = "using" <=> g[r].handle # 0
                           /\ g[r].step # "idle" => g[r].table \in Table
                           /\ g[r].step = "using" => d.entry[g[r].handle].table = g[r].table
  PROVE  TabsGood(d, g)
<1>1. Cardinality(Cached(d)) <= Cardinality(Cached(c))
  <2>1. Cached(d) \in SUBSET Cached(c)
    OBVIOUS
  <2> QED
    BY <2>1, CachedFinite, FS_Subset
<1>2. Cardinality(Cached(c)) <= Capacity \/ Cardinality(Cached(c)) <= Cardinality(Reader)
  BY DEF TabsGood
<1>3. Cardinality(Cached(d)) \in Nat /\ Cardinality(Cached(c)) \in Nat /\ Capacity \in Nat /\ Cardinality(Reader) \in Nat
  BY CachedFinite, SlotIs, TableCacheAssumption
<1>4. Cardinality(Cached(d)) <= Capacity \/ Cardinality(Cached(d)) <= Cardinality(Reader)
  BY <1>1, <1>2, <1>3
<1> QED
  BY <1>4 DEF TabsGood

LEMMA TabsFindTable ==
  ASSUME TabsInv, NEW r \in Reader, NEW t \in Table, Tabs!FindTable(r, t)
  PROVE  TabsInv'
<1>1. PICK c, d : c = cache /\ d = cache'
  OBVIOUS
<1>2. PICK f, g : f = reader /\ g = reader'
  OBVIOUS
<1>3. TabsGood(c, f) /\ f \in ReaderType /\ CacheInv(c, Held(f))
  BY <1>1, <1>2 DEF TabsInv, TabsGood
<1>4. PICK s : s = c.table[t]
  OBVIOUS
<1>5. s \in TabSlot \cup {0} /\ f[r].step = "idle" /\ f[r].handle = 0
  BY <1>1, <1>2, <1>3, <1>4 DEF TabsGood, CacheInv, CacheType, Tabs!FindTable
<1>6. CASE s # 0
  <2>1. d = Tabs!Ref(c, s) /\ g = [f EXCEPT ![r] = [step |-> "using", table |-> t, handle |-> s]]
    BY <1>1, <1>2, <1>4, <1>6 DEF Tabs!FindTable, Tabs!None
  <2>2. s \in TabSlot /\ c.entry[s].inCache /\ c.entry[s].table = t
    BY <1>3, <1>4, <1>5, <1>6 DEF CacheInv
  <2>3. /\ g \in ReaderType /\ g[r].step = "using" /\ g[r].table = t /\ g[r].handle = s
        /\ \A q \in Reader \ {r} : g[q] = f[q]
    BY <1>3, <2>1, <2>2 DEF ReaderType
  <2>4. Held(g)[s] = Held(f)[s] + 1 /\ \A x \in TabSlot \ {s} : Held(g)[x] = Held(f)[x]
    BY <1>5, <2>2, <2>3, HeldMore
  <2>5. CacheInv(d, Held(g)) /\ TablesKept(c, d) /\ Cached(d) = Cached(c)
    <3>1. PICK U, V : U = Held(f) /\ V = Held(g)
      OBVIOUS
    <3>2. V \in [TabSlot -> Nat] /\ V[s] = U[s] + 1 /\ \A x \in TabSlot \ {s} : V[x] = U[x]
      BY <2>4, <3>1, HeldType
    <3>3. CacheInv(c, U)
      BY <1>3, <3>1
    <3>4. CacheInv(d, V) /\ TablesKept(c, d) /\ Cached(d) = Cached(c)
      BY <2>1, <2>2, <3>2, <3>3, RefKeeps
    <3> QED
      BY <3>1, <3>4
  <2>6. ASSUME NEW q \in Reader
        PROVE  /\ g[q].step = "using" <=> g[q].handle # 0
               /\ g[q].step # "idle" => g[q].table \in Table
               /\ g[q].step = "using" => d.entry[g[q].handle].table = g[q].table
    <3>1. CASE q = r
      BY <1>6, <2>2, <2>3, <2>5, <3>1 DEF TablesKept
    <3>2. CASE q # r
      <4>1. f[q].handle \in TabSlot \cup {0}
        BY <1>3, ReaderIs
      <4> QED
        BY <1>3, <2>3, <2>5, <3>2, <4>1 DEF TabsGood, TablesKept
    <3> QED
      BY <3>1, <3>2
  <2> QED
    BY <1>1, <1>2, <1>3, <2>3, <2>5, <2>6, TabsAgain DEF TabsInv
<1>7. CASE s = 0
  <2>1. d = c /\ g = [f EXCEPT ![r] = [step |-> "opening", table |-> t, handle |-> 0]]
    BY <1>1, <1>2, <1>4, <1>7 DEF Tabs!FindTable, Tabs!None
  <2>2. /\ g \in ReaderType /\ g[r].step = "opening" /\ g[r].table = t /\ g[r].handle = 0
        /\ \A q \in Reader \ {r} : g[q] = f[q]
    BY <1>3, <2>1 DEF ReaderType
  <2>3. Held(g) = Held(f)
    BY <1>5, <2>2, HeldSame
  <2>4. ASSUME NEW q \in Reader
        PROVE  /\ g[q].step = "using" <=> g[q].handle # 0
               /\ g[q].step # "idle" => g[q].table \in Table
               /\ g[q].step = "using" => d.entry[g[q].handle].table = g[q].table
    BY <1>3, <2>1, <2>2 DEF TabsGood
  <2> QED
    <3>1. CacheInv(d, Held(g)) /\ Cached(d) \subseteq Cached(c)
      BY <1>3, <2>1, <2>3
    <3>2. TabsGood(d, g)
      BY <1>3, <2>2, <2>4, <3>1, TabsAgain
    <3> QED
      BY <1>1, <1>2, <3>2 DEF TabsInv
<1> QED
  BY <1>6, <1>7

LEMMA TabsOpened == ASSUME TabsInv, NEW r \in Reader, Tabs!Opened(r) PROVE TabsInv'
<1>1. PICK c, d : c = cache /\ d = cache'
  OBVIOUS
<1>2. PICK f, g : f = reader /\ g = reader'
  OBVIOUS
<1>3. TabsGood(c, f) /\ f \in ReaderType /\ CacheInv(c, Held(f))
  BY <1>1, <1>2 DEF TabsInv, TabsGood
<1>4. PICK t : t = f[r].table
  OBVIOUS
<1>5. t \in Table /\ f[r].step = "opening" /\ f[r].handle = 0
  BY <1>2, <1>3, <1>4 DEF TabsGood, Tabs!Opened
<1>6. \E s : s \in TabSlot /\ s \notin Tabs!Open(c)
  <2>1. SUFFICES ASSUME TabSlot \subseteq Tabs!Open(c) PROVE FALSE
    OBVIOUS
  <2>2. Cardinality(TabSlot) = Tabs!Bound + 1
    <3>1. 1 \in Int /\ Tabs!Bound + 1 \in Int /\ Tabs!Bound \in Nat
      BY SlotIs
    <3>2. Cardinality(1..(Tabs!Bound + 1)) = IF 1 > Tabs!Bound + 1 THEN 0 ELSE Tabs!Bound + 1 - 1 + 1
      BY <3>1, FS_Interval
    <3> QED
      BY <3>1, <3>2, SlotIs
  <2>3. TabSlot \in SUBSET Tabs!Open(c)
    BY <2>1
  <2>4. Cardinality(TabSlot) <= Cardinality(Tabs!Open(c))
    BY <1>3, <2>3, OpenCount, FS_Subset
  <2>5. Cardinality(Tabs!Open(c)) <= Tabs!Bound /\ Cardinality(Tabs!Open(c)) \in Nat
    <3>1. PICK n, m : n = Cardinality(Tabs!Open(c)) /\ m = Cardinality({ q \in Reader : f[q].step = "opening" })
      OBVIOUS
    <3>2. n + m <= Tabs!Bound /\ n \in Nat /\ m \in Nat
      BY <1>3, <3>1, OpenCount
    <3> QED
      BY <3>1, <3>2, SlotIs
  <2> QED
    BY <2>2, <2>4, <2>5, SlotIs
<1>7. PICK s : s = CHOOSE x \in TabSlot : x \notin Tabs!Open(c)
  OBVIOUS
<1>8. s \in TabSlot /\ s \notin Tabs!Open(c)
  BY <1>6, <1>7
<1>9. d = Tabs!Insert(c, t, s) /\ g = [f EXCEPT ![r] = [step |-> "using", table |-> t, handle |-> s]]
  BY <1>1, <1>2, <1>4, <1>7 DEF Tabs!Opened, TabSlot
<1>10. c.entry[s].refs = 0
  BY <1>3, <1>8, EntryIs DEF Tabs!Open, TabSlot
<1>11. /\ g \in ReaderType /\ g[r].step = "using" /\ g[r].table = t /\ g[r].handle = s
       /\ \A q \in Reader \ {r} : g[q] = f[q]
  BY <1>3, <1>5, <1>8, <1>9 DEF ReaderType
<1>12. Held(g)[s] = 1 /\ (\A x \in TabSlot \ {s} : Held(g)[x] = Held(f)[x]) /\ Held(f)[s] = 0
  <2>1. Held(g)[s] = Held(f)[s] + 1 /\ \A x \in TabSlot \ {s} : Held(g)[x] = Held(f)[x]
    BY <1>5, <1>8, <1>11, HeldMore
  <2>2. Held(f)[s] = 0
    <3>1. Held(f)[s] \in Nat
      BY <1>8, HeldIs
    <3>2. c.entry[s].refs = Held(f)[s] \/ c.entry[s].refs = Held(f)[s] + 1
      BY <1>3, <1>8 DEF CacheInv
    <3> QED
      BY <1>10, <3>1, <3>2
  <2> QED
    BY <2>1, <2>2
<1>13. /\ CacheInv(d, Held(g)) /\ d.entry[s].table = t
       /\ \A x \in TabSlot \ {s} : d.entry[x].table = c.entry[x].table
       /\ Cardinality(Cached(d)) <= Capacity \/ \A x \in Cached(d) : Held(g)[x] # 0
  <2>1. PICK U, V : U = Held(f) /\ V = Held(g)
    OBVIOUS
  <2>2. V \in [TabSlot -> Nat] /\ V[s] = 1 /\ \A x \in TabSlot \ {s} : V[x] = U[x]
    BY <1>12, <2>1, HeldType
  <2>3. CacheInv(c, U)
    BY <1>3, <2>1
  <2>4. /\ CacheInv(d, V) /\ d.entry[s].table = t
        /\ \A x \in TabSlot \ {s} : d.entry[x].table = c.entry[x].table
        /\ Cardinality(Cached(d)) <= Capacity \/ \A x \in Cached(d) : V[x] # 0
    BY <1>5, <1>8, <1>9, <1>10, <2>2, <2>3, InsertKeeps
  <2> QED
    BY <2>1, <2>4
<1>14. ASSUME NEW q \in Reader
       PROVE  /\ g[q].step = "using" <=> g[q].handle # 0
              /\ g[q].step # "idle" => g[q].table \in Table
              /\ g[q].step = "using" => d.entry[g[q].handle].table = g[q].table
  <2>1. CASE q = r
    BY <1>5, <1>8, <1>11, <1>13, <2>1, SlotIs
  <2>2. CASE q # r
    <3>1. f[q].handle \in TabSlot \cup {0}
      BY <1>3, ReaderIs
    <3>2. f[q].handle # s
      BY <1>8, <1>12, HeldIs
    <3> QED
      BY <1>3, <1>11, <1>13, <2>2, <3>1, <3>2 DEF TabsGood
  <2> QED
    BY <2>1, <2>2
<1>15. Cardinality(Cached(d)) <= Capacity \/ Cardinality(Cached(d)) <= Cardinality(Reader)
  <2>1. ASSUME \A x \in Cached(d) : Held(g)[x] # 0 PROVE Cardinality(Cached(d)) <= Cardinality(Reader)
    <3>1. PICK h : h = [q \in Reader |-> g[q].handle]
      OBVIOUS
    <3>2. ASSUME NEW x \in Cached(d) PROVE \E q \in Reader : h[q] = x
      <4>1. x \in TabSlot /\ Held(g)[x] # 0
        BY <2>1 DEF Cached
      <4>2. \E q \in Reader : g[q].handle = x
        BY <4>1, HeldIs
      <4> QED
        BY <3>1, <4>2
    <3> QED
      BY <3>2, TableCacheAssumption, OntoCount
  <2> QED
    BY <1>13, <2>1
<1> QED
  BY <1>1, <1>2, <1>11, <1>13, <1>14, <1>15 DEF TabsInv, TabsGood

LEMMA TabsOpenFails == ASSUME TabsInv, NEW r \in Reader, Tabs!OpenFails(r) PROVE TabsInv'
<1>1. PICK c, d : c = cache /\ d = cache'
  OBVIOUS
<1>2. PICK f, g : f = reader /\ g = reader'
  OBVIOUS
<1>3. TabsGood(c, f) /\ f \in ReaderType /\ CacheInv(c, Held(f))
  BY <1>1, <1>2 DEF TabsInv, TabsGood
<1>4. d = c /\ f[r].handle = 0 /\ g = [f EXCEPT ![r] = [step |-> "idle", table |-> 0, handle |-> 0]]
  BY <1>1, <1>2, <1>3 DEF Tabs!OpenFails, Tabs!None, TabsGood
<1>5. /\ g \in ReaderType /\ g[r].step = "idle" /\ g[r].handle = 0 /\ \A q \in Reader \ {r} : g[q] = f[q]
  BY <1>3, <1>4 DEF ReaderType
<1>6. Held(g) = Held(f)
  BY <1>4, <1>5, HeldSame
<1>7. ASSUME NEW q \in Reader
      PROVE  /\ g[q].step = "using" <=> g[q].handle # 0
             /\ g[q].step # "idle" => g[q].table \in Table
             /\ g[q].step = "using" => d.entry[g[q].handle].table = g[q].table
  BY <1>3, <1>4, <1>5 DEF TabsGood
<1> QED
  <2>1. CacheInv(d, Held(g)) /\ Cached(d) \subseteq Cached(c)
    BY <1>3, <1>4, <1>6
  <2>2. TabsGood(d, g)
    BY <1>3, <1>5, <1>7, <2>1, TabsAgain
  <2> QED
    BY <1>1, <1>2, <2>2 DEF TabsInv

LEMMA TabsRelease == ASSUME TabsInv, NEW r \in Reader, Tabs!Release(r) PROVE TabsInv'
<1>1. PICK c, d : c = cache /\ d = cache'
  OBVIOUS
<1>2. PICK f, g : f = reader /\ g = reader'
  OBVIOUS
<1>3. TabsGood(c, f) /\ f \in ReaderType /\ CacheInv(c, Held(f))
  BY <1>1, <1>2 DEF TabsInv, TabsGood
<1>4. PICK s : s = f[r].handle
  OBVIOUS
<1>5. s \in TabSlot
  <2>1. f[r].step = "using"
    BY <1>2 DEF Tabs!Release
  <2> QED
    BY <1>3, <1>4, <2>1, ReaderIs DEF TabsGood
<1>6. d = Tabs!Unref(c, s) /\ g = [f EXCEPT ![r] = [step |-> "idle", table |-> 0, handle |-> 0]]
  BY <1>1, <1>2, <1>4 DEF Tabs!Release, Tabs!None
<1>7. /\ g \in ReaderType /\ g[r].step = "idle" /\ g[r].handle = 0 /\ \A q \in Reader \ {r} : g[q] = f[q]
  BY <1>3, <1>6 DEF ReaderType
<1>8. Held(f)[s] = Held(g)[s] + 1 /\ \A x \in TabSlot \ {s} : Held(f)[x] = Held(g)[x]
  BY <1>4, <1>5, <1>7, HeldMore
<1>9. CacheInv(d, Held(g)) /\ TablesKept(c, d) /\ Cached(d) = Cached(c)
  <2>1. PICK U, V : U = Held(f) /\ V = Held(g)
    OBVIOUS
  <2>2. V \in [TabSlot -> Nat] /\ U[s] = V[s] + 1 /\ \A x \in TabSlot \ {s} : V[x] = U[x]
    BY <1>8, <2>1, HeldType
  <2>3. CacheInv(c, U)
    BY <1>3, <2>1
  <2>4. CacheInv(d, V) /\ TablesKept(c, d) /\ Cached(d) = Cached(c)
    BY <1>5, <1>6, <2>2, <2>3, UnrefKeeps
  <2> QED
    BY <2>1, <2>4
<1>10. ASSUME NEW q \in Reader
       PROVE  /\ g[q].step = "using" <=> g[q].handle # 0
              /\ g[q].step # "idle" => g[q].table \in Table
              /\ g[q].step = "using" => d.entry[g[q].handle].table = g[q].table
  <2>1. CASE q = r
    BY <1>7, <2>1
  <2>2. CASE q # r
    <3>1. f[q].handle \in TabSlot \cup {0}
      BY <1>3, ReaderIs
    <3> QED
      BY <1>3, <1>7, <1>9, <2>2, <3>1 DEF TabsGood, TablesKept
  <2> QED
    BY <2>1, <2>2
<1> QED
  BY <1>1, <1>2, <1>3, <1>7, <1>9, <1>10, TabsAgain DEF TabsInv

LEMMA TabsEvict == ASSUME TabsInv, NEW t \in Table, Tabs!Evict(t) PROVE TabsInv'
<1>1. PICK c, d : c = cache /\ d = cache'
  OBVIOUS
<1>2. PICK f : f = reader
  OBVIOUS
<1>3. TabsGood(c, f) /\ f \in ReaderType /\ CacheInv(c, Held(f))
  BY <1>1, <1>2 DEF TabsInv, TabsGood
<1>4. d = Tabs!Erase(c, t) /\ reader' = f
  BY <1>1, <1>2 DEF Tabs!Evict
<1>5. CacheInv(d, Held(f)) /\ TablesKept(c, d) /\ Cached(d) \subseteq Cached(c)
  BY <1>3, <1>4, EraseKeeps
<1>6. ASSUME NEW q \in Reader
      PROVE  /\ f[q].step = "using" <=> f[q].handle # 0
             /\ f[q].step # "idle" => f[q].table \in Table
             /\ f[q].step = "using" => d.entry[f[q].handle].table = f[q].table
  <2>1. f[q].handle \in TabSlot \cup {0}
    BY <1>3, ReaderIs
  <2> QED
    BY <1>3, <1>5, <2>1 DEF TabsGood, TablesKept
<1> QED
  BY <1>1, <1>3, <1>4, <1>5, <1>6, TabsAgain DEF TabsInv

LEMMA TabsStep == TabsInv /\ [Tabs!Next]_tVars => TabsInv'
<1> SUFFICES ASSUME TabsInv, [Tabs!Next]_tVars PROVE TabsInv'
  OBVIOUS
<1>1. ASSUME NEW r \in Reader, NEW t \in Table, Tabs!FindTable(r, t) PROVE TabsInv'
  BY <1>1, TabsFindTable
<1>2. ASSUME NEW r \in Reader, Tabs!Opened(r) PROVE TabsInv'
  BY <1>2, TabsOpened
<1>3. ASSUME NEW r \in Reader, Tabs!OpenFails(r) PROVE TabsInv'
  BY <1>3, TabsOpenFails
<1>4. ASSUME NEW r \in Reader, Tabs!Release(r) PROVE TabsInv'
  BY <1>4, TabsRelease
<1>5. ASSUME NEW t \in Table, Tabs!Evict(t) PROVE TabsInv'
  BY <1>5, TabsEvict
<1>6. CASE UNCHANGED tVars
  BY <1>6 DEF TabsInv, tVars
<1> QED
  BY <1>1, <1>2, <1>3, <1>4, <1>5, <1>6 DEF Tabs!Next

LEMMA InvOpen == TabsInv => Tabs!HandlesOpen /\ Tabs!OpenBounded
<1> SUFFICES ASSUME TabsInv PROVE Tabs!HandlesOpen /\ Tabs!OpenBounded
  OBVIOUS
<1>1. TabsGood(cache, reader) /\ reader \in ReaderType /\ CacheInv(cache, Held(reader))
  BY DEF TabsInv, TabsGood
<1>2. Tabs!Open(cache) = { s \in TabSlot : cache.entry[s].refs > 0 }
  BY DEF Tabs!Open, TabSlot
<1>3. ASSUME NEW r \in Reader, reader[r].step = "using"
      PROVE  reader[r].handle \in Tabs!Open(cache) /\ cache.entry[reader[r].handle].table = reader[r].table
  <2>1. PICK s : s = reader[r].handle
    OBVIOUS
  <2>2. s \in TabSlot /\ cache.entry[s].table = reader[r].table
    BY <1>1, <1>3, <2>1, ReaderIs DEF TabsGood
  <2>3. Held(reader)[s] \in Nat /\ Held(reader)[s] # 0
    BY <2>1, <2>2, HeldIs
  <2>4. cache.entry[s].refs = Held(reader)[s] \/ cache.entry[s].refs = Held(reader)[s] + 1
    BY <1>1, <2>2 DEF CacheInv
  <2>5. cache.entry[s].refs > 0
    BY <2>3, <2>4
  <2> QED
    BY <1>2, <2>1, <2>2, <2>5
<1>4. ASSUME NEW s \in Tabs!Open(cache), \A r \in Reader : reader[r].handle # s
      PROVE  cache.table[cache.entry[s].table] = s
  <2>1. s \in TabSlot /\ cache.entry[s].refs > 0
    BY <1>2
  <2>2. Held(reader)[s] = 0
    BY <1>4, <2>1, HeldIs
  <2>3. cache.entry[s].inCache
    BY <1>1, <2>1, <2>2 DEF CacheInv
  <2> QED
    BY <1>1, <2>1, <2>3 DEF CacheInv
<1>5. Tabs!OpenBounded
  BY <1>1, OpenCount, SameCount DEF Tabs!OpenBounded
<1> QED
  BY <1>3, <1>4, <1>5 DEF Tabs!HandlesOpen

LEMMA TabsAlone == PartsSpec => [](part = "tables" => TabsInv)
<1>1. PartsInit => (part = "tables" => TabsInv)
  BY TabsStart DEF PartsInit
<1>2. (part = "tables" => TabsInv) /\ [PartsNext]_partsVars => (part = "tables" => TabsInv)'
  <2> SUFFICES ASSUME part = "tables" => TabsInv, [PartsNext]_partsVars, part' = "tables"
               PROVE  TabsInv'
    OBVIOUS
  <2>1. part = "tables" /\ [Tabs!Next]_tVars
    BY DEF PartsNext, partsVars
  <2> QED
    BY <2>1, TabsStep
<1> QED
  BY <1>1, <1>2, PTL DEF PartsSpec

\* The entry a reader holds is its table and stays open, whoever replaces it,
\* evicts it or fills the cache; what nobody uses is held by the cache alone;
\* and the tables that are open are bounded (LRUCache, TableCache), for any
\* number of tables and readers and any capacity but 0.
THEOREM TablesStayOpen == PartsSpec => []TablesOpen
<1>1. (part = "tables" => TabsInv) => TablesOpen
  BY InvOpen DEF TablesOpen
<1> QED
  BY <1>1, TabsAlone, PTL
=============================================================================
