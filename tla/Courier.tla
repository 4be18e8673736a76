------------------------------ MODULE Courier ------------------------------
(***************************************************************************)
(* What the recipient of chat messages may rely on, whatever the devices,  *)
(* the connections and the database do in between: no message is made up,  *)
(* none comes twice, and the messages of one sender come in the order in   *)
(* which they were sent.  Messages may be lost.                            *)
(***************************************************************************)
EXTENDS Naturals

CONSTANTS
  User,
  MaxSends      \* bound: messages, all users together

\* Messages are numbered; each sender's in the order of sending.
Msg == { m \in [from : User, to : User, n : 1..MaxSends] : m.from # m.to }

VARIABLES
  posted,       \* messages that were sent
  delivered     \* messages the recipients have

vars == <<posted, delivered>>

Init == posted = {} /\ delivered = {}

Newer(m, set) == \A l \in set : l.from = m.from => l.n < m.n

Post(m) ==
  /\ Newer(m, posted)
  /\ posted' = posted \cup {m}
  /\ UNCHANGED delivered

Deliver(m) ==
  /\ m \in posted
  /\ Newer(m, { l \in delivered : l.to = m.to })
  /\ delivered' = delivered \cup {m}
  /\ UNCHANGED posted

Next == \E m \in Msg : Post(m) \/ Deliver(m)

Spec == Init /\ [][Next]_vars
=============================================================================
