-------------------------------- MODULE Store --------------------------------
(***************************************************************************)
(* What LevelDB promises whoever writes to it (options.h: WriteOptions),   *)
(* without saying how: writes take effect in groups, one that asked for    *)
(* it is on the disk before it counts as done, a process that crashes      *)
(* loses nothing that was done and a machine that crashes nothing that is  *)
(* on the disk.  A write that was under way, or that failed, may show up   *)
(* after a crash or not, but once it was lost it stays lost.               *)
(***************************************************************************)
EXTENDS Naturals

CONSTANT Request      \* records with a number and a flag "sync"

VARIABLES
  asked,        \* writes that have taken effect or still may
  visible,      \* what a reader finds
  safe,         \* what is on the disk for good
  power         \* flips when the machine crashes

vars == <<asked, visible, safe, power>>

Init == asked = {} /\ visible = {} /\ safe = {} /\ power = TRUE

Ask(w) ==
  /\ w \notin asked
  /\ asked' = asked \cup {w}
  /\ UNCHANGED <<visible, safe, power>>

\* Some writes reach the disk, before they count as done or later.
Secure(S) ==
  /\ S \subseteq asked
  /\ safe' = safe \cup S
  /\ UNCHANGED <<asked, visible, power>>

\* A group of writes takes effect.
Commit(G) ==
  /\ G \subseteq asked
  /\ { w \in G : w.sync } \subseteq safe
  /\ visible' = visible \cup G
  /\ UNCHANGED <<asked, safe, power>>

\* A crash, after which the readers find what was kept.
Crash(kept) ==
  /\ kept \subseteq asked
  /\ asked' = kept /\ visible' = kept
  /\ safe' \in SUBSET kept /\ safe \subseteq safe'

ProcessCrash ==
  /\ \E kept \in SUBSET asked : visible \subseteq kept /\ Crash(kept)
  /\ UNCHANGED power

MachineCrash ==
  /\ \E kept \in SUBSET asked : safe \subseteq kept /\ Crash(kept)
  /\ power' = ~power

Next ==
  \/ \E w \in Request : Ask(w)
  \/ \E S \in SUBSET asked : Secure(S) \/ Commit(S)
  \/ ProcessCrash
  \/ MachineCrash

Spec == Init /\ [][Next]_vars
=============================================================================
