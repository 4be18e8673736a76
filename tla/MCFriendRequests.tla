-------------------------- MODULE MCFriendRequests --------------------------
(* Instances of FriendRequests for TLC. *)
EXTENDS FriendRequests, TLC

\* The users are interchangeable; used by the runs without liveness only.
Symmetry == Permutations(User)
=============================================================================
