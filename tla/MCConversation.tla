--------------------------- MODULE MCConversation ---------------------------
(* Instances of Conversation for TLC. *)
EXTENDS Conversation, TLC

\* The users are interchangeable; used by the runs without liveness only.
Symmetry == Permutations(User)
=============================================================================
