----------------------------- MODULE MCSession -----------------------------
(* Instances of Session for TLC. *)
EXTENDS Session, TLC

\* Accounts of one kind are interchangeable; used without liveness only.
Symmetry == Permutations(EmailAccount)
=============================================================================
