-------------------------------- MODULE MCParts --------------------------------
(***************************************************************************)
(* An instance of every part.                                              *)
(***************************************************************************)
EXTENDS Parts, TLC

\* Two friends records are of one person.
Friend == <<"ann", "ann", "bob">>

\* What can be typed to search people, and what it finds.
Found == ("" :> {1, 2, 3}) @@ ("a" :> {1, 2})

\* The user keys of a table, of two bytes at most.
Keys == {<<0>>, <<0, 1>>, <<0, 2>>, <<1>>, <<2>>}
=============================================================================
