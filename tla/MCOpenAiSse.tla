---------------------------- MODULE MCOpenAiSse ----------------------------
(* Instances of OpenAiSse for TLC. *)
EXTENDS OpenAiSse

Opening == [id |-> TRUE, name |-> TRUE, args |-> FALSE]
Whole == [id |-> TRUE, name |-> TRUE, args |-> TRUE]
Fragment == [id |-> FALSE, name |-> FALSE, args |-> TRUE]
IdOnly == [id |-> TRUE, name |-> FALSE, args |-> FALSE]

(* A call that opens without arguments, then its arguments, and a delta    *)
(* that brings no name: a call may arrive in pieces and in any order, open *)
(* twice, or never get its id or its name.                                 *)
Pieces == {Opening, Fragment, IdOnly}
WholeCalls == {Whole}
=============================================================================
