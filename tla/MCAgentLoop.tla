---------------------------- MODULE MCAgentLoop ----------------------------
(* Instances of AgentLoop for TLC. *)
EXTENDS AgentLoop

(* What providers send for a call: everything at once, the id and the name *)
(* first and arguments after them, or the id and the name apart.           *)
Opening == [id |-> TRUE, name |-> TRUE, args |-> FALSE]
Whole == [id |-> TRUE, name |-> TRUE, args |-> TRUE]
Fragment == [id |-> FALSE, name |-> FALSE, args |-> TRUE]
IdOnly == [id |-> TRUE, name |-> FALSE, args |-> FALSE]
NameOnly == [id |-> FALSE, name |-> TRUE, args |-> FALSE]

AllShapes == {Opening, Whole, Fragment, IdOnly, NameOnly}
=============================================================================
