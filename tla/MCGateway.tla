------------------------------ MODULE MCGateway ------------------------------
(* Instances of Gateway for TLC. *)
EXTENDS Gateway

(* Two events, the terminator, and what a server sends after it. *)
TwoEvents == <<Data(1), Blank, Data(2), Blank, Done, Blank>>

NoLine == {}
(* The second event is the usage chunk with its list of latencies. *)
LongUsage == {Data(2)}

CutLine == [kind |-> "cut", n |-> 0]
=============================================================================
