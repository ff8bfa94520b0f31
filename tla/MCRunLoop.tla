----------------------------- MODULE MCRunLoop -----------------------------
(* Instances of RunLoop for TLC. *)
EXTENDS RunLoop
=============================================================================
