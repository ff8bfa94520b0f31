----------------------------- MODULE MCChatPath -----------------------------
(* Instances of ChatPath for TLC. *)
EXTENDS ChatPath
=============================================================================
