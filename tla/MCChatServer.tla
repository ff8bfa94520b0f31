---------------------------- MODULE MCChatServer ----------------------------
(* Instances of ChatServer for TLC. *)
EXTENDS ChatServer

CONSTANTS r1, r2, r3, r4

(* Two streamed requests and a synchronous one that share the lock, and    *)
(* one in Responses-API mode beside them.                                  *)
AllKinds == (r1 :> "stream") @@ (r2 :> "stream") @@ (r3 :> "sync")
            @@ (r4 :> "responses")

(* A streamed request and one in Responses-API mode. *)
MixedKinds == (r1 :> "stream") @@ (r2 :> "responses")

(* Two streamed requests. *)
StreamKinds == (r1 :> "stream") @@ (r2 :> "stream")
=============================================================================
