-------------------------- MODULE MCServiceClients --------------------------
(* Instances of ServiceClients for TLC. *)
EXTENDS ServiceClients

MCWrites == [sqlite |-> {"w1", "w2"}, markdown |-> {"w1", "w2"}, llamastack |-> {"w1"},
             pgvector |-> {"w1", "w2"}]
MCUpdates == [sqlite |-> {"u1"}, markdown |-> {"u1", "u2"}, llamastack |-> {"u1", "u2"},
              pgvector |-> {"u1", "u2"}]
=============================================================================
