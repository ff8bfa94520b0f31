-------------------------- MODULE LlamaStackMemory --------------------------
(***************************************************************************)
(* The LlamaStack memory backend: a memory is a file that is uploaded and  *)
(* attached to a vector store over HTTP.  Nothing is retried.  A request   *)
(* may be carried out and answered, carried out and its answer lost, or    *)
(* not carried out at all; the last two look alike to the client.          *)
(*                                                                         *)
(* A file, and so a memory, is named by the operation that uploads it; the *)
(* stores found are those with the configured name, in the server's order. *)
(***************************************************************************)
EXTENDS Integers, Sequences, FiniteSets

CONSTANTS
    Agents,        \* processes with the same configuration
    Writes, Updates,
    MaxRestarts    \* bound

Ops == Writes \cup Updates
Nobody == "nobody"

VARIABLES
    client,        \* state of each agent's client, and its store
    store,
    stores,        \* stores of that name on the server, how many
    pc, agent, target,
    uploaded,      \* files on the server
    attached,      \* <<store, file>>
    undeleted,     \* updates whose delete raised
    restarts

vars == <<client, store, stores, pc, agent, target, uploaded, attached, undeleted, restarts>>
server == <<stores, uploaded, attached>>
clients == <<client, store>>

Outcomes == {"answered", "lost", "refused"}
Applied(outcome) == outcome # "refused"

Init ==
    /\ client = [a \in Agents |-> "none"] /\ store = [a \in Agents |-> 0]
    /\ stores = 0
    /\ pc = [o \in Ops |-> "idle"]
    /\ agent = [o \in Ops |-> Nobody] /\ target = [o \in Ops |-> o]
    /\ uploaded = {} /\ attached = {}
    /\ undeleted = {}
    /\ restarts = 0

-----------------------------------------------------------------------------
(* create_llamastack_client: list the stores, take the first one *)
ListStores(a) ==
    /\ client[a] = "none"
    /\ \/ stores > 0 /\ client' = [client EXCEPT ![a] = "ready"]
                     /\ store' = [store EXCEPT ![a] = 1]
       \/ stores = 0 /\ client' = [client EXCEPT ![a] = "absent"] /\ UNCHANGED store
       \/ client' = [client EXCEPT ![a] = "null"] /\ UNCHANGED store
    /\ UNCHANGED <<server, pc, agent, target, undeleted, restarts>>

(* or create one *)
CreateStore(a) ==
    /\ client[a] = "absent"
    /\ \E outcome \in Outcomes :
          /\ stores' = stores + (IF Applied(outcome) THEN 1 ELSE 0)
          /\ client' = [client EXCEPT ![a] = IF outcome = "answered" THEN "ready" ELSE "null"]
          /\ store' = [store EXCEPT ![a] = stores']
    /\ UNCHANGED <<pc, agent, target, uploaded, attached, undeleted, restarts>>

Mine(o) == store[agent[o]]
Visible(a) == {o \in Ops : <<store[a], o>> \in attached}

(* search: every file attached to this client's store *)
Search(a) == IF client[a] = "ready" THEN Visible(a) ELSE {}

(* write() and update() of a null client return None; an update is given   *)
(* the id of something found or returned before.                           *)
Begin(o, a) ==
    /\ pc[o] = "idle"
    /\ \/ client[a] = "null" /\ pc' = [pc EXCEPT ![o] = "failed"] /\ UNCHANGED target
       \/ client[a] = "ready" /\ o \in Writes
             /\ pc' = [pc EXCEPT ![o] = "upload"] /\ UNCHANGED target
       \/ client[a] = "ready" /\ o \in Updates
             /\ pc' = [pc EXCEPT ![o] = "delete"]
             /\ \E old \in Search(a) \cup {d \in Ops : agent[d] = a /\ pc[d] = "done"} :
                   target' = [target EXCEPT ![o] = old]
    /\ agent' = [agent EXCEPT ![o] = a]
    /\ UNCHANGED <<clients, server, undeleted, restarts>>

(* Slip: any answer to the delete will do. *)
Delete_AnyStatus(o) ==
    /\ pc[o] = "delete"
    /\ \E outcome \in Outcomes :
          attached' = IF Applied(outcome) THEN attached \ {<<Mine(o), target[o]>>} ELSE attached
    /\ pc' = [pc EXCEPT ![o] = "upload"]
    /\ UNCHANGED <<clients, stores, agent, target, uploaded, undeleted, restarts>>

(* update: detach the old file; a failure is logged, 404 is none *)
Delete(o) ==
    /\ pc[o] = "delete"
    /\ \E outcome \in Outcomes :
          /\ attached' = IF Applied(outcome) THEN attached \ {<<Mine(o), target[o]>>} ELSE attached
          /\ undeleted' = IF outcome = "answered" THEN undeleted ELSE undeleted \cup {o}
    /\ pc' = [pc EXCEPT ![o] = "upload"]
    /\ UNCHANGED <<clients, stores, agent, target, uploaded, restarts>>

(* write: upload the file, *)
Upload(o) ==
    /\ pc[o] = "upload"
    /\ \E outcome \in Outcomes :
          /\ uploaded' = IF Applied(outcome) THEN uploaded \cup {o} ELSE uploaded
          /\ pc' = [pc EXCEPT ![o] = IF outcome = "answered" THEN "attach" ELSE "failed"]
    /\ UNCHANGED <<clients, stores, agent, target, attached, undeleted, restarts>>

(* and attach it to the store. *)
Attach(o) ==
    /\ pc[o] = "attach"
    /\ \E outcome \in Outcomes :
          /\ attached' = IF Applied(outcome) THEN attached \cup {<<Mine(o), o>>} ELSE attached
          /\ pc' = [pc EXCEPT ![o] = IF outcome = "answered" THEN "done" ELSE "failed"]
    /\ UNCHANGED <<clients, stores, agent, target, uploaded, undeleted, restarts>>

(* The agent's process ends, at whatever step its operations are. *)
Restart(a) ==
    /\ restarts < MaxRestarts /\ client[a] # "none"
    /\ restarts' = restarts + 1
    /\ client' = [client EXCEPT ![a] = "none"] /\ store' = [store EXCEPT ![a] = 0]
    /\ pc' = [o \in Ops |-> IF agent[o] = a /\ pc[o] \in {"delete", "upload", "attach"}
                            THEN "ended" ELSE pc[o]]
    /\ UNCHANGED <<server, agent, target, undeleted>>

Next ==
    \/ \E a \in Agents :
          \/ ListStores(a) \/ CreateStore(a) \/ Restart(a)
          \/ \E o \in Ops : Begin(o, a)
    \/ \E o \in Ops : Delete(o) \/ Upload(o) \/ Attach(o)

Spec == Init /\ [][Next]_vars

-----------------------------------------------------------------------------
TypeOK ==
    /\ client \in [Agents -> {"none", "absent", "ready", "null"}]
    /\ stores \in Nat /\ store \in [Agents -> 0..stores]
    /\ pc \in [Ops -> {"idle", "delete", "upload", "attach", "done", "failed", "ended"}]
    /\ agent \in [Ops -> Agents \cup {Nobody}] /\ target \in [Ops -> Ops]
    /\ uploaded \subseteq Ops
    /\ attached \subseteq (1..stores) \X uploaded
    /\ undeleted \subseteq Updates

(* A memory that was returned is attached to some store until an update of *)
(* it begins, whichever requests fail and whoever restarts.                *)
ReturnedIsAttached ==
    \A o \in Ops :
        pc[o] = "done" /\ (\A u \in Updates : target[u] = o => u = o) =>
            \E s \in 1..stores : <<s, o>> \in attached

(* An update whose delete did not raise has removed the old memory for     *)
(* good: its store never holds old and new one together.                   *)
NeverBoth ==
    \A u \in Updates \ undeleted :
        pc[u] \in {"upload", "attach", "done", "failed"} /\ agent[u] # Nobody /\ target[u] # u =>
            \A s \in 1..stores : <<s, u>> \in attached => <<s, target[u]>> \notin attached

(* "LlamaStack write failed - memory not persisted" *)
FailedIsNotPersisted ==
    \A o \in Ops : pc[o] = "failed" => \A s \in 1..stores : <<s, o>> \notin attached

(* "Replace a memory entry by deleting the old file and writing a new one" *)
ReplacedNotRemoved ==
    \A u \in Updates : pc[u] = "failed" /\ pc[target[u]] = "done" =>
        \E s \in 1..stores : <<s, target[u]>> \in attached \/ <<s, u>> \in attached

(* "Finds or creates the named vector store on startup": what an agent     *)
(* stored it finds again after a restart.                                  *)
FoundAfterRestart ==
    \A a \in Agents : \A o \in Ops :
        client[a] = "ready" /\ agent[o] = a /\ pc[o] = "done"
            /\ (\A u \in Updates : target[u] = o => u = o) => o \in Search(a)
=============================================================================
