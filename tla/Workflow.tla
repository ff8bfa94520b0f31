------------------------------ MODULE Workflow ------------------------------
(***************************************************************************)
(* A workflow: the graph a program builds (graph.py), and WorkflowRunner   *)
(* walking it (runner.py) with its two layers of retries, its own and the  *)
(* one of a RemoteNode (remote_node.py).                                   *)
(*                                                                         *)
(* The builder's operations that raise leave the graph as it was and are   *)
(* not actions.  The workflow's state is the set of the contributions it   *)
(* holds: <<step, attempt>> is what that attempt wrote.                    *)
(***************************************************************************)
EXTENDS Integers, Sequences, FiniteSets, SequencesExt

CONSTANTS
    Names, END,
    MaxSteps,      \* WorkflowRunner(max_steps)
    NodeRetries,   \* WorkflowRunner(node_retries), in fact the attempts
    Remote,        \* names that node_configs makes remote
    HttpRetries,   \* NodeConfig.retries
    MaxEdges       \* bound: edges that a program adds to its graph

ASSUME WorkflowAssumption ==
    /\ END \notin Names
    /\ {MaxSteps, NodeRetries, HttpRetries, MaxEdges} \subseteq Nat
    /\ Remote \subseteq Names

VARIABLES
    nodes, linear, conditional, onError, entry,   \* the Graph
    pc,
    index,     \* the node that setup() or shutdown() has come to
    opened,    \* nodes whose setup() was called and whose shutdown() was not
    current,   \* current_name
    step, attempt, post,
    path,      \* the nodes executed, with their failed attempts
    state,     \* contributions held by the workflow's state
    result

graph == <<nodes, linear, conditional, onError, entry>>
walk == <<current, step, attempt, post, path, state>>
vars == <<graph, pc, index, opened, walk, result>>

Registered == ToSet(nodes)
Targets == Registered \cup {END}
NoEntry == END

(* The dictionary with a value for one more name, or another value for it. *)
Put(map, name, value) ==
    [n \in DOMAIN map \cup {name} |-> IF n = name THEN value ELSE map[n]]

EdgeCount == Cardinality(DOMAIN linear) + Cardinality(conditional)
                 + Cardinality(DOMAIN onError)

Init ==
    /\ nodes = <<>> /\ linear = <<>> /\ conditional = {} /\ onError = <<>>
    /\ entry = NoEntry
    /\ pc = "building"
    /\ index = 0 /\ opened = {}
    /\ current = END
    /\ step = 0 /\ attempt = 0 /\ post = 0
    /\ path = <<>> /\ state = {}
    /\ result = ""

-----------------------------------------------------------------------------
(* Graph *)
Building ==
    /\ pc = "building"
    /\ UNCHANGED <<pc, index, opened, walk, result>>

AddNode ==
    /\ Building
    /\ \E n \in Names \ Registered : nodes' = Append(nodes, n)
    /\ UNCHANGED <<linear, conditional, onError, entry>>

AddEdge ==
    /\ Building /\ EdgeCount < MaxEdges
    /\ \E n \in Registered, t \in Targets : linear' = Put(linear, n, t)
    /\ UNCHANGED <<nodes, conditional, onError, entry>>

AddConditionalEdge ==
    /\ Building /\ EdgeCount < MaxEdges
    /\ \E n \in Registered : conditional' = conditional \cup {n}
    /\ UNCHANGED <<nodes, linear, onError, entry>>

AddErrorEdge ==
    /\ Building /\ EdgeCount < MaxEdges
    /\ \E n, t \in Registered : onError' = Put(onError, n, t)
    /\ UNCHANGED <<nodes, linear, conditional, entry>>

SetEntryPoint ==
    /\ Building
    /\ \E n \in Registered : entry' = n
    /\ UNCHANGED <<nodes, linear, conditional, onError>>

Valid == entry # NoEntry /\ DOMAIN linear \cap conditional = {}

-----------------------------------------------------------------------------
(* WorkflowRunner.start: setup, run and, whatever happens, shutdown. *)
Stop(why) ==
    /\ result' = why
    /\ pc' = "shutdown"
    /\ index' = 1

Start ==
    /\ pc = "building"
    /\ pc' = "setup"
    /\ index' = 1
    /\ UNCHANGED <<graph, opened, walk, result>>

SetUpNode ==
    /\ pc = "setup" /\ index <= Len(nodes)
    /\ opened' = opened \cup {nodes[index]}
    /\ \/ index' = index + 1 /\ UNCHANGED <<pc, result>>
       \/ Stop("setup failed")
    /\ UNCHANGED <<graph, walk>>

Validate ==
    /\ pc = "setup" /\ index > Len(nodes)
    /\ IF Valid
       THEN current' = entry /\ pc' = "loop" /\ UNCHANGED <<index, result>>
       ELSE Stop("invalid") /\ UNCHANGED current
    /\ UNCHANGED <<graph, opened, step, attempt, post, path, state>>

(* for step in range(1, max_steps + 1) *)
BeginStep ==
    /\ pc = "loop" /\ step < MaxSteps /\ current # END
    /\ step' = step + 1
    /\ attempt' = 0
    /\ pc' = "attempt"
    /\ UNCHANGED <<graph, index, opened, current, post, path, state, result>>

ReachEnd ==
    /\ pc = "loop" /\ step < MaxSteps /\ current = END
    /\ Stop("ended")
    /\ UNCHANGED <<graph, opened, walk>>

Exceed ==
    /\ pc = "loop" /\ step = MaxSteps
    /\ Stop("exceeded")
    /\ UNCHANGED <<graph, opened, walk>>

(* _execute_node: one attempt, on the state the last one left. *)
Executed == [node |-> current, failed |-> attempt]
Succeed ==
    /\ state' = state \cup {<<step, attempt + 1>>}
    /\ path' = Append(path, Executed)
    /\ pc' = "resolve"
    /\ UNCHANGED <<graph, index, opened, current, step, attempt, result>>

Fail ==
    /\ attempt' = attempt + 1
    /\ pc' = "attempt"
    /\ UNCHANGED <<graph, index, opened, current, step, path, result>>

RunLocal ==
    /\ pc = "attempt" /\ attempt < NodeRetries /\ current \notin Remote
    /\ UNCHANGED post
    /\ \/ Succeed
       \/ Fail /\ state' \in {state, state \cup {<<step, attempt + 1>>}}

CallRemote ==
    /\ pc = "attempt" /\ attempt < NodeRetries /\ current \in Remote
    /\ pc' = "http"
    /\ post' = 0
    /\ UNCHANGED <<graph, index, opened, current, step, attempt, path, state, result>>

(* One POST: an answer that validates; one that does not, which no further *)
(* POST follows; or a status or connection error.                          *)
Post ==
    /\ pc = "http" /\ post < HttpRetries + 1
    /\ post' = post + 1
    /\ \/ Succeed
       \/ Fail /\ UNCHANGED state
       \/ UNCHANGED <<graph, pc, index, opened, current, step, attempt, path, state,
                      result>>

(* Slip: a call that failed for good is not an attempt that failed. *)
PostsExhausted_NotFailed ==
    /\ pc = "http" /\ post = HttpRetries + 1
    /\ pc' = "attempt"
    /\ UNCHANGED <<graph, index, opened, walk, result>>

PostsExhausted ==
    /\ pc = "http" /\ post = HttpRetries + 1
    /\ Fail
    /\ UNCHANGED <<post, state>>

(* Slip: an error edge is taken at the first failure. *)
AttemptsExhausted_AtOnce ==
    /\ pc = "attempt"
    /\ \/ attempt = NodeRetries
       \/ attempt > 0 /\ current \in DOMAIN onError
    /\ IF current \in DOMAIN onError /\ NodeRetries > 0
       THEN /\ path' = Append(path, Executed)
            /\ current' = onError[current]
            /\ pc' = "loop"
            /\ UNCHANGED <<index, result>>
       ELSE /\ Stop(IF NodeRetries = 0 THEN "assertion" ELSE "node failed")
            /\ UNCHANGED <<path, current>>
    /\ UNCHANGED <<graph, opened, step, attempt, post, state>>

(* Every attempt failed.  Without an attempt there is no last_exc. *)
AttemptsExhausted ==
    /\ pc = "attempt" /\ attempt = NodeRetries
    /\ IF current \in DOMAIN onError /\ NodeRetries > 0
       THEN /\ path' = Append(path, Executed)
            /\ current' = onError[current]
            /\ pc' = "loop"
            /\ UNCHANGED <<index, result>>
       ELSE /\ Stop(IF NodeRetries = 0 THEN "assertion" ELSE "node failed")
            /\ UNCHANGED <<path, current>>
    /\ UNCHANGED <<graph, opened, step, attempt, post, state>>

(* _resolve_next: a conditional edge's function returns any name it likes. *)
Resolve ==
    /\ pc = "resolve"
    /\ \E target \in IF current \in conditional THEN Names \cup {END}
                     ELSE IF current \in DOMAIN linear THEN {linear[current]}
                     ELSE {END} :
          IF target \in Targets
          THEN current' = target /\ pc' = "loop" /\ UNCHANGED <<index, result>>
          ELSE Stop("edge failed") /\ UNCHANGED current
    /\ UNCHANGED <<graph, opened, step, attempt, post, path, state>>

(* Slip: an error in one node's shutdown() ends the loop over them. *)
ShutDownNode_StopsAtError ==
    /\ pc = "shutdown" /\ index <= Len(nodes)
    /\ opened' = opened \ {nodes[index]}
    /\ \/ index' = index + 1
       \/ index' = Len(nodes) + 1
    /\ UNCHANGED <<graph, pc, walk, result>>

(* Errors of shutdown() are logged. *)
ShutDownNode ==
    /\ pc = "shutdown" /\ index <= Len(nodes)
    /\ opened' = opened \ {nodes[index]}
    /\ index' = index + 1
    /\ UNCHANGED <<graph, pc, walk, result>>

Return ==
    /\ pc = "shutdown" /\ index > Len(nodes)
    /\ pc' = "over"
    /\ UNCHANGED <<graph, index, opened, walk, result>>

Build ==
    \/ AddNode
    \/ AddEdge
    \/ AddConditionalEdge
    \/ AddErrorEdge
    \/ SetEntryPoint
Execute ==
    \/ SetUpNode
    \/ Validate
    \/ BeginStep
    \/ ReachEnd
    \/ Exceed
    \/ RunLocal
    \/ CallRemote
    \/ Post
    \/ PostsExhausted
    \/ AttemptsExhausted
    \/ Resolve
    \/ ShutDownNode
    \/ Return
Next == Build \/ Start \/ Execute

Spec == Init /\ [][Next]_vars

(* Nodes, edge functions and HTTP calls (they have a timeout) return. *)
FairSpec == Spec /\ WF_vars(Execute)

-----------------------------------------------------------------------------
TypeOK ==
    /\ nodes \in Seq(Names) /\ IsInjective(nodes)
    /\ DOMAIN linear \subseteq Registered /\ \A n \in DOMAIN linear : linear[n] \in Targets
    /\ conditional \subseteq Registered
    /\ DOMAIN onError \subseteq Registered /\ \A n \in DOMAIN onError : onError[n] \in Registered
    /\ entry \in Targets
    /\ pc \in {"building", "setup", "loop", "attempt", "http", "resolve", "shutdown", "over"}
    /\ opened \subseteq Registered
    /\ current \in Targets
    /\ step \in 0..MaxSteps /\ attempt \in 0..NodeRetries /\ post \in 0..(HttpRetries + 1)
    /\ \A k \in DOMAIN path : path[k] \in [node : Names, failed : 0..NodeRetries]
    /\ state \subseteq (1..MaxSteps) \X (1..NodeRetries)

(* What the walk executes is a path of the graph: the lookup of the next   *)
(* node never misses, an error edge follows only a node that failed in     *)
(* every attempt, and any other edge only one that succeeded.              *)
FollowsGraph ==
    /\ path # <<>> => path[1].node = entry
    /\ \A k \in 1..(Len(path) - 1) :
          LET from == path[k]
              to == path[k + 1].node
          IN IF from.failed = NodeRetries
             THEN from.node \in DOMAIN onError /\ to = onError[from.node]
             ELSE /\ from.failed < NodeRetries
                  /\ \/ from.node \in conditional
                     \/ from.node \in DOMAIN linear /\ to = linear[from.node]
    /\ pc \in {"loop", "attempt"} => Valid /\ (current = END \/ current \in Registered)

(* A remote node's work is in the state only if its answer was accepted:   *)
(* the attempts that failed left nothing.  (A local node's may.)           *)
RemoteAllOrNothing ==
    \A w \in state :
        w[1] \in DOMAIN path /\ path[w[1]].node \in Remote
            => w[2] = path[w[1]].failed + 1

(* When start() is over, no node that was set up is left without its       *)
(* shutdown, whichever of setup, validation, node or edge failed.          *)
AllShutDown == pc = "over" => opened = {}

(* A state is returned only for a walk whose last node succeeded and had   *)
(* no successor, or chose END; running out of steps never looks like it.   *)
EndedAtEnd ==
    result = "ended" =>
        /\ Len(path) < MaxSteps
        /\ path # <<>> => LET last == path[Len(path)]
                          IN /\ last.failed < NodeRetries
                             /\ \/ last.node \in conditional
                                \/ last.node \notin DOMAIN linear
                                \/ linear[last.node] = END

(* The walk, its result and the state it leaves are those of a path of the *)
(* graph, whatever fails and is retried.                                   *)
WalkSound == TypeOK /\ FollowsGraph /\ RemoteAllOrNothing /\ EndedAtEnd

(* start() returns or raises. *)
WorkflowEnds == pc = "setup" ~> pc = "over"

(* MaxStepsExceededError: "Raised when the workflow exceeds its maximum    *)
(* step count."                                                            *)
ExceededMeansUnfinished == result = "exceeded" => current # END

(* _execute_node asserts that a last exception exists. *)
LastExcExists == result # "assertion"
=============================================================================
