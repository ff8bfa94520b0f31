--------------------------- MODULE WorkflowProofs ---------------------------
(* What a workflow's run does for every graph, every limit and every      *)
(* combination of failures.                                                *)
EXTENDS Workflow, TLAPS

LEMMA Bounds == MaxSteps \in Nat /\ NodeRetries \in Nat /\ HttpRetries \in Nat
BY WorkflowAssumption

Step == [node : Names, failed : 0..NodeRetries]

(* Before the walk nothing has been executed, and before the end nothing   *)
(* has been returned.                                                      *)
NotBegun ==
    /\ pc \in {"building", "setup"} =>
          current = END /\ step = 0 /\ attempt = 0 /\ path = <<>> /\ state = {}
    /\ pc \notin {"shutdown", "over"} => result = ""

(* Where the walk stands in the graph, and how much of it is recorded.     *)
Walking ==
    /\ pc \in {"loop", "attempt", "http", "resolve"} => Valid
    /\ pc \in {"attempt", "http", "resolve"} => current \in Registered /\ step >= 1
    /\ pc = "http" => attempt < NodeRetries /\ current \in Remote
    /\ pc = "loop" => Len(path) = step
    /\ pc \in {"attempt", "http"} => Len(path) = step - 1
    /\ pc = "resolve" => /\ Len(path) = step /\ path[step] = Executed
                         /\ attempt < NodeRetries

(* The current node is the entry, or the last node executed leads to it.   *)
LeadsTo(from, to) ==
    IF from.failed = NodeRetries
    THEN from.node \in DOMAIN onError /\ to = onError[from.node]
    ELSE /\ from.failed < NodeRetries
         /\ \/ from.node \in conditional
            \/ from.node \in DOMAIN linear /\ to = linear[from.node]
            \/ from.node \notin DOMAIN linear /\ to = END

Arrived ==
    pc \in {"loop", "attempt", "http"} =>
        IF path = <<>> THEN current = entry ELSE LeadsTo(path[Len(path)], current)

(* Attempts that wrote to the state are of steps begun, and a remote node  *)
(* that is still being tried has written nothing.                          *)
Written ==
    \A w \in state :
        /\ w[1] <= step
        /\ pc \in {"attempt", "http"} /\ current \in Remote => w[1] < step

(* A node is still open only if setup() has come to it and shutdown() not. *)
StillOpen ==
    /\ index \in Nat
    /\ pc \in {"setup", "shutdown"} => index >= 1
    /\ pc = "building" => opened = {}
    /\ pc = "shutdown" => opened \subseteq {nodes[k] : k \in index..Len(nodes)}
    /\ pc = "over" => opened = {}

IInv ==
    /\ TypeOK /\ path \in Seq(Step)
    /\ NotBegun /\ Walking /\ Arrived /\ Written /\ StillOpen
    /\ FollowsGraph /\ RemoteAllOrNothing /\ EndedAtEnd

LEMMA InitInv == Init => IInv
<1> SUFFICES ASSUME Init PROVE IInv
  OBVIOUS
<1>0. nodes = <<>> /\ linear = <<>> /\ onError = <<>> /\ path = <<>>
  BY DEF Init
<1>1. /\ DOMAIN nodes = {} /\ DOMAIN linear = {} /\ DOMAIN onError = {} /\ DOMAIN path = {}
      /\ nodes \in Seq(Names) /\ path \in Seq(Step)
  BY <1>0
<1>2. Registered = {} /\ IsInjective(nodes)
  BY <1>1 DEF Registered, ToSet, IsInjective
<1>3. TypeOK
  <2>1. step \in 0..MaxSteps /\ attempt \in 0..NodeRetries /\ post \in 0..(HttpRetries + 1)
    <3>1. step = 0 /\ attempt = 0 /\ post = 0
      BY DEF Init
    <3> QED
      BY <3>1, Bounds
  <2> QED
    BY <1>1, <1>2, <2>1 DEF Init, TypeOK, Targets, NoEntry
<1>4. NotBegun /\ Walking /\ Arrived /\ Written /\ StillOpen
  BY DEF Init, NotBegun, Walking, Arrived, Written, StillOpen
<1>5. FollowsGraph /\ RemoteAllOrNothing /\ EndedAtEnd
  <2>1. pc = "building" /\ path = <<>> /\ Len(path) = 0 /\ state = {} /\ result = ""
    BY <1>0 DEF Init
  <2>2. FollowsGraph
    <3>1. 1..(Len(path) - 1) = {}
      BY <1>0
    <3> QED
      BY <2>1, <3>1 DEF FollowsGraph
  <2>3. RemoteAllOrNothing /\ EndedAtEnd
    BY <2>1 DEF RemoteAllOrNothing, EndedAtEnd
  <2> QED
    BY <2>2, <2>3
<1> QED
  BY <1>1, <1>3, <1>4, <1>5 DEF IInv

-----------------------------------------------------------------------------
(* The names of a graph to which a node is added.                          *)
LEMMA NodeAdded ==
    ASSUME nodes \in Seq(Names), IsInjective(nodes), NEW n \in Names \ Registered,
           nodes' = Append(nodes, n)
    PROVE  /\ nodes' \in Seq(Names) /\ IsInjective(nodes')
           /\ Registered' = Registered \cup {n}
<1>1. /\ nodes' \in Seq(Names) /\ Len(nodes') = Len(nodes) + 1 /\ nodes'[Len(nodes) + 1] = n
      /\ \A k \in 1..Len(nodes) : nodes'[k] = nodes[k]
      /\ Len(nodes) \in Nat
  OBVIOUS
<1>2. DOMAIN nodes = 1..Len(nodes) /\ DOMAIN nodes' = 1..(Len(nodes) + 1)
  BY <1>1
<1>3. \A k \in DOMAIN nodes : nodes[k] # n
  BY DEF Registered, ToSet
<1>4. IsInjective(nodes')
  BY <1>1, <1>2, <1>3 DEF IsInjective
<1>5. Registered' = Registered \cup {n}
  BY <1>1, <1>2 DEF Registered, ToSet
<1> QED
  BY <1>1, <1>4, <1>5

(* While the graph is built nothing else is there.                         *)
LEMMA BuildKeeps ==
    ASSUME IInv, Build
    PROVE  IInv'
<1>1. /\ pc = "building" /\ UNCHANGED <<pc, index, opened, walk, result>>
  BY DEF Build, AddNode, AddEdge, AddConditionalEdge, AddErrorEdge, SetEntryPoint, Building
<1>2. /\ opened = {} /\ path = <<>> /\ state = {} /\ current = END /\ result = ""
  BY <1>1 DEF IInv, NotBegun, StillOpen
<1>3. (NotBegun /\ Walking /\ Arrived /\ Written /\ StillOpen)'
  BY <1>1, <1>2 DEF IInv, walk, NotBegun, Walking, Arrived, Written, StillOpen
<1>4. (FollowsGraph /\ RemoteAllOrNothing /\ EndedAtEnd)'
  <2>1. pc' = "building" /\ path' = <<>> /\ Len(path') = 0 /\ state' = {} /\ result' = ""
    BY <1>1, <1>2 DEF walk
  <2>2. FollowsGraph'
    <3>0. path' = <<>>
      BY <2>1
    <3>1. 1..(Len(path') - 1) = {}
      BY <3>0
    <3> QED
      BY <2>1, <3>1 DEF FollowsGraph
  <2>3. (RemoteAllOrNothing /\ EndedAtEnd)'
    BY <2>1 DEF RemoteAllOrNothing, EndedAtEnd
  <2> QED
    BY <2>2, <2>3
<1>5. (path \in Seq(Step))'
  BY <1>1 DEF IInv, walk
<1>6. TypeOK'
  <2> USE DEF IInv, TypeOK, Targets
  <2>1. CASE AddNode
    <3>1. PICK n \in Names \ Registered : nodes' = Append(nodes, n)
      BY <2>1 DEF AddNode
    <3>2. /\ nodes' \in Seq(Names) /\ IsInjective(nodes')
          /\ Registered' = Registered \cup {n}
      BY <3>1, NodeAdded
    <3> QED
      BY <1>1, <1>2, <2>1, <3>2 DEF AddNode, walk
  <2>2. CASE AddEdge
    <3>1. PICK n \in Registered, t \in Targets : linear' = Put(linear, n, t)
      BY <2>2 DEF AddEdge
    <3>2. /\ DOMAIN linear' = DOMAIN linear \cup {n}
          /\ \A m \in DOMAIN linear' : linear'[m] \in {t, linear[m]}
          /\ linear'[n] = t
      BY <3>1 DEF Put
    <3>3. \A m \in DOMAIN linear' : linear'[m] \in Targets
      BY <3>1, <3>2
    <3>4. Registered' = Registered
      BY <2>2 DEF AddEdge, Registered
    <3> QED
      BY <1>1, <1>2, <2>2, <3>2, <3>3, <3>4 DEF AddEdge, walk
  <2>3. CASE AddConditionalEdge
    BY <1>1, <1>2, <2>3 DEF AddConditionalEdge, walk, Registered
  <2>4. CASE AddErrorEdge
    <3>1. PICK n, t \in Registered : onError' = Put(onError, n, t)
      BY <2>4 DEF AddErrorEdge
    <3>2. /\ DOMAIN onError' = DOMAIN onError \cup {n}
          /\ \A m \in DOMAIN onError' : onError'[m] \in {t, onError[m]}
          /\ onError'[n] = t
      BY <3>1 DEF Put
    <3>3. \A m \in DOMAIN onError' : onError'[m] \in Registered
      BY <3>1, <3>2
    <3>4. Registered' = Registered
      BY <2>4 DEF AddErrorEdge, Registered
    <3> QED
      BY <1>1, <1>2, <2>4, <3>2, <3>3, <3>4 DEF AddErrorEdge, walk
  <2>5. CASE SetEntryPoint
    BY <1>1, <1>2, <2>5 DEF SetEntryPoint, walk, Registered
  <2> QED
    BY <2>1, <2>2, <2>3, <2>4, <2>5 DEF Build
<1> QED
  BY <1>3, <1>4, <1>5, <1>6 DEF IInv

-----------------------------------------------------------------------------
(* While the workflow runs its graph stays as it was built.                *)
LEMMA GraphStays ==
    ASSUME UNCHANGED graph
    PROVE  /\ nodes' = nodes /\ linear' = linear /\ conditional' = conditional
           /\ onError' = onError /\ entry' = entry
           /\ Registered' = Registered /\ Targets' = Targets /\ Valid' = Valid
BY DEF graph, Registered, Targets, Valid, NoEntry

LEMMA ExecuteKeepsGraph == ASSUME Execute PROVE UNCHANGED graph
BY DEF Execute, SetUpNode, Validate, BeginStep, ReachEnd, Exceed, RunLocal, CallRemote,
       Post, PostsExhausted, AttemptsExhausted, Resolve, ShutDownNode, Return, Succeed, Fail

LEMMA NodesAreNames ==
    ASSUME TypeOK
    PROVE  /\ Registered \subseteq Names /\ END \notin Registered
           /\ Registered = {nodes[k] : k \in 1..Len(nodes)}
<1>1. nodes \in Seq(Names) /\ DOMAIN nodes = 1..Len(nodes)
  BY DEF TypeOK
<1>2. \A k \in 1..Len(nodes) : nodes[k] \in Names
  BY <1>1
<1> QED
  BY <1>1, <1>2, WorkflowAssumption DEF Registered, ToSet

LEMMA StepTypes ==
    ASSUME IInv, Execute
    PROVE  TypeOK' /\ path' \in Seq(Step)
<1> USE Bounds DEF IInv, TypeOK
<1>0. /\ nodes' = nodes /\ linear' = linear /\ conditional' = conditional
      /\ onError' = onError /\ entry' = entry
      /\ Registered' = Registered /\ Targets' = Targets
  BY ExecuteKeepsGraph, GraphStays
<1>1. ASSUME NEW s \in Seq(Step), NEW k \in DOMAIN s PROVE s[k] \in [node : Names, failed : 0..NodeRetries]
  <2>1. s[k] \in Step
    OBVIOUS
  <2> QED
    BY <2>1 DEF Step
<1>2. pc \in {"attempt", "http"} => Executed \in Step /\ Append(path, Executed) \in Seq(Step)
  BY NodesAreNames DEF Executed, Step, Walking
<1>3. pc \in {"attempt", "http"} /\ attempt < NodeRetries =>
          <<step, attempt + 1>> \in (1..MaxSteps) \X (1..NodeRetries)
  BY DEF Walking
<1>4. CASE SetUpNode
  <2>1. index \in 1..Len(nodes)
    <3>0. Len(nodes) \in Nat
      OBVIOUS
    <3>1. pc = "setup" /\ index <= Len(nodes) /\ Len(nodes) \in Nat
      BY <3>0, <1>4 DEF SetUpNode
    <3>2. index \in Nat /\ index >= 1
      BY <3>1 DEF StillOpen
    <3> QED
      BY <3>1, <3>2
  <2>2. nodes[index] \in Registered
    BY <2>1, NodesAreNames
  <2> QED
    BY <1>0, <1>4, <2>2 DEF SetUpNode, Stop, walk
<1>5. CASE Validate
  BY <1>0, <1>5 DEF Validate, Stop
<1>6. CASE BeginStep
  BY <1>0, <1>6 DEF BeginStep
<1>7. CASE ReachEnd
  BY <1>0, <1>7 DEF ReachEnd, Stop, walk
<1>8. CASE Exceed
  BY <1>0, <1>8 DEF Exceed, Stop, walk
<1>9. CASE RunLocal
  <2>0. pc = "attempt" /\ attempt < NodeRetries /\ UNCHANGED <<opened, current, step, post>>
    BY <1>9 DEF RunLocal, Succeed, Fail
  <2>1. path' \in Seq(Step)
    BY <1>2, <1>9, <2>0 DEF RunLocal, Succeed, Fail
  <2>2. state' \subseteq (1..MaxSteps) \X (1..NodeRetries)
    BY <1>3, <1>9, <2>0 DEF RunLocal, Succeed, Fail
  <2>3. attempt' \in 0..NodeRetries /\ pc' \in {"attempt", "resolve"}
    BY <1>9, <2>0 DEF RunLocal, Succeed, Fail
  <2> QED
    BY <1>0, <1>1, <2>0, <2>1, <2>2, <2>3
<1>10. CASE CallRemote
  BY <1>0, <1>10 DEF CallRemote
<1>11. CASE Post
  <2>0. pc = "http" /\ attempt < NodeRetries /\ UNCHANGED <<opened, current, step>>
    BY <1>11 DEF Post, Succeed, Fail, Walking
  <2>1. path' \in Seq(Step)
    BY <1>2, <1>11, <2>0 DEF Post, Succeed, Fail
  <2>2. state' \subseteq (1..MaxSteps) \X (1..NodeRetries)
    BY <1>3, <1>11, <2>0 DEF Post, Succeed, Fail
  <2>3. /\ attempt' \in 0..NodeRetries /\ pc' \in {"attempt", "http", "resolve"}
        /\ post' \in 0..(HttpRetries + 1)
    BY <1>11, <2>0 DEF Post, Succeed, Fail
  <2> QED
    BY <1>0, <1>1, <2>0, <2>1, <2>2, <2>3
<1>12. CASE PostsExhausted
  BY <1>0, <1>12 DEF PostsExhausted, Fail, Walking
<1>13. CASE AttemptsExhausted
  <2>1. path' \in {path, Append(path, Executed)}
    BY <1>13 DEF AttemptsExhausted
  <2>2. current' \in Targets
    BY <1>13 DEF AttemptsExhausted, Targets
  <2>3. pc' \in {"loop", "shutdown"} /\ UNCHANGED <<opened, step, attempt, post, state>>
    BY <1>13 DEF AttemptsExhausted, Stop
  <2>4. path' \in Seq(Step)
    BY <1>2, <1>13, <2>1 DEF AttemptsExhausted
  <2> QED
    BY <1>0, <1>1, <2>2, <2>3, <2>4
<1>14. CASE Resolve
  <2>1. current' \in Targets
    BY <1>14 DEF Resolve
  <2>2. pc' \in {"loop", "shutdown"} /\ UNCHANGED <<opened, step, attempt, post, path, state>>
    BY <1>14 DEF Resolve, Stop
  <2> QED
    BY <1>0, <2>1, <2>2
<1>15. CASE ShutDownNode
  BY <1>0, <1>15 DEF ShutDownNode, walk
<1>16. CASE Return
  BY <1>0, <1>16 DEF Return, walk
<1> QED
  BY <1>4, <1>5, <1>6, <1>7, <1>8, <1>9, <1>10, <1>11, <1>12, <1>13, <1>14, <1>15, <1>16
     DEF Execute

-----------------------------------------------------------------------------
(* A step that ends the walk, however, leaves everything else as it was.   *)
LEMMA Stops ==
    ASSUME IInv, NEW why, why # "ended" \/ (pc = "loop" /\ step < MaxSteps /\ current = END),
           Stop(why), pc \in {"setup", "loop", "attempt", "resolve"},
           UNCHANGED <<graph, step, attempt, path, state>>, opened' \subseteq Registered
    PROVE  /\ NotBegun' /\ Walking' /\ Arrived' /\ Written' /\ StillOpen'
           /\ FollowsGraph' /\ RemoteAllOrNothing' /\ EndedAtEnd'
<1>1. pc' = "shutdown" /\ index' = 1 /\ result' = why
  BY DEF Stop
<1>2. /\ nodes' = nodes /\ linear' = linear /\ conditional' = conditional
      /\ onError' = onError /\ entry' = entry
  BY GraphStays
<1>3. NotBegun' /\ Walking' /\ Arrived'
  BY <1>1 DEF NotBegun, Walking, Arrived
<1>4. Written'
  BY <1>1 DEF IInv, Written
<1>5. StillOpen'
  <2>1. opened' \subseteq {nodes[k] : k \in 1..Len(nodes)}
    BY NodesAreNames DEF IInv
  <2> QED
    BY <1>1, <1>2, <2>1 DEF StillOpen
<1>6. FollowsGraph' /\ RemoteAllOrNothing'
  BY <1>1, <1>2 DEF IInv, FollowsGraph, RemoteAllOrNothing
<1>7. EndedAtEnd'
  <2>1. CASE why # "ended"
    BY <1>1, <2>1 DEF EndedAtEnd
  <2>2. CASE pc = "loop" /\ step < MaxSteps /\ current = END
    <3>1. Valid /\ Len(path) = step /\ Arrived
      BY <2>2 DEF IInv, Walking
    <3>2. path # <<>>
      BY <2>2, <3>1 DEF Arrived, Valid, NoEntry
    <3>3. LeadsTo(path[Len(path)], END)
      BY <2>2, <3>1, <3>2 DEF Arrived
    <3>4. \A n \in DOMAIN onError : onError[n] # END
      BY NodesAreNames DEF IInv, TypeOK
    <3>5. LET last == path[Len(path)]
          IN  /\ last.failed < NodeRetries
              /\ \/ last.node \in conditional
                 \/ last.node \notin DOMAIN linear
                 \/ linear[last.node] = END
      BY <3>3, <3>4 DEF LeadsTo
    <3> QED
      BY <1>2, <2>2, <3>1, <3>2, <3>5 DEF EndedAtEnd
  <2> QED
    BY <2>1, <2>2
<1> QED
  BY <1>3, <1>4, <1>5, <1>6, <1>7

(* A step of the walk that executes no node to its end.                    *)
LEMMA PathStays ==
    ASSUME IInv, Execute, pc' \notin {"shutdown", "over"}, UNCHANGED <<path, state>>,
           result' = result, pc \notin {"shutdown", "over"}, Valid
    PROVE  RemoteAllOrNothing' /\ EndedAtEnd' /\ FollowsGraph'
<1>1. /\ nodes' = nodes /\ linear' = linear /\ conditional' = conditional
      /\ onError' = onError /\ entry' = entry /\ Registered' = Registered /\ Valid'
  BY ExecuteKeepsGraph, GraphStays
<1>2. current' \in Registered' \cup {END}
  BY StepTypes DEF TypeOK, Targets
<1>3. RemoteAllOrNothing'
  BY DEF IInv, RemoteAllOrNothing
<1>4. EndedAtEnd'
  BY DEF IInv, EndedAtEnd, NotBegun
<1>5. FollowsGraph'
  BY <1>1, <1>2 DEF IInv, FollowsGraph
<1> QED
  BY <1>3, <1>4, <1>5

(* A node is executed to its end, or given up for an error edge: the path  *)
(* grows by it, and it stands where the walk had arrived.                  *)
LEMMA Records ==
    ASSUME IInv, Execute, pc \in {"attempt", "http"}, path' = Append(path, Executed),
           pc' \in {"resolve", "loop"}, step' = step
    PROVE  /\ Len(path') = step /\ path'[step] = Executed /\ step \in Nat
           /\ \A k \in 1..(step - 1) : path'[k] = path[k]
           /\ FollowsGraph'
<1>1. /\ path \in Seq(Step) /\ Len(path) = step - 1 /\ step \in Nat /\ step >= 1
      /\ current \in Registered /\ Valid
  BY Bounds DEF IInv, Walking, TypeOK
<1>2. Executed \in Step
  BY <1>1, NodesAreNames DEF IInv, TypeOK, Executed, Step
<1>3. /\ Len(path') = step /\ path'[step] = Executed
      /\ \A k \in 1..(step - 1) : path'[k] = path[k]
  BY <1>1, <1>2
<1>4. /\ nodes' = nodes /\ linear' = linear /\ conditional' = conditional
      /\ onError' = onError /\ entry' = entry /\ Registered' = Registered /\ Valid'
  BY <1>1, ExecuteKeepsGraph, GraphStays
<1>5. current' \in Registered' \cup {END}
  BY StepTypes DEF TypeOK, Targets
<1>6. path' # <<>> => path'[1].node = entry'
  <2>1. CASE path = <<>>
    <3>1. current = entry /\ step = 1
      BY <1>1, <2>1 DEF IInv, Arrived
    <3> QED
      BY <1>3, <1>4, <3>1 DEF Executed
  <2>2. CASE path # <<>>
    <3>1. 1 \in 1..(step - 1)
      BY <1>1, <2>2
    <3> QED
      BY <1>3, <1>4, <2>2, <3>1 DEF IInv, FollowsGraph
  <2> QED
    BY <2>1, <2>2
<1>7. ASSUME NEW k \in 1..(Len(path') - 1)
      PROVE  LET from == path'[k]
                 to == path'[k + 1].node
             IN IF from.failed = NodeRetries
                THEN from.node \in DOMAIN onError /\ to = onError[from.node]
                ELSE /\ from.failed < NodeRetries
                     /\ \/ from.node \in conditional
                        \/ from.node \in DOMAIN linear /\ to = linear[from.node]
  <2>1. k \in 1..(step - 1) /\ path'[k] = path[k]
    BY <1>1, <1>3
  <2>2. CASE k < step - 1
    <3>1. k \in 1..(Len(path) - 1) /\ k + 1 \in 1..(step - 1)
      BY <1>1, <2>1, <2>2
    <3>2. path'[k + 1] = path[k + 1]
      BY <1>3, <3>1
    <3> QED
      BY <2>1, <3>1, <3>2 DEF IInv, FollowsGraph
  <2>3. CASE k = step - 1
    <3>1. path # <<>> /\ k = Len(path) /\ path'[k + 1] = Executed
      BY <1>1, <1>3, <2>1, <2>3
    <3>2. LeadsTo(path[k], current)
      BY <3>1 DEF IInv, Arrived
    <3>3. current # END
      BY <1>1, NodesAreNames DEF IInv
    <3> QED
      BY <2>1, <3>1, <3>2, <3>3 DEF LeadsTo, Executed
  <2> QED
    BY <1>1, <2>1, <2>2, <2>3
<1> QED
  BY <1>1, <1>3, <1>4, <1>5, <1>6, <1>7 DEF FollowsGraph

(* An attempt succeeds, at a local node or in an answer that validates.    *)
LEMMA Succeeds ==
    ASSUME IInv, Execute, Succeed, pc \in {"attempt", "http"}, attempt < NodeRetries
    PROVE  /\ NotBegun' /\ Walking' /\ Arrived' /\ Written' /\ StillOpen'
           /\ FollowsGraph' /\ RemoteAllOrNothing' /\ EndedAtEnd'
<1>1. /\ pc' = "resolve" /\ path' = Append(path, Executed)
      /\ state' = state \cup {<<step, attempt + 1>>}
      /\ current' = current /\ step' = step /\ attempt' = attempt
      /\ result' = result /\ index' = index /\ opened' = opened
  BY DEF Succeed
<1>2. /\ Len(path') = step /\ path'[step] = Executed /\ step \in Nat
      /\ \A k \in 1..(step - 1) : path'[k] = path[k]
      /\ FollowsGraph'
  BY <1>1, Records
<1>3. /\ Valid /\ current \in Registered /\ step >= 1 /\ Len(path) = step - 1
      /\ path \in Seq(Step)
  BY DEF IInv, Walking
<1>4. Registered' = Registered /\ Valid' = Valid
  BY ExecuteKeepsGraph, GraphStays
<1>5. NotBegun' /\ Arrived' /\ StillOpen'
  BY <1>1 DEF IInv, NotBegun, Arrived, StillOpen
<1>6. Walking'
  BY <1>1, <1>2, <1>3, <1>4 DEF Walking, Executed
<1>7. Written'
  <2>1. ASSUME NEW w \in state' PROVE w[1] <= step
    BY <1>1, <1>2 DEF IInv, Written
  <2> QED
    BY <1>1, <2>1 DEF Written
<1>8. RemoteAllOrNothing'
  <2> SUFFICES ASSUME NEW w \in state', w[1] \in DOMAIN path', path'[w[1]].node \in Remote
               PROVE  w[2] = path'[w[1]].failed + 1
    BY DEF RemoteAllOrNothing
  <2>1. CASE w \notin state
    <3>1. w = <<step, attempt + 1>>
      BY <1>1, <2>1
    <3> QED
      BY <1>2, <3>1 DEF Executed
  <2>2. CASE w \in state
    <3>1. DOMAIN path' = 1..step
      <4>1. path' \in Seq(Step)
        BY StepTypes
      <4> QED
        BY <1>2, <4>1
    <3>2. w[1] # step
      BY <1>2, <2>2 DEF IInv, Written, Executed
    <3>3. w[1] \in 1..(step - 1)
      BY <1>2, <3>1, <3>2
    <3>4. w[1] \in DOMAIN path /\ path'[w[1]] = path[w[1]]
      BY <1>2, <1>3, <3>3
    <3> QED
      BY <2>2, <3>4 DEF IInv, RemoteAllOrNothing
  <2> QED
    BY <2>1, <2>2
<1>9. EndedAtEnd'
  BY <1>1 DEF IInv, EndedAtEnd, NotBegun
<1> QED
  BY <1>2, <1>5, <1>6, <1>7, <1>8, <1>9

(* An attempt fails: at a local node it may have written, at a remote one  *)
(* it has not.                                                             *)
LEMMA Fails ==
    ASSUME IInv, Execute, Fail, pc \in {"attempt", "http"},
           state' = state \/ (current \notin Remote
                                  /\ state' = state \cup {<<step, attempt + 1>>})
    PROVE  /\ NotBegun' /\ Walking' /\ Arrived' /\ Written' /\ StillOpen'
           /\ FollowsGraph' /\ RemoteAllOrNothing' /\ EndedAtEnd'
<1>1. /\ pc' = "attempt" /\ UNCHANGED <<graph, index, opened, current, step, path, result>>
  BY DEF Fail
<1>2. /\ linear' = linear /\ conditional' = conditional /\ onError' = onError
      /\ entry' = entry /\ Registered' = Registered /\ Valid' = Valid
  BY ExecuteKeepsGraph, GraphStays
<1>3. Valid /\ current \in Registered /\ step >= 1 /\ Len(path) = step - 1 /\ step \in Nat
  BY Bounds DEF IInv, Walking, TypeOK
<1>4. NotBegun' /\ StillOpen' /\ EndedAtEnd'
  BY <1>1 DEF IInv, NotBegun, StillOpen, EndedAtEnd
<1>5. Walking'
  BY <1>1, <1>2, <1>3 DEF Walking
<1>6. Arrived'
  BY <1>1, <1>2 DEF IInv, Arrived, LeadsTo
<1>7. Written'
  <2>1. ASSUME NEW w \in state' PROVE w[1] <= step /\ (current \in Remote => w[1] < step)
    BY <1>3 DEF IInv, Written
  <2> QED
    BY <1>1, <2>1 DEF Written
<1>8. RemoteAllOrNothing'
  <2>1. ASSUME NEW w \in state', w[1] \in DOMAIN path PROVE w \in state
    <3>1. path \in Seq(Step) /\ DOMAIN path = 1..Len(path)
      BY DEF IInv
    <3>2. w[1] # step
      BY <1>3, <2>1, <3>1
    <3> QED
      BY <3>2
  <2> QED
    BY <1>1, <2>1 DEF IInv, RemoteAllOrNothing
<1>9. FollowsGraph'
  BY <1>1, <1>2, <1>3 DEF IInv, FollowsGraph
<1> QED
  BY <1>4, <1>5, <1>6, <1>7, <1>8, <1>9

(* While nodes are set up or shut down, nothing has been or is executed.   *)
LEMMA SetUpKeeps ==
    ASSUME IInv, Execute, SetUpNode
    PROVE  IInv'
<1>1. TypeOK' /\ path' \in Seq(Step)
  BY StepTypes
<1>2. UNCHANGED <<step, attempt, path, state, current>> /\ UNCHANGED graph
  BY DEF SetUpNode, walk
<1>3. opened' \subseteq Registered
  BY <1>1, <1>2, GraphStays DEF TypeOK
<1>4. CASE Stop("setup failed")
  <2>1. pc = "setup"
    BY DEF SetUpNode
  <2> QED
    BY <1>1, <1>2, <1>3, <1>4, <2>1, Stops DEF IInv
<1>5. CASE index' = index + 1 /\ UNCHANGED <<pc, result>>
  <2>1. pc = "setup" /\ pc' = "setup" /\ result' = result /\ path = <<>> /\ state = {}
    BY <1>5 DEF SetUpNode, IInv, NotBegun
  <2>2. NotBegun' /\ Walking' /\ Arrived' /\ Written'
    BY <1>2, <2>1 DEF IInv, NotBegun, Walking, Arrived, Written
  <2>7. StillOpen'
    BY <1>5, <2>1 DEF IInv, StillOpen
  <2>3. path' = <<>> /\ state' = {} /\ result' = ""
    BY <1>2, <2>1 DEF IInv, NotBegun
  <2>4. RemoteAllOrNothing' /\ EndedAtEnd'
    BY <2>3 DEF RemoteAllOrNothing, EndedAtEnd
  <2>5. 1..(Len(path') - 1) = {}
    <3>1. path' = <<>>
      BY <2>3
    <3> QED
      BY <3>1
  <2>6. FollowsGraph'
    BY <2>1, <2>3, <2>5 DEF FollowsGraph
  <2> QED
    BY <1>1, <2>7, <2>2, <2>4, <2>6 DEF IInv
<1> QED
  BY <1>4, <1>5 DEF SetUpNode

LEMMA ShutDownKeeps ==
    ASSUME IInv, Execute, ShutDownNode \/ Return
    PROVE  IInv'
<1>1. TypeOK' /\ path' \in Seq(Step)
  BY StepTypes
<1>2. /\ UNCHANGED <<graph, step, attempt, path, state, current, result>>
      /\ pc = "shutdown" /\ pc' \in {"shutdown", "over"}
  BY DEF ShutDownNode, Return, walk
<1>3. /\ nodes' = nodes /\ linear' = linear /\ conditional' = conditional
      /\ onError' = onError /\ entry' = entry
  BY <1>2, GraphStays
<1>4. NotBegun' /\ Walking' /\ Arrived' /\ Written'
  BY <1>2 DEF IInv, NotBegun, Walking, Arrived, Written
<1>5. FollowsGraph' /\ RemoteAllOrNothing' /\ EndedAtEnd'
  BY <1>2, <1>3 DEF IInv, FollowsGraph, RemoteAllOrNothing, EndedAtEnd
<1>6. Len(nodes) \in Nat
  BY DEF IInv, TypeOK
<1>7. index \in Nat /\ index >= 1 /\ opened \subseteq {nodes[k] : k \in index..Len(nodes)}
  BY <1>2 DEF IInv, StillOpen
<1>8. StillOpen'
  <2>1. CASE ShutDownNode
    <3>1. /\ index <= Len(nodes) /\ opened' = opened \ {nodes[index]}
          /\ index' = index + 1 /\ pc' = "shutdown"
      BY <1>2, <2>1 DEF ShutDownNode
    <3>2. opened' \subseteq {nodes[k] : k \in (index + 1)..Len(nodes)}
      <4>1. ASSUME NEW n \in opened' PROVE \E k \in (index + 1)..Len(nodes) : n = nodes[k]
        <5>1. PICK k \in index..Len(nodes) : n = nodes[k]
          BY <1>7, <3>1
        <5>2. k # index
          BY <3>1, <5>1
        <5> QED
          BY <1>6, <1>7, <5>1, <5>2
      <4> QED
        BY <4>1
    <3> QED
      BY <1>3, <1>7, <3>1, <3>2 DEF StillOpen
  <2>2. CASE Return
    <3>1. index > Len(nodes) /\ opened' = opened /\ index' = index /\ pc' = "over"
      BY <2>2 DEF Return
    <3>2. index..Len(nodes) = {}
      BY <1>6, <1>7, <3>1
    <3> QED
      BY <1>7, <3>1, <3>2 DEF StillOpen
  <2> QED
    BY <2>1, <2>2
<1> QED
  BY <1>1, <1>4, <1>5, <1>8 DEF IInv

(* A step that chooses or begins with a node.                              *)
LEMMA ChoiceKeeps ==
    ASSUME IInv, Execute, Validate \/ BeginStep \/ ReachEnd \/ Exceed \/ CallRemote \/ Resolve
    PROVE  IInv'
<1>1. TypeOK' /\ path' \in Seq(Step) /\ UNCHANGED graph
  BY StepTypes, ExecuteKeepsGraph
<1>2. /\ linear' = linear /\ conditional' = conditional /\ onError' = onError
      /\ entry' = entry /\ Registered' = Registered /\ Valid' = Valid
  BY <1>1, GraphStays
<1>3. UNCHANGED <<opened, path, state>> /\ opened' \subseteq Registered
  BY DEF IInv, TypeOK, Validate, BeginStep, ReachEnd, Exceed, CallRemote, Resolve, walk
<1> DEFINE Rest == /\ NotBegun' /\ Walking' /\ Arrived' /\ Written' /\ StillOpen'
                   /\ FollowsGraph' /\ RemoteAllOrNothing' /\ EndedAtEnd'
<1> SUFFICES Rest
  BY <1>1 DEF IInv
<1>4. CASE Validate
  <2>1. pc = "setup" /\ UNCHANGED <<step, attempt>>
    BY <1>4 DEF Validate
  <2>2. CASE Stop("invalid")
    BY <1>1, <1>3, <2>1, <2>2, Stops
  <2>3. CASE Valid /\ current' = entry /\ pc' = "loop" /\ UNCHANGED <<index, result>>
    <3>1. path = <<>> /\ state = {} /\ step = 0 /\ result = ""
      BY <2>1 DEF IInv, NotBegun
    <3>2. NotBegun' /\ Walking' /\ Arrived' /\ Written' /\ StillOpen'
      BY <1>2, <1>3, <2>1, <2>3, <3>1
         DEF IInv, NotBegun, Walking, Arrived, Written, StillOpen
    <3> QED
      BY <1>3, <2>1, <2>3, <3>2, PathStays
  <2> QED
    BY <1>4, <2>2, <2>3 DEF Validate
<1>5. CASE BeginStep
  <2>1. /\ pc = "loop" /\ current # END /\ step' = step + 1 /\ attempt' = 0 /\ pc' = "attempt"
        /\ UNCHANGED <<index, current, result>>
    BY <1>5 DEF BeginStep
  <2>2. Valid /\ Len(path) = step /\ current \in Registered /\ step \in Nat
    BY <2>1, Bounds DEF IInv, Walking, TypeOK, Targets
  <2>3. NotBegun' /\ StillOpen'
    BY <1>3, <2>1 DEF IInv, NotBegun, StillOpen
  <2>4. Walking'
    BY <1>2, <1>3, <2>1, <2>2 DEF Walking
  <2>5. Arrived'
    BY <1>2, <1>3, <2>1 DEF IInv, Arrived, LeadsTo
  <2>6. Written'
    <3>1. ASSUME NEW w \in state PROVE w[1] <= step /\ w[1] \in Nat
      BY <3>1, Bounds DEF IInv, Written, TypeOK
    <3>2. ASSUME NEW w \in state PROVE w[1] < step + 1
      BY <2>2, <3>1
    <3> QED
      BY <1>3, <2>1, <2>2, <3>1, <3>2 DEF Written
  <2> QED
    BY <1>3, <2>1, <2>2, <2>3, <2>4, <2>5, <2>6, PathStays
<1>6. CASE ReachEnd
  BY <1>1, <1>3, <1>6, Stops DEF ReachEnd, walk
<1>7. CASE Exceed
  BY <1>1, <1>3, <1>7, Stops DEF Exceed, walk
<1>8. CASE CallRemote
  <2>1. /\ pc = "attempt" /\ attempt < NodeRetries /\ current \in Remote /\ pc' = "http"
        /\ UNCHANGED <<index, current, step, attempt, result>>
    BY <1>8 DEF CallRemote
  <2>2. NotBegun' /\ Walking' /\ StillOpen' /\ Valid
    BY <1>2, <1>3, <2>1 DEF IInv, NotBegun, Walking, StillOpen
  <2>3. Arrived' /\ Written'
    BY <1>2, <1>3, <2>1 DEF IInv, Arrived, LeadsTo, Written
  <2> QED
    BY <1>3, <2>1, <2>2, <2>3, PathStays
<1>9. CASE Resolve
  <2>1. pc = "resolve" /\ UNCHANGED <<step, attempt>>
    BY <1>9 DEF Resolve
  <2>2. CASE Stop("edge failed")
    BY <1>1, <1>3, <2>1, <2>2, Stops
  <2>3. CASE ~ Stop("edge failed")
    <3>1. /\ pc' = "loop" /\ UNCHANGED <<index, result>>
          /\ \/ current \in conditional
             \/ current \in DOMAIN linear /\ current' = linear[current]
             \/ current \notin DOMAIN linear /\ current' = END
      BY <1>9, <2>3 DEF Resolve
    <3>2. /\ Valid /\ Len(path) = step /\ path[step] = Executed /\ attempt < NodeRetries
          /\ step \in Nat /\ step >= 1 /\ attempt \in Nat
      BY <2>1, Bounds DEF IInv, Walking, TypeOK
    <3>3. path # <<>>
      BY <3>2
    <3>4. NotBegun' /\ Walking' /\ Written' /\ StillOpen'
      BY <1>2, <1>3, <2>1, <3>1, <3>2 DEF IInv, NotBegun, Walking, Written, StillOpen
    <3>5. Arrived'
      <4>1. LeadsTo(path[Len(path)], current')
        BY <3>1, <3>2, Bounds DEF LeadsTo, Executed
      <4> QED
        BY <1>2, <1>3, <3>1, <3>3, <4>1 DEF Arrived, LeadsTo
    <3> QED
      BY <1>3, <2>1, <3>1, <3>2, <3>4, <3>5, PathStays
  <2> QED
    BY <2>2, <2>3
<1> QED
  BY <1>4, <1>5, <1>6, <1>7, <1>8, <1>9

(* A node is tried, and given up when all its attempts failed.             *)
LEMMA AttemptKeeps ==
    ASSUME IInv, Execute, RunLocal \/ Post \/ PostsExhausted \/ AttemptsExhausted
    PROVE  IInv'
<1>1. TypeOK' /\ path' \in Seq(Step) /\ UNCHANGED graph
  BY StepTypes, ExecuteKeepsGraph
<1>2. /\ linear' = linear /\ conditional' = conditional /\ onError' = onError
      /\ entry' = entry /\ Registered' = Registered /\ Valid' = Valid
  BY <1>1, GraphStays
<1> DEFINE Rest == /\ NotBegun' /\ Walking' /\ Arrived' /\ Written' /\ StillOpen'
                   /\ FollowsGraph' /\ RemoteAllOrNothing' /\ EndedAtEnd'
<1> SUFFICES Rest
  BY <1>1 DEF IInv
<1>3. CASE RunLocal
  BY <1>3, Succeeds, Fails DEF RunLocal
<1>4. CASE Post
  <2>1. pc = "http" /\ attempt < NodeRetries /\ Valid
    BY <1>4 DEF Post, IInv, Walking
  <2>2. CASE Succeed
    BY <2>1, <2>2, Succeeds
  <2>3. CASE Fail /\ UNCHANGED state
    BY <2>1, <2>3, Fails
  <2>4. CASE UNCHANGED <<graph, pc, index, opened, current, step, attempt, path, state, result>>
    <3>1. NotBegun' /\ Walking' /\ StillOpen'
      BY <1>2, <2>1, <2>4 DEF IInv, NotBegun, Walking, StillOpen
    <3>2. Arrived' /\ Written'
      BY <1>2, <2>1, <2>4 DEF IInv, Arrived, LeadsTo, Written
    <3> QED
      BY <2>1, <2>4, <3>1, <3>2, PathStays
  <2> QED
    BY <1>4, <2>2, <2>3, <2>4 DEF Post
<1>5. CASE PostsExhausted
  BY <1>5, Fails DEF PostsExhausted
<1>6. CASE AttemptsExhausted
  <2>1. /\ pc = "attempt" /\ attempt = NodeRetries
        /\ UNCHANGED <<graph, opened, step, attempt, post, state>>
    BY <1>6 DEF AttemptsExhausted
  <2>2. CASE ~ (current \in DOMAIN onError /\ NodeRetries > 0)
    <3>1. PICK why \in {"assertion", "node failed"} : Stop(why) /\ UNCHANGED <<path, current>>
      BY <1>6, <2>2 DEF AttemptsExhausted
    <3>2. opened' \subseteq Registered
      BY <2>1 DEF IInv, TypeOK
    <3> QED
      BY <2>1, <3>1, <3>2, Stops
  <2>3. CASE current \in DOMAIN onError /\ NodeRetries > 0
    <3>1. /\ path' = Append(path, Executed) /\ current' = onError[current] /\ pc' = "loop"
          /\ UNCHANGED <<index, result>>
      BY <1>6, <2>3 DEF AttemptsExhausted
    <3>2. /\ Len(path') = step /\ path'[step] = Executed /\ step \in Nat
          /\ \A k \in 1..(step - 1) : path'[k] = path[k]
          /\ FollowsGraph'
      BY <2>1, <3>1, Records
    <3>3. Valid /\ step >= 1 /\ Len(path) = step - 1 /\ path \in Seq(Step)
      BY <2>1 DEF IInv, Walking
    <3>4. NotBegun' /\ StillOpen' /\ EndedAtEnd'
      BY <2>1, <3>1 DEF IInv, NotBegun, StillOpen, EndedAtEnd
    <3>5. Walking' /\ Written'
      BY <1>2, <2>1, <3>1, <3>2, <3>3 DEF IInv, Walking, Written
    <3>6. Arrived'
      <4>1. LeadsTo(path'[Len(path')], current')
        BY <2>1, <2>3, <3>1, <3>2 DEF LeadsTo, Executed
      <4>2. path' # <<>>
        BY <3>2, <3>3
      <4> QED
        BY <1>2, <4>1, <4>2 DEF Arrived, LeadsTo
    <3>7. RemoteAllOrNothing'
      <4> SUFFICES ASSUME NEW w \in state, w[1] \in DOMAIN path', path'[w[1]].node \in Remote
                   PROVE  w[2] = path'[w[1]].failed + 1
        BY <2>1 DEF RemoteAllOrNothing
      <4>1. DOMAIN path' = 1..step
        BY <1>1, <3>2
      <4>2. w[1] # step
        BY <2>1, <3>2 DEF IInv, Written, Executed
      <4>3. w[1] \in 1..(step - 1)
        BY <3>2, <4>1, <4>2
      <4>4. w[1] \in DOMAIN path /\ path'[w[1]] = path[w[1]]
        BY <3>2, <3>3, <4>3
      <4> QED
        BY <4>4 DEF IInv, RemoteAllOrNothing
    <3> QED
      BY <3>2, <3>4, <3>5, <3>6, <3>7
  <2> QED
    BY <2>2, <2>3
<1> QED
  BY <1>3, <1>4, <1>5, <1>6

-----------------------------------------------------------------------------
LEMMA StartKeeps ==
    ASSUME IInv, Start
    PROVE  IInv'
<1>1. /\ pc = "building" /\ pc' = "setup" /\ index' = 1
      /\ UNCHANGED graph /\ UNCHANGED walk /\ opened' = opened /\ result' = result
  BY DEF Start
<1>2. /\ nodes' = nodes /\ linear' = linear /\ conditional' = conditional
      /\ onError' = onError /\ entry' = entry /\ Registered' = Registered /\ Targets' = Targets
      /\ UNCHANGED <<current, step, attempt, post, path, state>>
  BY <1>1, GraphStays DEF walk
<1>3. TypeOK' /\ path' \in Seq(Step)
  BY <1>1, <1>2 DEF IInv, TypeOK
<1>4. NotBegun' /\ Walking' /\ Arrived' /\ Written'
  BY <1>1, <1>2 DEF IInv, NotBegun, Walking, Arrived, Written
<1>5. StillOpen'
  BY <1>1 DEF IInv, StillOpen
<1>6. FollowsGraph' /\ RemoteAllOrNothing' /\ EndedAtEnd'
  BY <1>1, <1>2 DEF IInv, FollowsGraph, RemoteAllOrNothing, EndedAtEnd
<1> QED
  BY <1>3, <1>4, <1>5, <1>6 DEF IInv

LEMMA StepInv == IInv /\ [Next]_vars => IInv'
<1> SUFFICES ASSUME IInv, [Next]_vars PROVE IInv'
  OBVIOUS
<1>1. CASE Build
  BY <1>1, BuildKeeps
<1>2. CASE Start
  BY <1>2, StartKeeps
<1>3. CASE Execute
  BY <1>3, SetUpKeeps, ShutDownKeeps, ChoiceKeeps, AttemptKeeps DEF Execute
<1>4. CASE UNCHANGED vars
  <2>1. /\ UNCHANGED graph /\ UNCHANGED walk
        /\ pc' = pc /\ index' = index /\ opened' = opened /\ result' = result
    BY <1>4 DEF vars
  <2>2. /\ nodes' = nodes /\ linear' = linear /\ conditional' = conditional
        /\ onError' = onError /\ entry' = entry
        /\ Registered' = Registered /\ Targets' = Targets /\ Valid' = Valid
        /\ UNCHANGED <<current, step, attempt, post, path, state>>
    BY <2>1, GraphStays DEF walk
  <2>3. TypeOK' /\ path' \in Seq(Step)
    BY <2>1, <2>2 DEF IInv, TypeOK
  <2>4. NotBegun' /\ Written' /\ StillOpen'
    BY <2>1, <2>2 DEF IInv, NotBegun, Written, StillOpen
  <2>5. Walking' /\ Arrived'
    BY <2>1, <2>2 DEF IInv, Walking, Arrived, LeadsTo, Executed
  <2>6. FollowsGraph' /\ RemoteAllOrNothing' /\ EndedAtEnd'
    BY <2>1, <2>2 DEF IInv, FollowsGraph, RemoteAllOrNothing, EndedAtEnd
  <2> QED
    BY <2>3, <2>4, <2>5, <2>6 DEF IInv
<1> QED
  BY <1>1, <1>2, <1>3, <1>4 DEF Next

(* Whatever graph a program builds and whichever nodes, calls and edges    *)
(* fail, what the runner executes is a path of that graph, its state holds *)
(* of a remote node the accepted answer only, and it ends as "ended" only  *)
(* at a node that succeeded and had nowhere else to go.                    *)
THEOREM WalkAlwaysSound == Spec => []WalkSound
<1>1. IInv => WalkSound
  BY DEF IInv, WalkSound
<1> QED
  BY <1>1, InitInv, StepInv, PTL DEF Spec

(* start() is not over before every node that was set up was shut down.    *)
THEOREM EverythingShutDown == Spec => []AllShutDown
<1>1. IInv => AllShutDown
  BY DEF IInv, StillOpen, AllShutDown
<1> QED
  BY <1>1, InitInv, StepInv, PTL DEF Spec
=============================================================================
