------------------------------ MODULE RunLoop ------------------------------
(***************************************************************************)
(* BaseAgent.run with its backoff, over the two steps this repository has: *)
(*   - the default step, which drains astep_stream and so makes at most    *)
(*     RoundCap model calls, and                                           *)
(*   - CalculusAssistant.step, which calls the model until it asks for no  *)
(*     more tools (`capped` is FALSE).                                     *)
(* Which of them a behaviour runs is chosen at its start.                  *)
(*                                                                         *)
(* Of the history this module keeps what a provider looks at when it       *)
(* accepts or refuses it: the calls of the last assistant message that     *)
(* have no answer.  Nothing is ever put after such a call, because only a  *)
(* model call that succeeds puts a message.  AgentLoop has one step in     *)
(* full.                                                                   *)
(***************************************************************************)
EXTENDS Integers, Sequences, FiniteSets

CONSTANTS
    MaxIterations,   \* config.loop.max_iterations
    RoundCap,        \* astep_stream(max_iterations = 10)
    MayContinue,     \* the step of a subclass may return CONTINUE
    Calls,           \* the indexes of the tool calls in one response
    Initial, Multiplier, Ceiling   \* config.loop.backoff

(* What LoopConfig and BackoffConfig admit, delays in whole seconds. *)
ASSUME LoopConfigAssumption ==
    /\ MaxIterations \in Nat \ {0}
    /\ MayContinue \in BOOLEAN
    /\ RoundCap \in Nat
    /\ Calls \subseteq Nat
    /\ Initial \in Nat \ {0}
    /\ Multiplier \in Nat /\ Multiplier > 1
    /\ Ceiling \in Nat /\ Ceiling >= Initial

VARIABLES
    capped,      \* the step bounds its model calls
    pc,          \* "loop", "calling", "tools", "sleeping" or "returned"
    iteration,   \* steps begun
    rounds,      \* model calls of the current step
    pending,     \* calls of the last response not yet executed
    unanswered,  \* calls of the last assistant message without an answer
    errors,      \* consecutive_errors
    delay,       \* the last backoff
    outcomes,    \* how each step ended
    result       \* what run() returned: "done", "none", "" before

vars == <<capped, pc, iteration, rounds, pending, unanswered, errors, delay, outcomes,
          result>>

Init ==
    /\ capped \in BOOLEAN
    /\ pc = "loop"
    /\ iteration = 0
    /\ rounds = 0
    /\ pending = {}
    /\ unanswered = {}
    /\ errors = 0
    /\ delay = 0
    /\ outcomes = <<>>
    /\ result = ""

Lesser(a, b) == IF a <= b THEN a ELSE b

(* multiplier ** n *)
Power[n \in Nat] == IF n = 0 THEN 1 ELSE Multiplier * Power[n - 1]

Backoff(n) == Lesser(Initial * Power[n - 1], Ceiling)

(* A provider refuses a history with an unanswered call before its end. *)
Accepted == unanswered = {}

-----------------------------------------------------------------------------
(* for iteration in range(1, max_iter + 1) *)
BeginStep ==
    /\ pc = "loop"
    /\ iteration < MaxIterations
    /\ iteration' = iteration + 1
    /\ rounds' = 0
    /\ pc' = "calling"
    /\ UNCHANGED <<capped, pending, unanswered, errors, delay, outcomes, result>>

Exhausted ==
    /\ pc = "loop"
    /\ iteration = MaxIterations
    /\ pc' = "returned"
    /\ result' = "none"
    /\ UNCHANGED <<capped, iteration, rounds, pending, unanswered, errors, delay, outcomes>>

(* Slip: the model calls of a step are not counted. *)
ModelAsks_NotCounted ==
    /\ pc = "calling"
    /\ capped => rounds < RoundCap
    /\ Accepted
    /\ \E asked \in SUBSET Calls :
          /\ asked # {}
          /\ pending' = asked
          /\ unanswered' = asked
    /\ pc' = "tools"
    /\ UNCHANGED <<capped, iteration, rounds, errors, delay, outcomes, result>>

(* The response asks for tools: the assistant message that says so enters  *)
(* the history before any of them is executed.                             *)
ModelAsks ==
    /\ pc = "calling"
    /\ capped => rounds < RoundCap
    /\ Accepted
    /\ \E asked \in SUBSET Calls :
          /\ asked # {}
          /\ pending' = asked
          /\ unanswered' = asked
    /\ rounds' = IF capped THEN rounds + 1 ELSE rounds
    /\ pc' = "tools"
    /\ UNCHANGED <<capped, iteration, errors, delay, outcomes, result>>

(* Slip: the counter is reset only by the step that ends the run. *)
StepOver_KeepsErrors(outcome) ==
    /\ errors' = IF outcome = "done" THEN 0 ELSE errors
    /\ outcomes' = Append(outcomes, outcome)
    /\ IF outcome = "done" THEN pc' = "returned" /\ result' = "done"
                           ELSE pc' = "loop" /\ result' = result
    /\ UNCHANGED <<capped, iteration, rounds, pending, unanswered, delay>>

(* The step is over: the error counter is reset, and DONE ends the run. *)
StepOver(outcome) ==
    /\ errors' = 0
    /\ outcomes' = Append(outcomes, outcome)
    /\ IF outcome = "done" THEN pc' = "returned" /\ result' = "done"
                           ELSE pc' = "loop" /\ result' = result
    /\ UNCHANGED <<capped, iteration, rounds, pending, unanswered, delay>>

(* A response without tool calls, or the cap of astep_stream. *)
StepReturns ==
    /\ pc = "calling"
    /\ \/ Accepted
       \/ capped /\ rounds = RoundCap
    /\ \E outcome \in {"done"} \cup (IF MayContinue THEN {"continue"} ELSE {}) :
          StepOver(outcome)

(* One call is executed and answered, in the order of the response. *)
ExecuteTool ==
    /\ pc = "tools"
    /\ \E i \in pending :
          /\ \A j \in pending : i <= j
          /\ pending' = pending \ {i}
          /\ unanswered' = unanswered \ {i}
    /\ pc' = IF pending' = {} THEN "calling" ELSE "tools"
    /\ UNCHANGED <<capped, iteration, rounds, errors, delay, outcomes, result>>

(* The model call fails, or a tool call's arguments do not parse or do not *)
(* unpack: nothing is taken back from the history.                         *)
StepRaises ==
    /\ pc \in {"calling", "tools"}
    /\ pc = "calling" /\ capped => rounds < RoundCap
    /\ errors' = errors + 1
    /\ delay' = Backoff(errors')
    /\ outcomes' = Append(outcomes, "error")
    /\ pending' = {}
    /\ pc' = "sleeping"
    /\ UNCHANGED <<capped, iteration, rounds, unanswered, result>>

(* asyncio.sleep(delay), also after the last step. *)
Wake ==
    /\ pc = "sleeping"
    /\ pc' = "loop"
    /\ UNCHANGED <<capped, iteration, rounds, pending, unanswered, errors, delay, outcomes,
                   result>>

Next ==
    \/ BeginStep
    \/ Exhausted
    \/ ModelAsks
    \/ StepReturns
    \/ ExecuteTool
    \/ StepRaises
    \/ Wake

Spec == Init /\ [][Next]_vars

(* A model call and a tool return or raise, and a sleep is over some time. *)
FairSpec == Spec /\ WF_vars(Next)

-----------------------------------------------------------------------------
TypeOK ==
    /\ capped \in BOOLEAN
    /\ pc \in {"loop", "calling", "tools", "sleeping", "returned"}
    /\ iteration \in 0..MaxIterations
    /\ rounds \in 0..RoundCap
    /\ pending \subseteq Calls /\ unanswered \subseteq Calls
    /\ errors \in 0..MaxIterations
    /\ delay \in 0..Ceiling
    /\ outcomes \in Seq({"done", "continue", "error"})
    /\ result \in {"", "done", "none"}

(* How many of the last steps failed one after the other. *)
Streak ==
    Cardinality({k \in DOMAIN outcomes :
                    \A l \in DOMAIN outcomes : l >= k => outcomes[l] = "error"})

(* While run() sleeps, it sleeps for the backoff of the failures since the *)
(* last step that succeeded, the ones of this run only.                    *)
BackoffFollowsStreak ==
    pc = "sleeping" => /\ Streak > 0
                       /\ delay = Backoff(Streak)

(* run() returns the result of a DONE step, and None only when every       *)
(* permitted step was taken and none was DONE.                             *)
ReturnsWhatSteppedTo ==
    /\ result = "done" => outcomes[Len(outcomes)] = "done"
    /\ result = "none" => Len(outcomes) = MaxIterations
    /\ \A k \in DOMAIN outcomes : outcomes[k] = "done" => result = "done"

(* A round that failed half way stays unanswered for the rest of the run,  *)
(* and only a failure leaves one: the answers still missing outside a      *)
(* round are those of a step that raised.                                  *)
OpenOnlyByFailure ==
    /\ pc = "tools" => unanswered = pending
    /\ pc # "tools" /\ unanswered # {} => \E k \in DOMAIN outcomes : outcomes[k] = "error"

(* What run() returns, how long it sleeps and what a failed step leaves in *)
(* the history all follow from the steps so far.                           *)
LoopSound ==
    TypeOK /\ BackoffFollowsStreak /\ ReturnsWhatSteppedTo /\ OpenOnlyByFailure

(* run() ends, with one exception: CalculusAssistant.step has no bound, so *)
(* that a model which asks for tools in every response keeps its first     *)
(* step, and run() with it, going.                                         *)
RunEnds ==
    \/ <>(pc = "returned")
    \/ ~ capped /\ []<>(pc = "tools")

(* The comment in astep_stream: the assistant message is appended "so the  *)
(* conversation history is correctly shaped for the next model call".      *)
NextCallShaped == pc = "calling" => unanswered = {}

(* agent.yaml on loop.max_iterations: "Prevents runaway loops."  It bounds *)
(* the steps and not the model calls of one.                               *)
NoRunaway == <>(pc = "returned")
=============================================================================
