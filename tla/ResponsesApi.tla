---------------------------- MODULE ResponsesApi ----------------------------
(***************************************************************************)
(* stream_responses_api: one request in Responses-API mode.  Each round    *)
(* posts the conversation to /v1/responses, passes the events on as chat   *)
(* chunks, and at the end of a round that held a function call executes it *)
(* and posts again with call and result appended.                          *)
(*                                                                         *)
(* Calls are numbered as the model makes them; of their arguments, only    *)
(* whether they are complete and whether they unpack matters.  The chat    *)
(* page is the reader: its pills, one per index.                           *)
(***************************************************************************)
EXTENDS Integers, Sequences, FiniteSets, Functions

CONSTANTS
    MaxRounds,    \* max_rounds
    MaxPerRound   \* bound: function calls of one response

Fragments == {"none", "partial", "object", "other"}   \* of a call's arguments
NoCall == 0
OutOfRounds == MaxRounds + 1

VARIABLES
    pc,          \* "posting", "streaming", "tool", "closing", "finished", "cut"
    round,       \* _round, from 1
    calls,       \* calls[n]: round and arguments of the n-th call
    current,     \* current_tool_call, NoCall at the start of a round
    index,       \* tool_call_index
    executed,    \* the calls given to agent.tools, in order
    input,       \* what api_input holds behind the request's messages
    results,     \* calls whose result chunk was sent
    pills        \* the page: index -> the call whose pill it is

vars == <<pc, round, calls, current, index, executed, input, results, pills>>
toolVars == <<executed, input, results>>

FunctionCall(n) == [kind |-> "function_call", call |-> n]
Output(n) == [kind |-> "function_call_output", call |-> n]
OfRound(r) == {n \in DOMAIN calls : calls[n].round = r}

Init ==
    /\ pc = "posting" /\ round = 1
    /\ calls = <<>> /\ current = NoCall /\ index = 0
    /\ executed = <<>> /\ input = <<>>
    /\ results = {} /\ pills = [i \in {} |-> NoCall]

-----------------------------------------------------------------------------
(* Slip: a round that follows another one keeps its call. *)
Post_KeepsCall ==
    /\ pc = "posting"
    /\ pc' = "streaming"
    /\ index' = 0
    /\ UNCHANGED <<round, calls, current, toolVars, pills>>

(* The head of a round: its state is reset and the request goes out.  The  *)
(* status of the answer is not looked at: one without events has no call.  *)
Post ==
    /\ pc = "posting"
    /\ pc' = "streaming"
    /\ current' = NoCall /\ index' = 0
    /\ UNCHANGED <<round, calls, toolVars, pills>>

(* response.output_item.added of a function_call: it becomes the current   *)
(* one.  The page makes a pill of the first call of an index.              *)
ItemAdded ==
    /\ pc = "streaming"
    /\ Cardinality(OfRound(round)) < MaxPerRound
    /\ calls' = Append(calls, [round |-> round, args |-> "none"])
    /\ current' = Len(calls')
    /\ pills' = [i \in DOMAIN pills \cup {index} |->
                    IF i \in DOMAIN pills THEN pills[i] ELSE current']
    /\ UNCHANGED <<pc, round, index, toolVars>>

(* response.function_call_arguments.delta: added to the current call. *)
Arguments ==
    /\ pc = "streaming" /\ current # NoCall
    /\ \E more \in Fragments \ {"none"} : calls' = [calls EXCEPT ![current].args = more]
    /\ UNCHANGED <<pc, round, current, index, toolVars, pills>>

(* The stream of a round ends: a call means a tool, none the end. *)
RoundOver ==
    /\ pc = "streaming"
    /\ pc' = IF current # NoCall THEN "tool" ELSE "closing"
    /\ UNCHANGED <<round, calls, current, index, toolVars, pills>>

(* The connection to /v1/responses fails, a read of it times out, or the   *)
(* client has left: nothing catches it.                                    *)
BreaksOff ==
    /\ pc \notin {"finished", "cut"}
    /\ pc' = "cut"
    /\ UNCHANGED <<round, calls, current, index, toolVars, pills>>

(* What executing the current call puts into the conversation. *)
Executed(items) ==
    /\ pc = "tool" /\ calls[current].args # "other"
    /\ executed' = Append(executed, current)
    /\ results' = results \cup {current}
    /\ input' = input \o items
    /\ index' = index + 1
    /\ UNCHANGED <<calls, current, pills>>

NextRound ==
    /\ round' = round + 1
    /\ pc' = IF round' = OutOfRounds THEN "closing" ELSE "posting"

(* The tool is called, its result or error is sent as a chunk, and call    *)
(* and output are appended for the next round, if there is one.  Arguments *)
(* that do not parse are those of no argument.                             *)
Execute == Executed(<<FunctionCall(current), Output(current)>>) /\ NextRound

(* Arguments that parse to something else than an object do not unpack. *)
DoesNotUnpack ==
    /\ pc = "tool" /\ calls[current].args = "other"
    /\ pc' = "cut"
    /\ UNCHANGED <<round, calls, current, index, toolVars, pills>>

(* The finish chunk, always "stop", and [DONE] *)
Close ==
    /\ pc = "closing"
    /\ pc' = "finished"
    /\ UNCHANGED <<round, calls, current, index, toolVars, pills>>

Next ==
    \/ Post \/ ItemAdded \/ Arguments \/ RoundOver \/ BreaksOff
    \/ Execute \/ DoesNotUnpack \/ Close

Spec == Init /\ [][Next]_vars

-----------------------------------------------------------------------------
TypeOK ==
    /\ pc \in {"posting", "streaming", "tool", "closing", "finished", "cut"}
    /\ round \in 1..OutOfRounds
    /\ calls \in Seq([round : 1..MaxRounds, args : Fragments])
    /\ current \in 0..Len(calls)
    /\ executed \in Seq(DOMAIN calls)
    /\ input \in Seq([kind : {"function_call", "function_call_output"}, call : DOMAIN calls])
    /\ results \subseteq DOMAIN calls
    /\ index \in {0, 1}
    /\ DOMAIN pills \subseteq {0} /\ \A i \in DOMAIN pills : pills[i] \in DOMAIN calls

(* The conversation posted in a round holds, for every call executed, the  *)
(* call and then its own output, once and in the order of execution, and   *)
(* nothing of calls that were not.                                         *)
InputPairs ==
    /\ Len(input) = 2 * Len(executed)
    /\ \A k \in DOMAIN executed :
          /\ input[2 * k - 1] = FunctionCall(executed[k])
          /\ input[2 * k] = Output(executed[k])

(* No call is executed twice, and none after its round: what is left of a  *)
(* round never reaches the next, so that a round of plain text executes    *)
(* nothing whatever the rounds before it held.                             *)
ExecutedOnce ==
    /\ IsInjective(executed)
    /\ \A k \in DOMAIN executed : calls[executed[k]].round = k

(* "when the model returns a function_call, we execute it": kept where a   *)
(* response holds one call.  Its call is executed before the next request  *)
(* goes out or the stream is finished, however its arguments came.  Of     *)
(* several calls of a response the code executes one.                      *)
SingleCallExecuted ==
    pc \in {"posting", "closing", "finished"} =>
        \A n \in DOMAIN calls : OfRound(calls[n].round) = {n} =>
            \E k \in DOMAIN executed : executed[k] = n

(* The docstring: "when the model returns a function_call, we execute it   *)
(* through the agent's tool registry".                                     *)
EveryCallExecuted ==
    pc \in {"posting", "finished"} =>
        \A n \in DOMAIN calls : \E k \in DOMAIN executed : executed[k] = n

(* app.js on a tool result: "Find the matching tool call by call_id." *)
ResultsFindTheirPill == \A n \in results : \E i \in DOMAIN pills : pills[i] = n
=============================================================================
