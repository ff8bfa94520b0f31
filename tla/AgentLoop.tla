----------------------------- MODULE AgentLoop -----------------------------
(***************************************************************************)
(* BaseAgent.astep_stream: the streaming agent loop.  One behaviour of     *)
(* this module is one call of the generator, from its first model call to  *)
(* its StreamComplete, to an exception that leaves it, or to its consumer  *)
(* closing it.                                                             *)
(*                                                                         *)
(* What is abstracted.  A provider chunk may carry reasoning, content,     *)
(* several tool-call entries and a finish reason; the code handles these   *)
(* one after the other and each entry of the list by itself, so a chunk is *)
(* here a run of deltas, one action each.  Text is reduced to whether any  *)
(* content arrived in the turn.  The provider's ids are fresh: the id it   *)
(* makes up for index i of model call t is <<t, i>>, and an absent or      *)
(* empty id is NoId.  Argument text is reduced to whether there is any;    *)
(* what it parses as is a choice made when the call is executed.           *)
(***************************************************************************)
EXTENDS Naturals, Sequences, FiniteSets

CONSTANTS
    MaxIterations,   \* astep_stream(max_iterations = 10)
    Idx,             \* the tool-call indexes a provider uses in one turn
    ToolDeltas,      \* the shapes of tool-call delta a provider sends
    FinishReasons,   \* the finish_reason values of a provider
    MaxDeltas        \* bound: deltas in one turn

ToolDelta == [id : BOOLEAN, name : BOOLEAN, args : BOOLEAN]

ASSUME ConstantsAssumption ==
    /\ MaxIterations \in Nat
    /\ MaxDeltas \in Nat
    /\ Idx \subseteq Nat
    /\ ToolDeltas \subseteq ToolDelta
    /\ {"stop", "length"} \subseteq FinishReasons

VARIABLES
    pc,          \* where the generator stands
    turn,        \* metrics.model_calls
    toolBuf,     \* tool_buf of the current turn
    text,        \* assistant_content_parts is not empty
    bound,       \* the name `chunk` has been bound by some turn
    deltas,      \* deltas received in the current turn
    finish,      \* finish_reason
    turnFinish,  \* the last turn_finish of the current turn, "none" before
    pending,     \* indexes of assembled_calls not yet executed
    executed,    \* metrics.tool_calls
    messages,    \* self.messages
    events       \* the tool-call, tool-result and terminal events yielded

vars == <<pc, turn, toolBuf, text, bound, deltas, finish, turnFinish, pending,
          executed, messages, events>>

turnVars == <<toolBuf, text, bound, deltas, turnFinish>>

-----------------------------------------------------------------------------
NoId == <<0, 0>>
CallId(i) == <<turn, i>>
CallIds == Nat \X Nat

EmptyBuf == [i \in Idx |->
                [used |-> FALSE, id |-> FALSE, name |-> FALSE, args |-> FALSE]]

(* `listed`: the message has the key tool_calls, whatever the list holds.  *)
User == [role |-> "user", calls |-> {}, listed |-> FALSE, id |-> NoId]
Answer == [role |-> "assistant", calls |-> {}, listed |-> FALSE, id |-> NoId]
Assistant(calls) ==
    [role |-> "assistant", calls |-> calls, listed |-> TRUE, id |-> NoId]
Tool(id) == [role |-> "tool", calls |-> {}, listed |-> FALSE, id |-> id]

ToolCallDelta(i, id, named, args) ==
    [type |-> "tool_call", id |-> id, idx |-> i, name |-> named, args |-> args]
ToolResultEvent(id, err) == [type |-> "tool_result", id |-> id, err |-> err]
StreamComplete(reason) ==
    [type |-> "complete", id |-> NoId, finish |-> reason]

Ended == {"complete", "failed", "closed"}

-----------------------------------------------------------------------------
Init ==
    /\ pc = "request"
    /\ turn = 0
    /\ toolBuf = EmptyBuf
    /\ text = FALSE
    /\ bound = FALSE
    /\ deltas = 0
    /\ finish = "stop"
    /\ turnFinish = "none"
    /\ pending = {}
    /\ executed = 0
    /\ messages = <<User>>
    /\ events = <<>>

(* The loop header: another model call, with fresh accumulators. *)
CallModel ==
    /\ pc = "request"
    /\ turn < MaxIterations
    /\ turn' = turn + 1
    /\ toolBuf' = EmptyBuf
    /\ text' = FALSE
    /\ deltas' = 0
    /\ turnFinish' = "none"
    /\ pc' = "streaming"
    /\ UNCHANGED <<bound, finish, pending, executed, messages, events>>

(* The for/else branch: the cap was reached without a break. *)
HitCap ==
    /\ pc = "request"
    /\ turn = MaxIterations
    /\ finish' = "length"
    /\ events' = Append(events, StreamComplete("length"))
    /\ pc' = "complete"
    /\ UNCHANGED <<turn, turnVars, pending, executed, messages>>

(* Every chunk binds the loop variable, also one that is then skipped. *)
Receive ==
    /\ pc = "streaming"
    /\ deltas < MaxDeltas
    /\ deltas' = deltas + 1
    /\ bound' = TRUE
    /\ UNCHANGED <<pc, turn, pending, executed, messages>>

(* A chunk without choices or delta, or a reasoning delta. *)
OtherChunk ==
    /\ Receive
    /\ UNCHANGED <<toolBuf, text, finish, turnFinish, events>>

ContentChunk ==
    /\ Receive
    /\ text' = TRUE
    /\ UNCHANGED <<toolBuf, finish, turnFinish, events>>

(* Slip: `if turn_finish` dropped, so the chunks that carry none reset it. *)
FinishChunk_Unguarded(reason) ==
    /\ Receive
    /\ finish' = "none"
    /\ turnFinish' = "none"
    /\ UNCHANGED <<toolBuf, text, events>>

FinishChunk(reason) ==
    /\ Receive
    /\ finish' = reason
    /\ turnFinish' = reason
    /\ UNCHANGED <<toolBuf, text, events>>

(* Slip: `first = tc_id is not None`. *)
FirstDelta_EveryId(i, d) == d.id

(* One entry of delta.tool_calls: the id and the name stick at the first   *)
(* value that is not empty, and only the delta that brings the id          *)
(* announces the call.                                                     *)
FirstDelta(i, d) == d.id /\ ~ toolBuf[i].id

Merge(buf, d) == [used |-> TRUE, id |-> buf.id \/ d.id,
                  name |-> buf.name \/ d.name, args |-> buf.args \/ d.args]

ToolCallChunk(i, d) ==
    LET buf == Merge(toolBuf[i], d)
        first == FirstDelta(i, d)
    IN  /\ Receive
        /\ toolBuf' = [toolBuf EXCEPT ![i] = buf]
        /\ events' = Append(events,
              ToolCallDelta(i, IF first THEN CallId(i) ELSE NoId,
                            first /\ buf.name, d.args))
        /\ UNCHANGED <<text, finish, turnFinish>>

(* The stream of the turn has ended with no tool call in the buffer: the   *)
(* answer, if there is any, joins the history and the loop breaks.  The    *)
(* reasoning parser's flush may turn buffered text into content.           *)
FinalTurn ==
    \E flushed \in BOOLEAN :
        /\ pc = "streaming"
        /\ bound
        /\ \A i \in Idx : ~ toolBuf[i].used
        /\ flushed => deltas > 0
        /\ messages' = IF text \/ flushed
                          THEN Append(messages, Answer)
                          ELSE messages
        /\ events' = Append(events, StreamComplete(finish))
        /\ pc' = "complete"
        /\ UNCHANGED <<turn, turnVars, finish, pending, executed>>

(* Entries of the buffer that never got an id or a name are dropped. *)
Assembled == {i \in Idx : toolBuf[i].id /\ toolBuf[i].name}

(* The stream has ended with something in the buffer, whatever the finish  *)
(* reason: the assistant message goes into the history before any of its   *)
(* calls is executed, with the list of those that are left, be it empty.   *)
ToolTurn ==
    /\ pc = "streaming"
    /\ \E i \in Idx : toolBuf[i].used
    /\ pending' = Assembled
    /\ messages' = Append(messages, Assistant({CallId(i) : i \in Assembled}))
    /\ pc' = "tools"
    /\ UNCHANGED <<turn, turnVars, finish, executed, events>>

(* The calls are executed in the order of their indexes, one at a time. *)
NextCall(i) == i \in pending /\ \A j \in pending : i <= j

(* Slip: the error of a tool goes to the client and not to the model. *)
ExecuteTool_ErrorNotKept(i, err) ==
    /\ pc = "tools"
    /\ NextCall(i)
    /\ pending' = pending \ {i}
    /\ executed' = executed + 1
    /\ messages' = IF err THEN messages ELSE Append(messages, Tool(CallId(i)))
    /\ events' = Append(events, ToolResultEvent(CallId(i), err))
    /\ UNCHANGED <<pc, turn, turnVars, finish>>

(* Slip: tool_calls is counted only for a tool that succeeds. *)
ExecuteTool_ErrorNotCounted(i, err) ==
    /\ pc = "tools"
    /\ NextCall(i)
    /\ pending' = pending \ {i}
    /\ executed' = IF err THEN executed ELSE executed + 1
    /\ messages' = Append(messages, Tool(CallId(i)))
    /\ events' = Append(events, ToolResultEvent(CallId(i), err))
    /\ UNCHANGED <<pc, turn, turnVars, finish>>

(* tools.execute returned: a result, or an error result for an unknown or  *)
(* blocked tool and for a tool that raised.                                *)
ExecuteTool(i, err) ==
    /\ pc = "tools"
    /\ NextCall(i)
    /\ pending' = pending \ {i}
    /\ executed' = executed + 1
    /\ messages' = Append(messages, Tool(CallId(i)))
    /\ events' = Append(events, ToolResultEvent(CallId(i), err))
    /\ UNCHANGED <<pc, turn, turnVars, finish>>

ToolsDone ==
    /\ pc = "tools"
    /\ pending = {}
    /\ pc' = "request"
    /\ UNCHANGED <<turn, turnVars, finish, pending, executed, messages, events>>

-----------------------------------------------------------------------------
(* Exceptions that leave the generator: the history stays as it is.        *)

(* The model call fails, when it is made or in the middle of its stream. *)
ModelFails ==
    /\ pc = "streaming"
    /\ pc' = "failed"
    /\ UNCHANGED <<turn, turnVars, finish, pending, executed, messages, events>>

(* The usage is read from `chunk`, unbound if no turn ever had one. *)
NoChunk ==
    /\ pc = "streaming"
    /\ ~ bound
    /\ pc' = "failed"
    /\ UNCHANGED <<turn, turnVars, finish, pending, executed, messages, events>>

(* Arguments that are JSON but do not unpack into keyword arguments of     *)
(* execute (a list, a number, an object with a key "name") raise TypeError *)
(* outside the try that guards the parsing.                                *)
ArgumentsFail(i) ==
    /\ pc = "tools"
    /\ NextCall(i)
    /\ toolBuf[i].args
    /\ executed' = executed + 1
    /\ pc' = "failed"
    /\ UNCHANGED <<turn, turnVars, finish, pending, messages, events>>

(* The consumer goes away: GeneratorExit or CancelledError at a yield or   *)
(* an await, or before the first event was asked for.                      *)
Close ==
    /\ pc \notin Ended
    /\ pc' = "closed"
    /\ UNCHANGED <<turn, turnVars, finish, pending, executed, messages, events>>

-----------------------------------------------------------------------------
Stream ==
    \/ OtherChunk
    \/ ContentChunk
    \/ \E reason \in FinishReasons : FinishChunk(reason)
    \/ \E i \in Idx, d \in ToolDeltas : ToolCallChunk(i, d)
    \/ FinalTurn
    \/ ToolTurn
    \/ ModelFails
    \/ NoChunk

RunTools ==
    \/ \E i \in Idx, err \in BOOLEAN : ExecuteTool(i, err)
    \/ \E i \in Idx : ArgumentsFail(i)
    \/ ToolsDone

Next == CallModel \/ HitCap \/ Stream \/ RunTools \/ Close

Spec == Init /\ [][Next]_vars

-----------------------------------------------------------------------------
BufEntry == [used : BOOLEAN, id : BOOLEAN, name : BOOLEAN, args : BOOLEAN]
Message == [role : {"user", "assistant", "tool"}, calls : SUBSET CallIds,
            listed : BOOLEAN, id : CallIds]
Event == [type : {"tool_call"}, id : CallIds, idx : Idx, name : BOOLEAN,
          args : BOOLEAN]
         \cup [type : {"tool_result"}, id : CallIds, err : BOOLEAN]
         \cup [type : {"complete"}, id : {NoId}, finish : FinishReasons]

TypeOK ==
    /\ pc \in {"request", "streaming", "tools"} \cup Ended
    /\ turn \in Nat
    /\ toolBuf \in [Idx -> BufEntry]
    /\ text \in BOOLEAN
    /\ bound \in BOOLEAN
    /\ deltas \in Nat
    /\ finish \in FinishReasons
    /\ turnFinish \in FinishReasons \cup {"none"}
    /\ pending \in SUBSET Idx
    /\ executed \in Nat
    /\ messages \in Seq(Message)
    /\ events \in Seq(Event)

(* Message j answers a call of message i: nothing but other answers stands *)
(* between them.                                                           *)
Answers(ms, i, j) ==
    /\ i < j
    /\ ms[j].role = "tool"
    /\ ms[j].id \in ms[i].calls
    /\ \A k \in DOMAIN ms : i < k /\ k < j => ms[k].role = "tool"

(* Every tool call is answered right after the message that made it, and   *)
(* every tool message answers one.                                         *)
Paired(ms) ==
    /\ \A i \in DOMAIN ms : \A c \in ms[i].calls :
          \E j \in DOMAIN ms : Answers(ms, i, j) /\ ms[j].id = c
    /\ \A j \in DOMAIN ms : ms[j].role = "tool" =>
          \E i \in DOMAIN ms : Answers(ms, i, j)

(* Whenever the loop is about to call the model (or to give up at the      *)
(* cap), calls and answers of the history are paired: no dropped call      *)
(* leaves an answer without its call, no failing one a call without its    *)
(* answer.  That no message lists calls and names none is another matter:  *)
(* see HistoryWellShaped.                                                  *)
CallsPaired == pc = "request" => Paired(messages)

(* The comment at the append: "so that the conversation history is         *)
(* correctly shaped for the next model call".  A chat-completions provider *)
(* asks for pairs, and for no empty list under the key tool_calls.  A turn *)
(* all calls of which lack an id or a name leaves such a list.             *)
HistoryWellShaped ==
    pc = "request" =>
        /\ Paired(messages)
        /\ \A i \in DOMAIN messages : messages[i].listed => messages[i].calls # {}

(* A consumer can pair decisions with results: a result carries the id of  *)
(* a call that an earlier event announced, each id is announced once, and  *)
(* no id gets two results.                                                 *)
ResultsPairWithCalls ==
    \A j \in DOMAIN events :
        /\ events[j].type = "tool_result" =>
              \E i \in DOMAIN events :
                 i < j /\ events[i].type = "tool_call" /\ events[i].id = events[j].id
        /\ \A i \in DOMAIN events :
              i < j /\ events[i].type = events[j].type /\ events[j].id # NoId
                => events[i].id # events[j].id

Results == {k \in DOMAIN events : events[k].type = "tool_result"}
Answered == {k \in DOMAIN messages : messages[k].role = "tool"}

(* The client and the model are told the same: the results streamed to the *)
(* client are, one by one and in the same order, the tool messages of the  *)
(* history, and the tool_calls metric of a completed stream counts them.   *)
ClientAndHistoryAgree ==
    /\ {events[j].id : j \in Results} = {messages[k].id : k \in Answered}
    /\ \A i, j \in Results, k, l \in Answered :
          events[i].id = messages[k].id /\ events[j].id = messages[l].id
             => (i < j <=> k < l)
    /\ pc = "complete" => executed = Cardinality(Results)

(* The docstring: "The loop terminates when the model returns a turn with  *)
(* finish_reason other than tool_calls".                                   *)
StopsOnOtherFinish ==
    [][CallModel => turnFinish \in {"none", "tool_calls"}]_vars
=============================================================================
