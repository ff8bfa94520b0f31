------------------------------ MODULE OpenAiSse ------------------------------
(***************************************************************************)
(* From the agent's events to the tool-call pills of the page:             *)
(*   - stream_events_as_sse, which turns the events of one astep_stream    *)
(*     into chat-completions chunks, and                                   *)
(*   - createStreamRenderer / sendMessage of the UI, which read the chunks *)
(*     and show one pill per tool-call index.                              *)
(* The serializer is an async generator over the agent's generator, so the *)
(* agent runs only when the serializer has nothing left to translate.  The *)
(* chunks travel in order and the page reads them when they arrive.        *)
(* Reasoning and content chunks go straight from event to page and touch   *)
(* none of the state below; like in AgentLoop they are left out.           *)
(***************************************************************************)
EXTENDS AgentLoop

VARIABLES
    sse,      \* where the serializer stands
    seen,     \* events translated so far
    opened,   \* opened_indexes
    wire,     \* the chunks yielded
    read,     \* chunks the page has handled
    pills,    \* toolCalls of the renderer: what the page shows per index
    notices   \* appendError: stream errors the page has shown

sseVars == <<sse, seen, opened, wire>>
uiVars == <<read, pills, notices>>
allVars == <<vars, sseVars, uiVars>>

-----------------------------------------------------------------------------
(* Chunks.  `of` is the call a fragment of arguments belongs to: the wire  *)
(* carries only the index, the properties compare it with the call shown.  *)
Chunk(kind) == [kind |-> kind, idx |-> 0, id |-> NoId, of |-> NoId, args |-> FALSE]
OpeningChunk(e) ==
    [kind |-> "call", idx |-> e.idx, id |-> e.id, of |-> e.id, args |-> e.args]
ArgumentsChunk(e) ==
    [kind |-> "call", idx |-> e.idx, id |-> NoId, of |-> CallId(e.idx), args |-> TRUE]
ResultChunk(e) == [Chunk("result") EXCEPT !.id = e.id]

NoPill == [id |-> NoId, args |-> {}, status |-> "none"]

SseInit ==
    /\ Init
    /\ sse = "start"
    /\ seen = 0
    /\ opened = {}
    /\ wire = <<>>
    /\ read = 0
    /\ pills = [i \in Idx |-> NoPill]
    /\ notices = 0

-----------------------------------------------------------------------------
(* The leading role chunk. *)
Lead ==
    /\ sse = "start"
    /\ sse' = "relay"
    /\ wire' = Append(wire, Chunk("role"))
    /\ UNCHANGED <<vars, seen, opened, uiVars>>

(* Pulling the next event runs the agent. *)
Pull ==
    /\ sse = "relay"
    /\ seen = Len(events)
    /\ CallModel \/ HitCap \/ Stream \/ RunTools
    /\ UNCHANGED <<sseVars, uiVars>>

Opens(e) == e.type = "tool_call" /\ e.idx \notin opened /\ e.id # NoId

(* Slip: the opening chunk only for deltas that bring arguments along. *)
ChunksFor_OpeningNeedsArgs(e) ==
    CASE e.type = "tool_call" ->
            IF e.args THEN IF Opens(e) THEN <<OpeningChunk(e)>>
                                       ELSE <<ArgumentsChunk(e)>>
                      ELSE <<>>
      [] e.type = "tool_result" -> <<ResultChunk(e)>>
      [] e.type = "complete" -> <<Chunk("finish"), Chunk("usage")>>

(* Slip: the usage chunk goes first. *)
ChunksFor_UsageFirst(e) ==
    CASE e.type = "tool_call" ->
            IF Opens(e) THEN <<OpeningChunk(e)>>
            ELSE IF e.args THEN <<ArgumentsChunk(e)>>
            ELSE <<>>
      [] e.type = "tool_result" -> <<ResultChunk(e)>>
      [] e.type = "complete" -> <<Chunk("usage"), Chunk("finish")>>

ChunksFor(e) ==
    CASE e.type = "tool_call" ->
            IF Opens(e) THEN <<OpeningChunk(e)>>
            ELSE IF e.args THEN <<ArgumentsChunk(e)>>
            ELSE <<>>
      [] e.type = "tool_result" -> <<ResultChunk(e)>>
      [] e.type = "complete" -> <<Chunk("finish"), Chunk("usage")>>

Translate ==
    /\ sse = "relay"
    /\ seen < Len(events)
    /\ LET e == events[seen + 1]
       IN  /\ seen' = seen + 1
           /\ opened' = IF Opens(e) THEN opened \cup {e.idx} ELSE opened
           /\ wire' = wire \o ChunksFor(e)
    /\ UNCHANGED <<vars, sse, uiVars>>

(* Slip: the error leaves the generator before [DONE] is yielded. *)
EndStream_RaiseOnError ==
    /\ sse = "relay"
    /\ seen = Len(events)
    /\ pc = "complete"
    /\ wire' = Append(wire, Chunk("done"))
    /\ sse' = "done"
    /\ UNCHANGED <<vars, seen, opened, uiVars>>

(* The agent's generator is exhausted or has raised. *)
EndStream ==
    /\ sse = "relay"
    /\ seen = Len(events)
    /\ \/ pc = "complete" /\ wire' = Append(wire, Chunk("done"))
       \/ pc = "failed" /\ wire' = wire \o <<Chunk("error"), Chunk("done")>>
    /\ sse' = "done"
    /\ UNCHANGED <<vars, seen, opened, uiVars>>

(* The connection goes away while the serializer is being served. *)
Disconnect ==
    /\ sse = "relay"
    /\ sse' = "closed"
    /\ pc' = IF pc \in Ended THEN pc ELSE "closed"
    /\ UNCHANGED <<turn, turnVars, finish, pending, executed, messages, events,
                   seen, opened, wire, uiVars>>

-----------------------------------------------------------------------------
(* The page. *)

(* startToolCall, or appendToolArgs if the index has a pill already. *)
ShowCall(c) ==
    LET fragment == IF c.args THEN {c.of} ELSE {}
    IN  IF pills[c.idx].id = NoId
          THEN pills' = IF c.id = NoId THEN pills
                        ELSE [pills EXCEPT ![c.idx] =
                                [id |-> c.id, args |-> fragment, status |-> "running"]]
          ELSE pills' = [pills EXCEPT ![c.idx].args = @ \cup fragment]

(* completeToolCall: the pill with the result's call id, if there is one. *)
ShowResult(c) ==
    pills' = [i \in Idx |->
                 IF pills[i].id = c.id THEN [pills[i] EXCEPT !.status = "done"]
                                       ELSE pills[i]]

ReadChunk ==
    /\ read < Len(wire)
    /\ read' = read + 1
    /\ LET c == wire[read + 1]
       IN  /\ CASE c.kind = "call" -> ShowCall(c)
                [] c.kind = "result" -> ShowResult(c)
                [] OTHER -> UNCHANGED pills
           /\ notices' = IF c.kind = "error" THEN notices + 1 ELSE notices
    /\ UNCHANGED <<vars, sseVars>>

-----------------------------------------------------------------------------
SseNext == Lead \/ Pull \/ Translate \/ EndStream \/ Disconnect \/ ReadChunk

SseSpec == SseInit /\ [][SseNext]_allVars

(* The server drives the generator chain and the browser reads what        *)
(* arrives: both are scheduled whenever they can go on.                    *)
FairSseSpec ==
    /\ SseSpec
    /\ WF_allVars(Lead \/ Pull \/ Translate \/ EndStream)
    /\ WF_allVars(ReadChunk)

-----------------------------------------------------------------------------
Kinds == {"role", "call", "result", "finish", "usage", "error", "done"}

SseTypeOK ==
    /\ TypeOK
    /\ sse \in {"start", "relay", "done", "closed"}
    /\ seen \in 0..Len(events)
    /\ opened \subseteq Idx
    /\ \A k \in DOMAIN wire :
          /\ wire[k].kind \in Kinds
          /\ wire[k].kind = "call" => wire[k].id # NoId \/ wire[k].args
    /\ read \in 0..Len(wire)
    /\ pills \in [Idx -> [id : CallIds, args : SUBSET CallIds,
                          status : {"none", "running", "done"}]]
    /\ notices \in Nat

KindsOf(k) == {n \in DOMAIN wire : wire[n].kind = k}

(* The frame a chat-completions client relies on: the role first, [DONE]   *)
(* once and last, and before it either finish reason and usage, in this    *)
(* order, or the error, whichever the agent's run calls for.               *)
WellFramed ==
    /\ \A n \in KindsOf("role") : n = 1
    /\ \A n \in KindsOf("done") :
          /\ n = Len(wire)
          /\ pc = "complete" => wire[n-2].kind = "finish" /\ wire[n-1].kind = "usage"
          /\ pc = "failed" => wire[n-1].kind = "error" /\ KindsOf("finish") = {}
    /\ Cardinality(KindsOf("finish")) <= 1

(* What is on the wire is well typed and well framed. *)
SseSound == SseTypeOK /\ WellFramed

(* In the first turn of a stream every index is new: each of its results   *)
(* completes the pill of its call, and the arguments of its calls show in  *)
(* no other pill.                                                          *)
FirstTurnShown ==
    /\ \A k \in 1..read :
          wire[k].kind = "result" /\ wire[k].id[1] = 1
            => \E i \in Idx : pills[i].id = wire[k].id /\ pills[i].status = "done"
    /\ \A i \in Idx : \A c \in pills[i].args : c[1] = 1 => c = pills[i].id

(* The docstring of ToolResultEvent: "call_id matches the call_id from the *)
(* originating ToolCallDelta so consumers can pair decisions with          *)
(* results".  The page pairs by call id among the pills it has.            *)
ResultsFindTheirPill ==
    \A k \in 1..read :
        wire[k].kind = "result" => \E i \in Idx : pills[i].id = wire[k].id

(* A client that stays is told how the stream ended, however the agent's   *)
(* run ended, and a failure is shown.                                      *)
ClientLearnsTheEnd ==
    <>(\/ sse = "closed"
       \/ /\ read = Len(wire)
          /\ KindsOf("done") # {}
          /\ pc = "failed" <=> notices = 1)
=============================================================================
