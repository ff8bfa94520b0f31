-------------------------- MODULE AgentLoopProofs --------------------------
(* Theorems about the agent loop, for every value of its constants. *)
EXTENDS OpenAiSse, FiniteSetTheorems, TLAPS

LEMMA EmptyBufType == EmptyBuf \in [Idx -> BufEntry]
BY DEF EmptyBuf, BufEntry

(* Every variable of the loop keeps its type. *)
THEOREM TypeCorrect == Spec => []TypeOK
<1> USE ConstantsAssumption
<1>1. Init => TypeOK
  <2>1. User \in Message
    BY DEF User, Message, NoId, CallIds
  <2>2. Init => text \in BOOLEAN /\ bound \in BOOLEAN
    BY Zenon DEF Init
  <2> QED
    BY <2>1, <2>2, EmptyBufType DEF Init, TypeOK
<1>2. TypeOK /\ [Next]_vars => TypeOK'
  <2> SUFFICES ASSUME TypeOK, [Next]_vars
               PROVE  TypeOK'
    OBVIOUS
  <2> USE DEF TypeOK
  <2>1. CASE CallModel
    <3>1. text' \in BOOLEAN
      BY <2>1, Zenon DEF CallModel
    <3> QED
      BY <2>1, <3>1, EmptyBufType DEF CallModel
  <2>2. CASE HitCap
    <3>1. StreamComplete("length") \in Event
      BY DEF StreamComplete, Event, NoId
    <3> QED
      BY <2>2, <3>1 DEF HitCap, turnVars, Ended
  <2>3. CASE OtherChunk
    BY <2>3 DEF OtherChunk, Receive
  <2>4. CASE ContentChunk
    BY <2>4 DEF ContentChunk, Receive
  <2>5. ASSUME NEW reason \in FinishReasons, FinishChunk(reason)
        PROVE  TypeOK'
    BY <2>5 DEF FinishChunk, Receive
  <2>6. ASSUME NEW i \in Idx, NEW d \in ToolDeltas, ToolCallChunk(i, d)
        PROVE  TypeOK'
    <3> DEFINE buf == Merge(toolBuf[i], d)
               first == FirstDelta(i, d)
               e == ToolCallDelta(i, IF first THEN CallId(i) ELSE NoId,
                                  first /\ buf.name, d.args)
    <3>1. d \in ToolDelta
      OBVIOUS
    <3>2. toolBuf[i] \in BufEntry
      OBVIOUS
    <3>3. buf \in BufEntry
      BY <3>1, <3>2 DEF Merge, BufEntry, ToolDelta
    <3>4. i \in Nat
      OBVIOUS
    <3>5. (IF first THEN CallId(i) ELSE NoId) \in CallIds
      BY <3>4 DEF CallId, NoId, CallIds
    <3>6. (first /\ buf.name) \in BOOLEAN /\ d.args \in BOOLEAN
      BY <3>1 DEF ToolDelta
    <3>7. e \in Event
      BY <3>5, <3>6 DEF ToolCallDelta, Event
    <3>8. /\ toolBuf' = [toolBuf EXCEPT ![i] = buf]
          /\ events' = Append(events, e)
          /\ deltas' = deltas + 1
          /\ bound' = TRUE
          /\ UNCHANGED <<pc, turn, pending, executed, messages, text, finish, turnFinish>>
      BY <2>6 DEF ToolCallChunk, Receive
    <3>9. toolBuf' \in [Idx -> BufEntry]
      BY <3>3, <3>8
    <3> HIDE DEF buf, first, e
    <3> QED
      BY <3>7, <3>8, <3>9
  <2>7. CASE FinalTurn
    <3>1. Answer \in Message
      BY DEF Answer, Message, NoId, CallIds
    <3>2. StreamComplete(finish) \in Event
      BY DEF StreamComplete, Event, NoId
    <3> QED
      BY <2>7, <3>1, <3>2 DEF FinalTurn, turnVars, Ended
  <2>8. CASE ToolTurn
    <3>1. {CallId(i) : i \in Assembled} \in SUBSET CallIds
      BY DEF CallId, CallIds, Assembled
    <3>2. Assistant({CallId(i) : i \in Assembled}) \in Message
      BY <3>1 DEF Assistant, Message, NoId, CallIds
    <3> QED
      BY <2>8, <3>2 DEF ToolTurn, turnVars, Assembled
  <2>9. CASE ModelFails \/ NoChunk \/ ToolsDone \/ Close
    BY <2>9 DEF ModelFails, NoChunk, ToolsDone, Close, turnVars, Ended
  <2>10. ASSUME NEW i \in Idx, NEW err \in BOOLEAN, ExecuteTool(i, err)
         PROVE  TypeOK'
    <3>1. CallId(i) \in CallIds
      BY DEF CallId, CallIds
    <3>2. Tool(CallId(i)) \in Message
      BY <3>1 DEF Tool, Message
    <3>3. ToolResultEvent(CallId(i), err) \in Event
      BY <3>1 DEF ToolResultEvent, Event
    <3> QED
      BY <2>10, <3>2, <3>3 DEF ExecuteTool, turnVars
  <2>11. ASSUME NEW i \in Idx, ArgumentsFail(i)
         PROVE  TypeOK'
    BY <2>11 DEF ArgumentsFail, turnVars, Ended
  <2>12. CASE UNCHANGED vars
    BY <2>12 DEF vars
  <2> QED
    BY <2>1, <2>2, <2>3, <2>4, <2>5, <2>6, <2>7, <2>8, <2>9, <2>10, <2>11, <2>12
       DEF Next, Stream, RunTools
<1>3. QED
  BY <1>1, <1>2, PTL DEF Spec

-----------------------------------------------------------------------------
(* The pairing of results with calls.  It is not inductive by itself: that *)
(* a new result's call was announced, and that its id is new, comes from   *)
(* what tool_buf and pending say about the current turn.                   *)

TurnStarted == pc \in {"streaming", "tools"} => turn >= 1

(* An index whose entry has an id was announced, and an id that was        *)
(* announced in this turn is in the buffer.                                *)
BufferAnnounced ==
    \A i \in Idx : toolBuf[i].id =>
        \E k \in DOMAIN events :
            events[k].type = "tool_call" /\ events[k].id = CallId(i)

AnnouncedBuffered ==
    \A k \in DOMAIN events :
        events[k].type = "tool_call" /\ events[k].id # NoId =>
            /\ events[k].id[1] <= turn
            /\ events[k].id[1] = turn =>
                  events[k].id[2] \in Idx /\ toolBuf[events[k].id[2]].id

(* What is pending has an id, and has no result yet; while a turn is being *)
(* received it has no results at all.                                      *)
PendingBuffered == pc = "tools" => \A i \in pending : toolBuf[i].id

ResultsNotPending ==
    \A k \in DOMAIN events :
        events[k].type = "tool_result" =>
            /\ events[k].id[1] <= turn
            /\ events[k].id[1] = turn =>
                  pc # "streaming" /\ (pc = "tools" => events[k].id[2] \notin pending)

PairingInv ==
    /\ TurnStarted
    /\ BufferAnnounced
    /\ AnnouncedBuffered
    /\ PendingBuffered
    /\ ResultsNotPending
    /\ ResultsPairWithCalls

(* Appending to a sequence keeps its elements and adds one at the end. *)
LEMMA AppendedElements ==
    ASSUME NEW S, NEW s \in Seq(S), NEW e \in S
    PROVE  /\ Len(Append(s, e)) = Len(s) + 1
           /\ DOMAIN Append(s, e) = DOMAIN s \cup {Len(s) + 1}
           /\ Len(s) + 1 \notin DOMAIN s
           /\ Append(s, e)[Len(s) + 1] = e
           /\ \A k \in DOMAIN s : Append(s, e)[k] = s[k] /\ k < Len(s) + 1
OBVIOUS

LEMMA EventIds ==
    ASSUME TypeOK
    PROVE  \A k \in DOMAIN events : events[k].id \in Nat \X Nat
<1>1. \A e \in Event : e.id \in Nat \X Nat
  BY DEF Event, CallIds, NoId
<1>2. \A k \in DOMAIN events : events[k] \in Event
  BY DEF TypeOK
<1> QED
  BY <1>1, <1>2

(* A step that changes neither events nor the buffer, the pending calls or *)
(* the turn, and does not enter a turn, keeps the pairing.                 *)
LEMMA QuietStep ==
    ASSUME PairingInv,
           UNCHANGED <<turn, events, pending, toolBuf>>,
           pc' = pc \/ pc' \notin {"streaming", "tools"}
    PROVE  PairingInv'
<1> USE DEF PairingInv
<1>1. TurnStarted'
  BY DEF TurnStarted
<1>2. BufferAnnounced' /\ AnnouncedBuffered'
  BY DEF BufferAnnounced, AnnouncedBuffered, CallId
<1>3. PendingBuffered'
  BY DEF PendingBuffered
<1>4. ResultsNotPending'
  BY DEF ResultsNotPending
<1>5. ResultsPairWithCalls'
  BY DEF ResultsPairWithCalls
<1> QED
  BY <1>1, <1>2, <1>3, <1>4, <1>5

(* So does a step that appends the terminal event and ends the run. *)
LEMMA CompletingStep ==
    ASSUME TypeOK, PairingInv, NEW reason \in FinishReasons,
           events' = Append(events, StreamComplete(reason)),
           UNCHANGED <<turn, pending, toolBuf>>,
           pc' = "complete"
    PROVE  PairingInv'
<1> DEFINE e == StreamComplete(reason)
<1>1. e \in Event /\ e.type = "complete" /\ e.id = NoId
  BY DEF StreamComplete, Event
<1>2. events \in Seq(Event) /\ events' = Append(events, e)
  BY DEF TypeOK
<1> HIDE DEF e
<1>3. /\ DOMAIN events' = DOMAIN events \cup {Len(events) + 1}
      /\ events'[Len(events) + 1] = e
      /\ \A k \in DOMAIN events : events'[k] = events[k] /\ k < Len(events) + 1
  BY <1>1, <1>2, AppendedElements
<1> USE DEF PairingInv
<1>4. TurnStarted' /\ PendingBuffered'
  BY DEF TurnStarted, PendingBuffered
<1>5. BufferAnnounced'
  BY <1>3 DEF BufferAnnounced, CallId
<1>6. AnnouncedBuffered'
  BY <1>1, <1>3 DEF AnnouncedBuffered
<1>7. ResultsNotPending'
  BY <1>1, <1>3 DEF ResultsNotPending
<1>8. ResultsPairWithCalls'
  BY <1>1, <1>3 DEF ResultsPairWithCalls
<1> QED
  BY <1>4, <1>5, <1>6, <1>7, <1>8

LEMMA CallModelPairs ==
    ASSUME TypeOK, PairingInv, CallModel
    PROVE  PairingInv'
<1>1. turn \in Nat /\ turn' = turn + 1 /\ pc' = "streaming"
      /\ toolBuf' = EmptyBuf /\ events' = events
  BY DEF TypeOK, CallModel
<1>2. \A k \in DOMAIN events : events[k].id \in Nat \X Nat
  BY EventIds
<1> USE DEF PairingInv
<1>3. TurnStarted'
  BY <1>1 DEF TurnStarted
<1>4. BufferAnnounced'
  BY <1>1 DEF BufferAnnounced, EmptyBuf
<1>5. AnnouncedBuffered'
  BY <1>1, <1>2 DEF AnnouncedBuffered
<1>6. PendingBuffered'
  BY <1>1 DEF PendingBuffered
<1>7. ResultsNotPending'
  BY <1>1, <1>2 DEF ResultsNotPending
<1>8. ResultsPairWithCalls'
  BY <1>1 DEF ResultsPairWithCalls
<1> QED
  BY <1>3, <1>4, <1>5, <1>6, <1>7, <1>8

LEMMA ToolTurnPairs ==
    ASSUME TypeOK, PairingInv, ToolTurn
    PROVE  PairingInv'
<1>1. /\ pc = "streaming" /\ pc' = "tools"
      /\ pending' = Assembled
      /\ UNCHANGED <<turn, toolBuf, events>>
  BY DEF ToolTurn, turnVars
<1> USE DEF PairingInv
<1>2. TurnStarted'
  BY <1>1 DEF TurnStarted
<1>3. BufferAnnounced' /\ AnnouncedBuffered'
  BY <1>1 DEF BufferAnnounced, AnnouncedBuffered, CallId
<1>4. PendingBuffered'
  BY <1>1 DEF PendingBuffered, Assembled
<1>5. ResultsNotPending'
  BY <1>1 DEF ResultsNotPending
<1>6. ResultsPairWithCalls'
  BY <1>1 DEF ResultsPairWithCalls
<1> QED
  BY <1>2, <1>3, <1>4, <1>5, <1>6

(* A delta announces a call only if the buffer had no id for its index, so *)
(* no earlier event announced that id.                                     *)
LEMMA ToolCallChunkPairs ==
    ASSUME TypeOK, PairingInv,
           NEW i \in Idx, NEW d \in ToolDeltas, ToolCallChunk(i, d)
    PROVE  PairingInv'
<1> DEFINE id == IF FirstDelta(i, d) THEN CallId(i) ELSE NoId
           e == ToolCallDelta(i, id, FirstDelta(i, d) /\ Merge(toolBuf[i], d).name,
                              d.args)
<1> USE ConstantsAssumption
<1>1. /\ pc = "streaming" /\ pc' = pc
      /\ turn' = turn /\ pending' = pending
      /\ toolBuf' = [toolBuf EXCEPT ![i] = Merge(toolBuf[i], d)]
      /\ events' = Append(events, e)
  BY DEF ToolCallChunk, Receive
<1>2. turn \in Nat /\ turn >= 1 /\ i \in Nat
  BY <1>1 DEF PairingInv, TurnStarted, TypeOK
<1>3. toolBuf \in [Idx -> BufEntry] /\ d \in ToolDelta
  BY DEF TypeOK
<1>4. /\ \A j \in Idx : toolBuf'[j].id <=> toolBuf[j].id \/ (j = i /\ d.id)
  BY <1>1, <1>3 DEF Merge, BufEntry, ToolDelta
<1>5. e.type = "tool_call" /\ e.id = id
  BY DEF ToolCallDelta
<1>6. e \in Event
  <2>1. id \in CallIds
    BY <1>2 DEF CallId, NoId, CallIds
  <2>2. /\ (FirstDelta(i, d) /\ Merge(toolBuf[i], d).name) \in BOOLEAN
        /\ d.args \in BOOLEAN
    BY <1>3 DEF ToolDelta
  <2> QED
    BY <2>1, <2>2 DEF ToolCallDelta, Event
<1>7. FirstDelta(i, d) <=> d.id /\ ~ toolBuf[i].id
  BY DEF FirstDelta
<1>8. CallId(i) = <<turn, i>> /\ CallId(i) # NoId
  BY <1>2 DEF CallId, NoId
<1> HIDE DEF e
<1>9. /\ DOMAIN events' = DOMAIN events \cup {Len(events) + 1}
      /\ events'[Len(events) + 1] = e
      /\ \A k \in DOMAIN events : events'[k] = events[k] /\ k < Len(events) + 1
  BY <1>1, <1>6, AppendedElements DEF TypeOK
<1>10. TurnStarted'
  BY <1>1 DEF TurnStarted, PairingInv
<1>11. BufferAnnounced'
  <2> SUFFICES ASSUME NEW j \in Idx, toolBuf'[j].id
               PROVE  \E k \in DOMAIN events' :
                         events'[k].type = "tool_call" /\ events'[k].id = <<turn', j>>
    BY DEF BufferAnnounced, CallId
  <2>1. CASE toolBuf[j].id
    <3>1. PICK k \in DOMAIN events :
             events[k].type = "tool_call" /\ events[k].id = <<turn, j>>
      BY <2>1 DEF PairingInv, BufferAnnounced, CallId
    <3>2. /\ k \in DOMAIN events' /\ events'[k] = events[k]
          /\ <<turn', j>> = <<turn, j>>
      BY <1>1, <1>9
    <3> QED
      BY <3>1, <3>2
  <2>2. CASE ~ toolBuf[j].id
    <3>1. j = i /\ FirstDelta(i, d)
      BY <2>2, <1>4, <1>7
    <3> QED
      BY <3>1, <1>1, <1>5, <1>8, <1>9
  <2> QED
    BY <2>1, <2>2
<1>12. AnnouncedBuffered'
  <2> SUFFICES ASSUME NEW k \in DOMAIN events',
                      events'[k].type = "tool_call", events'[k].id # NoId
               PROVE  /\ events'[k].id[1] <= turn
                      /\ events'[k].id[1] = turn =>
                            /\ events'[k].id[2] \in Idx
                            /\ toolBuf'[events'[k].id[2]].id
    BY <1>1 DEF AnnouncedBuffered
  <2>1. CASE k \in DOMAIN events
    BY <2>1, <1>4, <1>9 DEF PairingInv, AnnouncedBuffered
  <2>2. CASE k = Len(events) + 1
    BY <2>2, <1>2, <1>4, <1>5, <1>7, <1>8, <1>9
  <2> QED
    BY <2>1, <2>2, <1>9
<1>13. PendingBuffered'
  BY <1>1 DEF PendingBuffered
<1>14. ResultsNotPending'
  BY <1>1, <1>5, <1>9 DEF PairingInv, ResultsNotPending
<1>15. ResultsPairWithCalls'
  <2>1. \A k \in DOMAIN events :
           events[k].type = "tool_call" /\ id # NoId => events[k].id # id
    BY <1>2, <1>7, <1>8 DEF PairingInv, AnnouncedBuffered
  <2> QED
    BY <2>1, <1>5, <1>9 DEF PairingInv, ResultsPairWithCalls
<1> QED
  BY <1>10, <1>11, <1>12, <1>13, <1>14, <1>15 DEF PairingInv

(* A result is one of a pending call: announced, and without a result yet. *)
LEMMA ExecuteToolPairs ==
    ASSUME TypeOK, PairingInv,
           NEW i \in Idx, NEW err \in BOOLEAN, ExecuteTool(i, err)
    PROVE  PairingInv'
<1> DEFINE e == ToolResultEvent(CallId(i), err)
<1> USE ConstantsAssumption
<1>1. /\ pc = "tools" /\ pc' = pc
      /\ i \in pending /\ pending' = pending \ {i}
      /\ UNCHANGED <<turn, toolBuf>>
      /\ events' = Append(events, e)
  BY DEF ExecuteTool, NextCall, turnVars
<1>2. turn \in Nat /\ turn >= 1 /\ i \in Nat
  BY <1>1 DEF PairingInv, TurnStarted, TypeOK
<1>3. e.type = "tool_result" /\ e.id = CallId(i)
  BY DEF ToolResultEvent
<1>4. e \in Event
  BY <1>2 DEF ToolResultEvent, Event, CallId, CallIds
<1>5. CallId(i) = <<turn, i>> /\ CallId(i) # NoId
  BY <1>2 DEF CallId, NoId
<1> HIDE DEF e
<1>6. /\ DOMAIN events' = DOMAIN events \cup {Len(events) + 1}
      /\ events'[Len(events) + 1] = e
      /\ \A k \in DOMAIN events : events'[k] = events[k] /\ k < Len(events) + 1
  BY <1>1, <1>4, AppendedElements DEF TypeOK
<1>7. TurnStarted' /\ PendingBuffered'
  BY <1>1 DEF TurnStarted, PendingBuffered, PairingInv
<1>8. BufferAnnounced'
  <2> SUFFICES ASSUME NEW j \in Idx, toolBuf[j].id
               PROVE  \E k \in DOMAIN events' :
                         events'[k].type = "tool_call" /\ events'[k].id = <<turn, j>>
    BY <1>1 DEF BufferAnnounced, CallId
  <2> QED
    BY <1>6 DEF BufferAnnounced, CallId, PairingInv
<1>9. AnnouncedBuffered'
  BY <1>1, <1>3, <1>6 DEF AnnouncedBuffered, PairingInv
<1>10. ResultsNotPending'
  <2> SUFFICES ASSUME NEW k \in DOMAIN events',
                      events'[k].type = "tool_result"
               PROVE  /\ events'[k].id[1] <= turn
                      /\ events'[k].id[1] = turn => events'[k].id[2] \notin pending'
    BY <1>1 DEF ResultsNotPending
  <2>1. CASE k \in DOMAIN events
    BY <2>1, <1>1, <1>6 DEF PairingInv, ResultsNotPending
  <2>2. CASE k = Len(events) + 1
    BY <2>2, <1>1, <1>2, <1>3, <1>5, <1>6
  <2> QED
    BY <2>1, <2>2, <1>6
<1>11. ResultsPairWithCalls'
  <2>1. \E k \in DOMAIN events :
           events[k].type = "tool_call" /\ events[k].id = CallId(i)
    BY <1>1 DEF PairingInv, PendingBuffered, BufferAnnounced
  <2>2. \A k \in DOMAIN events :
           events[k].type = "tool_result" => events[k].id # CallId(i)
    BY <1>1, <1>2, <1>5 DEF PairingInv, ResultsNotPending
  <2> QED
    BY <2>1, <2>2, <1>3, <1>6 DEF PairingInv, ResultsPairWithCalls
<1> QED
  BY <1>7, <1>8, <1>9, <1>10, <1>11 DEF PairingInv

LEMMA Pairing == Spec => []PairingInv
<1>1. Init => PairingInv
  BY DEF Init, PairingInv, TurnStarted, BufferAnnounced, AnnouncedBuffered,
         PendingBuffered, ResultsNotPending, ResultsPairWithCalls, EmptyBuf
<1>2. TypeOK /\ PairingInv /\ [Next]_vars => PairingInv'
  <2> SUFFICES ASSUME TypeOK, PairingInv, [Next]_vars
               PROVE  PairingInv'
    OBVIOUS
  <2>1. CASE CallModel
    BY <2>1, CallModelPairs
  <2>2. CASE HitCap
    <3>1. "length" \in FinishReasons
      BY ConstantsAssumption
    <3> QED
      BY <2>2, <3>1, CompletingStep DEF HitCap, turnVars
  <2>3. CASE FinalTurn
    <3>1. finish \in FinishReasons
      BY DEF TypeOK
    <3> QED
      BY <2>3, <3>1, CompletingStep DEF FinalTurn, turnVars
  <2>4. CASE OtherChunk \/ ContentChunk \/ \E reason \in FinishReasons : FinishChunk(reason)
    BY <2>4, QuietStep DEF OtherChunk, ContentChunk, FinishChunk, Receive
  <2>5. CASE \E i \in Idx, d \in ToolDeltas : ToolCallChunk(i, d)
    BY <2>5, ToolCallChunkPairs
  <2>6. CASE ToolTurn
    BY <2>6, ToolTurnPairs
  <2>7. CASE \E i \in Idx, err \in BOOLEAN : ExecuteTool(i, err)
    BY <2>7, ExecuteToolPairs
  <2>8. CASE \E i \in Idx : ArgumentsFail(i)
    BY <2>8, QuietStep DEF ArgumentsFail, turnVars
  <2>9. CASE ModelFails \/ NoChunk \/ ToolsDone \/ Close
    BY <2>9, QuietStep DEF ModelFails, NoChunk, ToolsDone, Close, turnVars
  <2>10. CASE UNCHANGED vars
    BY <2>10, QuietStep DEF vars
  <2> QED
    BY <2>1, <2>2, <2>3, <2>4, <2>5, <2>6, <2>7, <2>8, <2>9, <2>10
       DEF Next, Stream, RunTools
<1>3. QED
  BY <1>1, <1>2, TypeCorrect, PTL DEF Spec

(* Every result a consumer is given has the id of one call that was        *)
(* announced before it, once, and it is the only result with that id.      *)
THEOREM ResultsPair == Spec => []ResultsPairWithCalls
<1>1. PairingInv => ResultsPairWithCalls
  BY DEF PairingInv
<1>2. QED
  BY <1>1, Pairing, PTL

-----------------------------------------------------------------------------
(* The shape of the history.  Between the assistant message of a turn and  *)
(* the last answer the history is well shaped but for the calls pending,   *)
(* which are calls of the last message that is not a tool message.         *)

OpenAt(ms, m) ==
    /\ m \in DOMAIN ms
    /\ \A k \in DOMAIN ms : m < k => ms[k].role = "tool"
    /\ \A i \in pending : CallId(i) \in ms[m].calls
    /\ \A i \in DOMAIN ms : \A c \in ms[i].calls :
          \/ \E j \in DOMAIN ms : Answers(ms, i, j) /\ ms[j].id = c
          \/ i = m /\ \E p \in pending : c = CallId(p)
    /\ \A j \in DOMAIN ms : ms[j].role = "tool" =>
          \E i \in DOMAIN ms : Answers(ms, i, j)

HistoryInv ==
    /\ pc \in {"request", "streaming"} => Paired(messages)
    /\ pc = "tools" => \E m \in DOMAIN messages : OpenAt(messages, m)

(* What answered a call still does when the history grows. *)
LEMMA AnswersKept ==
    ASSUME NEW ms \in Seq(Message), NEW e \in Message,
           NEW i \in DOMAIN ms, NEW j \in DOMAIN ms
    PROVE  Answers(Append(ms, e), i, j) <=> Answers(ms, i, j)
<1> DEFINE ext == Append(ms, e)
<1>1. /\ DOMAIN ext = DOMAIN ms \cup {Len(ms) + 1}
      /\ \A k \in DOMAIN ms : ext[k] = ms[k] /\ k < Len(ms) + 1
  BY AppendedElements
<1>2. ~ (Len(ms) + 1 < j)
  BY <1>1
<1> HIDE DEF ext
<1>3. Answers(ext, i, j) <=> Answers(ms, i, j)
  BY <1>1, <1>2 DEF Answers
<1> QED
  BY <1>3 DEF ext

(* The assistant message of a turn opens it. *)
LEMMA ToolTurnOpens ==
    ASSUME TypeOK, HistoryInv, ToolTurn
    PROVE  HistoryInv'
<1> DEFINE a == Assistant({CallId(i) : i \in Assembled})
<1> USE ConstantsAssumption
<1>1. /\ pc' = "tools" /\ turn' = turn
      /\ pending' = Assembled
      /\ messages' = Append(messages, a)
      /\ Paired(messages)
  BY DEF ToolTurn, turnVars, HistoryInv
<1>2. messages \in Seq(Message) /\ turn \in Nat
  BY DEF TypeOK
<1> PICK m \in Nat : m = Len(messages) + 1
  BY <1>2
<1>3. a \in Message
  <2>1. {CallId(i) : i \in Assembled} \in SUBSET CallIds
    BY <1>2 DEF CallId, CallIds, Assembled
  <2> QED
    BY <2>1 DEF Assistant, Message, NoId, CallIds
<1>4. a.role = "assistant" /\ a.calls = {CallId(i) : i \in Assembled}
  BY DEF Assistant
<1> HIDE DEF a
<1>5. /\ DOMAIN messages' = DOMAIN messages \cup {m}
      /\ m \notin DOMAIN messages
      /\ messages'[m] = a
      /\ \A k \in DOMAIN messages : messages'[k] = messages[k] /\ k < m
  BY <1>1, <1>2, <1>3, AppendedElements
<1>6. \A i, j \in DOMAIN messages :
         Answers(messages', i, j) <=> Answers(messages, i, j)
  BY <1>1, <1>2, <1>3, AnswersKept
<1>7. ~ (m < m)
  OBVIOUS
<1>8. \A k \in DOMAIN messages' : m < k => messages'[k].role = "tool"
  <2>1. \A k \in DOMAIN messages : ~ (m < k)
    OBVIOUS
  <2> QED
    BY <2>1, <1>5, <1>7
<1>9. \A i \in pending' : CallId(i)' \in messages'[m].calls
  BY <1>1, <1>4, <1>5 DEF CallId
<1>10. ASSUME NEW i \in DOMAIN messages', NEW c \in messages'[i].calls
       PROVE  \/ \E j \in DOMAIN messages' :
                    Answers(messages', i, j) /\ messages'[j].id = c
              \/ i = m /\ \E p \in pending' : c = CallId(p)'
  <2>1. CASE i \in DOMAIN messages
    <3>1. PICK j \in DOMAIN messages : Answers(messages, i, j) /\ messages[j].id = c
      BY <2>1, <1>1, <1>5 DEF Paired
    <3> QED
      BY <2>1, <3>1, <1>5, <1>6
  <2>2. CASE i = m
    BY <2>2, <1>1, <1>4, <1>5 DEF CallId
  <2> QED
    BY <2>1, <2>2, <1>5
<1>11. ASSUME NEW j \in DOMAIN messages', messages'[j].role = "tool"
       PROVE  \E i \in DOMAIN messages' : Answers(messages', i, j)
  <2>1. j \in DOMAIN messages /\ messages[j].role = "tool"
    BY <1>4, <1>5, <1>11
  <2>2. PICK i \in DOMAIN messages : Answers(messages, i, j)
    BY <2>1, <1>1 DEF Paired
  <2> QED
    BY <2>1, <2>2, <1>5, <1>6
<1>12. OpenAt(messages, m)'
  BY <1>5, <1>8, <1>9, <1>10, <1>11 DEF OpenAt
<1> QED
  BY <1>1, <1>5, <1>12 DEF HistoryInv

(* An answer closes one of the calls pending and leaves the turn open at   *)
(* the same message.                                                       *)
LEMMA ExecuteToolAnswers ==
    ASSUME TypeOK, HistoryInv,
           NEW i \in Idx, NEW err \in BOOLEAN, ExecuteTool(i, err)
    PROVE  HistoryInv'
<1> DEFINE t == Tool(CallId(i))
           n == Len(messages) + 1
<1> USE ConstantsAssumption
<1>1. /\ pc = "tools" /\ pc' = "tools" /\ turn' = turn
      /\ i \in pending /\ pending' = pending \ {i}
      /\ messages' = Append(messages, t)
  BY DEF ExecuteTool, NextCall, turnVars
<1>2. messages \in Seq(Message) /\ turn \in Nat
  BY DEF TypeOK
<1>3. PICK m \in DOMAIN messages : OpenAt(messages, m)
  BY <1>1 DEF HistoryInv
<1>4. t \in Message
  BY <1>2 DEF Tool, Message, CallId, CallIds
<1>5. t.role = "tool" /\ t.id = CallId(i) /\ t.calls = {}
  BY DEF Tool
<1> HIDE DEF t
<1>6. /\ DOMAIN messages' = DOMAIN messages \cup {n}
      /\ n \notin DOMAIN messages
      /\ messages'[n] = t
      /\ \A k \in DOMAIN messages : messages'[k] = messages[k] /\ k < n
  BY <1>1, <1>2, <1>4, AppendedElements
<1>7. \A k, j \in DOMAIN messages :
         Answers(messages', k, j) <=> Answers(messages, k, j)
  BY <1>1, <1>2, <1>4, AnswersKept
<1> HIDE DEF n
<1>8. ~ (n < n)
  BY <1>2 DEF n
<1>9. \A k \in DOMAIN messages' : m < k => messages'[k].role = "tool"
  BY <1>3, <1>5, <1>6 DEF OpenAt
<1>10. Answers(messages', m, n)
  <2>1. m < n /\ messages'[m] = messages[m] /\ CallId(i) \in messages[m].calls
    BY <1>1, <1>3, <1>6 DEF OpenAt
  <2> QED
    BY <2>1, <1>5, <1>6, <1>9 DEF Answers
<1>11. \A p \in pending' : CallId(p)' \in messages'[m].calls
  BY <1>1, <1>3, <1>6 DEF OpenAt, CallId
<1>12. ASSUME NEW k \in DOMAIN messages', NEW c \in messages'[k].calls
       PROVE  \/ \E j \in DOMAIN messages' :
                    Answers(messages', k, j) /\ messages'[j].id = c
              \/ k = m /\ \E p \in pending' : c = CallId(p)'
  <2>1. k \in DOMAIN messages /\ c \in messages[k].calls
    BY <1>5, <1>6
  <2>2. CASE \E j \in DOMAIN messages : Answers(messages, k, j) /\ messages[j].id = c
    BY <2>1, <2>2, <1>6, <1>7
  <2>3. CASE k = m /\ \E p \in pending : c = CallId(p)
    <3>1. PICK p \in pending : c = CallId(p)
      BY <2>3
    <3>2. CASE p = i
      BY <2>3, <3>1, <3>2, <1>5, <1>6, <1>10
    <3>3. CASE p # i
      BY <2>3, <3>1, <3>3, <1>1 DEF CallId
    <3> QED
      BY <3>2, <3>3
  <2> QED
    BY <2>1, <2>2, <2>3, <1>3 DEF OpenAt
<1>13. ASSUME NEW j \in DOMAIN messages', messages'[j].role = "tool"
       PROVE  \E k \in DOMAIN messages' : Answers(messages', k, j)
  <2>1. CASE j = n
    BY <2>1, <1>6, <1>10
  <2>2. CASE j \in DOMAIN messages
    <3>1. PICK k \in DOMAIN messages : Answers(messages, k, j)
      BY <2>2, <1>3, <1>6, <1>13 DEF OpenAt
    <3> QED
      BY <2>2, <3>1, <1>6, <1>7
  <2> QED
    BY <2>1, <2>2, <1>6
<1>14. /\ m \in DOMAIN messages'
       /\ OpenAt(messages, m)'
  BY <1>6, <1>9, <1>11, <1>12, <1>13 DEF OpenAt
<1> QED
  BY <1>1, <1>14 DEF HistoryInv

(* Whenever the loop is about to call the model, every tool call in the    *)
(* history is answered right after the message that made it, and every     *)
(* tool message answers one.                                               *)
THEOREM CallsAlwaysPaired == Spec => []CallsPaired
<1>1. Init => HistoryInv
  <2> SUFFICES ASSUME Init
               PROVE  Paired(messages) /\ pc = "request"
    BY DEF HistoryInv
  <2>1. DOMAIN messages = {1} /\ messages[1] = User /\ pc = "request"
    BY DEF Init
  <2>2. User.role # "tool" /\ User.calls = {}
    BY DEF User
  <2> QED
    BY <2>1, <2>2 DEF Paired
<1>2. TypeOK /\ HistoryInv /\ [Next]_vars => HistoryInv'
  <2> SUFFICES ASSUME TypeOK, HistoryInv, [Next]_vars
               PROVE  HistoryInv'
    OBVIOUS
  <2>1. CASE CallModel
    BY <2>1 DEF CallModel, HistoryInv, Paired
  <2>2. CASE HitCap \/ FinalTurn \/ ModelFails \/ NoChunk \/ Close
             \/ \E i \in Idx : ArgumentsFail(i)
    BY <2>2 DEF HitCap, FinalTurn, ModelFails, NoChunk, Close, ArgumentsFail, HistoryInv
  <2>3. CASE \/ OtherChunk \/ ContentChunk
             \/ \E reason \in FinishReasons : FinishChunk(reason)
             \/ \E i \in Idx, d \in ToolDeltas : ToolCallChunk(i, d)
    <3>1. pc = "streaming" /\ UNCHANGED <<pc, messages>>
      BY <2>3 DEF OtherChunk, ContentChunk, FinishChunk, ToolCallChunk, Receive
    <3> QED
      BY <3>1 DEF HistoryInv
  <2>4. CASE ToolTurn
    BY <2>4, ToolTurnOpens
  <2>5. CASE \E i \in Idx, err \in BOOLEAN : ExecuteTool(i, err)
    BY <2>5, ExecuteToolAnswers
  <2>6. CASE ToolsDone
    <3>1. /\ pc = "tools" /\ pc' = "request" /\ pending = {}
          /\ messages' = messages
      BY <2>6 DEF ToolsDone
    <3>2. Paired(messages)
      BY <3>1 DEF HistoryInv, OpenAt, Paired
    <3> QED
      BY <3>1, <3>2 DEF HistoryInv
  <2>7. CASE UNCHANGED vars
    BY <2>7 DEF vars, HistoryInv, OpenAt, CallId
  <2> QED
    BY <2>1, <2>2, <2>3, <2>4, <2>5, <2>6, <2>7 DEF Next, Stream, RunTools
<1>3. HistoryInv => CallsPaired
  BY DEF HistoryInv, CallsPaired
<1>4. QED
  BY <1>1, <1>2, <1>3, TypeCorrect, PTL DEF Spec

-----------------------------------------------------------------------------
(* What the client sees of the tools and what the model sees.  Each result *)
(* is streamed in the step that puts its answer into the history; that the *)
(* id is a new one, so that the two orders can be compared, is known from  *)
(* the pairing.                                                            *)
SameIds == {events[j].id : j \in Results} = {messages[k].id : k \in Answered}

SameOrder ==
    \A i, j \in Results, k, l \in Answered :
        events[i].id = messages[k].id /\ events[j].id = messages[l].id => (i < j <=> k < l)

AgreeInv ==
    /\ SameIds
    /\ SameOrder
    /\ IsFiniteSet(Results)
    /\ pc # "failed" => executed = Cardinality(Results)

(* A step that appends neither a result nor an answer.                     *)
LEMMA AgreeQuietly ==
    ASSUME TypeOK, AgreeInv, executed' = executed \/ pc' = "failed",
           pc # "failed" \/ pc' = pc,
           events' = events \/ \E e \in Event : events' = Append(events, e) /\ e.type # "tool_result",
           messages' = messages
              \/ \E m \in Message : messages' = Append(messages, m) /\ m.role # "tool"
    PROVE  AgreeInv'
<1>1. events \in Seq(Event) /\ messages \in Seq(Message)
  BY DEF TypeOK
<1>2. Results' = Results /\ \A k \in Results : events'[k] = events[k]
  <2>1. CASE events' = events
    BY <2>1 DEF Results
  <2>2. CASE \E e \in Event : events' = Append(events, e) /\ e.type # "tool_result"
    <3>1. PICK e \in Event : events' = Append(events, e) /\ e.type # "tool_result"
      BY <2>2
    <3>2. /\ DOMAIN events' = DOMAIN events \cup {Len(events) + 1}
          /\ events'[Len(events) + 1] = e
          /\ \A k \in DOMAIN events : events'[k] = events[k]
      BY <1>1, <3>1, AppendedElements
    <3> QED
      BY <3>1, <3>2 DEF Results
  <2> QED
    BY <2>1, <2>2
<1>3. Answered' = Answered /\ \A k \in Answered : messages'[k] = messages[k]
  <2>1. CASE messages' = messages
    BY <2>1 DEF Answered
  <2>2. CASE \E m \in Message : messages' = Append(messages, m) /\ m.role # "tool"
    <3>1. PICK m \in Message : messages' = Append(messages, m) /\ m.role # "tool"
      BY <2>2
    <3>2. /\ DOMAIN messages' = DOMAIN messages \cup {Len(messages) + 1}
          /\ messages'[Len(messages) + 1] = m
          /\ \A k \in DOMAIN messages : messages'[k] = messages[k]
      BY <1>1, <3>1, AppendedElements
    <3> QED
      BY <3>1, <3>2 DEF Answered
  <2> QED
    BY <2>1, <2>2
<1>4. SameIds'
  <2>1. {events'[j].id : j \in Results'} = {events[j].id : j \in Results}
    BY <1>2
  <2>2. {messages'[k].id : k \in Answered'} = {messages[k].id : k \in Answered}
    BY <1>3
  <2> QED
    BY <2>1, <2>2 DEF AgreeInv, SameIds
<1>5. SameOrder'
  <2> SUFFICES ASSUME NEW a \in Results', NEW b \in Results', NEW k \in Answered', NEW l \in Answered',
                      events'[a].id = messages'[k].id, events'[b].id = messages'[l].id
               PROVE  a < b <=> k < l
    BY DEF SameOrder
  <2> QED
    BY <1>2, <1>3 DEF AgreeInv, SameOrder
<1> QED
  BY <1>2, <1>4, <1>5 DEF AgreeInv

(* The results and the answers grow by one each, at their ends.            *)
LEMMA ExecuteToolAgrees ==
    ASSUME TypeOK, PairingInv, AgreeInv,
           NEW i \in Idx, NEW err \in BOOLEAN, ExecuteTool(i, err)
    PROVE  AgreeInv'
<1> DEFINE e == ToolResultEvent(CallId(i), err)
           m == Tool(CallId(i))
<1>1. /\ pc = "tools" /\ pc' = pc /\ i \in pending /\ executed' = executed + 1
      /\ events' = Append(events, e) /\ messages' = Append(messages, m)
  BY DEF ExecuteTool, NextCall
<1>2. turn \in Nat /\ i \in Nat
  BY ConstantsAssumption DEF TypeOK
<1>3. /\ e \in Event /\ e.type = "tool_result" /\ e.id = CallId(i)
      /\ m \in Message /\ m.role = "tool" /\ m.id = CallId(i)
  BY <1>2 DEF ToolResultEvent, Tool, Event, Message, CallId, CallIds
<1> HIDE DEF e, m
<1>4. /\ DOMAIN events' = DOMAIN events \cup {Len(events) + 1}
      /\ Len(events) + 1 \notin DOMAIN events /\ events'[Len(events) + 1] = e
      /\ \A k \in DOMAIN events : events'[k] = events[k] /\ k < Len(events) + 1
  BY <1>1, <1>3, AppendedElements DEF TypeOK
<1>5. /\ DOMAIN messages' = DOMAIN messages \cup {Len(messages) + 1}
      /\ messages'[Len(messages) + 1] = m
      /\ \A k \in DOMAIN messages : messages'[k] = messages[k] /\ k < Len(messages) + 1
  BY <1>1, <1>3, AppendedElements DEF TypeOK
<1>6. /\ Results' = Results \cup {Len(events) + 1} /\ Len(events) + 1 \notin Results
      /\ events'[Len(events) + 1].id = CallId(i)
      /\ \A k \in Results : events'[k] = events[k] /\ k < Len(events) + 1 /\ k \in Int
  BY <1>3, <1>4 DEF Results, TypeOK
<1>7. /\ Answered' = Answered \cup {Len(messages) + 1}
      /\ messages'[Len(messages) + 1].id = CallId(i)
      /\ \A k \in Answered : messages'[k] = messages[k] /\ k < Len(messages) + 1 /\ k \in Int
  BY <1>3, <1>5 DEF Answered, TypeOK
<1>8. Len(events) \in Int /\ Len(messages) \in Int
  BY DEF TypeOK
<1>9. \A k \in Results : events[k].id # CallId(i)
  BY <1>1, <1>2 DEF PairingInv, ResultsNotPending, Results, CallId
<1>10. \A k \in Answered : messages[k].id # CallId(i)
  <2> SUFFICES ASSUME NEW k \in Answered PROVE messages[k].id # CallId(i)
    OBVIOUS
  <2>1. PICK j \in Results : messages[k].id = events[j].id
    BY DEF AgreeInv, SameIds
  <2> QED
    BY <1>9, <2>1
<1>11. SameIds'
  <2>1. {events'[j].id : j \in Results'} = {events[j].id : j \in Results} \cup {CallId(i)}
    BY <1>6
  <2>2. {messages'[k].id : k \in Answered'} = {messages[k].id : k \in Answered} \cup {CallId(i)}
    BY <1>7
  <2> QED
    BY <2>1, <2>2 DEF AgreeInv, SameIds
<1>12. SameOrder'
  <2> SUFFICES ASSUME NEW a \in Results', NEW b \in Results', NEW k \in Answered', NEW l \in Answered',
                      events'[a].id = messages'[k].id, events'[b].id = messages'[l].id
               PROVE  a < b <=> k < l
    BY DEF SameOrder
  <2>1. a \in Results <=> k \in Answered
    BY <1>6, <1>7, <1>9, <1>10
  <2>2. b \in Results <=> l \in Answered
    BY <1>6, <1>7, <1>9, <1>10
  <2>3. CASE a \in Results /\ b \in Results
    BY <1>6, <1>7, <2>1, <2>2, <2>3 DEF AgreeInv, SameOrder
  <2>4. CASE a \notin Results \/ b \notin Results
    BY <1>6, <1>7, <1>8, <2>1, <2>2, <2>4
  <2> QED
    BY <2>3, <2>4
<1>13. IsFiniteSet(Results') /\ Cardinality(Results') = Cardinality(Results) + 1
  BY <1>6, FS_AddElement DEF AgreeInv
<1> QED
  BY <1>1, <1>11, <1>12, <1>13 DEF AgreeInv

(* The client and the model are told the same results in the same order,   *)
(* and tool_calls counts them when the stream completes; for any number of *)
(* model calls, of calls in a turn and of failing tools.                   *)
THEOREM ClientAndModelAgree == Spec => []ClientAndHistoryAgree
<1>1. Init => AgreeInv
  <2> SUFFICES ASSUME Init PROVE AgreeInv
    OBVIOUS
  <2>1. events = <<>> /\ messages = <<User>> /\ executed = 0 /\ User.role # "tool"
    BY DEF Init, User
  <2>2. Results = {} /\ Answered = {}
    BY <2>1 DEF Results, Answered
  <2> QED
    BY <2>1, <2>2, FS_EmptySet DEF AgreeInv, SameIds, SameOrder
<1>2. TypeOK /\ PairingInv /\ AgreeInv /\ [Next]_vars => AgreeInv'
  <2> SUFFICES ASSUME TypeOK, PairingInv, AgreeInv, [Next]_vars PROVE AgreeInv'
    OBVIOUS
  <2>1. CASE CallModel \/ OtherChunk \/ ContentChunk \/ (\E reason \in FinishReasons : FinishChunk(reason))
    BY <2>1, AgreeQuietly DEF CallModel, OtherChunk, ContentChunk, FinishChunk, Receive
  <2>2. CASE HitCap
    <3>1. StreamComplete("length") \in Event /\ StreamComplete("length").type # "tool_result"
      BY ConstantsAssumption DEF StreamComplete, Event
    <3> QED
      BY <2>2, <3>1, AgreeQuietly DEF HitCap
  <2>3. CASE FinalTurn
    <3>1. StreamComplete(finish) \in Event /\ StreamComplete(finish).type # "tool_result"
      BY DEF StreamComplete, Event, TypeOK
    <3>2. Answer \in Message /\ Answer.role # "tool"
      BY DEF Answer, Message, NoId, CallIds
    <3> QED
      BY <2>3, <3>1, <3>2, AgreeQuietly DEF FinalTurn
  <2>4. CASE \E i \in Idx, d \in ToolDeltas : ToolCallChunk(i, d)
    <3>1. PICK i \in Idx, d \in ToolDeltas : ToolCallChunk(i, d)
      BY <2>4
    <3> DEFINE id == IF FirstDelta(i, d) THEN CallId(i) ELSE NoId
               e == ToolCallDelta(i, id, FirstDelta(i, d) /\ Merge(toolBuf[i], d).name, d.args)
    <3>2. id \in CallIds
      BY ConstantsAssumption DEF TypeOK, CallId, NoId, CallIds
    <3>3. (FirstDelta(i, d) /\ Merge(toolBuf[i], d).name) \in BOOLEAN /\ d.args \in BOOLEAN
      BY ConstantsAssumption DEF ToolDelta
    <3>4. e \in Event /\ e.type = "tool_call"
      BY <3>2, <3>3 DEF ToolCallDelta, Event
    <3>5. /\ events' = Append(events, e) /\ messages' = messages
          /\ executed' = executed /\ pc' = pc
      BY <3>1 DEF ToolCallChunk, Receive
    <3> QED
      BY <3>4, <3>5, AgreeQuietly
  <2>5. CASE ToolTurn
    <3>1. \A calls \in SUBSET CallIds : Assistant(calls) \in Message /\ Assistant(calls).role # "tool"
      BY DEF Assistant, Message, NoId, CallIds
    <3>2. {CallId(i) : i \in Assembled} \in SUBSET CallIds
      BY ConstantsAssumption DEF CallId, CallIds, Assembled, TypeOK
    <3> QED
      BY <2>5, <3>1, <3>2, AgreeQuietly DEF ToolTurn
  <2>6. CASE \E i \in Idx, err \in BOOLEAN : ExecuteTool(i, err)
    BY <2>6, ExecuteToolAgrees
  <2>7. CASE \E i \in Idx : ArgumentsFail(i)
    BY <2>7, AgreeQuietly DEF ArgumentsFail
  <2>8. CASE ModelFails \/ NoChunk \/ ToolsDone \/ Close
    BY <2>8, AgreeQuietly DEF ModelFails, NoChunk, ToolsDone, Close, Ended
  <2>9. CASE UNCHANGED vars
    BY <2>9, AgreeQuietly DEF vars
  <2> QED
    BY <2>1, <2>2, <2>3, <2>4, <2>5, <2>6, <2>7, <2>8, <2>9 DEF Next, Stream, RunTools
<1>3. AgreeInv => ClientAndHistoryAgree
  BY DEF AgreeInv, SameIds, SameOrder, ClientAndHistoryAgree
<1>4. Spec => [](TypeOK /\ PairingInv)
  BY TypeCorrect, Pairing, PTL
<1>5. QED
  BY <1>1, <1>2, <1>3, <1>4, PTL DEF Spec

-----------------------------------------------------------------------------
(* The stream of chunks and the page.  The serializer only lets the loop   *)
(* run on, so what was proved of the loop holds behind it.                 *)

(* What a step of the loop does to its events. *)
LEMMA EventsOfStep ==
    ASSUME TypeOK, Next
    PROVE  /\ pc \notin Ended /\ turn' >= turn
           /\ \/ events' = events /\ pc' # "complete"
              \/ /\ turn' = turn
                 /\ \E e \in Event :
                       /\ events' = Append(events, e)
                       /\ e.type = "complete" <=> pc' = "complete"
                       /\ e.type = "tool_call" =>
                             pc = "streaming" /\ (e.id # NoId => e.id = <<turn, e.idx>>)
<1>t. turn \in Nat
  BY DEF TypeOK
<1>1. CASE CallModel
  BY <1>t, <1>1 DEF CallModel, Ended
<1>2. CASE HitCap
  <2>1. StreamComplete("length") \in Event /\ StreamComplete("length").type = "complete"
    BY ConstantsAssumption DEF StreamComplete, Event
  <2> QED
    BY <1>t, <1>2, <2>1 DEF HitCap, Ended
<1>3. CASE FinalTurn
  <2>1. StreamComplete(finish) \in Event /\ StreamComplete(finish).type = "complete"
    BY DEF StreamComplete, Event, TypeOK
  <2> QED
    BY <1>t, <1>3, <2>1 DEF FinalTurn, Ended
<1>4. CASE \E i \in Idx, d \in ToolDeltas : ToolCallChunk(i, d)
  <2>1. PICK i \in Idx, d \in ToolDeltas : ToolCallChunk(i, d)
    BY <1>4
  <2> DEFINE id == IF FirstDelta(i, d) THEN CallId(i) ELSE NoId
             e == ToolCallDelta(i, id, FirstDelta(i, d) /\ Merge(toolBuf[i], d).name, d.args)
  <2>2. id \in CallIds /\ (id # NoId => id = <<turn, i>>)
    BY <1>t, ConstantsAssumption DEF CallId, NoId, CallIds
  <2>3. (FirstDelta(i, d) /\ Merge(toolBuf[i], d).name) \in BOOLEAN /\ d.args \in BOOLEAN
    BY ConstantsAssumption DEF ToolDelta
  <2>4. e \in Event /\ e.type = "tool_call" /\ e.id = id /\ e.idx = i
    BY <2>2, <2>3 DEF ToolCallDelta, Event
  <2>5. /\ events' = Append(events, e) /\ turn' = turn
        /\ pc' = pc /\ pc = "streaming"
    BY <2>1 DEF ToolCallChunk, Receive
  <2> HIDE DEF e, id
  <2> QED
    BY <1>t, <2>2, <2>4, <2>5 DEF Ended
<1>5. CASE \E i \in Idx, err \in BOOLEAN : ExecuteTool(i, err)
  <2>1. PICK i \in Idx, err \in BOOLEAN : ExecuteTool(i, err)
    BY <1>5
  <2>2. ToolResultEvent(CallId(i), err) \in Event /\ ToolResultEvent(CallId(i), err).type = "tool_result"
    BY <1>t, ConstantsAssumption DEF ToolResultEvent, Event, CallId, CallIds
  <2> QED
    BY <1>t, <2>1, <2>2 DEF ExecuteTool, Ended
<1>6. CASE OtherChunk \/ ContentChunk \/ \E reason \in FinishReasons : FinishChunk(reason)
  BY <1>t, <1>6 DEF OtherChunk, ContentChunk, FinishChunk, Receive, Ended
<1>7. CASE ToolTurn \/ ToolsDone \/ ModelFails \/ NoChunk \/ \E i \in Idx : ArgumentsFail(i)
  BY <1>t, <1>7 DEF ToolTurn, ToolsDone, ModelFails, NoChunk, ArgumentsFail, Ended
<1>8. CASE Close
  BY <1>t, <1>8 DEF Close, Ended
<1> QED
  BY <1>1, <1>2, <1>3, <1>4, <1>5, <1>6, <1>7, <1>8 DEF Next, Stream, RunTools

(* The terminal event is the last and tells how the loop ended; an id      *)
(* names the turn and the index of its call.                               *)
EventsSound ==
    /\ \A k \in DOMAIN events : events[k].type = "complete" => k = Len(events) /\ pc = "complete"
    /\ pc = "complete" => Len(events) > 0 /\ events[Len(events)].type = "complete"
    /\ \A k \in DOMAIN events :
          events[k].type = "tool_call" /\ events[k].id # NoId =>
             events[k].id = <<events[k].id[1], events[k].idx>> /\ events[k].id[1] \in 1..turn

LEMMA EventsAlwaysSound == Spec => []EventsSound
<1>1. Init => EventsSound
  BY DEF Init, EventsSound
<1>2. ASSUME TypeOK, TypeOK', TurnStarted, EventsSound, [Next]_vars PROVE EventsSound'
  <2>t. turn \in Nat /\ turn' \in Nat /\ events \in Seq(Event)
    BY <1>2 DEF TypeOK
  <2>1. CASE UNCHANGED vars
    BY <1>2, <2>1 DEF vars, EventsSound
  <2>2. CASE Next /\ events' = events
    <3>1. pc \notin Ended /\ turn' >= turn /\ pc' # "complete"
      BY <1>2, <2>2, <2>t, EventsOfStep
    <3>2. \A k \in DOMAIN events : events[k].type # "complete"
      BY <1>2, <3>1 DEF EventsSound, Ended
    <3> QED
      BY <1>2, <2>2, <2>t, <3>1, <3>2 DEF EventsSound
  <2>3. CASE Next /\ events' # events
    <3>1. /\ pc \notin Ended /\ turn' = turn
          /\ \E e \in Event :
                /\ events' = Append(events, e) /\ (e.type = "complete" <=> pc' = "complete")
                /\ e.type = "tool_call" =>
                      pc = "streaming" /\ (e.id # NoId => e.id = <<turn, e.idx>>)
      BY <1>2, <2>3, EventsOfStep
    <3>2. PICK e \in Event :
                /\ events' = Append(events, e) /\ (e.type = "complete" <=> pc' = "complete")
                /\ e.type = "tool_call" =>
                      pc = "streaming" /\ (e.id # NoId => e.id = <<turn, e.idx>>)
      BY <3>1
    <3>3. /\ Len(events') = Len(events) + 1 /\ DOMAIN events' = DOMAIN events \cup {Len(events) + 1}
          /\ events'[Len(events) + 1] = e /\ \A k \in DOMAIN events : events'[k] = events[k]
      BY <2>t, <3>2, AppendedElements
    <3>4. \A k \in DOMAIN events : events[k].type # "complete"
      BY <1>2, <3>1 DEF EventsSound, Ended
    <3>5. pc = "streaming" => turn >= 1
      BY <1>2 DEF TurnStarted
    <3>6. Len(events) \in Nat
      BY <2>t
    <3>7. \A k \in DOMAIN events' :
            events'[k].type = "complete" => k = Len(events') /\ pc' = "complete"
      BY <3>2, <3>3, <3>4
    <3>8. pc' = "complete" => Len(events') > 0 /\ events'[Len(events')].type = "complete"
      BY <3>2, <3>3, <3>6
    <3>9. \A k \in DOMAIN events' :
            events'[k].type = "tool_call" /\ events'[k].id # NoId =>
               events'[k].id = <<events'[k].id[1], events'[k].idx>> /\ events'[k].id[1] \in 1..turn'
      <4> SUFFICES ASSUME NEW k \in DOMAIN events', events'[k].type = "tool_call", events'[k].id # NoId
                   PROVE  /\ events'[k].id = <<events'[k].id[1], events'[k].idx>>
                          /\ events'[k].id[1] \in 1..turn'
        OBVIOUS
      <4>1. CASE k \in DOMAIN events
        BY <1>2, <3>1, <3>3, <4>1 DEF EventsSound
      <4>2. CASE k = Len(events) + 1
        BY <2>t, <3>1, <3>2, <3>3, <3>5, <4>2
      <4> QED
        BY <3>3, <4>1, <4>2
    <3> QED
      BY <3>7, <3>8, <3>9 DEF EventsSound
  <2> QED
    BY <1>2, <2>1, <2>2, <2>3
<1>3. Spec => [](TypeOK /\ TurnStarted)
  <2>1. PairingInv => TurnStarted
    BY DEF PairingInv
  <2> QED
    BY <2>1, TypeCorrect, Pairing, PTL
<1>4. QED
  BY <1>1, <1>2, <1>3, PTL DEF Spec

(* Behind the serializer the loop takes its own steps or none: whatever    *)
(* holds of the loop holds of the stream.                                  *)
THEOREM StreamRunsTheLoop == SseSpec => Spec
<1>1. SseInit => Init
  BY DEF SseInit
<1>2. [SseNext]_allVars => [Next]_vars
  <2> SUFFICES ASSUME [SseNext]_allVars PROVE [Next]_vars
    OBVIOUS
  <2>1. CASE Pull
    BY <2>1 DEF Pull, Next
  <2>2. CASE Disconnect
    <3>1. /\ UNCHANGED <<turn, turnVars, finish, pending, executed, messages, events>>
          /\ pc' = IF pc \in Ended THEN pc ELSE "closed"
      BY <2>2 DEF Disconnect
    <3>2. CASE pc \in Ended
      BY <3>1, <3>2 DEF vars, turnVars
    <3>3. CASE pc \notin Ended
      BY <3>1, <3>3 DEF Next, Close
    <3> QED
      BY <3>2, <3>3
  <2>3. CASE Lead \/ Translate \/ EndStream \/ ReadChunk
    BY <2>3 DEF Lead, Translate, EndStream, ReadChunk
  <2>4. CASE UNCHANGED allVars
    BY <2>4 DEF allVars
  <2> QED
    BY <2>1, <2>2, <2>3, <2>4 DEF SseNext
<1>3. QED
  BY <1>1, <1>2, PTL DEF SseSpec, Spec

-----------------------------------------------------------------------------
(* The frame of the stream.                                                *)

WireChunk == [kind : Kinds, idx : Idx \cup {0}, id : CallIds, of : CallIds, args : BOOLEAN]
Pill == [id : CallIds, args : SUBSET CallIds, status : {"none", "running", "done"}]

CallChunk(c) == c.kind = "call" => c.idx \in Idx /\ (c.id # NoId \/ c.args)
TypedWire(w) == w \in Seq(WireChunk) /\ \A n \in DOMAIN w : CallChunk(w[n])

StreamTyped ==
    /\ sse \in {"start", "relay", "done", "closed"}
    /\ seen \in 0..Len(events)
    /\ opened \subseteq Idx
    /\ TypedWire(wire)
    /\ read \in 0..Len(wire)
    /\ pills \in [Idx -> Pill]
    /\ notices \in Nat

LEMMA ChunkTyped == \A kind \in Kinds : Chunk(kind) \in WireChunk /\ Chunk(kind).kind = kind
BY DEF Chunk, WireChunk, NoId, CallIds

LEMMA OneMore == ASSUME NEW S, NEW s \in Seq(S), NEW c \in S PROVE s \o <<c>> = Append(s, c)
OBVIOUS

LEMMA TwoMore ==
    ASSUME NEW S, NEW s \in Seq(S), NEW c \in S, NEW d \in S
    PROVE  s \o <<c, d>> = Append(Append(s, c), d)
OBVIOUS

(* What one event puts on the wire. *)
LEMMA Translated ==
    ASSUME TypeOK, StreamTyped, Translate
    PROVE  LET e == events[seen + 1]
           IN  /\ e \in Event /\ sse = "relay" /\ seen' = seen + 1 /\ seen + 1 \in 1..Len(events)
               /\ UNCHANGED <<vars, sse, uiVars>>
               /\ opened' = IF Opens(e) THEN opened \cup {e.idx} ELSE opened
               /\ \/ /\ e.type = "complete"
                     /\ wire' = Append(Append(wire, Chunk("finish")), Chunk("usage"))
                  \/ /\ e.type = "tool_result"
                     /\ ResultChunk(e) \in WireChunk /\ wire' = Append(wire, ResultChunk(e))
                  \/ /\ e.type = "tool_call" /\ Opens(e)
                     /\ OpeningChunk(e) \in WireChunk /\ wire' = Append(wire, OpeningChunk(e))
                  \/ /\ e.type = "tool_call" /\ ~ Opens(e) /\ e.args
                     /\ ArgumentsChunk(e) \in WireChunk /\ wire' = Append(wire, ArgumentsChunk(e))
                  \/ e.type = "tool_call" /\ ~ Opens(e) /\ wire' = wire
<1> DEFINE e == events[seen + 1]
<1>1. events \in Seq(Event) /\ seen \in Nat /\ seen < Len(events) /\ wire \in Seq(WireChunk)
  BY DEF TypeOK, StreamTyped, TypedWire, Translate
<1>2. e \in Event /\ seen + 1 \in 1..Len(events)
  BY <1>1
<1>3. /\ sse = "relay" /\ seen' = seen + 1 /\ UNCHANGED <<vars, sse, uiVars>>
      /\ opened' = (IF Opens(e) THEN opened \cup {e.idx} ELSE opened)
      /\ wire' = wire \o ChunksFor(e)
  BY DEF Translate
<1> HIDE DEF e
<1>4. CASE e.type = "complete"
  <2>1. ChunksFor(e) = <<Chunk("finish"), Chunk("usage")>>
    BY <1>4 DEF ChunksFor
  <2>2. Chunk("finish") \in WireChunk /\ Chunk("usage") \in WireChunk
    BY ChunkTyped DEF Kinds
  <2> QED
    BY <1>1, <1>2, <1>3, <1>4, <2>1, <2>2, TwoMore DEF e
<1>5. CASE e.type = "tool_result"
  <2>1. ChunksFor(e) = <<ResultChunk(e)>>
    BY <1>5 DEF ChunksFor
  <2>2. ResultChunk(e) \in WireChunk
    <3>1. e.id \in CallIds
      BY <1>2, <1>5 DEF Event
    <3>2. Chunk("result") \in WireChunk
      BY ChunkTyped DEF Kinds
    <3> QED
      BY <3>1, <3>2 DEF ResultChunk, WireChunk
  <2> QED
    BY <1>1, <1>2, <1>3, <1>5, <2>1, <2>2, OneMore DEF e
<1>6. CASE e.type = "tool_call"
  <2>1. e.id \in CallIds /\ e.idx \in Idx /\ e.args \in BOOLEAN
    BY <1>2, <1>6 DEF Event
  <2>2. CallId(e.idx) \in CallIds
    BY <2>1, ConstantsAssumption DEF CallId, CallIds, TypeOK
  <2>3. CASE Opens(e)
    <3>1. ChunksFor(e) = <<OpeningChunk(e)>>
      BY <1>6, <2>3 DEF ChunksFor
    <3>2. OpeningChunk(e) \in WireChunk
      BY <2>1 DEF OpeningChunk, WireChunk, Kinds
    <3> QED
      BY <1>1, <1>2, <1>3, <1>6, <2>3, <3>1, <3>2, OneMore DEF e
  <2>4. CASE ~ Opens(e) /\ e.args
    <3>1. ChunksFor(e) = <<ArgumentsChunk(e)>>
      BY <1>6, <2>4 DEF ChunksFor
    <3>2. ArgumentsChunk(e) \in WireChunk
      BY <2>1, <2>2 DEF ArgumentsChunk, WireChunk, Kinds, NoId, CallIds
    <3> QED
      BY <1>1, <1>2, <1>3, <1>6, <2>4, <3>1, <3>2, OneMore DEF e
  <2>5. CASE ~ Opens(e) /\ ~ e.args
    <3>1. ChunksFor(e) = <<>>
      BY <1>6, <2>5 DEF ChunksFor
    <3>2. wire' = wire
      BY <1>1, <1>3, <3>1
    <3> QED
      BY <1>2, <1>3, <1>6, <2>5, <3>2 DEF e
  <2> QED
    BY <2>1, <2>3, <2>4, <2>5
<1> QED
  BY <1>2, <1>4, <1>5, <1>6 DEF Event

(* A chunk is put behind the others. *)
LEMMA WireGrows ==
    ASSUME NEW w, TypedWire(w), NEW c \in WireChunk, CallChunk(c)
    PROVE  /\ TypedWire(Append(w, c)) /\ Len(w) \in Nat /\ Len(Append(w, c)) = Len(w) + 1
           /\ DOMAIN w = 1..Len(w) /\ DOMAIN Append(w, c) = DOMAIN w \cup {Len(w) + 1}
           /\ Append(w, c)[Len(w) + 1] = c
           /\ \A n \in DOMAIN w : Append(w, c)[n] = w[n]
<1>1. w \in Seq(WireChunk) /\ Len(w) \in Nat /\ DOMAIN w = 1..Len(w)
  BY DEF TypedWire
<1>2. /\ Append(w, c) \in Seq(WireChunk) /\ Len(Append(w, c)) = Len(w) + 1
      /\ DOMAIN Append(w, c) = DOMAIN w \cup {Len(w) + 1} /\ Append(w, c)[Len(w) + 1] = c
      /\ \A n \in DOMAIN w : Append(w, c)[n] = w[n]
  BY <1>1
<1>3. TypedWire(Append(w, c))
  BY <1>2 DEF TypedWire
<1> QED
  BY <1>1, <1>2, <1>3

(* The chunks that are no tool-call fragments. *)
LEMMA PlainChunk ==
    \A kind \in Kinds \ {"call"} :
        Chunk(kind) \in WireChunk /\ Chunk(kind).kind = kind /\ CallChunk(Chunk(kind))
BY ChunkTyped DEF CallChunk

LEMMA TranslateTyped ==
    ASSUME TypeOK, StreamTyped, Translate
    PROVE  StreamTyped' /\ Len(wire') >= Len(wire) /\ \A n \in DOMAIN wire : n \in DOMAIN wire' /\ wire'[n] = wire[n]
<1> DEFINE e == events[seen + 1]
<1>1. /\ e \in Event /\ sse = "relay" /\ seen' = seen + 1 /\ seen + 1 \in 1..Len(events)
      /\ UNCHANGED <<vars, sse, uiVars>>
      /\ opened' = (IF Opens(e) THEN opened \cup {e.idx} ELSE opened)
      /\ \/ /\ e.type = "complete"
            /\ wire' = Append(Append(wire, Chunk("finish")), Chunk("usage"))
         \/ /\ e.type = "tool_result"
            /\ ResultChunk(e) \in WireChunk /\ wire' = Append(wire, ResultChunk(e))
         \/ /\ e.type = "tool_call" /\ Opens(e)
            /\ OpeningChunk(e) \in WireChunk /\ wire' = Append(wire, OpeningChunk(e))
         \/ /\ e.type = "tool_call" /\ ~ Opens(e) /\ e.args
            /\ ArgumentsChunk(e) \in WireChunk /\ wire' = Append(wire, ArgumentsChunk(e))
         \/ e.type = "tool_call" /\ ~ Opens(e) /\ wire' = wire
  BY Translated
<1> HIDE DEF e
<1>2. e.type = "tool_call" => e.idx \in Idx
  BY <1>1 DEF Event
<1>3. opened' \subseteq Idx
  BY <1>1, <1>2 DEF StreamTyped, Opens
<1>4. TypedWire(wire) /\ Len(wire) \in Nat /\ DOMAIN wire = 1..Len(wire)
  BY DEF StreamTyped, TypedWire
<1>5. TypedWire(wire') /\ Len(wire') >= Len(wire) /\ \A n \in DOMAIN wire : n \in DOMAIN wire' /\ wire'[n] = wire[n]
  <2>1. CASE e.type = "complete"
    <3>1. Chunk("finish") \in WireChunk /\ CallChunk(Chunk("finish"))
          /\ Chunk("usage") \in WireChunk /\ CallChunk(Chunk("usage"))
      BY PlainChunk DEF Kinds
    <3> DEFINE w == Append(wire, Chunk("finish"))
    <3>2. /\ TypedWire(w) /\ Len(w) = Len(wire) + 1 /\ DOMAIN w = DOMAIN wire \cup {Len(wire) + 1}
          /\ \A n \in DOMAIN wire : w[n] = wire[n]
      BY <1>4, <3>1, WireGrows
    <3>3. wire' = Append(w, Chunk("usage"))
      BY <1>1, <2>1
    <3> HIDE DEF w
    <3>4. /\ TypedWire(wire') /\ Len(wire') = Len(w) + 1 /\ DOMAIN wire' = DOMAIN w \cup {Len(w) + 1}
          /\ \A n \in DOMAIN w : wire'[n] = w[n]
      BY <3>1, <3>2, <3>3, WireGrows
    <3> QED
      BY <1>4, <3>2, <3>4
  <2>2. CASE e.type = "tool_result"
    <3>1. CallChunk(ResultChunk(e))
      BY DEF CallChunk, ResultChunk, Chunk
    <3>2. ResultChunk(e) \in WireChunk /\ wire' = Append(wire, ResultChunk(e))
      BY <1>1, <2>2
    <3> QED
      BY <1>4, <3>1, <3>2, WireGrows
  <2>3. CASE e.type = "tool_call"
    <3>1. Opens(e) => CallChunk(OpeningChunk(e))
      BY <1>2, <2>3 DEF CallChunk, OpeningChunk, Opens
    <3>2. CallChunk(ArgumentsChunk(e))
      BY <1>2, <2>3 DEF CallChunk, ArgumentsChunk
    <3>3. CASE wire' = wire
      BY <1>4, <3>3
    <3>4. CASE Opens(e) /\ OpeningChunk(e) \in WireChunk /\ wire' = Append(wire, OpeningChunk(e))
      BY <1>4, <3>1, <3>4, WireGrows
    <3>5. CASE ArgumentsChunk(e) \in WireChunk /\ wire' = Append(wire, ArgumentsChunk(e))
      BY <1>4, <3>2, <3>5, WireGrows
    <3> QED
      BY <1>1, <2>3, <3>3, <3>4, <3>5
  <2> QED
    BY <1>1, <2>1, <2>2, <2>3
<1>6. UNCHANGED <<events, sse, read, pills, notices>>
  BY <1>1 DEF vars, uiVars
<1>7. seen' \in 0..Len(events') /\ read' \in 0..Len(wire')
  <2>1. events \in Seq(Event) /\ read \in 0..Len(wire) /\ Len(wire') \in Nat
    BY <1>5 DEF TypeOK, StreamTyped, TypedWire
  <2> QED
    BY <1>1, <1>4, <1>5, <1>6, <2>1
<1> QED
  BY <1>3, <1>5, <1>6, <1>7 DEF StreamTyped

LEMMA ReadTyped ==
    ASSUME StreamTyped, ReadChunk
    PROVE  StreamTyped'
<1> DEFINE c == wire[read + 1]
<1>1. wire \in Seq(WireChunk) /\ read \in Nat /\ read < Len(wire) /\ read + 1 \in DOMAIN wire /\ CallChunk(c)
  BY DEF StreamTyped, TypedWire, ReadChunk
<1>2. c \in WireChunk
  BY <1>1
<1>3. /\ read' = read + 1 /\ UNCHANGED <<vars, sseVars>>
      /\ CASE c.kind = "call" -> ShowCall(c)
           [] c.kind = "result" -> ShowResult(c)
           [] OTHER -> UNCHANGED pills
      /\ notices' = IF c.kind = "error" THEN notices + 1 ELSE notices
  BY DEF ReadChunk
<1> HIDE DEF c
<1>4. pills \in [Idx -> Pill]
  BY DEF StreamTyped
<1>5. pills' \in [Idx -> Pill]
  <2>1. CASE c.kind = "call"
    <3>1. ShowCall(c) /\ c.idx \in Idx
      BY <1>1, <1>3, <2>1 DEF CallChunk
    <3>2. c.id \in CallIds /\ (IF c.args THEN {c.of} ELSE {}) \in SUBSET CallIds
      BY <1>2 DEF WireChunk
    <3>3. CASE pills[c.idx].id = NoId
      BY <1>4, <3>1, <3>2, <3>3 DEF ShowCall, Pill
    <3>4. CASE pills[c.idx].id # NoId
      <4>1. pills' = [pills EXCEPT ![c.idx].args = @ \cup (IF c.args THEN {c.of} ELSE {})]
        BY <3>1, <3>4 DEF ShowCall
      <4>2. pills[c.idx] \in Pill
        BY <1>4, <3>1
      <4>3. [pills[c.idx] EXCEPT !.args = @ \cup (IF c.args THEN {c.of} ELSE {})] \in Pill
        BY <3>2, <4>2 DEF Pill
      <4> QED
        BY <1>4, <3>1, <4>1, <4>3
    <3> QED
      BY <3>3, <3>4
  <2>2. CASE c.kind = "result"
    <3>1. pills' = [i \in Idx |-> IF pills[i].id = c.id THEN [pills[i] EXCEPT !.status = "done"]
                                                       ELSE pills[i]]
      BY <1>3, <2>2 DEF ShowResult
    <3>2. \A i \in Idx : [pills[i] EXCEPT !.status = "done"] \in Pill
      BY <1>4 DEF Pill
    <3> QED
      BY <1>4, <3>1, <3>2
  <2>3. CASE c.kind # "call" /\ c.kind # "result"
    BY <1>3, <1>4, <2>3
  <2> QED
    BY <2>1, <2>2, <2>3
<1>6. notices' \in Nat /\ read' \in 0..Len(wire)
  BY <1>1, <1>3 DEF StreamTyped
<1>7. UNCHANGED <<sse, seen, opened, wire, events>>
  BY <1>3 DEF vars, sseVars
<1> QED
  BY <1>5, <1>6, <1>7 DEF StreamTyped

LEMMA StreamKeepsTypes ==
    ASSUME TypeOK, TypeOK', StreamTyped, [SseNext]_allVars
    PROVE  StreamTyped'
<1>1. CASE Lead
  <2>1. Chunk("role") \in WireChunk /\ CallChunk(Chunk("role"))
    BY PlainChunk DEF Kinds
  <2>2. /\ wire' = Append(wire, Chunk("role")) /\ sse' = "relay"
        /\ UNCHANGED <<seen, opened, events, read, pills, notices>>
    BY <1>1 DEF Lead, vars, uiVars
  <2>3. TypedWire(wire') /\ Len(wire') = Len(wire) + 1 /\ Len(wire) \in Nat
    BY <2>1, <2>2, WireGrows DEF StreamTyped
  <2> QED
    BY <2>2, <2>3 DEF StreamTyped
<1>2. CASE Pull
  <2>1. Next /\ UNCHANGED <<sse, seen, opened, wire, read, pills, notices>>
    BY <1>2 DEF Pull, Next, sseVars, uiVars
  <2>2. events' = events \/ \E e \in Event : events' = Append(events, e)
    BY <2>1, EventsOfStep
  <2>3. Len(events') >= Len(events) /\ Len(events) \in Nat /\ Len(events') \in Nat
    BY <2>2 DEF TypeOK
  <2> QED
    BY <2>1, <2>3 DEF StreamTyped
<1>3. CASE Translate
  BY <1>3, TranslateTyped
<1>4. CASE EndStream
  <2>1. /\ Chunk("error") \in WireChunk /\ CallChunk(Chunk("error"))
        /\ Chunk("done") \in WireChunk /\ CallChunk(Chunk("done"))
    BY PlainChunk DEF Kinds
  <2>2. sse' = "done" /\ UNCHANGED <<seen, opened, events, read, pills, notices>>
    BY <1>4 DEF EndStream, vars, uiVars
  <2>3. wire \in Seq(WireChunk) /\ TypedWire(wire)
    BY DEF StreamTyped, TypedWire
  <2>4. \/ wire' = Append(wire, Chunk("done"))
        \/ wire' = Append(Append(wire, Chunk("error")), Chunk("done"))
    BY <1>4, <2>1, <2>3, TwoMore DEF EndStream
  <2>5. TypedWire(wire') /\ Len(wire') >= Len(wire) /\ Len(wire) \in Nat /\ Len(wire') \in Nat
    <3>1. CASE wire' = Append(wire, Chunk("done"))
      <4>1. TypedWire(Append(wire, Chunk("done"))) /\ Len(Append(wire, Chunk("done"))) = Len(wire) + 1
        BY <2>1, <2>3, WireGrows
      <4>2. Len(wire) \in Nat
        BY <2>3
      <4> QED
        BY <3>1, <4>1, <4>2
    <3>2. CASE wire' = Append(Append(wire, Chunk("error")), Chunk("done"))
      <4> DEFINE w == Append(wire, Chunk("error"))
      <4>1. TypedWire(w) /\ Len(w) = Len(wire) + 1 /\ Len(wire) \in Nat
        BY <2>1, <2>3, WireGrows
      <4> HIDE DEF w
      <4>2. TypedWire(Append(w, Chunk("done"))) /\ Len(Append(w, Chunk("done"))) = Len(w) + 1
        BY <2>1, <4>1, WireGrows
      <4> QED
        BY <3>2, <4>1, <4>2 DEF w
    <3> QED
      BY <2>4, <3>1, <3>2
  <2> QED
    BY <2>2, <2>5 DEF StreamTyped
<1>5. CASE Disconnect
  BY <1>5 DEF Disconnect, uiVars, StreamTyped
<1>6. CASE ReadChunk
  BY <1>6, ReadTyped
<1>7. CASE UNCHANGED allVars
  BY <1>7 DEF allVars, vars, sseVars, uiVars, StreamTyped
<1> QED
  BY <1>1, <1>2, <1>3, <1>4, <1>5, <1>6, <1>7 DEF SseNext

Starts == sse = "start" => wire = <<>> /\ events = <<>> /\ pc = "request"
RoleFirst == \A n \in DOMAIN wire : wire[n].kind = "role" => n = 1
DoneLast == \A n \in DOMAIN wire : wire[n].kind = "done" => sse = "done" /\ n = Len(wire)

(* Where the finish reason stands, and that it stands there once the       *)
(* terminal event is translated.                                           *)
FinishLast ==
    \A n \in DOMAIN wire :
        wire[n].kind = "finish" =>
            /\ pc = "complete" /\ seen = Len(events)
            /\ n = IF sse = "done" THEN Len(wire) - 2 ELSE Len(wire) - 1

FinishThere ==
    sse = "relay" /\ pc = "complete" /\ seen = Len(events) =>
        /\ Len(wire) >= 2
        /\ wire[Len(wire) - 1].kind = "finish" /\ wire[Len(wire)].kind = "usage"

EndTold ==
    sse = "done" =>
        /\ pc \in {"complete", "failed"}
        /\ pc = "complete" => /\ Len(wire) >= 3
                              /\ wire[Len(wire) - 2].kind = "finish"
                              /\ wire[Len(wire) - 1].kind = "usage"
        /\ pc = "failed" => Len(wire) >= 2 /\ wire[Len(wire) - 1].kind = "error"

Framed == Starts /\ RoleFirst /\ DoneLast /\ FinishLast /\ FinishThere /\ EndTold

LEMMA TranslateFramed ==
    ASSUME TypeOK, EventsSound, StreamTyped, Framed, Translate
    PROVE  Framed'
<1> DEFINE e == events[seen + 1]
<1>1. /\ e \in Event /\ sse = "relay" /\ seen' = seen + 1 /\ seen + 1 \in 1..Len(events)
      /\ UNCHANGED <<vars, sse, uiVars>>
      /\ \/ /\ e.type = "complete"
            /\ wire' = Append(Append(wire, Chunk("finish")), Chunk("usage"))
         \/ /\ e.type = "tool_result"
            /\ ResultChunk(e) \in WireChunk /\ wire' = Append(wire, ResultChunk(e))
         \/ /\ e.type = "tool_call" /\ Opens(e)
            /\ OpeningChunk(e) \in WireChunk /\ wire' = Append(wire, OpeningChunk(e))
         \/ /\ e.type = "tool_call" /\ ~ Opens(e) /\ e.args
            /\ ArgumentsChunk(e) \in WireChunk /\ wire' = Append(wire, ArgumentsChunk(e))
         \/ e.type = "tool_call" /\ ~ Opens(e) /\ wire' = wire
  BY Translated
<1>2. UNCHANGED <<pc, events, sse>>
  BY <1>1 DEF vars
<1>3. /\ events \in Seq(Event) /\ Len(events) \in Nat /\ seen \in Nat /\ DOMAIN events = 1..Len(events)
      /\ wire \in Seq(WireChunk) /\ Len(wire) \in Nat /\ DOMAIN wire = 1..Len(wire)
  BY DEF TypeOK, StreamTyped, TypedWire
<1>4. seen # Len(events)
  <2>1. seen < Len(events)
    BY DEF Translate
  <2>2. seen \in Nat /\ Len(events) \in Nat
    BY <1>3
  <2> QED
    BY <2>1, <2>2
<1>5. \A n \in DOMAIN wire : wire[n].kind # "finish" /\ wire[n].kind # "done"
  BY <1>1, <1>4 DEF Framed, FinishLast, DoneLast
<1>6. Starts' /\ EndTold'
  BY <1>1, <1>2 DEF Starts, EndTold
<1>7. CASE e.type = "complete"
  <2>1. seen' = Len(events) /\ pc = "complete"
    <3>1. seen + 1 = Len(events) /\ pc = "complete"
      BY <1>1, <1>3, <1>7 DEF EventsSound
    <3> QED
      BY <1>1, <3>1
  <2>2. wire' = Append(Append(wire, Chunk("finish")), Chunk("usage"))
    BY <1>1, <1>7
  <2>3. Chunk("finish") \in WireChunk /\ Chunk("finish").kind = "finish"
        /\ Chunk("usage") \in WireChunk /\ Chunk("usage").kind = "usage"
    BY ChunkTyped DEF Kinds
  <2>4. \A a, b \in WireChunk :
           LET w == Append(Append(wire, a), b)
           IN  /\ Len(w) = Len(wire) + 2 /\ DOMAIN w = DOMAIN wire \cup {Len(wire) + 1, Len(wire) + 2}
               /\ w[Len(wire) + 1] = a /\ w[Len(wire) + 2] = b
               /\ \A n \in DOMAIN wire : w[n] = wire[n]
    BY <1>3
  <2>5. /\ Len(wire') = Len(wire) + 2
        /\ DOMAIN wire' = DOMAIN wire \cup {Len(wire) + 1, Len(wire) + 2}
        /\ wire'[Len(wire) + 1].kind = "finish" /\ wire'[Len(wire) + 2].kind = "usage"
        /\ \A n \in DOMAIN wire : wire'[n] = wire[n]
    BY <2>2, <2>3, <2>4
  <2>6. RoleFirst' /\ DoneLast'
    BY <1>5, <2>5 DEF Framed, RoleFirst, DoneLast
  <2>7. Len(wire) + 2 - 1 = Len(wire) + 1
    BY <1>3
  <2>8. FinishLast'
    BY <1>1, <1>2, <1>5, <2>1, <2>5, <2>7 DEF FinishLast
  <2>9. FinishThere'
    BY <1>3, <2>5, <2>7 DEF FinishThere
  <2> QED
    BY <1>6, <2>6, <2>8, <2>9 DEF Framed
<1>8. CASE e.type # "complete"
  <2>1. \/ wire' = wire
        \/ \E c \in WireChunk : wire' = Append(wire, c) /\ c.kind \in {"call", "result"}
    <3>1. ResultChunk(e).kind = "result" /\ OpeningChunk(e).kind = "call" /\ ArgumentsChunk(e).kind = "call"
      BY DEF ResultChunk, OpeningChunk, ArgumentsChunk, Chunk
    <3> QED
      BY <1>1, <1>8, <3>1
  <2>2. \A n \in DOMAIN wire' :
           \/ n \in DOMAIN wire /\ wire'[n] = wire[n]
           \/ wire'[n].kind \in {"call", "result"}
    BY <1>3, <2>1, AppendedElements
  <2>3. RoleFirst' /\ DoneLast' /\ FinishLast'
    BY <1>5, <2>2 DEF Framed, RoleFirst, DoneLast, FinishLast
  <2>4. ~ (pc' = "complete" /\ seen' = Len(events'))
    <3>1. CASE pc = "complete"
      <4>1. events[Len(events)].type = "complete"
        BY <3>1 DEF EventsSound
      <4> QED
        BY <1>1, <1>2, <1>8, <4>1
    <3> QED
      BY <1>2, <3>1
  <2>5. FinishThere'
    BY <2>4 DEF FinishThere
  <2> QED
    BY <1>6, <2>3, <2>5 DEF Framed
<1> QED
  BY <1>7, <1>8

LEMMA EndStreamFramed ==
    ASSUME StreamTyped, Framed, EndStream
    PROVE  Framed'
<1>1. /\ sse = "relay" /\ sse' = "done" /\ seen = Len(events) /\ UNCHANGED <<pc, events, seen>>
      /\ \/ pc = "complete" /\ wire' = Append(wire, Chunk("done"))
         \/ pc = "failed" /\ wire' = wire \o <<Chunk("error"), Chunk("done")>>
  BY DEF EndStream, vars
<1>2. wire \in Seq(WireChunk) /\ Len(wire) \in Nat /\ DOMAIN wire = 1..Len(wire)
  BY DEF StreamTyped, TypedWire
<1>3. Chunk("error") \in WireChunk /\ Chunk("error").kind = "error"
      /\ Chunk("done") \in WireChunk /\ Chunk("done").kind = "done"
  BY ChunkTyped DEF Kinds
<1>4. Starts'
  BY <1>1 DEF Starts
<1>5. FinishThere'
  BY <1>1 DEF FinishThere
<1>6. \A n \in DOMAIN wire : wire[n].kind # "done"
  BY <1>1 DEF Framed, DoneLast
<1>7. CASE pc = "complete"
  <2>1. wire' = Append(wire, Chunk("done"))
    BY <1>1, <1>7
  <2>2. /\ Len(wire') = Len(wire) + 1 /\ DOMAIN wire' = DOMAIN wire \cup {Len(wire) + 1}
        /\ wire'[Len(wire) + 1].kind = "done" /\ \A n \in DOMAIN wire : wire'[n] = wire[n]
    BY <1>2, <1>3, <2>1, AppendedElements
  <2>3. RoleFirst' /\ DoneLast'
    BY <1>1, <1>6, <2>2 DEF Framed, RoleFirst, DoneLast
  <2>4. Len(wire) + 1 - 2 = Len(wire) - 1 /\ Len(wire) + 1 - 1 = Len(wire)
    BY <1>2
  <2>5. FinishLast'
    BY <1>1, <1>7, <2>2, <2>4 DEF Framed, FinishLast
  <2>6. /\ Len(wire) >= 2 /\ wire[Len(wire) - 1].kind = "finish" /\ wire[Len(wire)].kind = "usage"
    BY <1>1, <1>7 DEF Framed, FinishThere
  <2>7. Len(wire) - 1 \in DOMAIN wire /\ Len(wire) \in DOMAIN wire /\ Len(wire) + 1 >= 3
    BY <1>2, <2>6
  <2>8. EndTold'
    BY <1>1, <1>7, <2>2, <2>4, <2>6, <2>7 DEF EndTold
  <2> QED
    BY <1>4, <1>5, <2>3, <2>5, <2>8 DEF Framed
<1>8. CASE pc = "failed"
  <2>1. wire' = Append(Append(wire, Chunk("error")), Chunk("done"))
    BY <1>1, <1>2, <1>3, <1>8, TwoMore
  <2>2. \A a, b \in WireChunk :
           LET w == Append(Append(wire, a), b)
           IN  /\ Len(w) = Len(wire) + 2 /\ DOMAIN w = DOMAIN wire \cup {Len(wire) + 1, Len(wire) + 2}
               /\ w[Len(wire) + 1] = a /\ w[Len(wire) + 2] = b
               /\ \A n \in DOMAIN wire : w[n] = wire[n]
    BY <1>2
  <2>3. /\ Len(wire') = Len(wire) + 2
        /\ DOMAIN wire' = DOMAIN wire \cup {Len(wire) + 1, Len(wire) + 2}
        /\ wire'[Len(wire) + 1].kind = "error" /\ wire'[Len(wire) + 2].kind = "done"
        /\ \A n \in DOMAIN wire : wire'[n] = wire[n]
    BY <1>3, <2>1, <2>2
  <2>4. \A n \in DOMAIN wire : wire[n].kind # "finish"
    BY <1>8 DEF Framed, FinishLast
  <2>5. RoleFirst' /\ DoneLast' /\ FinishLast'
    BY <1>1, <1>6, <2>3, <2>4 DEF Framed, RoleFirst, DoneLast, FinishLast
  <2>6. Len(wire) + 2 - 1 = Len(wire) + 1 /\ Len(wire) + 2 >= 2
    BY <1>2
  <2>7. EndTold'
    BY <1>1, <1>8, <2>3, <2>6 DEF EndTold
  <2> QED
    BY <1>4, <1>5, <2>5, <2>7 DEF Framed
<1> QED
  BY <1>1, <1>7, <1>8

LEMMA StreamKeepsFrame ==
    ASSUME TypeOK, EventsSound, EventsSound', StreamTyped, Framed, [SseNext]_allVars
    PROVE  Framed'
<1>1. CASE Lead
  <2>1. /\ wire = <<>> /\ wire' = Append(wire, Chunk("role")) /\ sse = "start" /\ sse' = "relay"
        /\ events = <<>> /\ pc = "request" /\ UNCHANGED <<seen, events, pc>>
    BY <1>1 DEF Lead, vars, Framed, Starts
  <2>2. Chunk("role") \in WireChunk /\ Chunk("role").kind = "role"
    BY ChunkTyped DEF Kinds
  <2>3. DOMAIN wire' = {1} /\ wire'[1].kind = "role"
    BY <2>1, <2>2
  <2> QED
    BY <2>1, <2>3 DEF Framed, Starts, RoleFirst, DoneLast, FinishLast, FinishThere, EndTold
<1>2. CASE Pull
  <2>1. Next /\ sse = "relay" /\ seen = Len(events) /\ UNCHANGED <<sse, seen, wire>>
    BY <1>2 DEF Pull, Next, sseVars
  <2>2. /\ pc \notin Ended
        /\ \/ events' = events /\ pc' # "complete"
           \/ \E e \in Event : events' = Append(events, e)
    BY <2>1, EventsOfStep
  <2>3. pc' # "complete" \/ Len(events') # Len(events)
    BY <2>2 DEF TypeOK
  <2>4. \A n \in DOMAIN wire : wire[n].kind # "finish"
    BY <2>2 DEF Framed, FinishLast, Ended
  <2> QED
    BY <2>1, <2>3, <2>4 DEF Framed, Starts, RoleFirst, DoneLast, FinishLast, FinishThere, EndTold
<1>3. CASE Translate
  BY <1>3, TranslateFramed
<1>4. CASE EndStream
  BY <1>4, EndStreamFramed
<1>5. CASE Disconnect
  BY <1>5 DEF Disconnect, Ended, Framed, Starts, RoleFirst, DoneLast, FinishLast, FinishThere, EndTold
<1>6. CASE ReadChunk \/ UNCHANGED allVars
  <2>1. UNCHANGED <<wire, sse, seen, events, pc>>
    BY <1>6 DEF ReadChunk, allVars, vars, sseVars
  <2> QED
    BY <2>1 DEF Framed, Starts, RoleFirst, DoneLast, FinishLast, FinishThere, EndTold
<1> QED
  BY <1>1, <1>2, <1>3, <1>4, <1>5, <1>6 DEF SseNext

LEMMA StreamInvariant == SseSpec => [](TypeOK /\ EventsSound /\ StreamTyped /\ Framed)
<1>1. SseInit => StreamTyped /\ Framed
  <2> SUFFICES ASSUME SseInit PROVE StreamTyped /\ Framed
    OBVIOUS
  <2>1. /\ wire = <<>> /\ events = <<>> /\ sse = "start" /\ pc = "request" /\ seen = 0 /\ read = 0
        /\ opened = {} /\ notices = 0 /\ pills = [i \in Idx |-> NoPill]
    BY DEF SseInit, Init
  <2>2. NoPill \in Pill
    BY DEF NoPill, Pill, NoId, CallIds
  <2>3. TypedWire(wire) /\ Len(wire) = 0 /\ Len(events) = 0 /\ \A n : n \notin DOMAIN wire
    BY <2>1 DEF TypedWire
  <2>4. StreamTyped
    BY <2>1, <2>2, <2>3 DEF StreamTyped
  <2>5. Framed
    BY <2>1, <2>3 DEF Framed, Starts, RoleFirst, DoneLast, FinishLast, FinishThere, EndTold
  <2> QED
    BY <2>4, <2>5
<1>2. TypeOK /\ TypeOK' /\ EventsSound /\ EventsSound' /\ StreamTyped /\ Framed /\ [SseNext]_allVars
         => StreamTyped' /\ Framed'
  BY StreamKeepsTypes, StreamKeepsFrame
<1>3. QED
  BY <1>1, <1>2, StreamRunsTheLoop, TypeCorrect, EventsAlwaysSound, PTL DEF SseSpec

(* Whatever the run of the agent, the chunks are well typed, begin with    *)
(* the role and end once, with what tells the client how the run ended.    *)
THEOREM StreamAlwaysSound == SseSpec => []SseSound
<1>1. ASSUME TypeOK, StreamTyped PROVE SseTypeOK
  <2>1. \A n \in DOMAIN wire :
           wire[n].kind \in Kinds /\ (wire[n].kind = "call" => wire[n].id # NoId \/ wire[n].args)
    <3>1. \A n \in DOMAIN wire : wire[n] \in WireChunk /\ CallChunk(wire[n])
      BY <1>1 DEF StreamTyped, TypedWire
    <3> QED
      BY <3>1 DEF CallChunk, WireChunk
  <2> QED
    BY <1>1, <2>1 DEF StreamTyped, SseTypeOK, Pill
<1>2. ASSUME StreamTyped, Framed PROVE WellFramed
  <2>1. \A n \in KindsOf("role") : n = 1
    BY <1>2 DEF KindsOf, Framed, RoleFirst
  <2>2. \A n \in KindsOf("done") :
           /\ n = Len(wire)
           /\ pc = "complete" => wire[n-2].kind = "finish" /\ wire[n-1].kind = "usage"
           /\ pc = "failed" => wire[n-1].kind = "error" /\ KindsOf("finish") = {}
    BY <1>2 DEF KindsOf, Framed, DoneLast, FinishLast, EndTold
  <2>3. Cardinality(KindsOf("finish")) <= 1
    <3>1. CASE KindsOf("finish") = {}
      BY <3>1, FS_EmptySet
    <3>2. CASE KindsOf("finish") # {}
      <4>1. \A m, n \in KindsOf("finish") : m = n
        BY <1>2 DEF KindsOf, Framed, FinishLast
      <4>2. \E n \in KindsOf("finish") : KindsOf("finish") = {n}
        BY <3>2, <4>1
      <4> QED
        BY <4>2, FS_Singleton
    <3> QED
      BY <3>1, <3>2
  <2> QED
    BY <2>1, <2>2, <2>3 DEF WellFramed
<1>3. TypeOK /\ StreamTyped /\ Framed => SseSound
  BY <1>1, <1>2 DEF SseSound
<1>4. QED
  BY <1>3, StreamInvariant, PTL

-----------------------------------------------------------------------------
(* What the page shows of the first turn.  Index and id belong together    *)
(* there: an index is opened once, by the call whose id has it, and the    *)
(* fragments of later turns come later on the wire.                        *)

WireCalls == {n \in DOMAIN wire : wire[n].kind = "call"}

(* At most one event waits to be translated, one of the current turn.      *)
Fresh ==
    seen < Len(events) =>
        /\ Len(events) = seen + 1
        /\ events[Len(events)].type = "tool_call" =>
              /\ turn >= 1
              /\ events[Len(events)].id # NoId => events[Len(events)].id[1] = turn

CallsOf ==
    \A n \in WireCalls :
        /\ wire[n].of = <<wire[n].of[1], wire[n].idx>> /\ wire[n].of[1] \in 1..turn
        /\ wire[n].id # NoId => wire[n].id = wire[n].of

CallsInOrder == \A m, n \in WireCalls : m <= n => wire[m].of[1] <= wire[n].of[1]

Announces(k) == events[k].type = "tool_call" /\ events[k].id # NoId

OpenedBy == \A i \in opened : \E k \in 1..seen : Announces(k) /\ events[k].idx = i

FirstOpened ==
    \A k \in 1..seen :
        events[k].type = "tool_call" /\ events[k].id[1] = 1
           => \E n \in WireCalls : wire[n].id = events[k].id

FirstResults ==
    \A n \in DOMAIN wire :
        wire[n].kind = "result" /\ wire[n].id[1] = 1
           => \E m \in WireCalls : m < n /\ wire[m].id = wire[n].id

ServedInv == Fresh /\ CallsOf /\ CallsInOrder /\ OpenedBy /\ FirstOpened /\ FirstResults

(* The pills are those of fragments read, each of the first turn has its. *)
PillsOf ==
    \A i \in Idx : pills[i].id # NoId =>
        \E n \in WireCalls : n <= read /\ wire[n].id = pills[i].id /\ wire[n].idx = i

FirstPills ==
    \A n \in WireCalls :
        n <= read /\ wire[n].id[1] = 1 => pills[wire[n].idx].id = wire[n].id

FirstDone ==
    \A k \in 1..read :
        wire[k].kind = "result" /\ wire[k].id[1] = 1
           => \E i \in Idx : pills[i].id = wire[k].id /\ pills[i].status = "done"

FirstArgs == \A i \in Idx : \A c \in pills[i].args : c[1] = 1 => c = pills[i].id

PageInv == PillsOf /\ FirstPills /\ FirstDone /\ FirstArgs

(* A wire that grows keeps what the page has read. *)
LEMMA PageWaits ==
    ASSUME StreamTyped, TypedWire(wire'), PageInv, pills' = pills, read' = read,
           \A n \in DOMAIN wire : n \in DOMAIN wire' /\ wire'[n] = wire[n]
    PROVE  PageInv'
<1>1. /\ read \in 0..Len(wire) /\ Len(wire) \in Nat /\ DOMAIN wire = 1..Len(wire)
      /\ TypedWire(wire)
  BY DEF StreamTyped, TypedWire
<1>2. \A n \in 1..read : n \in DOMAIN wire /\ n \in DOMAIN wire' /\ wire'[n] = wire[n]
  BY <1>1
<1>3. \A n \in WireCalls : n \in WireCalls' /\ wire'[n] = wire[n] /\ n >= 1
  BY <1>1 DEF WireCalls
<1>4. PillsOf'
  BY <1>3 DEF PageInv, PillsOf
<1>5. FirstPills'
  <2> SUFFICES ASSUME NEW n \in WireCalls', n <= read, wire'[n].id[1] = 1
               PROVE  pills[wire'[n].idx].id = wire'[n].id
    BY DEF FirstPills
  <2>1. n \in DOMAIN wire /\ wire'[n] = wire[n]
    <3>1. n >= 1 /\ n \in Int
      BY DEF WireCalls, TypedWire
    <3> QED
      BY <1>1, <1>2, <3>1
  <2>2. n \in WireCalls
    BY <2>1 DEF WireCalls
  <2> QED
    BY <2>1, <2>2 DEF PageInv, FirstPills
<1>6. FirstDone'
  BY <1>2 DEF PageInv, FirstDone
<1>7. FirstArgs'
  BY DEF PageInv, FirstArgs
<1> QED
  BY <1>4, <1>5, <1>6, <1>7 DEF PageInv

LEMMA PullServed ==
    ASSUME TypeOK, TypeOK', TurnStarted, StreamTyped, ServedInv, Pull
    PROVE  ServedInv'
<1>1. Next /\ seen = Len(events) /\ UNCHANGED <<seen, opened, wire>>
  BY DEF Pull, Next, sseVars
<1>2. /\ turn' >= turn
      /\ \/ events' = events
         \/ /\ turn' = turn
            /\ \E e \in Event :
                  /\ events' = Append(events, e)
                  /\ e.type = "tool_call" =>
                        pc = "streaming" /\ (e.id # NoId => e.id = <<turn, e.idx>>)
  BY <1>1, EventsOfStep
<1>3. turn \in Nat /\ turn' \in Nat /\ events \in Seq(Event) /\ seen \in Nat
  BY DEF TypeOK, StreamTyped
<1>4. /\ \A k \in 1..seen : events'[k] = events[k]
      /\ Fresh'
  <2>1. CASE events' = events
    BY <1>1, <2>1 DEF Fresh
  <2>2. CASE events' # events
    <3>1. PICK e \in Event :
             /\ events' = Append(events, e) /\ turn' = turn
             /\ e.type = "tool_call" =>
                   pc = "streaming" /\ (e.id # NoId => e.id = <<turn, e.idx>>)
      BY <1>2, <2>2
    <3>2. /\ Len(events') = Len(events) + 1 /\ events'[Len(events) + 1] = e
          /\ \A k \in DOMAIN events : events'[k] = events[k]
      BY <1>3, <3>1, AppendedElements
    <3>3. pc = "streaming" => turn >= 1
      BY DEF TurnStarted
    <3>4. Fresh'
      BY <1>1, <3>1, <3>2, <3>3 DEF Fresh
    <3>5. 1..seen = DOMAIN events
      BY <1>1, <1>3
    <3> QED
      BY <3>2, <3>4, <3>5
  <2> QED
    BY <2>1, <2>2
<1>5. WireCalls' = WireCalls
  BY <1>1 DEF WireCalls
<1>6. CallsOf'
  <2>1. \A n \in WireCalls : wire[n].of[1] \in 1..turn => wire[n].of[1] \in 1..turn'
    BY <1>2, <1>3
  <2> QED
    BY <1>1, <1>5, <2>1 DEF ServedInv, CallsOf
<1>7. CallsInOrder' /\ FirstResults'
  BY <1>1, <1>5 DEF ServedInv, CallsInOrder, FirstResults
<1>8. OpenedBy' /\ FirstOpened'
  BY <1>1, <1>4, <1>5 DEF ServedInv, OpenedBy, FirstOpened, Announces
<1> QED
  BY <1>4, <1>6, <1>7, <1>8 DEF ServedInv

(* The wire after one more chunk. *)
LEMMA OneChunkMore ==
    ASSUME StreamTyped, NEW c \in WireChunk, wire' = Append(wire, c)
    PROVE  /\ Len(wire) \in Nat /\ DOMAIN wire = 1..Len(wire)
           /\ DOMAIN wire' = DOMAIN wire \cup {Len(wire) + 1} /\ wire'[Len(wire) + 1] = c
           /\ \A n \in DOMAIN wire : wire'[n] = wire[n] /\ n < Len(wire) + 1 /\ n \in Nat
           /\ WireCalls' = IF c.kind = "call" THEN WireCalls \cup {Len(wire) + 1} ELSE WireCalls
<1>1. wire \in Seq(WireChunk) /\ Len(wire) \in Nat /\ DOMAIN wire = 1..Len(wire)
  BY DEF StreamTyped, TypedWire
<1>2. /\ DOMAIN wire' = DOMAIN wire \cup {Len(wire) + 1} /\ wire'[Len(wire) + 1] = c
      /\ \A n \in DOMAIN wire : wire'[n] = wire[n]
  BY <1>1, AppendedElements
<1>3. \A n \in DOMAIN wire : n < Len(wire) + 1 /\ n \in Nat
  BY <1>1
<1>4. WireCalls' = IF c.kind = "call" THEN WireCalls \cup {Len(wire) + 1} ELSE WireCalls
  BY <1>2, <1>3 DEF WireCalls
<1> QED
  BY <1>1, <1>2, <1>3, <1>4

(* A fragment of the current turn keeps the order of the wire. *)
LEMMA FragmentServed ==
    ASSUME TypeOK, StreamTyped, ServedInv, NEW c \in WireChunk, c.kind = "call",
           turn >= 1, c.of = <<turn, c.idx>>, c.id # NoId => c.id = c.of,
           wire' = Append(wire, c), turn' = turn
    PROVE  CallsOf' /\ CallsInOrder' /\ FirstResults' /\ WireCalls \subseteq WireCalls' /\ Len(wire) + 1 \in WireCalls'
           /\ \A n \in WireCalls : wire'[n] = wire[n]
<1>1. /\ Len(wire) \in Nat /\ DOMAIN wire = 1..Len(wire)
      /\ DOMAIN wire' = DOMAIN wire \cup {Len(wire) + 1} /\ wire'[Len(wire) + 1] = c
      /\ \A n \in DOMAIN wire : wire'[n] = wire[n] /\ n < Len(wire) + 1 /\ n \in Nat
      /\ WireCalls' = WireCalls \cup {Len(wire) + 1}
  BY OneChunkMore
<1>2. turn \in Nat /\ c.of[1] = turn /\ turn \in 1..turn
  BY DEF TypeOK
<1>3. \A n \in WireCalls : n \in DOMAIN wire /\ wire'[n] = wire[n]
  BY <1>1 DEF WireCalls
<1>4. CallsOf'
  BY <1>1, <1>2, <1>3 DEF ServedInv, CallsOf
<1>5. \A n \in WireCalls : wire[n].of[1] \in Int /\ wire[n].of[1] <= turn /\ n < Len(wire) + 1 /\ n \in Nat
  BY <1>1, <1>2, <1>3 DEF ServedInv, CallsOf
<1>6. CallsInOrder'
  <2> SUFFICES ASSUME NEW m \in WireCalls', NEW n \in WireCalls', m <= n
               PROVE  wire'[m].of[1] <= wire'[n].of[1]
    BY DEF CallsInOrder
  <2>1. CASE n \in WireCalls
    <3>1. m \in WireCalls
      BY <1>1, <1>5, <2>1
    <3> QED
      BY <1>3, <2>1, <3>1 DEF ServedInv, CallsInOrder
  <2>2. CASE n = Len(wire) + 1
    BY <1>1, <1>2, <1>3, <1>5, <2>2
  <2> QED
    BY <1>1, <2>1, <2>2
<1>7. FirstResults'
  BY <1>1, <1>3 DEF ServedInv, FirstResults
<1> QED
  BY <1>1, <1>3, <1>4, <1>6, <1>7

LEMMA TranslateServed ==
    ASSUME TypeOK, PairingInv, EventsSound, StreamTyped, ServedInv, Translate
    PROVE  ServedInv'
<1> DEFINE e == events[seen + 1]
<1>1. /\ e \in Event /\ seen' = seen + 1 /\ seen + 1 \in 1..Len(events)
      /\ UNCHANGED <<vars, sse, uiVars>>
      /\ opened' = (IF Opens(e) THEN opened \cup {e.idx} ELSE opened)
      /\ \/ /\ e.type = "complete"
            /\ wire' = Append(Append(wire, Chunk("finish")), Chunk("usage"))
         \/ /\ e.type = "tool_result"
            /\ ResultChunk(e) \in WireChunk /\ wire' = Append(wire, ResultChunk(e))
         \/ /\ e.type = "tool_call" /\ Opens(e)
            /\ OpeningChunk(e) \in WireChunk /\ wire' = Append(wire, OpeningChunk(e))
         \/ /\ e.type = "tool_call" /\ ~ Opens(e) /\ e.args
            /\ ArgumentsChunk(e) \in WireChunk /\ wire' = Append(wire, ArgumentsChunk(e))
         \/ e.type = "tool_call" /\ ~ Opens(e) /\ wire' = wire
  BY Translated
<1>2. UNCHANGED <<events, turn, pc>>
  BY <1>1 DEF vars
<1>3. /\ events \in Seq(Event) /\ Len(events) \in Nat /\ seen \in Nat /\ seen < Len(events)
      /\ DOMAIN events = 1..Len(events) /\ turn \in Nat
  BY DEF TypeOK, StreamTyped, Translate
<1>4. Len(events) = seen + 1
  BY <1>3 DEF ServedInv, Fresh
<1>5. Fresh'
  BY <1>1, <1>2, <1>4 DEF Fresh
<1>6. \A k \in 1..seen : k \in DOMAIN events /\ k < seen + 1 /\ k \in 1..(seen + 1)
  BY <1>3, <1>4
<1>7. seen + 1 \in DOMAIN events /\ seen + 1 = Len(events)
  BY <1>3, <1>4
<1>8. e.type = "tool_call" =>
         turn >= 1 /\ (e.id # NoId => e.id = <<turn, e.idx>> /\ e.id[1] = turn)
  <2>1. SUFFICES ASSUME e.type = "tool_call" PROVE turn >= 1 /\ (e.id # NoId => e.id = <<turn, e.idx>> /\ e.id[1] = turn)
    OBVIOUS
  <2>2. turn >= 1 /\ (e.id # NoId => e.id[1] = turn)
    BY <1>3, <1>7, <2>1 DEF ServedInv, Fresh
  <2>3. e.id # NoId => e.id = <<e.id[1], e.idx>>
    BY <1>7, <2>1 DEF EventsSound
  <2> QED
    BY <2>2, <2>3
<1>9. OpenedBy'
  <2> SUFFICES ASSUME NEW i \in opened' PROVE \E k \in 1..(seen + 1) : Announces(k) /\ events[k].idx = i
    BY <1>1, <1>2 DEF OpenedBy, Announces
  <2>1. CASE i \in opened
    <3>1. PICK k \in 1..seen : Announces(k) /\ events[k].idx = i
      BY <2>1 DEF ServedInv, OpenedBy
    <3> QED
      BY <1>6, <3>1
  <2>2. CASE Opens(e) /\ i = e.idx
    <3>1. Announces(seen + 1) /\ seen + 1 \in 1..(seen + 1)
      BY <1>3, <2>2 DEF Opens, Announces
    <3> QED
      BY <2>2, <3>1
  <2> QED
    BY <1>1, <2>1, <2>2
(* An announced id of the first turn finds its index free. *)
<1>10. ASSUME e.type = "tool_call", e.id[1] = 1 PROVE Opens(e)
  <2>1. e.id # NoId
    BY <1>10 DEF NoId
  <2>2. turn = 1 /\ e.id = <<1, e.idx>>
    BY <1>8, <1>10, <2>1
  <2>3. ASSUME e.idx \in opened PROVE FALSE
    <3>1. PICK k \in 1..seen : Announces(k) /\ events[k].idx = e.idx
      BY <2>3 DEF ServedInv, OpenedBy
    <3>2. k \in DOMAIN events /\ k < seen + 1
      BY <1>6
    <3>3. events[k].id = <<events[k].id[1], e.idx>> /\ events[k].id[1] \in 1..turn
      BY <3>1, <3>2 DEF EventsSound, Announces
    <3>4. events[k].id = e.id
      BY <2>2, <3>3
    <3> QED
      BY <1>7, <1>10, <2>1, <3>1, <3>2, <3>4 DEF PairingInv, ResultsPairWithCalls, Announces
  <2> QED
    BY <1>10, <2>1, <2>3 DEF Opens
<1>11. ASSUME \A k \in 1..seen : events[k].type = "tool_call" /\ events[k].id[1] = 1
                  => \E n \in WireCalls' : wire'[n].id = events[k].id,
              e.type = "tool_call" /\ e.id[1] = 1 => \E n \in WireCalls' : wire'[n].id = e.id
       PROVE  FirstOpened'
  <2>1. \A k \in 1..(seen + 1) : k \in 1..seen \/ k = seen + 1
    BY <1>3
  <2> QED
    BY <1>1, <1>2, <1>11, <2>1 DEF FirstOpened
<1> HIDE DEF e
<1>12. CASE e.type = "tool_call"
  <2>1. CASE Opens(e)
    <3> DEFINE c == OpeningChunk(e)
    <3>1. c \in WireChunk /\ wire' = Append(wire, c)
      BY <1>1, <1>12, <2>1
    <3>2. c.kind = "call" /\ c.id = e.id /\ c.of = e.id /\ c.idx = e.idx /\ e.id # NoId
      BY <2>1 DEF OpeningChunk, Opens
    <3>3. turn >= 1 /\ c.of = <<turn, c.idx>>
      BY <1>8, <1>12, <3>2
    <3> HIDE DEF c
    <3>4. /\ CallsOf' /\ CallsInOrder' /\ FirstResults' /\ WireCalls \subseteq WireCalls'
          /\ Len(wire) + 1 \in WireCalls' /\ \A n \in WireCalls : wire'[n] = wire[n]
      BY <1>2, <3>1, <3>2, <3>3, FragmentServed
    <3>5. wire'[Len(wire) + 1] = c
      BY <3>1, OneChunkMore
    <3>6. FirstOpened'
      BY <1>11, <3>2, <3>4, <3>5 DEF ServedInv, FirstOpened
    <3> QED
      BY <1>5, <1>9, <3>4, <3>6 DEF ServedInv
  <2>2. CASE ~ Opens(e) /\ wire' # wire
    <3> DEFINE c == ArgumentsChunk(e)
    <3>1. c \in WireChunk /\ wire' = Append(wire, c)
      BY <1>1, <1>12, <2>2
    <3>2. c.kind = "call" /\ c.id = NoId /\ c.of = <<turn, e.idx>> /\ c.idx = e.idx
      BY DEF ArgumentsChunk, CallId
    <3>3. turn >= 1
      BY <1>8, <1>12
    <3> HIDE DEF c
    <3>4. /\ CallsOf' /\ CallsInOrder' /\ FirstResults' /\ WireCalls \subseteq WireCalls'
          /\ \A n \in WireCalls : wire'[n] = wire[n]
      BY <1>2, <3>1, <3>2, <3>3, FragmentServed
    <3>5. FirstOpened'
      BY <1>10, <1>11, <1>12, <2>2, <3>4 DEF ServedInv, FirstOpened
    <3> QED
      BY <1>5, <1>9, <3>4, <3>5 DEF ServedInv
  <2>3. CASE ~ Opens(e) /\ wire' = wire
    <3>1. WireCalls' = WireCalls
      BY <2>3 DEF WireCalls
    <3>2. FirstOpened'
      BY <1>10, <1>11, <1>12, <2>3, <3>1 DEF ServedInv, FirstOpened
    <3>3. CallsOf' /\ CallsInOrder' /\ FirstResults'
      BY <1>2, <2>3, <3>1 DEF ServedInv, CallsOf, CallsInOrder, FirstResults
    <3> QED
      BY <1>5, <1>9, <3>2, <3>3 DEF ServedInv
  <2> QED
    BY <2>1, <2>2, <2>3
<1>13. CASE e.type = "tool_result"
  <2> DEFINE c == ResultChunk(e)
  <2>1. c \in WireChunk /\ wire' = Append(wire, c)
    BY <1>1, <1>13
  <2>2. c.kind = "result" /\ c.id = e.id
    BY DEF ResultChunk, Chunk
  <2> HIDE DEF c
  <2>3. /\ DOMAIN wire' = DOMAIN wire \cup {Len(wire) + 1} /\ wire'[Len(wire) + 1] = c
        /\ \A n \in DOMAIN wire : wire'[n] = wire[n] /\ n < Len(wire) + 1 /\ n \in Nat
        /\ WireCalls' = WireCalls
    BY <2>1, <2>2, OneChunkMore
  <2>4. \A n \in WireCalls : n \in DOMAIN wire
    BY DEF WireCalls
  <2>5. CallsOf' /\ CallsInOrder'
    BY <1>2, <2>3, <2>4 DEF ServedInv, CallsOf, CallsInOrder
  <2>6. FirstOpened'
    BY <1>11, <1>13, <2>3, <2>4 DEF ServedInv, FirstOpened
  <2>7. e.id[1] = 1 => \E m \in WireCalls : wire[m].id = e.id
    <3>1. SUFFICES ASSUME e.id[1] = 1 PROVE \E m \in WireCalls : wire[m].id = e.id
      OBVIOUS
    <3>2. PICK k \in DOMAIN events : k < seen + 1 /\ events[k].type = "tool_call" /\ events[k].id = e.id
      BY <1>7, <1>13 DEF PairingInv, ResultsPairWithCalls, e
    <3>3. k \in 1..seen
      BY <1>3, <3>2
    <3> QED
      BY <3>1, <3>2, <3>3 DEF ServedInv, FirstOpened
  <2>8. FirstResults'
    <3> SUFFICES ASSUME NEW n \in DOMAIN wire', wire'[n].kind = "result", wire'[n].id[1] = 1
                 PROVE  \E m \in WireCalls : m < n /\ wire'[m].id = wire'[n].id
      BY <2>3 DEF FirstResults
    <3>1. CASE n \in DOMAIN wire
      BY <2>3, <2>4, <3>1 DEF ServedInv, FirstResults
    <3>2. CASE n = Len(wire) + 1
      BY <2>2, <2>3, <2>4, <2>7, <3>2
    <3> QED
      BY <2>3, <3>1, <3>2
  <2> QED
    BY <1>5, <1>9, <2>5, <2>6, <2>8 DEF ServedInv
<1>14. CASE e.type = "complete"
  <2>1. wire \in Seq(WireChunk) /\ Chunk("finish") \in WireChunk /\ Chunk("finish").kind = "finish"
        /\ Chunk("usage") \in WireChunk /\ Chunk("usage").kind = "usage"
    BY ChunkTyped DEF Kinds, StreamTyped, TypedWire
  <2>2. \A a, b \in WireChunk :
           LET w == Append(Append(wire, a), b)
           IN  /\ DOMAIN w = DOMAIN wire \cup {Len(wire) + 1, Len(wire) + 2}
               /\ w[Len(wire) + 1] = a /\ w[Len(wire) + 2] = b
               /\ \A n \in DOMAIN wire : w[n] = wire[n]
    BY <2>1
  <2>3. wire' = Append(Append(wire, Chunk("finish")), Chunk("usage"))
    BY <1>1, <1>14
  <2>4. /\ DOMAIN wire' = DOMAIN wire \cup {Len(wire) + 1, Len(wire) + 2}
        /\ wire'[Len(wire) + 1].kind = "finish" /\ wire'[Len(wire) + 2].kind = "usage"
        /\ \A n \in DOMAIN wire : wire'[n] = wire[n]
    BY <2>1, <2>2, <2>3
  <2>5. WireCalls' = WireCalls /\ \A n \in WireCalls : n \in DOMAIN wire
    BY <2>4 DEF WireCalls
  <2>6. CallsOf' /\ CallsInOrder'
    BY <1>2, <2>4, <2>5 DEF ServedInv, CallsOf, CallsInOrder
  <2>7. FirstOpened'
    BY <1>11, <1>14, <2>4, <2>5 DEF ServedInv, FirstOpened
  <2>8. FirstResults'
    BY <2>4, <2>5 DEF ServedInv, FirstResults
  <2> QED
    BY <1>5, <1>9, <2>6, <2>7, <2>8 DEF ServedInv
<1> QED
  BY <1>1, <1>12, <1>13, <1>14

(* The steps that put neither a fragment nor a result on the wire. *)
LEMMA OthersServed ==
    ASSUME ServedInv, UNCHANGED <<turn, events, seen, opened>>,
           DOMAIN wire \subseteq DOMAIN wire', \A n \in DOMAIN wire : wire'[n] = wire[n],
           \A n \in DOMAIN wire' \ DOMAIN wire : wire'[n].kind \notin {"call", "result"}
    PROVE  ServedInv'
<1>1. WireCalls' = WireCalls /\ \A n \in WireCalls : n \in DOMAIN wire
  BY DEF WireCalls
<1>2. Fresh' /\ OpenedBy'
  BY DEF ServedInv, Fresh, OpenedBy, Announces
<1>3. CallsOf' /\ CallsInOrder'
  BY <1>1 DEF ServedInv, CallsOf, CallsInOrder
<1>4. FirstOpened'
  BY <1>1 DEF ServedInv, FirstOpened
<1>5. FirstResults'
  BY <1>1 DEF ServedInv, FirstResults
<1> QED
  BY <1>2, <1>3, <1>4, <1>5 DEF ServedInv

(* A fragment the page reads belongs to the pill at its index, if it is of *)
(* the first turn: whatever opened the pill was not of a later turn.       *)
LEMMA PillAtIndex ==
    ASSUME TypeOK, StreamTyped, ServedInv, PageInv, NEW m \in WireCalls, read < m,
           wire[m].of[1] = 1, pills[wire[m].idx].id # NoId
    PROVE  pills[wire[m].idx].id = wire[m].of
<1> DEFINE i == wire[m].idx
<1>1. CallChunk(wire[m]) /\ i \in Idx /\ m \in Int /\ read \in Int
  BY DEF StreamTyped, TypedWire, WireCalls, CallChunk
<1>2. PICK n \in WireCalls : n <= read /\ wire[n].id = pills[i].id /\ wire[n].idx = i
  BY <1>1 DEF PageInv, PillsOf
<1>3. n <= m
  <2>1. n \in Int
    BY DEF StreamTyped, TypedWire, WireCalls
  <2> QED
    BY <1>1, <1>2, <2>1
<1>4. wire[n].of = <<wire[n].of[1], i>> /\ wire[n].of[1] \in 1..turn /\ wire[n].id = wire[n].of
  BY <1>2 DEF ServedInv, CallsOf
<1>5. wire[n].of[1] <= 1
  BY <1>3 DEF ServedInv, CallsInOrder
<1>6. wire[n].of[1] = 1
  BY <1>4, <1>5 DEF TypeOK
<1>7. wire[m].of = <<1, i>>
  BY DEF ServedInv, CallsOf
<1> QED
  BY <1>2, <1>4, <1>6, <1>7

LEMMA PageReads ==
    ASSUME TypeOK, StreamTyped, ServedInv, PageInv, ReadChunk
    PROVE  PageInv'
<1> DEFINE c == wire[read + 1]
<1>1. /\ read \in Nat /\ read + 1 \in DOMAIN wire /\ read' = read + 1
      /\ UNCHANGED <<vars, sseVars>> /\ wire' = wire
      /\ \A n \in 1..(read + 1) : n \in 1..read \/ n = read + 1
      /\ \A n \in DOMAIN wire : n \in Nat /\ n >= 1
  BY DEF StreamTyped, TypedWire, ReadChunk, sseVars
<1>2. /\ CASE c.kind = "call" -> ShowCall(c)
           [] c.kind = "result" -> ShowResult(c)
           [] OTHER -> UNCHANGED pills
  BY DEF ReadChunk
<1>3. CallChunk(c) /\ pills \in [Idx -> Pill]
  BY <1>1 DEF StreamTyped, TypedWire
<1>4. WireCalls' = WireCalls
  BY <1>1 DEF WireCalls
<1>5. \A n \in WireCalls : n <= read + 1 => n <= read \/ n = read + 1
  BY <1>1 DEF WireCalls
<1>6. \A k \in 1..read : k \in DOMAIN wire
  BY <1>1 DEF StreamTyped, TypedWire
<1>a. /\ \A i \in Idx : pills[i].id # NoId =>
             \E n \in WireCalls : n <= read /\ wire[n].id = pills[i].id /\ wire[n].idx = i
      /\ \A n \in WireCalls : n <= read /\ wire[n].id[1] = 1 => pills[wire[n].idx].id = wire[n].id
      /\ \A k \in 1..read : wire[k].kind = "result" /\ wire[k].id[1] = 1
             => \E i \in Idx : pills[i].id = wire[k].id /\ pills[i].status = "done"
      /\ \A i \in Idx : \A d \in pills[i].args : d[1] = 1 => d = pills[i].id
  BY DEF PageInv, PillsOf, FirstPills, FirstDone, FirstArgs
<1>b. \A i \in Idx : pills[i].id # NoId =>
         \E n \in WireCalls : n <= read + 1 /\ wire[n].id = pills[i].id /\ wire[n].idx = i
  <2> SUFFICES ASSUME NEW i \in Idx, pills[i].id # NoId
               PROVE  \E n \in WireCalls : n <= read + 1 /\ wire[n].id = pills[i].id /\ wire[n].idx = i
    OBVIOUS
  <2>1. PICK n \in WireCalls : n <= read /\ wire[n].id = pills[i].id /\ wire[n].idx = i
    BY DEF PageInv, PillsOf
  <2>2. n \in Nat /\ n <= read + 1
    BY <1>1, <2>1 DEF WireCalls
  <2> QED
    BY <2>1, <2>2
<1>i. \A n \in WireCalls : wire[n].idx \in Idx
  BY DEF StreamTyped, TypedWire, WireCalls, CallChunk
<1>p. SUFFICES
        /\ \A i \in Idx : pills'[i].id # NoId =>
             \E n \in WireCalls : n <= read + 1 /\ wire[n].id = pills'[i].id /\ wire[n].idx = i
        /\ \A n \in WireCalls : n <= read + 1 /\ wire[n].id[1] = 1 => pills'[wire[n].idx].id = wire[n].id
        /\ \A k \in 1..(read + 1) : wire[k].kind = "result" /\ wire[k].id[1] = 1
             => \E i \in Idx : pills'[i].id = wire[k].id /\ pills'[i].status = "done"
        /\ \A i \in Idx : \A d \in pills'[i].args : d[1] = 1 => d = pills'[i].id
  BY <1>1, <1>4 DEF PageInv, PillsOf, FirstPills, FirstDone, FirstArgs
<1>7. CASE c.kind = "call"
  <2> DEFINE i == c.idx
             fragment == IF c.args THEN {c.of} ELSE {}
  <2>1. read + 1 \in WireCalls /\ i \in Idx /\ ShowCall(c)
    BY <1>1, <1>2, <1>3, <1>7 DEF WireCalls, CallChunk
  <2>2. /\ c.of = <<c.of[1], i>> /\ (c.id # NoId => c.id = c.of)
    BY <2>1 DEF ServedInv, CallsOf
  <2>3. \A k \in 1..(read + 1) : wire[k].kind = "result" => k \in 1..read
    BY <1>1, <1>7
  <2>4. \A t \in CallIds : t[1] = 1 => t # NoId
    BY DEF NoId
  <2>5. c.id[1] = 1 => c.id # NoId
    BY DEF NoId
  <2>6. read < read + 1
    BY <1>1
  <2>7. pills[i].id # NoId /\ c.of[1] = 1 => pills[i].id = c.of
    BY <2>1, <2>6, PillAtIndex
  <2> HIDE DEF c
  <2>8. CASE pills[i].id = NoId /\ c.id = NoId
    <3>1. pills' = pills
      BY <2>1, <2>8 DEF ShowCall
    <3>2. c.id[1] # 1
      BY <2>5, <2>8
    <3>3. \A n \in WireCalls : n <= read + 1 /\ wire[n].id[1] = 1 => n <= read
      BY <1>5, <3>2 DEF c
    <3>4. \A k \in 1..(read + 1) : wire[k].kind = "result" /\ wire[k].id[1] = 1
             => \E j \in Idx : pills'[j].id = wire[k].id /\ pills'[j].status = "done"
      BY <1>a, <2>3, <3>1
    <3>5. /\ \A n \in WireCalls : n <= read + 1 /\ wire[n].id[1] = 1 => pills'[wire[n].idx].id = wire[n].id
          /\ \A j \in Idx : \A d \in pills'[j].args : d[1] = 1 => d = pills'[j].id
      BY <1>a, <3>1, <3>3
    <3> QED
      BY <1>b, <3>1, <3>4, <3>5
  <2>9. CASE pills[i].id = NoId /\ c.id # NoId
    <3>1. pills' = [pills EXCEPT ![i] = [id |-> c.id, args |-> fragment, status |-> "running"]]
      BY <2>1, <2>9 DEF ShowCall
    <3>2. pills'[i] = [id |-> c.id, args |-> fragment, status |-> "running"]
          /\ \A j \in Idx : j # i => pills'[j] = pills[j]
      BY <1>3, <2>1, <3>1
    <3>3. \A j \in Idx : pills'[j].id # NoId =>
             \E n \in WireCalls : n <= read + 1 /\ wire[n].id = pills'[j].id /\ wire[n].idx = j
      <4> SUFFICES ASSUME NEW j \in Idx, pills'[j].id # NoId
                   PROVE  \E n \in WireCalls : n <= read + 1 /\ wire[n].id = pills'[j].id /\ wire[n].idx = j
        OBVIOUS
      <4>1. CASE j = i
        BY <1>1, <2>1, <3>2, <4>1 DEF c
      <4>2. CASE j # i
        BY <1>b, <3>2, <4>2
      <4> QED
        BY <4>1, <4>2
    <3>4. \A n \in WireCalls : n <= read + 1 /\ wire[n].id[1] = 1 => pills'[wire[n].idx].id = wire[n].id
      <4> SUFFICES ASSUME NEW n \in WireCalls, n <= read + 1, wire[n].id[1] = 1
                   PROVE  pills'[wire[n].idx].id = wire[n].id
        OBVIOUS
      <4>1. CASE n = read + 1
        BY <3>2, <4>1 DEF c
      <4>2. CASE n <= read
        <5>1. pills[wire[n].idx].id = wire[n].id /\ wire[n].id # NoId
          BY <1>a, <4>2 DEF NoId
        <5>2. wire[n].idx # i
          BY <2>9, <5>1
        <5> QED
          BY <1>i, <3>2, <5>1, <5>2
      <4> QED
        BY <1>5, <4>1, <4>2
    <3>5. \A k \in 1..(read + 1) : wire[k].kind = "result" /\ wire[k].id[1] = 1
             => \E j \in Idx : pills'[j].id = wire[k].id /\ pills'[j].status = "done"
      <4> SUFFICES ASSUME NEW k \in 1..(read + 1), wire[k].kind = "result", wire[k].id[1] = 1
                   PROVE  \E j \in Idx : pills'[j].id = wire[k].id /\ pills'[j].status = "done"
        OBVIOUS
      <4>1. PICK j \in Idx : pills[j].id = wire[k].id /\ pills[j].status = "done"
        BY <1>a, <2>3
      <4>2. j # i
        BY <2>9, <4>1 DEF NoId
      <4> QED
        BY <3>2, <4>1, <4>2
    <3>6. \A j \in Idx : \A d \in pills'[j].args : d[1] = 1 => d = pills'[j].id
      <4>1. \A d \in fragment : d = c.id
        BY <2>2, <2>9
      <4> HIDE DEF fragment
      <4> QED
        BY <1>a, <3>2, <4>1
    <3> QED
      BY <3>3, <3>4, <3>5, <3>6
  <2>10. CASE pills[i].id # NoId
    <3>1. pills' = [pills EXCEPT ![i].args = @ \cup fragment]
      BY <2>1, <2>10 DEF ShowCall
    <3>2. \A j \in Idx : /\ pills'[j].id = pills[j].id /\ pills'[j].status = pills[j].status
                         /\ pills'[j].args = IF j = i THEN pills[j].args \cup fragment ELSE pills[j].args
      <4>1. \A j \in Idx : pills[j] \in Pill
        BY <1>3
      <4> HIDE DEF fragment
      <4> QED
        BY <1>3, <2>1, <3>1, <4>1 DEF Pill
    <3>3. \A j \in Idx : pills'[j].id # NoId =>
             \E n \in WireCalls : n <= read + 1 /\ wire[n].id = pills'[j].id /\ wire[n].idx = j
      <4> SUFFICES ASSUME NEW j \in Idx, pills'[j].id # NoId
                   PROVE  \E n \in WireCalls : n <= read + 1 /\ wire[n].id = pills'[j].id /\ wire[n].idx = j
        OBVIOUS
      <4>1. pills'[j].id = pills[j].id
        BY <3>2
      <4> QED
        BY <1>b, <4>1
    <3>4. \A n \in WireCalls : n <= read + 1 /\ wire[n].id[1] = 1 => pills'[wire[n].idx].id = wire[n].id
      <4> SUFFICES ASSUME NEW n \in WireCalls, n <= read + 1, wire[n].id[1] = 1
                   PROVE  pills'[wire[n].idx].id = wire[n].id
        OBVIOUS
      <4>1. CASE n = read + 1
        <5>1. wire[n] = c /\ c.id # NoId /\ c.id = c.of /\ c.of[1] = 1
          BY <2>2, <2>5, <4>1 DEF c
        <5> QED
          BY <2>1, <2>7, <2>10, <3>2, <5>1
      <4>2. CASE n <= read
        BY <1>a, <1>i, <3>2, <4>2
      <4> QED
        BY <1>5, <4>1, <4>2
    <3>5. \A k \in 1..(read + 1) : wire[k].kind = "result" /\ wire[k].id[1] = 1
             => \E j \in Idx : pills'[j].id = wire[k].id /\ pills'[j].status = "done"
      <4> SUFFICES ASSUME NEW k \in 1..(read + 1), wire[k].kind = "result", wire[k].id[1] = 1
                   PROVE  \E j \in Idx : pills'[j].id = wire[k].id /\ pills'[j].status = "done"
        OBVIOUS
      <4>1. PICK j \in Idx : pills[j].id = wire[k].id /\ pills[j].status = "done"
        BY <1>a, <2>3
      <4> QED
        BY <3>2, <4>1
    <3>6. \A j \in Idx : \A d \in pills'[j].args : d[1] = 1 => d = pills'[j].id
      <4>1. \A d \in fragment : d = c.of
        OBVIOUS
      <4> HIDE DEF fragment
      <4> SUFFICES ASSUME NEW j \in Idx, NEW d \in pills'[j].args, d[1] = 1 PROVE d = pills'[j].id
        OBVIOUS
      <4>2. CASE d \in pills[j].args
        BY <1>a, <3>2, <4>2
      <4>3. CASE j = i /\ d \in fragment
        BY <2>7, <2>10, <3>2, <4>1, <4>3
      <4> QED
        BY <3>2, <4>2, <4>3
    <3> QED
      BY <3>3, <3>4, <3>5, <3>6
  <2> QED
    BY <2>8, <2>9, <2>10
<1>8. CASE c.kind # "call"
  <2>1. \A n \in WireCalls : n <= read + 1 => n <= read
    BY <1>5, <1>8 DEF WireCalls
  <2>2. /\ \A j \in Idx : /\ pills'[j].id = pills[j].id /\ pills'[j].args = pills[j].args
                          /\ pills[j].status = "done" => pills'[j].status = "done"
                          /\ c.kind = "result" /\ pills[j].id = c.id => pills'[j].status = "done"
    <3>1. CASE c.kind = "result"
      <4>1. \A j \in Idx : pills'[j] = IF pills[j].id = c.id THEN [pills[j] EXCEPT !.status = "done"]
                                                             ELSE pills[j]
        BY <1>2, <3>1 DEF ShowResult
      <4>2. \A j \in Idx : pills[j] \in Pill
        BY <1>3
      <4> HIDE DEF c
      <4> QED
        BY <4>1, <4>2 DEF Pill
    <3>2. CASE c.kind # "result"
      BY <1>2, <1>8, <3>2
    <3> QED
      BY <3>1, <3>2
  <2>3. c.kind = "result" /\ c.id[1] = 1 => \E m \in WireCalls : m <= read /\ wire[m].id = c.id
    <3> SUFFICES ASSUME c.kind = "result", c.id[1] = 1 PROVE \E m \in WireCalls : m <= read /\ wire[m].id = c.id
      OBVIOUS
    <3>1. PICK m \in WireCalls : m < read + 1 /\ wire[m].id = c.id
      BY <1>1 DEF ServedInv, FirstResults
    <3>2. m \in Nat
      BY <1>1 DEF WireCalls
    <3> QED
      BY <1>1, <3>1, <3>2
  <2> HIDE DEF c
  <2>4. \A j \in Idx : pills'[j].id # NoId =>
           \E n \in WireCalls : n <= read + 1 /\ wire[n].id = pills'[j].id /\ wire[n].idx = j
    BY <1>b, <2>2
  <2>5. \A n \in WireCalls : n <= read + 1 /\ wire[n].id[1] = 1 => pills'[wire[n].idx].id = wire[n].id
    BY <1>a, <1>i, <2>1, <2>2
  <2>6. \A k \in 1..(read + 1) : wire[k].kind = "result" /\ wire[k].id[1] = 1
           => \E j \in Idx : pills'[j].id = wire[k].id /\ pills'[j].status = "done"
    <3> SUFFICES ASSUME NEW k \in 1..(read + 1), wire[k].kind = "result", wire[k].id[1] = 1
                 PROVE  \E j \in Idx : pills'[j].id = wire[k].id /\ pills'[j].status = "done"
      OBVIOUS
    <3>1. CASE k \in 1..read
      BY <1>a, <2>2, <3>1
    <3>2. CASE k = read + 1
      <4>1. c.kind = "result" /\ c.id[1] = 1 /\ wire[k].id = c.id
        BY <3>2 DEF c
      <4>2. PICK m \in WireCalls : m <= read /\ wire[m].id = c.id
        BY <2>3, <4>1
      <4>3. pills[wire[m].idx].id = c.id /\ wire[m].idx \in Idx
        BY <1>a, <1>i, <4>1, <4>2
      <4> QED
        BY <2>2, <4>1, <4>3
    <3> QED
      BY <1>1, <3>1, <3>2
  <2>7. \A j \in Idx : \A d \in pills'[j].args : d[1] = 1 => d = pills'[j].id
    BY <1>a, <2>2
  <2> QED
    BY <2>4, <2>5, <2>6, <2>7
<1> QED
  BY <1>7, <1>8

LEMMA StreamKeepsShown ==
    ASSUME TypeOK, TypeOK', PairingInv, EventsSound, StreamTyped, StreamTyped', Framed,
           ServedInv, PageInv, [SseNext]_allVars
    PROVE  ServedInv' /\ PageInv'
<1>0. wire \in Seq(WireChunk) /\ TypedWire(wire')
  BY DEF StreamTyped, TypedWire
<1>1. CASE Lead
  <2>1. /\ wire = <<>> /\ wire' = Append(wire, Chunk("role"))
        /\ UNCHANGED <<turn, events, seen, opened, read, pills>>
    BY <1>1 DEF Lead, vars, uiVars, Framed, Starts
  <2>2. Chunk("role") \in WireChunk /\ Chunk("role").kind = "role"
    BY ChunkTyped DEF Kinds
  <2>3. DOMAIN wire = {} /\ DOMAIN wire' = {1} /\ wire'[1].kind = "role"
    BY <2>1, <2>2
  <2> QED
    BY <1>0, <2>1, <2>3, OthersServed, PageWaits
<1>2. CASE Pull
  <2>1. ServedInv'
    BY <1>2, PullServed DEF PairingInv
  <2>2. UNCHANGED <<wire, read, pills>>
    BY <1>2 DEF Pull, sseVars, uiVars
  <2> QED
    BY <1>0, <2>1, <2>2, PageWaits
<1>3. CASE Translate
  <2>1. \A n \in DOMAIN wire : n \in DOMAIN wire' /\ wire'[n] = wire[n]
    BY <1>3, TranslateTyped
  <2>2. UNCHANGED <<read, pills>>
    BY <1>3 DEF Translate, uiVars
  <2> QED
    BY <1>0, <1>3, <2>1, <2>2, TranslateServed, PageWaits
<1>4. CASE EndStream
  <2>1. UNCHANGED <<turn, events, seen, opened, read, pills>>
    BY <1>4 DEF EndStream, vars, uiVars
  <2>2. Chunk("error") \in WireChunk /\ Chunk("error").kind = "error"
        /\ Chunk("done") \in WireChunk /\ Chunk("done").kind = "done"
    BY ChunkTyped DEF Kinds
  <2>3. \/ wire' = Append(wire, Chunk("done"))
        \/ wire' = Append(Append(wire, Chunk("error")), Chunk("done"))
    BY <1>0, <1>4, <2>2, TwoMore DEF EndStream
  <2>4. /\ DOMAIN wire \subseteq DOMAIN wire' /\ \A n \in DOMAIN wire : wire'[n] = wire[n]
        /\ \A n \in DOMAIN wire' \ DOMAIN wire : wire'[n].kind \notin {"call", "result"}
    <3>1. \A w \in Seq(WireChunk), a \in WireChunk :
             /\ DOMAIN Append(w, a) = DOMAIN w \cup {Len(w) + 1} /\ Append(w, a)[Len(w) + 1] = a
             /\ Append(w, a) \in Seq(WireChunk) /\ \A n \in DOMAIN w : Append(w, a)[n] = w[n]
      OBVIOUS
    <3>2. CASE wire' = Append(wire, Chunk("done"))
      BY <1>0, <2>2, <3>1, <3>2
    <3>3. CASE wire' = Append(Append(wire, Chunk("error")), Chunk("done"))
      <4> DEFINE w == Append(wire, Chunk("error"))
      <4>1. /\ w \in Seq(WireChunk) /\ DOMAIN w = DOMAIN wire \cup {Len(wire) + 1}
            /\ w[Len(wire) + 1].kind = "error" /\ \A n \in DOMAIN wire : w[n] = wire[n]
        BY <1>0, <2>2, <3>1
      <4> HIDE DEF w
      <4>2. /\ DOMAIN wire' = DOMAIN w \cup {Len(w) + 1} /\ wire'[Len(w) + 1].kind = "done"
            /\ \A n \in DOMAIN w : wire'[n] = w[n]
        BY <2>2, <3>1, <3>3, <4>1 DEF w
      <4> QED
        BY <4>1, <4>2
    <3> QED
      BY <2>3, <3>2, <3>3
  <2> QED
    BY <1>0, <2>1, <2>4, OthersServed, PageWaits
<1>5. CASE Disconnect
  <2>1. UNCHANGED <<turn, events, seen, opened, wire, read, pills>>
    BY <1>5 DEF Disconnect, uiVars
  <2> QED
    BY <1>0, <2>1, OthersServed, PageWaits
<1>6. CASE ReadChunk
  <2>1. UNCHANGED <<turn, events, seen, opened, wire>>
    BY <1>6 DEF ReadChunk, vars, sseVars
  <2> QED
    BY <1>6, <2>1, OthersServed, PageReads
<1>7. CASE UNCHANGED allVars
  <2>1. UNCHANGED <<turn, events, seen, opened, wire, read, pills>>
    BY <1>7 DEF allVars, vars, sseVars, uiVars
  <2> QED
    BY <1>0, <2>1, OthersServed, PageWaits
<1> QED
  BY <1>1, <1>2, <1>3, <1>4, <1>5, <1>6, <1>7 DEF SseNext

(* Every result of the first turn completes the pill of its call, and no   *)
(* pill shows the arguments of another call of that turn; for any number   *)
(* of calls, fragments and turns, and however slowly the page reads.       *)
THEOREM FirstTurnAlwaysShown == SseSpec => []FirstTurnShown
<1>1. SseInit => ServedInv /\ PageInv
  <2> SUFFICES ASSUME SseInit PROVE ServedInv /\ PageInv
    OBVIOUS
  <2>1. /\ wire = <<>> /\ events = <<>> /\ seen = 0 /\ read = 0
        /\ opened = {} /\ pills = [i \in Idx |-> NoPill]
    BY DEF SseInit, Init
  <2>2. WireCalls = {} /\ DOMAIN wire = {} /\ Len(events) = 0
    BY <2>1 DEF WireCalls
  <2>3. ServedInv
    BY <2>1, <2>2
       DEF ServedInv, Fresh, CallsOf, CallsInOrder, OpenedBy, FirstOpened, FirstResults
  <2>4. PageInv
    BY <2>1, <2>2 DEF PageInv, PillsOf, FirstPills, FirstDone, FirstArgs, NoPill
  <2> QED
    BY <2>3, <2>4
<1>2. PageInv => FirstTurnShown
  BY DEF PageInv, FirstDone, FirstArgs, FirstTurnShown
<1>3. TypeOK /\ TypeOK' /\ PairingInv /\ EventsSound /\ StreamTyped /\ StreamTyped' /\ Framed
        /\ ServedInv /\ PageInv /\ [SseNext]_allVars => ServedInv' /\ PageInv'
  BY StreamKeepsShown
<1>4. QED
  BY <1>1, <1>2, <1>3, StreamInvariant, StreamRunsTheLoop, Pairing, PTL DEF SseSpec
=============================================================================
