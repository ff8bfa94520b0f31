---------------------------- MODULE AnthropicSse ----------------------------
(***************************************************************************)
(* stream_events_as_anthropic_messages: the agent's events as content      *)
(* blocks of the Anthropic Messages API.  The events come from an agent of *)
(* MaxTurns model turns, each of which numbers its tool calls from 0; the  *)
(* source may end in StreamComplete, in an exception, or just end.         *)
(*                                                                         *)
(* The frames sent are kept as what their reader makes of them: the blocks *)
(* started, whether they were stopped, and whose arguments went into them. *)
(***************************************************************************)
EXTENDS Integers, Sequences, FiniteSets

CONSTANTS
    MaxTurns, MaxIndex,   \* bounds: model turns, tool calls of a turn
    MaxBlocks             \* bound: blocks after which the source only ends

ASSUME AnthropicAssumption ==
    MaxTurns \in Nat \ {0} /\ MaxIndex \in Nat /\ MaxBlocks \in Nat

Indexes == 0..MaxIndex
NoBlock == 0

VARIABLES
    turn, called,         \* source: the turn, and the calls it has announced
    source,               \* "streaming", "complete", "error" or "exhausted"
    current, currentBlock,
    toolBlocks,           \* tool_block_indexes
    blocks,               \* content blocks, numbered from 1
    stopped               \* message_stop has been sent

vars == <<turn, called, source, current, currentBlock, toolBlocks, blocks, stopped>>
sourceVars == <<turn, called, source>>

Call(i) == <<turn, i>>
Relaying == source = "streaming" /\ ~ stopped
Room == Len(blocks) < MaxBlocks

Init ==
    /\ turn = 1 /\ called = {} /\ source = "streaming"
    /\ current = "none" /\ currentBlock = NoBlock
    /\ toolBlocks = [i \in Indexes |-> NoBlock]
    /\ blocks = <<>> /\ stopped = FALSE

Stop(bs, closing) ==
    [k \in DOMAIN bs |-> IF k \in closing THEN [bs[k] EXCEPT !.open = FALSE] ELSE bs[k]]
Start(bs, type, args) == Append(bs, [type |-> type, open |-> TRUE, args |-> args])
Current == IF current = "none" THEN {} ELSE {currentBlock}
Tools == {toolBlocks[i] : i \in Indexes} \ {NoBlock}

-----------------------------------------------------------------------------
(* ReasoningDelta and ContentDelta: a block of their kind, which is opened *)
(* unless it is the current one; the one before is closed.                 *)
Delta(type) ==
    /\ Relaying
    /\ \/ current = type /\ UNCHANGED <<current, currentBlock, blocks>>
       \/ /\ current # type /\ Room
          /\ blocks' = Start(Stop(blocks, Current), type, {})
          /\ current' = type /\ currentBlock' = Len(blocks')
    /\ UNCHANGED <<sourceVars, toolBlocks, stopped>>

(* Slip: a call opens its block and leaves the text block open. *)
OpenCall_LeavesText(i) ==
    /\ Relaying /\ Room
    /\ toolBlocks[i] = NoBlock
    /\ called' = called \cup {Call(i)}
    /\ \E args \in {{}, {Call(i)}} : blocks' = Start(blocks, "tool_use", args)
    /\ current' = "none" /\ UNCHANGED currentBlock
    /\ toolBlocks' = [toolBlocks EXCEPT ![i] = Len(blocks')]
    /\ UNCHANGED <<turn, source, stopped>>

(* ToolCallDelta of an index that has no block: one with a call_id opens   *)
(* one, with or without arguments; one without call_id is skipped.         *)
OpenCall(i) ==
    /\ Relaying /\ Room
    /\ toolBlocks[i] = NoBlock
    /\ called' = called \cup {Call(i)}
    /\ \E args \in {{}, {Call(i)}} : blocks' = Start(Stop(blocks, Current), "tool_use", args)
    /\ current' = "none" /\ UNCHANGED currentBlock
    /\ toolBlocks' = [toolBlocks EXCEPT ![i] = Len(blocks')]
    /\ UNCHANGED <<turn, source, stopped>>

(* ToolCallDelta of an index that has a block: its arguments go there,     *)
(* whether or not it carries a call_id.                                    *)
CallDelta(i) ==
    /\ Relaying
    /\ toolBlocks[i] # NoBlock
    /\ called' = called \cup {Call(i)}
    /\ \E args \in {{}, {Call(i)}} :
          blocks' = [blocks EXCEPT ![toolBlocks[i]].args = @ \cup args]
    /\ UNCHANGED <<turn, source, current, currentBlock, toolBlocks, stopped>>

(* The results of a turn are skipped; the next turn numbers from 0 again. *)
NextTurn ==
    /\ Relaying /\ turn < MaxTurns /\ \E c \in called : c[1] = turn
    /\ turn' = turn + 1
    /\ UNCHANGED <<called, source, current, currentBlock, toolBlocks, blocks, stopped>>

(* StreamComplete: everything is closed, message_delta and message_stop *)
Complete ==
    /\ Relaying
    /\ source' = "complete"
    /\ blocks' = Stop(blocks, Current \cup Tools)
    /\ current' = "none" /\ toolBlocks' = [i \in Indexes |-> NoBlock]
    /\ stopped' = TRUE
    /\ UNCHANGED <<turn, called, currentBlock>>

(* An exception: everything is closed, then a text block with the error *)
Fail ==
    /\ Relaying
    /\ source' = "error"
    /\ LET bs == Start(Stop(blocks, Current \cup Tools), "text", {})
       IN  blocks' = Stop(bs, {Len(bs)})
    /\ current' = "none" /\ toolBlocks' = [i \in Indexes |-> NoBlock]
    /\ stopped' = TRUE
    /\ UNCHANGED <<turn, called, currentBlock>>

(* The source ends without StreamComplete. *)
Exhaust ==
    /\ Relaying
    /\ source' = "exhausted"
    /\ stopped' = TRUE
    /\ UNCHANGED <<turn, called, current, currentBlock, toolBlocks, blocks>>

Next ==
    \/ \E type \in {"thinking", "text"} : Delta(type)
    \/ \E i \in Indexes : OpenCall(i) \/ CallDelta(i)
    \/ NextTurn
    \/ Complete \/ Fail \/ Exhaust

Spec == Init /\ [][Next]_vars

-----------------------------------------------------------------------------
Block == [type : {"thinking", "text", "tool_use"}, open : BOOLEAN,
          args : SUBSET ((1..MaxTurns) \X Indexes)]

TypeOK ==
    /\ turn \in 1..MaxTurns
    /\ source \in {"streaming", "complete", "error", "exhausted"}
    /\ blocks \in Seq(Block) /\ Len(blocks) <= MaxBlocks + 1
    /\ current \in {"none", "thinking", "text"}
    /\ current # "none" => blocks[currentBlock].type = current
    /\ \A i \in Indexes : toolBlocks[i] # NoBlock => blocks[toolBlocks[i]].type = "tool_use"

(* The serializer and the reader agree which blocks are open, through      *)
(* reasoning, text, interleaved tool calls and errors: the current one and *)
(* those of the tool calls, so that a delta never goes to a closed block.  *)
OpenAsTracked ==
    {k \in DOMAIN blocks : blocks[k].open} = Current \cup Tools

(* A block that was stopped is never written to, started or stopped again. *)
ClosedStaysClosed ==
    [][\A k \in DOMAIN blocks : ~ blocks[k].open => blocks'[k] = blocks[k]]_vars

(* The message ends with no block open, however many there were and where  *)
(* an exception cut them, unless the source just ended.                    *)
ClosedAtTheEnd ==
    stopped /\ source # "exhausted" => \A k \in DOMAIN blocks : ~ blocks[k].open

(* In the first turn each call has a block of its own, to which only its   *)
(* arguments go, however the deltas of several calls interleave.           *)
FirstTurnApart ==
    turn = 1 => \A k \in DOMAIN blocks :
        /\ Cardinality(blocks[k].args) <= 1
        /\ blocks[k].args # {} => blocks[k].type = "tool_use"

(* The serializer's state and what its reader makes of the frames fit at   *)
(* every moment, the error path and interleaved tool calls included.       *)
BlocksSound == TypeOK /\ OpenAsTracked /\ ClosedAtTheEnd /\ FirstTurnApart

(* "still emit a clean message_delta + message_stop so consumers see a     *)
(* well-formed stream"                                                     *)
WellFormedAtTheEnd == stopped => \A k \in DOMAIN blocks : ~ blocks[k].open

(* "gets its own tool_use block": no block holds two calls' arguments. *)
OwnBlock == \A k \in DOMAIN blocks : Cardinality(blocks[k].args) <= 1
=============================================================================
