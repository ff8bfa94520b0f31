------------------------- MODULE AnthropicSseProofs -------------------------
(***************************************************************************)
(* What the translators do for any stream: AnthropicSse for any number of  *)
(* turns, calls and blocks, ResponsesApi for any number of rounds, and     *)
(* ThinkTag for any tags and texts.                                        *)
(***************************************************************************)
EXTENDS Translators, FiniteSetTheorems, SequenceTheorems, WellFoundedInduction, TLAPS

(* TypeOK, and that the indexes kept point at blocks of their kind. *)
TypeInv ==
    /\ turn \in 1..MaxTurns
    /\ called \subseteq (1..MaxTurns) \X Indexes
    /\ source \in {"streaming", "complete", "error", "exhausted"}
    /\ stopped \in BOOLEAN
    /\ stopped <=> source # "streaming"
    /\ blocks \in Seq(Block)
    /\ Len(blocks) <= MaxBlocks + 1
    /\ ~ stopped => Len(blocks) <= MaxBlocks
    /\ current \in {"none", "thinking", "text"}
    /\ currentBlock \in Nat
    /\ current # "none" =>
          /\ currentBlock \in DOMAIN blocks
          /\ blocks[currentBlock].type = current
    /\ toolBlocks \in [Indexes -> Nat]
    /\ \A i \in Indexes : toolBlocks[i] # NoBlock =>
          /\ toolBlocks[i] \in DOMAIN blocks
          /\ blocks[toolBlocks[i]].type = "tool_use"

(* Closing blocks changes nothing else of them. *)
LEMMA StopKeeps ==
    ASSUME NEW bs \in Seq(Block), NEW closing
    PROVE  /\ Stop(bs, closing) \in Seq(Block)
           /\ Len(Stop(bs, closing)) = Len(bs)
           /\ \A k \in DOMAIN bs :
                 /\ Stop(bs, closing)[k].type = bs[k].type
                 /\ Stop(bs, closing)[k].args = bs[k].args
                 /\ Stop(bs, closing)[k].open = (bs[k].open /\ k \notin closing)
<1> DEFINE cs == Stop(bs, closing)
<1>1. ASSUME NEW b \in Block
      PROVE  /\ [b EXCEPT !.open = FALSE] \in Block
             /\ [b EXCEPT !.open = FALSE].type = b.type
             /\ [b EXCEPT !.open = FALSE].args = b.args
             /\ [b EXCEPT !.open = FALSE].open = FALSE
             /\ b.open \in BOOLEAN
  BY DEF Block
<1>2. cs = [k \in 1..Len(bs) |->
              IF k \in closing THEN [bs[k] EXCEPT !.open = FALSE] ELSE bs[k]]
  BY DEF Stop
<1> HIDE DEF cs
<1>3. ASSUME NEW k \in 1..Len(bs)
      PROVE  /\ cs[k] \in Block
             /\ cs[k].type = bs[k].type
             /\ cs[k].args = bs[k].args
             /\ cs[k].open = (bs[k].open /\ k \notin closing)
  <2>1. bs[k] \in Block
    OBVIOUS
  <2>2. CASE k \in closing
    <3>1. cs[k] = [bs[k] EXCEPT !.open = FALSE]
      BY <1>2, <2>2
    <3> QED
      BY <1>1, <2>1, <2>2, <3>1
  <2>3. CASE k \notin closing
    <3>1. cs[k] = bs[k]
      BY <1>2, <2>3
    <3> QED
      BY <1>1, <2>1, <2>3, <3>1
  <2> QED
    BY <2>2, <2>3
<1>4. cs \in [1..Len(bs) -> Block]
  BY <1>2, <1>3
<1>5. cs \in Seq(Block) /\ Len(cs) = Len(bs)
  BY <1>4
<1> QED
  BY <1>3, <1>5 DEF cs

Kinds == {"thinking", "text", "tool_use"}

(* A block that is started is the last one, open, and no other changes. *)
LEMMA StartAppends ==
    ASSUME NEW bs \in Seq(Block), NEW type \in Kinds,
           NEW args \in SUBSET ((1..MaxTurns) \X Indexes)
    PROVE  /\ Start(bs, type, args) \in Seq(Block)
           /\ Len(Start(bs, type, args)) = Len(bs) + 1
           /\ \A k \in DOMAIN bs : Start(bs, type, args)[k] = bs[k]
           /\ Start(bs, type, args)[Len(bs) + 1] = [type |-> type, open |-> TRUE, args |-> args]
<1>1. [type |-> type, open |-> TRUE, args |-> args] \in Block
  BY DEF Block, Kinds
<1> QED
  BY <1>1 DEF Start, Kinds

-----------------------------------------------------------------------------
(* Which block is open is told by the state, one block at a time. *)
Tracked ==
    \A k \in DOMAIN blocks :
        blocks[k].open <=> \/ current # "none" /\ k = currentBlock
                           \/ \E i \in Indexes : toolBlocks[i] = k

(* No two calls share a block, *)
Distinct ==
    \A i, j \in Indexes : toolBlocks[i] = toolBlocks[j] => i = j \/ toolBlocks[i] = NoBlock

(* in the first turn a block has the arguments of its own call or none,    *)
Owned(k) ==
    \/ blocks[k].args = {}
    \/ /\ blocks[k].type = "tool_use"
       /\ \E i \in Indexes : blocks[k].args = {<<1, i>>} /\ (~ stopped => toolBlocks[i] = k)
Owners == turn = 1 => \A k \in DOMAIN blocks : Owned(k)

(* and StreamComplete and an exception leave nothing to close. *)
NothingLeft ==
    source \in {"complete", "error"} =>
        current = "none" /\ \A i \in Indexes : toolBlocks[i] = NoBlock

BlockInv == TypeInv /\ Tracked /\ Distinct /\ Owners /\ NothingLeft

LEMMA InitInv == Init => BlockInv
<1> SUFFICES ASSUME Init PROVE BlockInv
  OBVIOUS
<1> USE AnthropicAssumption DEF Init, NoBlock
<1>1. TypeInv
  <2>1. turn \in 1..MaxTurns /\ called \subseteq (1..MaxTurns) \X Indexes
    OBVIOUS
  <2>2. blocks \in Seq(Block) /\ Len(blocks) = 0
    OBVIOUS
  <2>3. /\ toolBlocks \in [Indexes -> Nat]
        /\ \A i \in Indexes : toolBlocks[i] = NoBlock
    OBVIOUS
  <2>4. source = "streaming" /\ ~ stopped /\ stopped \in BOOLEAN
    OBVIOUS
  <2>5. Len(blocks) <= MaxBlocks /\ Len(blocks) <= MaxBlocks + 1
    BY <2>2
  <2>6. current = "none" /\ currentBlock \in Nat
    OBVIOUS
  <2> HIDE DEF Init, NoBlock
  <2> QED
    BY <2>1, <2>2, <2>3, <2>4, <2>5, <2>6 DEF TypeInv
<1>2. Tracked /\ Owners
  BY DEF Tracked, Owners
<1>3. Distinct /\ NothingLeft
  BY DEF Distinct, NothingLeft
<1> QED
  BY <1>1, <1>2, <1>3 DEF BlockInv

-----------------------------------------------------------------------------
(* No call's block is the current one: their kinds differ. *)
LEMMA CurrentIsNoCall ==
    ASSUME TypeInv, NEW i \in Indexes, toolBlocks[i] # NoBlock
    PROVE  toolBlocks[i] \notin Current
BY DEF TypeInv, Current

(* A block that is open is the current one or a call's. *)
LEMMA AllTracked ==
    ASSUME TypeInv, Tracked, NEW k \in DOMAIN blocks, blocks[k].open
    PROVE  k \in Current \cup Tools
BY DEF TypeInv, Tracked, Current, Tools, NoBlock

(* A text or thinking block is opened behind the one it closes. *)
LEMMA DeltaInv ==
    ASSUME BlockInv, NEW type \in {"thinking", "text"}, Delta(type)
    PROVE  BlockInv'
<1> USE DEF BlockInv
<1>1. CASE UNCHANGED <<current, currentBlock, blocks>>
  <2>1. UNCHANGED vars
    BY <1>1 DEF Delta, sourceVars, vars
  <2> QED
    BY <2>1 DEF vars, TypeInv, Tracked, Distinct, Owners, Owned, NothingLeft
<1>2. CASE /\ current # type /\ Room
           /\ blocks' = Start(Stop(blocks, Current), type, {})
           /\ current' = type /\ currentBlock' = Len(blocks')
  <2> DEFINE n == Len(blocks) + 1
  <2>0. /\ source = "streaming" /\ ~ stopped
        /\ UNCHANGED <<turn, called, source, toolBlocks, stopped>>
    BY DEF Delta, Relaying, sourceVars
  <2>1. blocks \in Seq(Block) /\ Len(blocks) \in Nat /\ n <= MaxBlocks /\ n \in 1..n
    BY <1>2, AnthropicAssumption DEF TypeInv, Room
  <2>2. /\ blocks' \in Seq(Block) /\ Len(blocks') = n
        /\ \A k \in 1..Len(blocks) :
              /\ blocks'[k].type = blocks[k].type /\ blocks'[k].args = blocks[k].args
              /\ blocks'[k].open = (blocks[k].open /\ k \notin Current)
        /\ blocks'[n].type = type /\ blocks'[n].args = {} /\ blocks'[n].open = TRUE
    <3> DEFINE ds == Stop(blocks, Current)
    <3>1. /\ ds \in Seq(Block) /\ Len(ds) = Len(blocks)
          /\ \A k \in 1..Len(blocks) :
                /\ ds[k].type = blocks[k].type /\ ds[k].args = blocks[k].args
                /\ ds[k].open = (blocks[k].open /\ k \notin Current)
      BY <2>1, StopKeeps
    <3> HIDE DEF ds
    <3>2. blocks' = Append(ds, [type |-> type, open |-> TRUE, args |-> {}])
      BY <1>2 DEF Start, ds
    <3>3. [type |-> type, open |-> TRUE, args |-> {}] \in Block
      BY DEF Block
    <3>4. /\ blocks' \in Seq(Block) /\ Len(blocks') = Len(ds) + 1
          /\ \A k \in 1..Len(ds) : blocks'[k] = ds[k]
          /\ blocks'[Len(ds) + 1] = [type |-> type, open |-> TRUE, args |-> {}]
      BY <3>1, <3>2, <3>3
    <3> QED
      BY <2>1, <3>1, <3>4
  <2>3. DOMAIN blocks = 1..Len(blocks) /\ DOMAIN blocks' = 1..n
    BY <2>1, <2>2
  <2>4. TypeInv'
    <3>1. /\ turn' \in 1..MaxTurns /\ called' \subseteq (1..MaxTurns) \X Indexes
          /\ source' = "streaming" /\ stopped' \in BOOLEAN /\ ~ stopped'
          /\ toolBlocks' \in [Indexes -> Nat]
      BY <2>0 DEF TypeInv
    <3>2. /\ blocks' \in Seq(Block)
          /\ Len(blocks') <= MaxBlocks /\ Len(blocks') <= MaxBlocks + 1
      BY <2>1, <2>2, AnthropicAssumption
    <3>3. /\ current' \in {"none", "thinking", "text"} /\ currentBlock' \in Nat
          /\ currentBlock' \in DOMAIN blocks' /\ blocks'[currentBlock'].type = current'
      BY <1>2, <2>1, <2>2, <2>3
    <3>4. \A i \in Indexes : toolBlocks'[i] # NoBlock =>
              /\ toolBlocks'[i] \in DOMAIN blocks'
              /\ blocks'[toolBlocks'[i]].type = "tool_use"
      BY <2>0, <2>1, <2>2, <2>3 DEF TypeInv
    <3> QED
      BY <3>1, <3>2, <3>3, <3>4 DEF TypeInv
  <2>5. Tracked'
    <3> SUFFICES ASSUME NEW k \in 1..n
                 PROVE  blocks'[k].open <=> \/ current' # "none" /\ k = currentBlock'
                                            \/ \E i \in Indexes : toolBlocks'[i] = k
      BY <2>3 DEF Tracked
    <3>1. CASE k = n
      BY <1>2, <2>2, <3>1
    <3>2. CASE k \in 1..Len(blocks)
      <4>1. blocks[k].open <=> k \in Current \/ \E i \in Indexes : toolBlocks[i] = k
        BY <2>3, <3>2 DEF Tracked, Current
      <4>2. (\E i \in Indexes : toolBlocks[i] = k) => k \notin Current
        BY <3>2, CurrentIsNoCall DEF NoBlock
      <4>3. k # currentBlock'
        BY <1>2, <2>1, <2>2, <3>2
      <4> QED
        BY <2>0, <2>2, <3>2, <4>1, <4>2, <4>3
    <3> QED
      BY <2>1, <3>1, <3>2
  <2>6. Owners'
    BY <2>0, <2>1, <2>2, <2>3 DEF Owners, Owned
  <2>7. Distinct' /\ NothingLeft'
    BY <2>0 DEF Distinct, NothingLeft
  <2> QED
    BY <2>4, <2>5, <2>6, <2>7
<1> QED
  BY <1>1, <1>2 DEF Delta

(* A call's first delta opens its block, under an index that had none. *)
LEMMA OpenCallInv ==
    ASSUME BlockInv, NEW i \in Indexes, OpenCall(i)
    PROVE  BlockInv'
<1> USE DEF BlockInv
<1> DEFINE n == Len(blocks) + 1
<1>1. PICK args \in {{}, {Call(i)}} : blocks' = Start(Stop(blocks, Current), "tool_use", args)
  BY DEF OpenCall
<1>2. /\ source = "streaming" /\ ~ stopped
      /\ UNCHANGED <<turn, source, stopped, currentBlock>>
      /\ toolBlocks[i] = NoBlock /\ current' = "none"
      /\ called' = called \cup {Call(i)}
  BY DEF OpenCall, Relaying
<1>3. blocks \in Seq(Block) /\ Len(blocks) \in Nat /\ n <= MaxBlocks /\ n \in 1..n
  BY AnthropicAssumption DEF TypeInv, OpenCall, Room
<1>4. args \in SUBSET ((1..MaxTurns) \X Indexes) /\ Call(i) \in (1..MaxTurns) \X Indexes
  BY DEF TypeInv, Call
<1>5. /\ blocks' \in Seq(Block) /\ Len(blocks') = n
      /\ \A k \in 1..Len(blocks) :
            /\ blocks'[k].type = blocks[k].type /\ blocks'[k].args = blocks[k].args
            /\ blocks'[k].open = (blocks[k].open /\ k \notin Current)
      /\ blocks'[n].type = "tool_use" /\ blocks'[n].args = args /\ blocks'[n].open = TRUE
  <2> DEFINE ds == Stop(blocks, Current)
  <2>1. /\ ds \in Seq(Block) /\ Len(ds) = Len(blocks)
        /\ \A k \in 1..Len(blocks) :
              /\ ds[k].type = blocks[k].type /\ ds[k].args = blocks[k].args
              /\ ds[k].open = (blocks[k].open /\ k \notin Current)
    BY <1>3, StopKeeps
  <2>2. blocks' = Start(ds, "tool_use", args)
    BY <1>1
  <2> HIDE DEF ds
  <2>3. "tool_use" \in Kinds /\ args \in SUBSET ((1..MaxTurns) \X Indexes)
    BY <1>4 DEF Kinds
  <2>4. /\ blocks' \in Seq(Block) /\ Len(blocks') = Len(ds) + 1
        /\ \A k \in 1..Len(ds) : blocks'[k] = ds[k]
        /\ blocks'[Len(ds) + 1] = [type |-> "tool_use", open |-> TRUE, args |-> args]
    BY <2>1, <2>2, <2>3, StartAppends
  <2> QED
    BY <1>3, <2>1, <2>4
<1>6. DOMAIN blocks = 1..Len(blocks) /\ DOMAIN blocks' = 1..n
  BY <1>3, <1>5
<1>7. /\ toolBlocks' \in [Indexes -> Nat]
      /\ toolBlocks'[i] = n
      /\ \A j \in Indexes : j # i => toolBlocks'[j] = toolBlocks[j]
  BY <1>3, <1>5 DEF OpenCall, TypeInv
<1>8. \A j \in Indexes : toolBlocks[j] # NoBlock =>
          toolBlocks[j] \in 1..Len(blocks) /\ blocks[toolBlocks[j]].type = "tool_use"
  BY <1>6 DEF TypeInv
<1>8a. \A j \in Indexes : toolBlocks[j] # n
  BY <1>3, <1>8 DEF NoBlock
<1>9. TypeInv'
  <2>1. \A j \in Indexes : toolBlocks'[j] # NoBlock =>
            /\ toolBlocks'[j] \in DOMAIN blocks'
            /\ blocks'[toolBlocks'[j]].type = "tool_use"
    BY <1>3, <1>5, <1>6, <1>7, <1>8
  <2>2. /\ turn' \in 1..MaxTurns /\ called' \subseteq (1..MaxTurns) \X Indexes
        /\ source' = "streaming" /\ stopped' \in BOOLEAN /\ ~ stopped'
        /\ current' = "none" /\ currentBlock' \in Nat
        /\ toolBlocks' \in [Indexes -> Nat]
    BY <1>2, <1>4, <1>7 DEF TypeInv
  <2>3. /\ blocks' \in Seq(Block)
        /\ Len(blocks') <= MaxBlocks /\ Len(blocks') <= MaxBlocks + 1
    BY <1>3, <1>5, AnthropicAssumption
  <2> QED
    BY <2>1, <2>2, <2>3 DEF TypeInv
<1>10. Tracked'
  <2> SUFFICES ASSUME NEW k \in 1..n
               PROVE  blocks'[k].open <=> \E j \in Indexes : toolBlocks'[j] = k
    BY <1>2, <1>6 DEF Tracked
  <2>1. CASE k = n
    BY <1>5, <1>7, <2>1
  <2>2. CASE k \in 1..Len(blocks)
    <3>1. blocks[k].open <=> k \in Current \/ \E j \in Indexes : toolBlocks[j] = k
      BY <1>6, <2>2 DEF Tracked, Current
    <3>2. (\E j \in Indexes : toolBlocks[j] = k) => k \notin Current
      BY <2>2, CurrentIsNoCall DEF NoBlock
    <3>3. (\E j \in Indexes : toolBlocks'[j] = k) <=> \E j \in Indexes : toolBlocks[j] = k
      BY <1>2, <1>3, <1>7, <2>2 DEF NoBlock
    <3> QED
      BY <1>5, <2>2, <3>1, <3>2, <3>3
  <2> QED
    BY <1>3, <2>1, <2>2
<1>11. Distinct'
  <2> SUFFICES ASSUME NEW j \in Indexes, NEW l \in Indexes, toolBlocks'[j] = toolBlocks'[l]
               PROVE  j = l \/ toolBlocks'[j] = NoBlock
    BY DEF Distinct
  <2>1. CASE j # i /\ l # i
    BY <1>7, <2>1 DEF Distinct
  <2>2. CASE j = i /\ l # i
    BY <1>7, <1>8a, <2>2
  <2>3. CASE j # i /\ l = i
    BY <1>7, <1>8a, <2>3
  <2> QED
    BY <2>1, <2>2, <2>3
<1>12. Owners'
  <2> SUFFICES ASSUME turn = 1, NEW k \in 1..n
               PROVE  Owned(k)'
    BY <1>2, <1>6 DEF Owners
  <2>1. CASE k = n
    BY <1>5, <1>7, <2>1 DEF Owned, Call
  <2>2. CASE k \in 1..Len(blocks)
    <3>1. Owned(k)
      BY <1>6, <2>2 DEF Owners
    <3>2. \A j \in Indexes : toolBlocks[j] = k => toolBlocks'[j] = k
      BY <1>2, <1>7, <2>2 DEF NoBlock
    <3> QED
      BY <1>2, <1>5, <2>2, <3>1, <3>2 DEF Owned
  <2> QED
    BY <1>3, <2>1, <2>2
<1>13. NothingLeft'
  BY <1>2 DEF NothingLeft
<1> QED
  BY <1>9, <1>10, <1>11, <1>12, <1>13

(* More arguments of a call go to its block and change no other. *)
LEMMA CallDeltaInv ==
    ASSUME BlockInv, NEW i \in Indexes, CallDelta(i)
    PROVE  BlockInv'
<1> USE DEF BlockInv
<1> DEFINE b == toolBlocks[i]
<1>1. PICK args \in {{}, {Call(i)}} : blocks' = [blocks EXCEPT ![b].args = @ \cup args]
  BY DEF CallDelta
<1>2. /\ source = "streaming" /\ ~ stopped /\ b # NoBlock
      /\ called' = called \cup {Call(i)}
      /\ UNCHANGED <<turn, source, current, currentBlock, toolBlocks, stopped>>
  BY DEF CallDelta, Relaying
<1>3. /\ blocks \in Seq(Block) /\ b \in 1..Len(blocks) /\ DOMAIN blocks = 1..Len(blocks)
      /\ blocks[b] \in Block /\ blocks[b].type = "tool_use"
  BY <1>2 DEF TypeInv
<1>4. args \in SUBSET ((1..MaxTurns) \X Indexes) /\ Call(i) \in (1..MaxTurns) \X Indexes
  BY DEF TypeInv, Call
<1>5. /\ [blocks[b] EXCEPT !.args = @ \cup args] \in Block
      /\ blocks' = [blocks EXCEPT ![b] = [blocks[b] EXCEPT !.args = @ \cup args]]
  BY <1>1, <1>3, <1>4 DEF Block
<1>6. blocks' \in Seq(Block) /\ Len(blocks') = Len(blocks)
  BY <1>3, <1>5
<1>7. \A k \in 1..Len(blocks) : k # b => blocks'[k] = blocks[k]
  BY <1>3, <1>5
<1>8. /\ blocks'[b].type = blocks[b].type /\ blocks'[b].open = blocks[b].open
      /\ blocks'[b].args = blocks[b].args \cup args
  BY <1>3, <1>5 DEF Block
<1>9. DOMAIN blocks' = 1..Len(blocks)
  BY <1>6
<1> HIDE DEF b
<1>10. \A k \in 1..Len(blocks) :
          blocks'[k].type = blocks[k].type /\ blocks'[k].open = blocks[k].open
  BY <1>7, <1>8
<1>11. TypeInv'
  BY <1>2, <1>3, <1>4, <1>6, <1>9, <1>10 DEF TypeInv
<1>12. Tracked' /\ Distinct' /\ NothingLeft'
  BY <1>2, <1>3, <1>9, <1>10 DEF Tracked, Distinct, NothingLeft
<1>13. Owners'
  <2> SUFFICES ASSUME turn = 1, NEW k \in 1..Len(blocks)
               PROVE  Owned(k)'
    BY <1>2, <1>9 DEF Owners
  <2>1. Owned(k)
    BY <1>3 DEF Owners
  <2>2. CASE k # b
    BY <1>2, <1>7, <2>1, <2>2 DEF Owned
  <2>3. CASE k = b
    <3>1. args = {} \/ args = {<<1, i>>}
      BY DEF Call
    <3>2. blocks[b].args = {} \/ blocks[b].args = {<<1, i>>}
      <4>1. CASE blocks[b].args = {}
        BY <4>1
      <4>2. CASE blocks[b].args # {}
        <5>1. PICK j \in Indexes : blocks[b].args = {<<1, j>>} /\ toolBlocks[j] = b
          BY <1>2, <2>1, <2>3, <4>2 DEF Owned
        <5>2. j = i
          BY <1>2, <5>1 DEF Distinct, b
        <5> QED
          BY <5>1, <5>2
      <4> QED
        BY <4>1, <4>2
    <3>3. blocks'[b].args = {} \/ blocks'[b].args = {<<1, i>>}
      BY <1>8, <3>1, <3>2
    <3> QED
      BY <1>2, <1>3, <1>8, <2>3, <3>3 DEF Owned, b
  <2> QED
    BY <2>2, <2>3
<1> QED
  BY <1>11, <1>12, <1>13

(* StreamComplete closes what is open. *)
LEMMA CompleteInv ==
    ASSUME BlockInv, Complete
    PROVE  BlockInv'
<1> USE DEF BlockInv
<1> DEFINE closing == Current \cup Tools
<1>1. /\ source' = "complete" /\ stopped' = TRUE /\ ~ stopped
      /\ current' = "none" /\ toolBlocks' = [j \in Indexes |-> NoBlock]
      /\ UNCHANGED <<turn, called, currentBlock>>
      /\ blocks' = Stop(blocks, closing)
  BY DEF Complete, Relaying
<1>2. blocks \in Seq(Block) /\ DOMAIN blocks = 1..Len(blocks)
  BY DEF TypeInv
<1> HIDE DEF closing
<1>3. /\ blocks' \in Seq(Block) /\ Len(blocks') = Len(blocks)
      /\ \A k \in 1..Len(blocks) :
            /\ blocks'[k].type = blocks[k].type /\ blocks'[k].args = blocks[k].args
            /\ blocks'[k].open = (blocks[k].open /\ k \notin closing)
  BY <1>1, <1>2, StopKeeps
<1>4. DOMAIN blocks' = 1..Len(blocks)
  BY <1>3
<1>5. TypeInv'
  BY <1>1, <1>3 DEF TypeInv, NoBlock
<1>6. \A k \in 1..Len(blocks) : ~ blocks'[k].open
  BY <1>2, <1>3, AllTracked DEF closing
<1>7. Tracked'
  BY <1>1, <1>2, <1>4, <1>6 DEF Tracked, NoBlock
<1>8. Owners'
  BY <1>1, <1>2, <1>3, <1>4 DEF Owners, Owned
<1>9. Distinct' /\ NothingLeft'
  BY <1>1 DEF Distinct, NothingLeft
<1> QED
  BY <1>5, <1>7, <1>8, <1>9

(* An exception closes what is open and adds a closed block. *)
LEMMA FailInv ==
    ASSUME BlockInv, Fail
    PROVE  BlockInv'
<1> USE DEF BlockInv
<1> DEFINE closing == Current \cup Tools
           n == Len(blocks) + 1
           error == [type |-> "text", open |-> TRUE, args |-> {}]
           cs == Stop(blocks, closing)
           ds == Append(cs, error)
<1>1. /\ source' = "error" /\ stopped' = TRUE /\ ~ stopped
      /\ current' = "none" /\ toolBlocks' = [j \in Indexes |-> NoBlock]
      /\ UNCHANGED <<turn, called, currentBlock>>
      /\ blocks' = Stop(ds, {Len(ds)})
  BY DEF Fail, Relaying, Start
<1>2. /\ blocks \in Seq(Block) /\ Len(blocks) \in Nat /\ Len(blocks) <= MaxBlocks
      /\ DOMAIN blocks = 1..Len(blocks) /\ n \in 1..n
  BY <1>1 DEF TypeInv
<1>3. error \in Block /\ error.args = {} /\ error.type = "text"
  BY DEF Block
<1> HIDE DEF closing, error
<1>4. /\ cs \in Seq(Block) /\ Len(cs) = Len(blocks)
      /\ \A k \in 1..Len(blocks) :
            /\ cs[k].type = blocks[k].type /\ cs[k].args = blocks[k].args
            /\ cs[k].open = (blocks[k].open /\ k \notin closing)
  BY <1>2, StopKeeps
<1> HIDE DEF cs
<1>5. /\ ds \in Seq(Block) /\ Len(ds) = n /\ ds[n] = error
      /\ \A k \in 1..Len(blocks) : ds[k] = cs[k]
  BY <1>2, <1>3, <1>4
<1> HIDE DEF ds
<1>6. /\ blocks' \in Seq(Block) /\ Len(blocks') = n
      /\ \A k \in 1..n :
            /\ blocks'[k].type = ds[k].type /\ blocks'[k].args = ds[k].args
            /\ blocks'[k].open = (ds[k].open /\ k \notin {n})
  BY <1>1, <1>5, StopKeeps
<1>7. DOMAIN blocks' = 1..n
  BY <1>2, <1>6
<1>8. \A k \in 1..n : ~ blocks'[k].open
  <2>1. \A k \in 1..Len(blocks) : ~ (blocks[k].open /\ k \notin closing)
    BY <1>2, AllTracked DEF closing
  <2>2. \A k \in 1..Len(blocks) : ~ ds[k].open
    BY <1>4, <1>5, <2>1
  <2>3. \A k \in 1..n : blocks'[k].open = (ds[k].open /\ k # n)
    BY <1>6
  <2>4. \A k \in 1..n : k = n \/ k \in 1..Len(blocks)
    BY <1>2
  <2> HIDE DEF n
  <2> QED
    BY <2>2, <2>3, <2>4
<1>9. TypeInv'
  BY <1>1, <1>2, <1>6, AnthropicAssumption DEF TypeInv, NoBlock
<1>10. Tracked'
  <2>1. \A j \in Indexes, k \in 1..n : toolBlocks'[j] # k
    BY <1>1, <1>2 DEF NoBlock
  <2>2. \A k \in DOMAIN blocks' : ~ blocks'[k].open /\ \A j \in Indexes : toolBlocks'[j] # k
    BY <1>7, <1>8, <2>1
  <2> QED
    BY <1>1, <2>2 DEF Tracked
<1>11. Owners'
  <2> SUFFICES ASSUME turn = 1, NEW k \in 1..n
               PROVE  Owned(k)'
    BY <1>1, <1>7 DEF Owners
  <2>1. CASE k = n
    BY <1>2, <1>3, <1>5, <1>6, <2>1 DEF Owned
  <2>2. CASE k \in 1..Len(blocks)
    <3>1. Owned(k)
      BY <1>2, <2>2 DEF Owners
    <3>2. blocks'[k].type = blocks[k].type /\ blocks'[k].args = blocks[k].args
      <4>1. /\ k # Len(blocks) + 1 /\ k # Len(blocks) + 2
        BY <1>2, <2>2
      <4> QED
        BY <1>2, <1>4, <1>5, <1>6, <2>2, <4>1
    <3> QED
      BY <1>1, <3>1, <3>2 DEF Owned
  <2> QED
    BY <1>2, <2>1, <2>2
<1>12. Distinct' /\ NothingLeft'
  BY <1>1 DEF Distinct, NothingLeft
<1> QED
  BY <1>9, <1>10, <1>11, <1>12

(* Every step of the serializer keeps all of it. *)
LEMMA StepInv == BlockInv /\ [Next]_vars => BlockInv'
<1> SUFFICES ASSUME BlockInv, [Next]_vars PROVE BlockInv'
  OBVIOUS
<1>1. ASSUME NEW type \in {"thinking", "text"}, Delta(type) PROVE BlockInv'
  BY <1>1, DeltaInv
<1>2. ASSUME NEW i \in Indexes, OpenCall(i) PROVE BlockInv'
  BY <1>2, OpenCallInv
<1>3. ASSUME NEW i \in Indexes, CallDelta(i) PROVE BlockInv'
  BY <1>3, CallDeltaInv
<1>4. CASE NextTurn
  <2>1. turn' \in 1..MaxTurns /\ turn' # 1
    BY <1>4, AnthropicAssumption DEF NextTurn, BlockInv, TypeInv
  <2>2. UNCHANGED <<called, source, current, currentBlock, toolBlocks, blocks, stopped>>
    BY <1>4 DEF NextTurn
  <2>3. TypeInv'
    BY <2>1, <2>2 DEF BlockInv, TypeInv
  <2>4. Tracked' /\ Distinct' /\ Owners' /\ NothingLeft'
    BY <2>1, <2>2 DEF BlockInv, Tracked, Distinct, Owners, NothingLeft
  <2> QED
    BY <2>3, <2>4 DEF BlockInv
<1>5. CASE Complete
  BY <1>5, CompleteInv
<1>6. CASE Fail
  BY <1>6, FailInv
<1>7. CASE Exhaust
  <2>1. /\ source' = "exhausted" /\ stopped' = TRUE
        /\ UNCHANGED <<turn, called, current, currentBlock, toolBlocks, blocks>>
    BY <1>7 DEF Exhaust
  <2>2. TypeInv'
    BY <2>1 DEF BlockInv, TypeInv
  <2>3. Owners'
    BY <2>1 DEF BlockInv, Owners, Owned
  <2>4. Tracked' /\ Distinct' /\ NothingLeft'
    BY <2>1 DEF BlockInv, Tracked, Distinct, NothingLeft
  <2> QED
    BY <2>2, <2>3, <2>4 DEF BlockInv
<1>8. CASE UNCHANGED vars
  BY <1>8 DEF vars, BlockInv, TypeInv, Tracked, Distinct, Owners, Owned, NothingLeft
<1> QED
  BY <1>1, <1>2, <1>3, <1>4, <1>5, <1>6, <1>7, <1>8 DEF Next

(* The invariant says what the runs check. *)
LEMMA InvSound == BlockInv => BlocksSound
<1> SUFFICES ASSUME BlockInv PROVE BlocksSound
  OBVIOUS
<1> USE DEF BlockInv
<1>1. TypeOK
  BY DEF TypeInv, TypeOK
<1>2. OpenAsTracked
  <2>1. ASSUME NEW k \in DOMAIN blocks, blocks[k].open PROVE k \in Current \cup Tools
    BY <2>1, AllTracked
  <2>2. ASSUME NEW k \in Current \cup Tools PROVE k \in DOMAIN blocks /\ blocks[k].open
    BY DEF Current, Tools, TypeInv, Tracked
  <2> QED
    BY <2>1, <2>2 DEF OpenAsTracked
<1>3. ClosedAtTheEnd
  BY DEF ClosedAtTheEnd, TypeInv, Tracked, NothingLeft, NoBlock
<1>4. FirstTurnApart
  <2> SUFFICES ASSUME turn = 1, NEW k \in DOMAIN blocks
               PROVE  /\ Cardinality(blocks[k].args) <= 1
                      /\ blocks[k].args # {} => blocks[k].type = "tool_use"
    BY DEF FirstTurnApart
  <2>1. blocks[k].args = {} \/ \E i \in Indexes : blocks[k].args = {<<1, i>>}
    BY DEF Owners, Owned
  <2>2. Cardinality(blocks[k].args) \in {0, 1}
    BY <2>1, FS_EmptySet, FS_Singleton
  <2> QED
    BY <2>2 DEF Owners, Owned
<1> QED
  BY <1>1, <1>2, <1>3, <1>4 DEF BlocksSound

(* BlocksSound for any number of turns, calls and blocks: the serializer   *)
(* and the reader of its frames agree on the open blocks; a message ended  *)
(* by StreamComplete or by an exception leaves none, while one whose       *)
(* source just ended leaves the current one and those of the tool calls    *)
(* open behind its message_stop; and in the first turn no two calls share  *)
(* a block.                                                                *)
THEOREM BlocksAlwaysSound == Spec => []BlocksSound
<1>1. Spec => []BlockInv
  BY InitInv, StepInv, PTL DEF Spec
<1> QED
  BY <1>1, InvSound, PTL

-----------------------------------------------------------------------------
(* The rounds of the Responses API.  What is known of the calls, besides   *)
(* RoundsSound itself: none belongs to a round that is still to come, and  *)
(* none to the present one when a request goes out or the stream is        *)
(* closed; while a round streams, its current call is the last there is;   *)
(* and each round that another followed executed the last of its calls.    *)
(* Without the last two, that the only call of a round has been executed   *)
(* would not survive the step to the next; without the first, the head of  *)
(* a round could find calls in it.                                         *)
RoundShape ==
    /\ roundPc \in {"posting", "streaming", "tool"} => round <= MaxRounds
    /\ roundPc \in {"streaming", "tool"} => index = 0
    /\ roundPc = "tool" => currentCall # 0

NoneAhead ==
    \A n \in DOMAIN calls :
        /\ calls[n].round <= round
        /\ roundPc \in {"posting", "closing", "finished"} => calls[n].round < round

CurrentIsLast ==
    roundPc \in {"streaming", "tool"} =>
        /\ currentCall = 0 => \A n \in DOMAIN calls : calls[n].round < round
        /\ currentCall # 0 => currentCall = Len(calls) /\ calls[currentCall].round = round

(* Every round but the present one executed its last call. *)
LastExecuted ==
    /\ Len(executed) = round - 1
    /\ \A k \in 1..Len(executed) :
          /\ calls[executed[k]].round = k
          /\ \A n \in DOMAIN calls : calls[n].round = k => n <= executed[k]

RoundInv ==
    /\ Rounds!TypeOK /\ Rounds!InputPairs
    /\ RoundShape /\ NoneAhead /\ CurrentIsLast /\ LastExecuted

LEMMA RoundsPositive == MaxRounds \in Nat /\ MaxRounds >= 1
<1>1. {MaxRounds, MaxPerRound} \subseteq Nat \ {0}
  BY TranslatorAssumption
<1>2. MaxRounds \in Nat \ {0}
  BY <1>1
<1> QED
  BY <1>2

(* A sequence with two more elements. *)
LEMMA TwoMore ==
    ASSUME NEW S, NEW s \in Seq(S), NEW a \in S, NEW b \in S
    PROVE  /\ s \o <<a, b>> \in Seq(S)
           /\ Len(s \o <<a, b>>) = Len(s) + 2
           /\ (s \o <<a, b>>)[Len(s) + 1] = a
           /\ (s \o <<a, b>>)[Len(s) + 2] = b
           /\ \A k \in 1..Len(s) : (s \o <<a, b>>)[k] = s[k]
<1>1. <<a, b>> \in Seq(S) /\ Len(<<a, b>>) = 2 /\ <<a, b>>[1] = a /\ <<a, b>>[2] = b
  OBVIOUS
<1> QED
  BY <1>1

(* What a sequence holds. *)
LEMMA ItemOfSeq ==
    ASSUME NEW S, NEW s \in Seq(S), NEW k \in DOMAIN s PROVE s[k] \in S
  OBVIOUS

(* A sequence over a set is one over every set that holds it. *)
LEMMA WiderSeq ==
    ASSUME NEW S, NEW T, S \subseteq T, NEW s \in Seq(S) PROVE s \in Seq(T)
<1>1. \A k \in 1..Len(s) : s[k] \in T
  OBVIOUS
<1> QED
  BY <1>1

(* One request begins in its first round, with nothing called. *)
LEMMA RoundsBegin == Rounds!Init => RoundInv
<1> SUFFICES ASSUME Rounds!Init PROVE RoundInv
  OBVIOUS
<1> USE RoundsPositive DEF Rounds!Init, Rounds!NoCall, Rounds!OutOfRounds
<1>1. Rounds!TypeOK
  BY DEF Rounds!TypeOK, Rounds!Fragments
<1>2. Rounds!InputPairs
  BY DEF Rounds!InputPairs
<1>3. RoundShape /\ NoneAhead /\ CurrentIsLast /\ LastExecuted
  BY DEF RoundShape, NoneAhead, CurrentIsLast, LastExecuted
<1> QED
  BY <1>1, <1>2, <1>3 DEF RoundInv

(* A function call that arrives is one of the present round, behind all    *)
(* others.                                                                 *)
LEMMA ItemAddedKeeps == RoundInv /\ Rounds!ItemAdded => RoundInv'
<1> SUFFICES ASSUME RoundInv, Rounds!ItemAdded PROVE RoundInv'
  OBVIOUS
<1> USE RoundsPositive DEF Rounds!NoCall, Rounds!OutOfRounds
<1>1. /\ roundPc = "streaming" /\ roundPc' = roundPc /\ round' = round /\ index' = index
      /\ calls' = Append(calls, [round |-> round, args |-> "none"])
      /\ currentCall' = Len(calls') /\ executed' = executed /\ input' = input /\ results' = results
  BY DEF Rounds!ItemAdded, Rounds!toolVars
<1>2. /\ round \in 1..MaxRounds /\ index = 0 /\ calls \in Seq([round : 1..MaxRounds, args : Rounds!Fragments])
      /\ executed \in Seq(DOMAIN calls) /\ results \subseteq DOMAIN calls
  BY <1>1 DEF RoundInv, Rounds!TypeOK, RoundShape
<1>3. /\ calls' \in Seq([round : 1..MaxRounds, args : Rounds!Fragments])
      /\ Len(calls') = Len(calls) + 1
      /\ DOMAIN calls' = DOMAIN calls \cup {Len(calls) + 1}
      /\ calls'[Len(calls) + 1] = [round |-> round, args |-> "none"]
      /\ \A n \in DOMAIN calls : calls'[n] = calls[n]
  BY <1>1, <1>2 DEF Rounds!Fragments
<1>4. executed' \in Seq(DOMAIN calls')
  BY <1>1, <1>2, <1>3
<1>5. input' \in Seq([kind : {"function_call", "function_call_output"}, call : DOMAIN calls'])
  <2>1. input \in Seq([kind : {"function_call", "function_call_output"}, call : DOMAIN calls])
    BY DEF RoundInv, Rounds!TypeOK
  <2>2. [kind : {"function_call", "function_call_output"}, call : DOMAIN calls]
          \subseteq [kind : {"function_call", "function_call_output"}, call : DOMAIN calls']
    BY <1>3
  <2>3. input \in Seq([kind : {"function_call", "function_call_output"}, call : DOMAIN calls'])
    BY <2>1, <2>2, WiderSeq
  <2> QED
    BY <1>1, <2>3
<1>6. /\ DOMAIN pills' \subseteq {0}
      /\ \A i \in DOMAIN pills' : pills'[i] \in DOMAIN calls'
  BY <1>1, <1>2, <1>3 DEF RoundInv, Rounds!TypeOK, Rounds!ItemAdded
<1>7. Rounds!TypeOK'
  BY <1>1, <1>2, <1>3, <1>4, <1>5, <1>6 DEF Rounds!TypeOK
<1>8. Rounds!InputPairs'
  BY <1>1 DEF RoundInv, Rounds!InputPairs, Rounds!FunctionCall, Rounds!Output
<1>9. RoundShape' /\ NoneAhead' /\ CurrentIsLast'
  BY <1>1, <1>2, <1>3 DEF RoundInv, RoundShape, NoneAhead, CurrentIsLast
<1>10. LastExecuted'
  <2>1. Len(executed) = round - 1
    BY DEF RoundInv, LastExecuted
  <2>2. ASSUME NEW k \in 1..Len(executed)
        PROVE  /\ calls'[executed[k]].round = k
               /\ \A n \in DOMAIN calls' : calls'[n].round = k => n <= executed[k]
    <3>1. k < round /\ k # round
      BY <1>2, <2>1
    <3>2. executed[k] \in DOMAIN calls
      BY <1>2
    <3>3. calls'[Len(calls) + 1].round # k
      BY <1>3, <3>1
    <3>4. /\ calls[executed[k]].round = k
          /\ \A n \in DOMAIN calls : calls[n].round = k => n <= executed[k]
      BY DEF RoundInv, LastExecuted
    <3> QED
      BY <1>3, <3>2, <3>3, <3>4
  <2> QED
    BY <1>1, <2>1, <2>2 DEF LastExecuted
<1> QED
  BY <1>7, <1>8, <1>9, <1>10 DEF RoundInv

(* Argument fragments change the arguments of a call and nothing else. *)
LEMMA ArgumentsKeep == RoundInv /\ Rounds!Arguments => RoundInv'
<1> SUFFICES ASSUME RoundInv, Rounds!Arguments PROVE RoundInv'
  OBVIOUS
<1> USE DEF Rounds!NoCall, Rounds!OutOfRounds
<1>1. PICK more \in Rounds!Fragments : calls' = [calls EXCEPT ![currentCall].args = more]
  BY DEF Rounds!Arguments
<1>2. UNCHANGED <<roundPc, round, currentCall, index, executed, input, results, pills>>
  BY DEF Rounds!Arguments, Rounds!toolVars
<1>3. calls \in Seq([round : 1..MaxRounds, args : Rounds!Fragments])
  BY DEF RoundInv, Rounds!TypeOK
<1>4. /\ calls' \in Seq([round : 1..MaxRounds, args : Rounds!Fragments])
      /\ Len(calls') = Len(calls) /\ DOMAIN calls' = DOMAIN calls
      /\ \A n \in DOMAIN calls : calls'[n].round = calls[n].round
  <2>1. currentCall \in DOMAIN calls
    BY <1>3 DEF RoundInv, Rounds!TypeOK, Rounds!Arguments
  <2>2. calls[currentCall] \in [round : 1..MaxRounds, args : Rounds!Fragments]
    BY <1>3, <2>1, ItemOfSeq
  <2>3. /\ [calls[currentCall] EXCEPT !.args = more] \in [round : 1..MaxRounds, args : Rounds!Fragments]
        /\ [calls[currentCall] EXCEPT !.args = more].round = calls[currentCall].round
    BY <2>2
  <2>4. calls' = [calls EXCEPT ![currentCall] = [calls[currentCall] EXCEPT !.args = more]]
    BY <1>1
  <2> QED
    BY <1>3, <2>1, <2>3, <2>4
<1>5. Rounds!TypeOK'
  BY <1>2, <1>4 DEF RoundInv, Rounds!TypeOK
<1>6. Rounds!InputPairs'
  BY <1>2 DEF RoundInv, Rounds!InputPairs, Rounds!FunctionCall, Rounds!Output
<1>7. RoundShape' /\ NoneAhead'
  BY <1>2, <1>4 DEF RoundInv, RoundShape, NoneAhead
<1>8. CurrentIsLast'
  <2>1. currentCall # 0 /\ currentCall = Len(calls) => currentCall \in DOMAIN calls
    BY <1>3
  <2> QED
    BY <1>2, <1>4, <2>1 DEF RoundInv, CurrentIsLast
<1>9. LastExecuted'
  <2>1. \A k \in 1..Len(executed) : executed[k] \in DOMAIN calls
    BY DEF RoundInv, Rounds!TypeOK
  <2> QED
    BY <1>2, <1>4, <2>1 DEF RoundInv, LastExecuted
<1> QED
  BY <1>5, <1>6, <1>7, <1>8, <1>9 DEF RoundInv

(* What a round executes is its last call, and the next posts it with its  *)
(* output.                                                                 *)
LEMMA ExecuteKeeps == RoundInv /\ Rounds!Execute => RoundInv'
<1> SUFFICES ASSUME RoundInv, Rounds!Execute PROVE RoundInv'
  OBVIOUS
<1> USE RoundsPositive DEF Rounds!NoCall, Rounds!OutOfRounds
<1> DEFINE Items == <<Rounds!FunctionCall(currentCall), Rounds!Output(currentCall)>>
           Item == [kind : {"function_call", "function_call_output"}, call : DOMAIN calls]
<1>1. /\ roundPc = "tool" /\ round' = round + 1 /\ index' = index + 1
      /\ roundPc' = IF round' = MaxRounds + 1 THEN "closing" ELSE "posting"
      /\ executed' = Append(executed, currentCall) /\ results' = results \cup {currentCall}
      /\ input' = input \o Items
      /\ UNCHANGED <<calls, currentCall, pills>>
  BY DEF Rounds!Execute, Rounds!Executed, Rounds!NextRound
<1>2. /\ round \in 1..MaxRounds /\ index = 0 /\ currentCall = Len(calls) /\ currentCall # 0
      /\ calls \in Seq([round : 1..MaxRounds, args : Rounds!Fragments])
      /\ calls[currentCall].round = round
  BY <1>1 DEF RoundInv, Rounds!TypeOK, RoundShape, CurrentIsLast
<1>3. currentCall \in DOMAIN calls
  BY <1>2
<1>4. /\ executed \in Seq(DOMAIN calls) /\ input \in Seq(Item) /\ results \subseteq DOMAIN calls
      /\ Len(executed) = round - 1
  BY DEF RoundInv, Rounds!TypeOK, LastExecuted
<1>5. /\ executed' \in Seq(DOMAIN calls) /\ Len(executed') = round
      /\ executed'[round] = currentCall
      /\ \A k \in 1..Len(executed) : executed'[k] = executed[k]
  <2>1. executed' = Append(executed, currentCall) /\ round \in Nat
    BY <1>1, <1>2
  <2>2. executed \in Seq(DOMAIN calls) /\ Len(executed) = round - 1
    BY <1>4
  <2> QED
    BY <1>3, <2>1, <2>2
<1>6. round \in Nat /\ round >= 1
  BY <1>2
<1>7. /\ input' \in Seq(Item) /\ Len(input') = Len(input) + 2
      /\ input'[Len(input) + 1] = Rounds!FunctionCall(currentCall)
      /\ input'[Len(input) + 2] = Rounds!Output(currentCall)
      /\ \A k \in 1..Len(input) : input'[k] = input[k]
  <2>1. /\ Rounds!FunctionCall(currentCall) \in Item
        /\ Rounds!Output(currentCall) \in Item
    BY <1>3 DEF Rounds!FunctionCall, Rounds!Output
  <2> HIDE DEF Item
  <2> QED
    BY <1>1, <1>4, <2>1, TwoMore
<1>8. Rounds!TypeOK'
  <2>1. roundPc' \in {"closing", "posting"} /\ round' \in 1..(MaxRounds + 1)
    BY <1>1, <1>2
  <2> QED
    <3>1. /\ input' \in Seq([kind : {"function_call", "function_call_output"}, call : DOMAIN calls'])
          /\ executed' \in Seq(DOMAIN calls')
      BY <1>1, <1>5, <1>7
    <3>2. results' \subseteq DOMAIN calls' /\ index' \in {0, 1}
      <4>1. calls' = calls /\ results' = results \cup {currentCall} /\ index' = index + 1
        BY <1>1
      <4>2. index = 0 /\ results \subseteq DOMAIN calls
        BY <1>2, <1>4
      <4> QED
        BY <1>3, <4>1, <4>2
    <3>3. /\ calls' \in Seq([round : 1..MaxRounds, args : Rounds!Fragments])
          /\ currentCall' \in 0..Len(calls')
          /\ DOMAIN pills' \subseteq {0} /\ \A i \in DOMAIN pills' : pills'[i] \in DOMAIN calls'
      BY <1>1 DEF RoundInv, Rounds!TypeOK
    <3> QED
      BY <2>1, <3>1, <3>2, <3>3 DEF Rounds!TypeOK
<1>9. Rounds!InputPairs'
  <2>1. /\ Len(input) = 2 * (round - 1)
        /\ \A k \in 1..(round - 1) :
              /\ input[2 * k - 1] = Rounds!FunctionCall(executed[k])
              /\ input[2 * k] = Rounds!Output(executed[k])
    BY <1>4 DEF RoundInv, Rounds!InputPairs
  <2>2. Len(input') = 2 * Len(executed')
    BY <1>2, <1>5, <1>7, <2>1
  <2>3. ASSUME NEW k \in 1..Len(executed')
        PROVE  /\ input'[2 * k - 1] = Rounds!FunctionCall(executed'[k])
               /\ input'[2 * k] = Rounds!Output(executed'[k])
    <3>1. CASE k = round
      <4>1. 2 * k - 1 = Len(input) + 1 /\ 2 * k = Len(input) + 2
        BY <3>1, <1>2, <2>1
      <4> QED
        BY <3>1, <4>1, <1>5, <1>7
    <3>2. CASE k # round
      <4>1. k \in 1..(round - 1) /\ 2 * k \in 1..Len(input) /\ 2 * k - 1 \in 1..Len(input)
        <5>1. k \in 1..(round - 1)
          BY <3>2, <1>5, <1>6
        <5> QED
          BY <5>1, <1>6, <2>1
      <4>2. executed'[k] = executed[k] /\ input'[2 * k] = input[2 * k] /\ input'[2 * k - 1] = input[2 * k - 1]
        BY <4>1, <1>4, <1>5, <1>7
      <4> QED
        BY <4>1, <4>2, <2>1
    <3> QED
      BY <3>1, <3>2
  <2>4. DOMAIN executed' = 1..Len(executed')
    BY <1>5
  <2>5. \A n : Rounds!FunctionCall(n)' = Rounds!FunctionCall(n) /\ Rounds!Output(n)' = Rounds!Output(n)
    BY DEF Rounds!FunctionCall, Rounds!Output
  <2> QED
    BY <2>2, <2>3, <2>4 DEF Rounds!InputPairs, Rounds!FunctionCall, Rounds!Output
<1>10. RoundShape' /\ NoneAhead' /\ CurrentIsLast'
  <2>1. ASSUME NEW n \in DOMAIN calls PROVE calls[n].round \in Nat /\ calls[n].round <= round
    <3>1. calls[n] \in [round : 1..MaxRounds, args : Rounds!Fragments]
      BY <1>2, ItemOfSeq
    <3> QED
      BY <3>1 DEF RoundInv, NoneAhead
  <2>2. /\ calls' = calls /\ round' = round + 1 /\ round \in Nat
        /\ roundPc' \in {"closing", "posting"} /\ (roundPc' = "posting" => round' <= MaxRounds)
    <3>1. /\ calls' = calls /\ round' = round + 1
          /\ roundPc' = IF round' = MaxRounds + 1 THEN "closing" ELSE "posting"
      BY <1>1
    <3>2. round \in 1..MaxRounds /\ round \in Nat
      BY <1>2
    <3>3. round + 1 # MaxRounds + 1 => round + 1 <= MaxRounds
      BY <3>2
    <3> QED
      BY <3>1, <3>2, <3>3
  <2>3. RoundShape' /\ CurrentIsLast'
    BY <2>2 DEF RoundShape, CurrentIsLast
  <2>4. NoneAhead'
    <3>1. \A n \in DOMAIN calls : calls[n].round <= round + 1 /\ calls[n].round < round + 1
      BY <1>6, <2>1
    <3> QED
      BY <2>2, <3>1 DEF NoneAhead
  <2> QED
    BY <2>3, <2>4
<1>11. LastExecuted'
  <2>1. \A n \in DOMAIN calls : n <= currentCall
    BY <1>2
  <2>2. ASSUME NEW k \in 1..round
        PROVE  /\ calls[executed'[k]].round = k
               /\ \A n \in DOMAIN calls : calls[n].round = k => n <= executed'[k]
    <3>1. CASE k = round
      BY <3>1, <1>2, <1>5, <2>1
    <3>2. CASE k # round
      <4>1. k \in 1..Len(executed) /\ executed'[k] = executed[k]
        <5>1. k \in 1..(round - 1)
          BY <3>2, <1>6
        <5>2. k \in 1..Len(executed)
          BY <5>1, <1>4
        <5> QED
          BY <5>2, <1>5
      <4> QED
        BY <4>1 DEF RoundInv, LastExecuted
    <3> QED
      BY <3>1, <3>2
  <2>3. Len(executed') = round' - 1
    <3>1. Len(executed') = round /\ round' = round + 1
      BY <1>1, <1>5
    <3> QED
      BY <1>6, <3>1
  <2>4. 1..Len(executed') = 1..round /\ calls' = calls
    BY <1>1, <1>5
  <2> QED
    BY <2>2, <2>3, <2>4 DEF LastExecuted
<1> QED
  BY <1>8, <1>9, <1>10, <1>11 DEF RoundInv

(* The steps that leave calls, conversation and pills alone. *)
LEMMA OtherRoundStepsKeep ==
    ASSUME RoundInv, UNCHANGED <<round, calls, executed, input, results, pills>>,
           Rounds!Post \/ Rounds!RoundOver \/ Rounds!BreaksOff \/ Rounds!DoesNotUnpack
           \/ Rounds!Close \/ UNCHANGED roundVars
    PROVE  RoundInv'
<1> USE RoundsPositive DEF Rounds!NoCall, Rounds!OutOfRounds
<1>1. Rounds!InputPairs' /\ LastExecuted'
  BY DEF RoundInv, Rounds!InputPairs, LastExecuted, Rounds!FunctionCall, Rounds!Output
<1>2. CASE Rounds!Post
  <2>1. /\ roundPc = "posting" /\ roundPc' = "streaming" /\ currentCall' = 0 /\ index' = 0
    BY <1>2 DEF Rounds!Post
  <2> QED
    BY <1>1, <2>1 DEF RoundInv, Rounds!TypeOK, RoundShape, NoneAhead, CurrentIsLast
<1>3. CASE Rounds!RoundOver
  <2>1. /\ roundPc = "streaming" /\ roundPc' = IF currentCall # 0 THEN "tool" ELSE "closing"
        /\ UNCHANGED <<round, calls, executed, input, results, pills, currentCall, index>>
    BY <1>3 DEF Rounds!RoundOver
  <2>2. Rounds!TypeOK'
    BY <2>1 DEF RoundInv, Rounds!TypeOK
  <2>3. RoundShape' /\ CurrentIsLast'
    BY <2>1 DEF RoundInv, RoundShape, CurrentIsLast
  <2>4. NoneAhead'
    BY <2>1 DEF RoundInv, NoneAhead, CurrentIsLast
  <2> QED
    BY <1>1, <2>2, <2>3, <2>4 DEF RoundInv
<1>4. CASE Rounds!BreaksOff \/ Rounds!DoesNotUnpack \/ Rounds!Close
  <2>1. /\ roundPc' = "cut" \/ (roundPc = "closing" /\ roundPc' = "finished")
        /\ UNCHANGED <<round, calls, executed, input, results, pills, currentCall, index>>
    BY <1>4 DEF Rounds!BreaksOff, Rounds!DoesNotUnpack, Rounds!Close
  <2>2. Rounds!TypeOK'
    BY <2>1 DEF RoundInv, Rounds!TypeOK
  <2>3. RoundShape' /\ CurrentIsLast'
    BY <2>1 DEF RoundInv, RoundShape, CurrentIsLast
  <2>4. NoneAhead'
    BY <2>1 DEF RoundInv, NoneAhead
  <2> QED
    BY <1>1, <2>2, <2>3, <2>4 DEF RoundInv
<1>5. CASE UNCHANGED roundVars
  BY <1>1, <1>5 DEF roundVars, RoundInv, Rounds!TypeOK, RoundShape, NoneAhead, CurrentIsLast
<1> QED
  BY <1>2, <1>3, <1>4, <1>5

LEMMA RoundsGoOn == RoundInv /\ [Rounds!Next]_roundVars => RoundInv'
<1> SUFFICES ASSUME RoundInv, [Rounds!Next]_roundVars PROVE RoundInv'
  OBVIOUS
<1>1. CASE Rounds!ItemAdded
  BY <1>1, ItemAddedKeeps
<1>2. CASE Rounds!Arguments
  BY <1>2, ArgumentsKeep
<1>3. CASE Rounds!Execute
  BY <1>3, ExecuteKeeps
<1>4. CASE Rounds!Post \/ Rounds!RoundOver \/ Rounds!BreaksOff \/ Rounds!DoesNotUnpack
           \/ Rounds!Close \/ UNCHANGED roundVars
  <2>1. UNCHANGED <<round, calls, executed, input, results, pills>>
    BY <1>4 DEF Rounds!Post, Rounds!RoundOver, Rounds!BreaksOff, Rounds!DoesNotUnpack,
                Rounds!Close, Rounds!toolVars, roundVars
  <2> QED
    BY <1>4, <2>1, OtherRoundStepsKeep
<1> QED
  BY <1>1, <1>2, <1>3, <1>4 DEF Rounds!Next

(* RoundsSound for every number of rounds and calls in them: no call is    *)
(* executed twice or after its round, the only call of a response has been *)
(* executed when the next request goes out or the stream is finished, and  *)
(* what is posted holds the calls executed, each with its output.          *)
THEOREM RoundsAlwaysSound == TranslatorSpec => []RoundsSound
<1>1. TranslatorInit => RoundInv
  BY RoundsBegin DEF TranslatorInit
<1>2. RoundInv /\ [TranslatorNext]_translatorVars => RoundInv'
  <2> SUFFICES ASSUME RoundInv, [TranslatorNext]_translatorVars PROVE RoundInv'
    OBVIOUS
  <2>1. [Rounds!Next]_roundVars
    BY DEF TranslatorNext, translatorVars, BlockStep, ParserStep, RoundStep
  <2> QED
    BY <2>1, RoundsGoOn
<1>3. RoundInv => RoundsSound
  <2> SUFFICES ASSUME RoundInv PROVE RoundsSound
    OBVIOUS
  <2>1. /\ DOMAIN executed = 1..Len(executed) /\ Len(executed) = round - 1
        /\ calls \in Seq([round : 1..MaxRounds, args : Rounds!Fragments])
        /\ executed \in Seq(DOMAIN calls)
    BY DEF RoundInv, Rounds!TypeOK, LastExecuted
  <2>2. \A k \in DOMAIN executed : calls[executed[k]].round = k
    BY <2>1 DEF RoundInv, LastExecuted
  <2>3. Rounds!ExecutedOnce
    BY <2>2 DEF Rounds!ExecutedOnce, Rounds!IsInjective
  <2>4. Rounds!SingleCallExecuted
    <3> SUFFICES ASSUME roundPc \in {"posting", "closing", "finished"}, NEW n \in DOMAIN calls,
                        Rounds!OfRound(calls[n].round) = {n}
                 PROVE  \E k \in DOMAIN executed : executed[k] = n
      BY DEF Rounds!SingleCallExecuted
    <3>1. calls[n].round < round
      BY DEF RoundInv, NoneAhead
    <3>2. calls[n].round \in 1..MaxRounds
      <4>1. calls[n] \in [round : 1..MaxRounds, args : Rounds!Fragments]
        BY <2>1, ItemOfSeq
      <4> QED
        BY <4>1
    <3>3. round \in Nat
      BY RoundsPositive DEF RoundInv, Rounds!TypeOK, Rounds!OutOfRounds
    <3>4. calls[n].round \in DOMAIN executed
      BY <2>1, <3>1, <3>2, <3>3, RoundsPositive
    <3>5. executed[calls[n].round] \in DOMAIN calls
      BY <2>1, <3>4, ItemOfSeq
    <3>6. executed[calls[n].round] \in Rounds!OfRound(calls[n].round)
      BY <2>2, <3>4, <3>5 DEF Rounds!OfRound
    <3> QED
      BY <3>4, <3>6
  <2> QED
    BY <2>3, <2>4 DEF RoundInv, RoundsSound
<1> QED
  BY <1>1, <1>2, <1>3, PTL DEF TranslatorSpec

-----------------------------------------------------------------------------
(* A set of natural numbers that is not empty has a least one.             *)
LEMMA LeastNatural ==
    ASSUME NEW S \in SUBSET Nat, S # {}
    PROVE  \E x \in S : \A y \in S : x <= y
<1> DEFINE Less == OpToRel(<, Nat)
<1>1. IsWellFoundedOn(Less, Nat)
  BY NatLessThanWellFounded
<1>2. \E x \in S : \A y \in S : ~ (<<y, x>> \in Less)
  <2> HIDE DEF Less
  <2> QED
    BY <1>1, WFMin
<1>3. PICK x \in S : \A y \in S : ~ (<<y, x>> \in Less)
  BY <1>2
<1>4. ASSUME NEW y \in S PROVE x <= y
  <2>1. ~ (y < x)
    BY <1>3 DEF OpToRel
  <2> QED
    BY <2>1
<1> QED
  BY <1>4

LEMMA InductiveSet ==
    ASSUME NEW S, 0 \in S, \A n \in Nat : n \in S => n + 1 \in S
    PROVE  Nat \subseteq S
<1> SUFFICES ASSUME Nat \ S # {} PROVE FALSE
  OBVIOUS
<1>1. PICK x \in Nat \ S : \A y \in Nat \ S : x <= y
  BY LeastNatural
<1>2. x # 0 /\ x - 1 \in Nat /\ (x - 1) + 1 = x /\ ~ (x <= x - 1)
  OBVIOUS
<1>3. x - 1 \in S
  BY <1>1, <1>2
<1> QED
  BY <1>1, <1>2, <1>3

(* Two sequences joined, and a part of one, item by item.                  *)
LEMMA Joined ==
    ASSUME NEW S, NEW a \in Seq(S), NEW b \in Seq(S)
    PROVE  /\ a \o b \in Seq(S) /\ Len(a \o b) = Len(a) + Len(b)
           /\ \A i \in 1..Len(a) : (a \o b)[i] = a[i]
           /\ \A i \in 1..Len(b) : (a \o b)[Len(a) + i] = b[i]
<1>1. Len(a) \in Nat /\ Len(b) \in Nat
  OBVIOUS
<1>2. /\ a \o b \in Seq(S) /\ Len(a \o b) = Len(a) + Len(b)
      /\ \A i \in 1..(Len(a) + Len(b)) : (a \o b)[i] = IF i <= Len(a) THEN a[i] ELSE b[i - Len(a)]
  BY ConcatProperties
<1>3. ASSUME NEW i \in 1..Len(a) PROVE (a \o b)[i] = a[i]
  <2>1. i \in 1..(Len(a) + Len(b)) /\ i <= Len(a)
    BY <1>1
  <2> QED
    BY <1>2, <2>1
<1>4. ASSUME NEW i \in 1..Len(b) PROVE (a \o b)[Len(a) + i] = b[i]
  <2>1. Len(a) + i \in 1..(Len(a) + Len(b)) /\ ~ (Len(a) + i <= Len(a)) /\ Len(a) + i - Len(a) = i
    BY <1>1
  <2> QED
    BY <1>2, <2>1
<1> QED
  BY <1>2, <1>3, <1>4

LEMMA Part ==
    ASSUME NEW S, NEW s \in Seq(S), NEW m \in Nat, NEW n \in Nat, 1 <= m, m <= n + 1, n <= Len(s)
    PROVE  /\ SubSeq(s, m, n) \in Seq(S) /\ Len(SubSeq(s, m, n)) = n + 1 - m
           /\ \A i \in 1..(n + 1 - m) : SubSeq(s, m, n)[i] = s[m + i - 1]
<1>1. Len(s) \in Nat /\ DOMAIN s = 1..Len(s) /\ m \in Int /\ n \in Int
  OBVIOUS
<1>2. \A i \in m..n : s[i] \in S
  BY <1>1
<1>3. /\ SubSeq(s, m, n) \in Seq(S) /\ Len(SubSeq(s, m, n)) = IF m <= n THEN n - m + 1 ELSE 0
      /\ \A i \in 1..(n - m + 1) : SubSeq(s, m, n)[i] = s[m + i - 1]
  BY <1>1, <1>2, SubSeqProperties
<1>4. n - m + 1 = n + 1 - m /\ (IF m <= n THEN n - m + 1 ELSE 0) = n + 1 - m
  OBVIOUS
<1> QED
  BY <1>3, <1>4

(* The reference reading: a solution of its recursion, from the first      *)
(* character on.                                                           *)
Unread == [skip |-> 0, kind |-> "content", out |-> <<>>]
Reads(f, s, n) ==
    f = [i \in 0..n |-> IF i = 0 THEN Unread ELSE Parser!After(f[i - 1], s, i)]

LEMMA ReadingExists ==
    ASSUME NEW s
    PROVE  \A n \in Nat : \E f : Reads(f, s, n)
<1> DEFINE D == {n \in Nat : \E f : Reads(f, s, n)}
<1>1. 0 \in D
  <2> DEFINE f == [i \in 0..0 |-> Unread]
  <2>1. \A i \in 0..0 : i = 0
    OBVIOUS
  <2>2. f = [i \in 0..0 |-> IF i = 0 THEN Unread ELSE Parser!After(f[i - 1], s, i)]
    BY <2>1
  <2> HIDE DEF f
  <2> QED
    BY <2>2 DEF Reads
<1>2. ASSUME NEW n \in Nat, n \in D PROVE n + 1 \in D
  <2>1. PICK f : Reads(f, s, n)
    BY <1>2
  <2> DEFINE g == [i \in 0..(n + 1) |-> IF i <= n THEN f[i] ELSE Parser!After(f[n], s, n + 1)]
  <2>2. ASSUME NEW i \in 0..(n + 1)
        PROVE  g[i] = IF i = 0 THEN Unread ELSE Parser!After(g[i - 1], s, i)
    <3>1. CASE i = n + 1
      <4>1. i # 0 /\ i - 1 = n /\ ~ (i <= n) /\ n \in 0..(n + 1) /\ n <= n
        BY <3>1
      <4>2. g[i] = Parser!After(f[n], s, n + 1) /\ g[n] = f[n]
        BY <4>1
      <4> HIDE DEF g
      <4> QED
        BY <3>1, <4>1, <4>2
    <3>2. CASE i \in 0..n
      <4>1. g[i] = f[i] /\ (i # 0 => g[i - 1] = f[i - 1])
        BY <3>2
      <4>2. f[i] = IF i = 0 THEN Unread ELSE Parser!After(f[i - 1], s, i)
        BY <2>1, <3>2 DEF Reads
      <4> HIDE DEF g
      <4> QED
        BY <4>1, <4>2
    <3> QED
      BY <3>1, <3>2
  <2>3. Reads(g, s, n + 1)
    <3>1. g = [i \in 0..(n + 1) |-> g[i]]
      OBVIOUS
    <3> HIDE DEF g
    <3>2. [i \in 0..(n + 1) |-> g[i]] =
              [i \in 0..(n + 1) |-> IF i = 0 THEN Unread ELSE Parser!After(g[i - 1], s, i)]
      BY <2>2
    <3> QED
      BY <3>1, <3>2 DEF Reads
  <2> QED
    BY <2>3
<1>3. Nat \subseteq D
  <2> HIDE DEF D
  <2> QED
    BY <1>1, <1>2, InductiveSet
<1> QED
  BY <1>3

LEMMA ReadingUnique ==
    ASSUME NEW s, NEW m \in Nat, NEW n \in Nat, NEW f, NEW g, Reads(f, s, m), Reads(g, s, n)
    PROVE  \A i \in Nat : i <= m /\ i <= n => f[i] = g[i]
<1> DEFINE E == {i \in Nat : i <= m /\ i <= n => f[i] = g[i]}
<1>1. 0 \in E
  <2>1. 0 \in 0..m /\ 0 \in 0..n
    OBVIOUS
  <2>2. f[0] = Unread /\ g[0] = Unread
    BY <2>1 DEF Reads
  <2> QED
    BY <2>2
<1>2. ASSUME NEW i \in Nat, i \in E PROVE i + 1 \in E
  <2> SUFFICES ASSUME i + 1 <= m, i + 1 <= n PROVE f[i + 1] = g[i + 1]
    OBVIOUS
  <2>1. f[i] = g[i]
    BY <1>2
  <2>2. i + 1 \in 0..m /\ i + 1 \in 0..n /\ i + 1 # 0 /\ (i + 1) - 1 = i
    OBVIOUS
  <2>3. f[i + 1] = Parser!After(f[i], s, i + 1)
    BY <2>2 DEF Reads
  <2>4. g[i + 1] = Parser!After(g[i], s, i + 1)
    BY <2>2 DEF Reads
  <2> QED
    BY <2>1, <2>3, <2>4
<1>3. Nat \subseteq E
  <2> HIDE DEF E
  <2> QED
    BY <1>1, <1>2, InductiveSet
<1> QED
  BY <1>3

LEMMA ReadingSteps ==
    ASSUME NEW s
    PROVE  /\ Parser!Reading(s)[0] = Unread
           /\ \A n \in Nat : Parser!Reading(s)[n + 1] = Parser!After(Parser!Reading(s)[n], s, n + 1)
<1> DEFINE F(n) == CHOOSE f : Reads(f, s, n)
           P == [n \in Nat |-> F(n)[n]]
<1>1. \A n \in Nat : Reads(F(n), s, n)
  BY ReadingExists
<1>2. ASSUME NEW n \in Nat
      PROVE  P[n] = IF n = 0 THEN Unread ELSE Parser!After(P[n - 1], s, n)
  <2>1. F(n)[n] = IF n = 0 THEN Unread ELSE Parser!After(F(n)[n - 1], s, n)
    <3>1. n \in 0..n
      OBVIOUS
    <3> HIDE DEF F
    <3> QED
      BY <1>1, <3>1 DEF Reads
  <2>2. n # 0 => F(n)[n - 1] = F(n - 1)[n - 1]
    <3> HIDE DEF F
    <3> SUFFICES ASSUME n # 0 PROVE F(n)[n - 1] = F(n - 1)[n - 1]
      OBVIOUS
    <3>1. n - 1 \in Nat /\ n - 1 <= n /\ n - 1 <= n - 1
      OBVIOUS
    <3>2. Reads(F(n), s, n) /\ Reads(F(n - 1), s, n - 1)
      BY <1>1, <3>1
    <3> QED
      BY <3>1, <3>2, ReadingUnique
  <2>3. P[n] = F(n)[n] /\ (n # 0 => P[n - 1] = F(n - 1)[n - 1])
    OBVIOUS
  <2> HIDE DEF P, F
  <2> QED
    BY <2>1, <2>2, <2>3
<1>3. P = [n \in Nat |-> IF n = 0 THEN Unread ELSE Parser!After(P[n - 1], s, n)]
  <2>1. P = [n \in Nat |-> P[n]]
    OBVIOUS
  <2> HIDE DEF P
  <2>2. [n \in Nat |-> P[n]] = [n \in Nat |-> IF n = 0 THEN Unread ELSE Parser!After(P[n - 1], s, n)]
    BY <1>2
  <2> QED
    BY <2>1, <2>2
<1> HIDE DEF P
<1> DEFINE R == Parser!Reading(s)
<1>4. R = [n \in Nat |-> IF n = 0 THEN Unread ELSE Parser!After(R[n - 1], s, n)]
  BY <1>3 DEF Parser!Reading, Unread
<1> HIDE DEF R
<1>5. \A n \in Nat : R[n] = IF n = 0 THEN Unread ELSE Parser!After(R[n - 1], s, n)
  BY <1>4
<1>6. R[0] = Unread
  BY <1>5
<1>7. ASSUME NEW n \in Nat PROVE R[n + 1] = Parser!After(R[n], s, n + 1)
  <2>1. n + 1 \in Nat /\ n + 1 # 0 /\ (n + 1) - 1 = n
    OBVIOUS
  <2>2. R[n + 1] = IF n + 1 = 0 THEN Unread ELSE Parser!After(R[(n + 1) - 1], s, n + 1)
    BY <1>5, <2>1
  <2> QED
    BY <2>1, <2>2
<1> QED
  BY <1>6, <1>7 DEF R

(* What one character does to the reading.                                 *)
TagOf(kind) == IF kind = "reasoning" THEN CloseTag ELSE OpenTag
Other(kind) == IF kind = "reasoning" THEN "content" ELSE "reasoning"
Reached(skip, kind, o) == [skip |-> skip, kind |-> kind, out |-> o]

LEMMA AfterSkipped ==
    ASSUME NEW n \in Nat, NEW kind, NEW o, NEW s, NEW k
    PROVE  Parser!After(Reached(n + 1, kind, o), s, k) = Reached(n, kind, o)
<1>1. n + 1 > 0 /\ (n + 1) - 1 = n
  OBVIOUS
<1> QED
  BY <1>1 DEF Parser!After, Reached

LEMMA AfterTag ==
    ASSUME NEW kind, NEW o, NEW s, NEW k, Parser!TagAt(s, k, TagOf(kind))
    PROVE  Parser!After(Reached(0, kind, o), s, k) = Reached(Len(TagOf(kind)) - 1, Other(kind), o)
BY DEF Parser!After, Reached, TagOf, Other

LEMMA AfterPlain ==
    ASSUME NEW kind, NEW o, NEW s, NEW k, ~ Parser!TagAt(s, k, TagOf(kind))
    PROVE  Parser!After(Reached(0, kind, o), s, k) =
               Reached(0, kind, Append(o, [kind |-> kind, char |-> s[k]]))
BY DEF Parser!After, Reached, TagOf

(* A place where the text goes on to differ from a tag: no more of the     *)
(* text changes that.  Decided: nor whether one begins there.              *)
Mismatch(s, k, tag) == \E j \in DOMAIN tag : k + j - 1 <= Len(s) /\ s[k + j - 1] # tag[j]

Decided(s, k) ==
    LET acc == Parser!Reading(s)[k - 1]
    IN  \/ acc.skip > 0
        \/ Parser!TagAt(s, k, TagOf(acc.kind))
        \/ Mismatch(s, k, TagOf(acc.kind))

LEMMA Tags ==
    ASSUME NEW kind
    PROVE  /\ TagOf(kind) \in Seq(Letters) /\ TagOf(kind) # <<>>
           /\ Len(TagOf(kind)) \in Nat /\ Len(TagOf(kind)) >= 1
           /\ DOMAIN TagOf(kind) = 1..Len(TagOf(kind))
<1>1. TagOf(kind) \in Seq(Letters) /\ TagOf(kind) # <<>>
  BY TranslatorAssumption DEF TagOf
<1>2. Len(TagOf(kind)) \in Nat /\ Len(TagOf(kind)) # 0 /\ DOMAIN TagOf(kind) = 1..Len(TagOf(kind))
  BY <1>1, EmptySeq
<1> QED
  BY <1>1, <1>2

LEMMA MismatchIsNoTag ==
    ASSUME NEW s, NEW k, NEW tag, Mismatch(s, k, tag)
    PROVE  ~ Parser!TagAt(s, k, tag)
BY DEF Mismatch, Parser!TagAt

(* More text leaves a tag, and a mismatch, as they are.                    *)
LEMMA MoreText ==
    ASSUME NEW s \in Seq(Letters), NEW t \in Seq(Letters), Len(s) <= Len(t),
           \A i \in 1..Len(s) : t[i] = s[i], NEW k \in Nat, k >= 1, NEW kind
    PROVE  /\ Parser!TagAt(s, k, TagOf(kind)) => Parser!TagAt(t, k, TagOf(kind))
           /\ Mismatch(s, k, TagOf(kind)) => Mismatch(t, k, TagOf(kind))
<1> DEFINE tag == TagOf(kind)
           m == Len(tag)
<1>1. DOMAIN tag = 1..m /\ m \in Nat /\ Len(s) \in Nat /\ Len(t) \in Nat
  BY Tags
<1> HIDE DEF m, tag
<1>2. ASSUME Parser!TagAt(s, k, tag) PROVE Parser!TagAt(t, k, tag)
  <2>1. k + m - 1 <= Len(s) /\ \A j \in 1..m : s[k + j - 1] = tag[j]
    BY <1>1, <1>2 DEF Parser!TagAt, m
  <2>2. \A j \in 1..m : k + j - 1 \in 1..Len(s)
    BY <1>1, <2>1
  <2>3. k + m - 1 <= Len(t)
    BY <1>1, <2>1
  <2>4. \A j \in 1..m : t[k + j - 1] = tag[j]
    BY <2>1, <2>2
  <2> QED
    BY <1>1, <2>3, <2>4 DEF Parser!TagAt, m
<1>3. ASSUME Mismatch(s, k, tag) PROVE Mismatch(t, k, tag)
  <2>1. PICK j \in 1..m : k + j - 1 <= Len(s) /\ s[k + j - 1] # tag[j]
    BY <1>1, <1>3 DEF Mismatch
  <2>2. k + j - 1 \in 1..Len(s) /\ k + j - 1 <= Len(t)
    BY <1>1, <2>1
  <2>3. t[k + j - 1] # tag[j]
    BY <2>1, <2>2
  <2> QED
    BY <1>1, <2>2, <2>3 DEF Mismatch
<1> QED
  BY <1>2, <1>3 DEF tag

LEMMA ReadingGoesOn ==
    ASSUME NEW s \in Seq(Letters), NEW t \in Seq(Letters), Len(s) <= Len(t),
           \A i \in 1..Len(s) : t[i] = s[i],
           NEW p \in Nat, p <= Len(s), \A k \in 1..p : Decided(s, k)
    PROVE  /\ Parser!Reading(t)[p] = Parser!Reading(s)[p]
           /\ \A k \in 1..p : Decided(t, k)
<1> DEFINE S == Parser!Reading(s)
           T == Parser!Reading(t)
           D == {k \in Nat : k <= p => T[k] = S[k] /\ (k >= 1 => Decided(t, k))}
<1>1. 0 \in D
  <2>1. T[0] = S[0]
    BY ReadingSteps
  <2> HIDE DEF S, T
  <2> QED
    BY <2>1
<1>2. ASSUME NEW k \in Nat, k \in D PROVE k + 1 \in D
  <2> SUFFICES ASSUME k + 1 <= p PROVE T[k + 1] = S[k + 1] /\ Decided(t, k + 1)
    OBVIOUS
  <2>1. T[k] = S[k]
    BY <1>2
  <2>2. k + 1 \in Nat /\ k + 1 >= 1 /\ k + 1 \in 1..p /\ k + 1 \in 1..Len(s) /\ (k + 1) - 1 = k
    OBVIOUS
  <2>3. t[k + 1] = s[k + 1] /\ Decided(s, k + 1)
    BY <2>2
  <2>4. S[k + 1] = Parser!After(S[k], s, k + 1) /\ T[k + 1] = Parser!After(T[k], t, k + 1)
    BY ReadingSteps
  <2> HIDE DEF S, T, D
  <2> DEFINE tag == TagOf(S[k].kind)
  <2>5. S[k].skip > 0 \/ Parser!TagAt(s, k + 1, tag) \/ Mismatch(s, k + 1, tag)
    BY <2>2, <2>3 DEF Decided, S
  <2>6. /\ Parser!TagAt(s, k + 1, tag) => Parser!TagAt(t, k + 1, tag)
        /\ Mismatch(s, k + 1, tag) => Mismatch(t, k + 1, tag)
    BY <2>2, MoreText
  <2>7. S[k].skip > 0 \/ Parser!TagAt(t, k + 1, tag) \/ Mismatch(t, k + 1, tag)
    BY <2>5, <2>6
  <2>8. Decided(t, k + 1)
    BY <2>1, <2>2, <2>7 DEF Decided, T
  <2>9. S[k].skip > 0 \/ (Parser!TagAt(s, k + 1, tag) <=> Parser!TagAt(t, k + 1, tag))
    BY <2>5, <2>6, MismatchIsNoTag
  <2>10. Parser!After(S[k], s, k + 1) = Parser!After(S[k], t, k + 1)
    BY <2>3, <2>9 DEF Parser!After, TagOf
  <2> QED
    BY <2>1, <2>4, <2>8, <2>10
<1>3. Nat \subseteq D
  <2> HIDE DEF D
  <2> QED
    BY <1>1, <1>2, InductiveSet
<1>4. p \in D /\ \A k \in 1..p : k \in Nat /\ k >= 1 /\ k <= p
  BY <1>3
<1>5. T[p] = S[p]
  BY <1>4
<1>6. \A k \in 1..p : Decided(t, k)
  BY <1>3, <1>4
<1> QED
  BY <1>5, <1>6

(* What has been emitted after m more characters that are of one kind.     *)
Item == [kind : {"reasoning", "content"}, char : Letters]
Run(o, kind, s, p, m) ==
    [i \in 1..(Len(o) + m) |->
        IF i <= Len(o) THEN o[i] ELSE [kind |-> kind, char |-> s[p + (i - Len(o))]]]

LEMMA RunGrows ==
    ASSUME NEW o \in Seq(Item), NEW kind \in {"reasoning", "content"}, NEW s \in Seq(Letters),
           NEW p \in Nat, NEW m \in Nat, p + m + 1 <= Len(s)
    PROVE  Append(Run(o, kind, s, p, m), [kind |-> kind, char |-> s[p + m + 1]])
               = Run(o, kind, s, p, m + 1)
<1> DEFINE n == Len(o)
           x == [kind |-> kind, char |-> s[p + m + 1]]
           r == Run(o, kind, s, p, m)
           t == Run(o, kind, s, p, m + 1)
<1>1. n \in Nat /\ DOMAIN o = 1..n /\ DOMAIN s = 1..Len(s) /\ Len(s) \in Nat
  OBVIOUS
<1>2. x \in Item
  BY <1>1 DEF Item
<1>3. \A i \in 1..(n + m) : r[i] = IF i <= n THEN o[i] ELSE [kind |-> kind, char |-> s[p + (i - n)]]
  BY DEF Run
<1>4. \A i \in 1..(n + (m + 1)) :
         t[i] = IF i <= n THEN o[i] ELSE [kind |-> kind, char |-> s[p + (i - n)]]
  BY DEF Run
<1>5. r = [i \in 1..(n + m) |-> r[i]] /\ t = [i \in 1..(n + (m + 1)) |-> t[i]]
  BY DEF Run
<1>6. \A i \in 1..(n + m) : r[i] \in Item
  <2> SUFFICES ASSUME NEW i \in 1..(n + m) PROVE r[i] \in Item
    OBVIOUS
  <2>1. CASE i <= n
    <3>1. i \in 1..n
      BY <1>1, <2>1
    <3>2. o[i] \in Item
      BY <1>1, <3>1
    <3> QED
      BY <1>3, <2>1, <3>2
  <2>2. CASE ~ (i <= n)
    <3>1. p + (i - n) \in 1..Len(s)
      BY <1>1, <2>2
    <3>2. s[p + (i - n)] \in Letters
      BY <1>1, <3>1
    <3>3. [kind |-> kind, char |-> s[p + (i - n)]] \in Item
      BY <3>2 DEF Item
    <3> QED
      BY <1>3, <2>2, <3>3
  <2> QED
    BY <2>1, <2>2
<1> HIDE DEF n, x, r, t
<1>7. r \in Seq(Item) /\ Len(r) = n + m
  <2>1. n + m \in Nat
    BY <1>1
  <2>2. r \in [1..(n + m) -> Item]
    BY <1>5, <1>6
  <2> QED
    BY <2>1, <2>2
<1> DEFINE a == Append(r, x)
<1>8. /\ a = [i \in 1..(n + m + 1) |-> a[i]]
      /\ \A i \in 1..(n + m) : a[i] = r[i]
      /\ a[n + m + 1] = x
  <2>1. a \in Seq(Item) /\ Len(a) = n + m + 1
    BY <1>2, <1>7
  <2>2. \A i \in 1..(n + m) : a[i] = r[i]
    BY <1>2, <1>7
  <2>3. a[n + m + 1] = x
    BY <1>2, <1>7
  <2> HIDE DEF a
  <2>4. a = [i \in 1..Len(a) |-> a[i]]
    BY <2>1
  <2> QED
    BY <2>1, <2>2, <2>3, <2>4
<1> HIDE DEF a
<1>9. ASSUME NEW i \in 1..(n + m + 1) PROVE a[i] = t[i]
  <2>1. i \in 1..(n + (m + 1))
    BY <1>1
  <2>2. CASE i \in 1..(n + m)
    BY <1>3, <1>4, <1>8, <2>1, <2>2
  <2>3. CASE i = n + m + 1
    <3>1. ~ (i <= n) /\ p + (i - n) = p + m + 1
      BY <1>1, <2>3
    <3>2. t[i] = [kind |-> kind, char |-> s[p + (i - n)]]
      BY <1>4, <2>1, <3>1
    <3> QED
      BY <1>8, <2>3, <3>1, <3>2 DEF x
  <2> QED
    BY <1>1, <2>2, <2>3
<1>10. 1..(n + (m + 1)) = 1..(n + m + 1)
  BY <1>1
<1>11. a = t
  <2>1. [i \in 1..(n + m + 1) |-> a[i]] = [i \in 1..(n + m + 1) |-> t[i]]
    BY <1>9
  <2> QED
    BY <1>5, <1>8, <1>10, <2>1
<1> QED
  BY <1>11 DEF a, r, t, x

Emits(o, kind, b) == o \o Parser!Emitted(kind, b)
Follows(b, s, p, m) == \A i \in 1..m : b[i] = s[p + i]
IsRun(r, o, kind, s, p, m) ==
    r = Run(o, kind, s, p, m) /\ r \in Seq(Item) /\ Len(r) = Len(o) + m

LEMMA EmittedIsRun ==
    ASSUME NEW o \in Seq(Item), NEW kind \in {"reasoning", "content"}, NEW s,
           NEW p \in Nat, NEW b \in Seq(Letters), NEW m, Len(b) = m, Follows(b, s, p, m)
    PROVE  IsRun(Emits(o, kind, b), o, kind, s, p, m)
<1> DEFINE n == Len(o)
           e == Parser!Emitted(kind, b)
           t == Run(o, kind, s, p, m)
           a == o \o e
<1>1. n \in Nat /\ m \in Nat /\ DOMAIN b = 1..m
  OBVIOUS
<1>2. e = [k \in 1..m |-> [kind |-> kind, char |-> b[k]]]
  BY <1>1 DEF Parser!Emitted
<1>3. \A k \in 1..m : e[k] = [kind |-> kind, char |-> b[k]] /\ e[k] \in Item
  BY <1>2 DEF Item
<1> HIDE DEF e
<1>4. e \in Seq(Item) /\ Len(e) = m
  <2>1. e \in [1..m -> Item]
    BY <1>2, <1>3
  <2> QED
    BY <1>1, <2>1
<1>5. /\ a \in Seq(Item) /\ Len(a) = n + m
      /\ \A i \in 1..n : a[i] = o[i]
      /\ \A i \in 1..m : a[n + i] = e[i]
  <2>1. e \in Seq(Item) /\ Len(e) = m
    BY <1>4
  <2>2. a \in Seq(Item) /\ Len(a) = n + Len(e)
    BY <2>1, Joined
  <2>3. \A i \in 1..n : a[i] = o[i]
    BY <2>1, Joined
  <2>4. \A i \in 1..Len(e) : a[n + i] = e[i]
    BY <2>1, Joined
  <2> HIDE DEF a, n
  <2> QED
    BY <2>1, <2>2, <2>3, <2>4
<1>6. \A i \in 1..(n + m) : t[i] = IF i <= n THEN o[i] ELSE [kind |-> kind, char |-> s[p + (i - n)]]
  BY DEF Run
<1>7. t = [i \in 1..(n + m) |-> t[i]]
  BY DEF Run
<1>8. \A i \in 1..m : b[i] = s[p + i]
  BY DEF Follows
<1> HIDE DEF n, t, a
<1>9. ASSUME NEW i \in 1..(n + m) PROVE a[i] = t[i]
  <2>1. CASE i <= n
    <3>1. i \in 1..n
      BY <1>1, <2>1
    <3> QED
      BY <1>5, <1>6, <2>1, <3>1
  <2>2. CASE ~ (i <= n)
    <3>1. i - n \in 1..m /\ n + (i - n) = i
      BY <1>1, <2>2
    <3>2. a[n + (i - n)] = e[i - n]
      BY <1>5, <3>1
    <3>3. e[i - n] = [kind |-> kind, char |-> s[p + (i - n)]]
      BY <1>3, <1>8, <3>1
    <3>4. t[i] = [kind |-> kind, char |-> s[p + (i - n)]]
      BY <1>6, <2>2
    <3> QED
      BY <3>1, <3>2, <3>3, <3>4
  <2> QED
    BY <2>1, <2>2
<1>10. a = [i \in 1..(n + m) |-> a[i]]
  <2>1. a = [i \in 1..Len(a) |-> a[i]]
    BY <1>5
  <2> QED
    BY <1>5, <2>1
<1>11. a = t
  BY <1>7, <1>9, <1>10
<1> QED
  BY <1>5, <1>11 DEF a, t, e, n, Emits, IsRun

LEMMA EmittedPart ==
    ASSUME NEW o \in Seq(Item), NEW kind \in {"reasoning", "content"}, NEW s,
           NEW p \in Nat, NEW b \in Seq(Letters), NEW m \in Nat, m <= Len(b),
           Follows(b, s, p, m)
    PROVE  IsRun(Emits(o, kind, SubSeq(b, 1, m)), o, kind, s, p, m)
<1> DEFINE c == SubSeq(b, 1, m)
<1>1. 1 \in Nat /\ 1 <= 1 /\ 1 <= m + 1 /\ m + 1 - 1 = m
  OBVIOUS
<1>2. c \in Seq(Letters) /\ Len(c) = m + 1 - 1 /\ \A i \in 1..(m + 1 - 1) : c[i] = b[1 + i - 1]
  BY <1>1, Part
<1>3. \A i \in 1..m : 1 + i - 1 = i
  OBVIOUS
<1> HIDE DEF c
<1>4. c \in Seq(Letters) /\ Len(c) = m
  BY <1>1, <1>2
<1>5. Follows(c, s, p, m)
  BY <1>1, <1>2, <1>3 DEF Follows
<1>6. IsRun(Emits(o, kind, c), o, kind, s, p, m)
  BY <1>4, <1>5, EmittedIsRun
<1> QED
  BY <1>6 DEF c

NoTagIn(s, p, m, kind) == \A j \in 1..m : ~ Parser!TagAt(s, p + j, TagOf(kind))

LEMMA PlainRun ==
    ASSUME NEW s \in Seq(Letters), NEW p \in Nat, NEW m \in Nat, p + m <= Len(s),
           NEW kind \in {"reasoning", "content"}, NEW o \in Seq(Item),
           Parser!Reading(s)[p] = Reached(0, kind, o),
           NoTagIn(s, p, m, kind)
    PROVE  \A j \in 0..m : Parser!Reading(s)[p + j] = Reached(0, kind, Run(o, kind, s, p, j))
<1> DEFINE R == Parser!Reading(s)
           D == {j \in Nat : j <= m => R[p + j] = Reached(0, kind, Run(o, kind, s, p, j))}
<1>1. 0 \in D
  <2>1. Run(o, kind, s, p, 0) = o
    <3> DEFINE n == Len(o)
    <3>1. n \in Nat /\ n + 0 = n /\ o = [i \in 1..n |-> o[i]]
      OBVIOUS
    <3>2. \A i \in 1..n : i <= n
      OBVIOUS
    <3> HIDE DEF n
    <3>3. Run(o, kind, s, p, 0) =
             [i \in 1..(n + 0) |-> IF i <= n THEN o[i] ELSE [kind |-> kind, char |-> s[p + (i - n)]]]
      BY DEF Run, n
    <3>4. Run(o, kind, s, p, 0) = [i \in 1..n |-> o[i]]
      BY <3>1, <3>2, <3>3
    <3> QED
      BY <3>1, <3>4
  <2>2. p + 0 = p
    OBVIOUS
  <2> HIDE DEF R
  <2>3. R[p + 0] = Reached(0, kind, Run(o, kind, s, p, 0))
    BY <2>1, <2>2 DEF R
  <2> QED
    BY <2>3
<1>2. ASSUME NEW j \in Nat, j \in D PROVE j + 1 \in D
  <2> SUFFICES ASSUME j + 1 <= m
               PROVE  R[p + (j + 1)] = Reached(0, kind, Run(o, kind, s, p, j + 1))
    OBVIOUS
  <2>1. j <= m /\ j + 1 \in 1..m /\ p + j \in Nat /\ p + (j + 1) = p + j + 1
    OBVIOUS
  <2>2. p + j + 1 <= Len(s)
    <3>1. Len(s) \in Nat
      OBVIOUS
    <3> QED
      BY <2>1, <3>1
  <2>3. R[p + j] = Reached(0, kind, Run(o, kind, s, p, j))
    BY <1>2, <2>1
  <2>4. R[p + j + 1] = Parser!After(R[p + j], s, p + j + 1)
    BY <2>1, ReadingSteps
  <2>5. ~ Parser!TagAt(s, p + j + 1, TagOf(kind))
    <3>1. ~ Parser!TagAt(s, p + (j + 1), TagOf(kind))
      BY <2>1 DEF NoTagIn
    <3> QED
      BY <2>1, <3>1
  <2> HIDE DEF R, D
  <2>6. R[p + j + 1] = Reached(0, kind, Append(Run(o, kind, s, p, j),
                                               [kind |-> kind, char |-> s[p + j + 1]]))
    BY <2>3, <2>4, <2>5, AfterPlain
  <2>7. Append(Run(o, kind, s, p, j), [kind |-> kind, char |-> s[p + j + 1]])
            = Run(o, kind, s, p, j + 1)
    BY <2>2, RunGrows
  <2> QED
    BY <2>1, <2>6, <2>7
<1>3. Nat \subseteq D
  <2> HIDE DEF D
  <2> QED
    BY <1>1, <1>2, InductiveSet
<1>4. ASSUME NEW j \in 0..m PROVE R[p + j] = Reached(0, kind, Run(o, kind, s, p, j))
  <2>1. j \in Nat /\ j <= m
    OBVIOUS
  <2>2. j \in D
    <3> HIDE DEF D
    <3> QED
      BY <1>3, <2>1
  <2> HIDE DEF R
  <2> QED
    BY <2>1, <2>2
<1> QED
  BY <1>4

(* The rest of a tag is passed over.                                       *)
LEMMA TagPassed ==
    ASSUME NEW s, NEW q \in Nat, NEW m \in Nat, NEW kind, NEW o,
           Parser!Reading(s)[q] = Reached(m, kind, o)
    PROVE  \A i \in 0..m : Parser!Reading(s)[q + i] = Reached(m - i, kind, o)
<1> DEFINE R == Parser!Reading(s)
           D == {i \in Nat : i <= m => R[q + i] = Reached(m - i, kind, o)}
<1>1. 0 \in D
  <2>1. q + 0 = q /\ m - 0 = m
    OBVIOUS
  <2> HIDE DEF R
  <2>2. R[q + 0] = Reached(m - 0, kind, o)
    BY <2>1 DEF R
  <2> QED
    BY <2>2
<1>2. ASSUME NEW i \in Nat, i \in D PROVE i + 1 \in D
  <2> SUFFICES ASSUME i + 1 <= m PROVE R[q + (i + 1)] = Reached(m - (i + 1), kind, o)
    OBVIOUS
  <2>1. /\ i <= m /\ q + i \in Nat /\ q + (i + 1) = q + i + 1
        /\ m - (i + 1) \in Nat /\ m - i = (m - (i + 1)) + 1
    OBVIOUS
  <2>2. R[q + i] = Reached((m - (i + 1)) + 1, kind, o)
    BY <1>2, <2>1
  <2>3. R[q + i + 1] = Parser!After(R[q + i], s, q + i + 1)
    BY <2>1, ReadingSteps
  <2> HIDE DEF R, D
  <2> QED
    BY <2>1, <2>2, <2>3, AfterSkipped
<1>3. Nat \subseteq D
  <2> HIDE DEF D
  <2> QED
    BY <1>1, <1>2, InductiveSet
<1> QED
  BY <1>3

-----------------------------------------------------------------------------
(* The parser of think tags.  In a call it stands where the reference      *)
(* stands before the text held back: all before is settled, whatever the   *)
(* text goes on with.                                                      *)
Before == Len(text) - Len(buf)

ParserStands ==
    parserPc # "idle" =>
        /\ Len(out) + Len(buf) <= Len(text)
        /\ \A i \in 1..Len(buf) : buf[i] = text[Before + i]
        /\ Parser!Reading(text)[Before] = Reached(0, Parser!Kind, out)
        /\ \A k \in 1..Before : Decided(text, k)

ParserInv ==
    /\ Parser!TypeOK /\ Parser!HeldMayBeTag
    /\ text \in Seq(Letters) /\ out \in Seq(Item)
    /\ ParserStands
    /\ parserPc = "idle" /\ out # <<>> => out = Parser!Split(text)

LEMMA ParserBegins == Parser!Init => ParserInv
<1> SUFFICES ASSUME Parser!Init PROVE ParserInv
  OBVIOUS
<1>1. /\ parserPc = "idle" /\ buf = <<>> /\ inThink = FALSE /\ out = <<>> /\ text = <<>> /\ parsed = 0
  BY DEF Parser!Init
<1>2. MaxCalls \in Nat
  <2>1. {MaxText, MaxChunk, MaxCalls} \subseteq Nat
    BY TranslatorAssumption
  <2> QED
    BY <2>1
<1>3. Parser!TypeOK
  <2>1. inThink \in BOOLEAN
    BY <1>1
  <2>2. buf \in Seq(Letters)
    BY <1>1
  <2>3. parsed \in 0..MaxCalls
    BY <1>1, <1>2
  <2> QED
    BY <1>1, <2>1, <2>2, <2>3 DEF Parser!TypeOK
<1> QED
  BY <1>1, <1>3 DEF ParserInv, Parser!HeldMayBeTag, ParserStands

LEMMA ParserTypes ==
    ASSUME ParserInv
    PROVE  /\ buf \in Seq(Letters) /\ text \in Seq(Letters) /\ out \in Seq(Item)
           /\ Len(buf) \in Nat /\ Len(text) \in Nat /\ Len(out) \in Nat
           /\ inThink \in BOOLEAN /\ parsed \in 0..MaxCalls
           /\ Parser!Kind \in {"reasoning", "content"} /\ Parser!Tag = TagOf(Parser!Kind)
           /\ parserPc # "idle" => Before \in Nat /\ Before <= Len(text) /\ Len(text) = Before + Len(buf)
<1>1. /\ buf \in Seq(Letters) /\ text \in Seq(Letters) /\ out \in Seq(Item)
      /\ inThink \in BOOLEAN /\ parsed \in 0..MaxCalls
  BY DEF ParserInv, Parser!TypeOK
<1>2. Len(buf) \in Nat /\ Len(text) \in Nat /\ Len(out) \in Nat
  BY <1>1
<1>3. Parser!Kind \in {"reasoning", "content"}
  BY DEF Parser!Kind
<1>4. Parser!Tag = TagOf(Parser!Kind)
  BY DEF Parser!Kind, Parser!Tag, TagOf
<1>5. ASSUME parserPc # "idle"
      PROVE  Before \in Nat /\ Before <= Len(text) /\ Len(text) = Before + Len(buf)
  <2>1. Len(out) + Len(buf) <= Len(text)
    BY <1>5 DEF ParserInv, ParserStands
  <2> QED
    BY <1>2, <2>1 DEF Before
<1> QED
  BY <1>1, <1>2, <1>3, <1>4, <1>5

LEMMA ParserResets == ASSUME ParserInv, Parser!Reset PROVE ParserInv'
<1>1. /\ parserPc' = "streaming" /\ buf' = <<>> /\ inThink' = FALSE /\ out' = <<>> /\ text' = <<>>
      /\ parsed' = parsed + 1 /\ parsed < MaxCalls
  BY DEF Parser!Reset
<1>2. parsed' \in 0..MaxCalls
  <2>1. {MaxText, MaxChunk, MaxCalls} \subseteq Nat
    BY TranslatorAssumption
  <2>2. MaxCalls \in Nat
    BY <2>1
  <2>3. parsed \in 0..MaxCalls
    BY ParserTypes
  <2> QED
    BY <1>1, <2>2, <2>3
<1>3. buf' \in Seq(Letters) /\ text' \in Seq(Letters) /\ out' \in Seq(Item)
  BY <1>1
<1>4. Len(buf') = 0 /\ Len(text') = 0 /\ Len(out') = 0 /\ Before' = 0
  BY <1>1 DEF Before
<1>5. Parser!TypeOK'
  <2>1. Len(out') + Len(buf') <= Len(text')
    BY <1>4
  <2>3. inThink' \in BOOLEAN
    BY <1>1
  <2>2. parserPc' \in {"idle", "streaming", "feeding"}
    BY <1>1
  <2> QED
    BY <1>2, <1>3, <2>1, <2>2, <2>3 DEF Parser!TypeOK
<1>6. Parser!Kind' = "content" /\ Parser!Tag' = TagOf("content")
  BY <1>1 DEF Parser!Kind, Parser!Tag, TagOf
<1>7. Parser!HeldMayBeTag'
  <2>1. Len(TagOf("content")) \in Nat /\ Len(TagOf("content")) >= 1
    BY Tags
  <2>2. SubSeq(buf', 1, 0) = <<>> /\ SubSeq(TagOf("content"), 1, 0) = <<>>
    BY SubSeqEmpty
  <2> QED
    BY <1>4, <1>6, <2>1, <2>2 DEF Parser!HeldMayBeTag, Parser!IsPrefix
<1>8. ParserStands'
  <2>1. Parser!Reading(text)'[0] = Reached(0, "content", <<>>)
    <3>1. Parser!Reading(text') = Parser!Reading(text)'
      BY DEF Parser!Reading, Parser!After
    <3>2. Parser!Reading(text')[0] = Unread
      BY ReadingSteps
    <3> QED
      BY <3>1, <3>2 DEF Unread, Reached
  <2> QED
    BY <1>1, <1>4, <1>6, <2>1 DEF ParserStands
<1> QED
  BY <1>1, <1>3, <1>5, <1>7, <1>8 DEF ParserInv

(* What is held back is the end of the text: a tag, or a mismatch, in it   *)
(* is one in the text.                                                     *)
LEMMA InText ==
    ASSUME NEW s \in Seq(Letters), NEW b \in Seq(Letters), NEW p \in Nat, Len(s) = p + Len(b),
           \A i \in 1..Len(b) : b[i] = s[p + i], NEW j \in Nat, j >= 1, NEW kind
    PROVE  /\ Parser!TagAt(b, j, TagOf(kind)) => Parser!TagAt(s, p + j, TagOf(kind))
           /\ Mismatch(b, j, TagOf(kind)) => Mismatch(s, p + j, TagOf(kind))
           /\ Parser!TagAt(s, p + j, TagOf(kind)) => j + Len(TagOf(kind)) - 1 <= Len(b)
           /\ ~ Parser!TagAt(b, j, TagOf(kind)) /\ j + Len(TagOf(kind)) - 1 <= Len(b) =>
                 Mismatch(b, j, TagOf(kind))
<1> DEFINE tag == TagOf(kind)
           m == Len(tag)
           n == Len(b)
<1>1. DOMAIN tag = 1..m /\ m \in Nat /\ n \in Nat
  BY Tags
<1>2. Len(s) = p + n /\ \A i \in 1..n : b[i] = s[p + i]
  OBVIOUS
<1> HIDE DEF m, n, tag
<1>3. ASSUME Parser!TagAt(b, j, tag) PROVE Parser!TagAt(s, p + j, tag)
  <2>1. j + m - 1 <= n /\ \A i \in 1..m : b[j + i - 1] = tag[i]
    BY <1>1, <1>3 DEF Parser!TagAt, m, n
  <2>2. p + j + m - 1 <= p + n
    BY <1>1, <2>1
  <2>3. ASSUME NEW i \in 1..m PROVE s[p + j + i - 1] = tag[i]
    <3>1. j + i - 1 \in 1..n /\ p + (j + i - 1) = p + j + i - 1
      BY <1>1, <2>1
    <3> QED
      BY <1>2, <2>1, <3>1
  <2> QED
    BY <1>1, <1>2, <2>2, <2>3 DEF Parser!TagAt, m
<1>4. ASSUME Mismatch(b, j, tag) PROVE Mismatch(s, p + j, tag)
  <2>1. PICK i \in 1..m : j + i - 1 <= n /\ b[j + i - 1] # tag[i]
    BY <1>1, <1>4 DEF Mismatch, n
  <2>2. j + i - 1 \in 1..n /\ p + (j + i - 1) = p + j + i - 1 /\ p + j + i - 1 <= p + n
    BY <1>1, <2>1
  <2>3. s[p + j + i - 1] # tag[i]
    BY <1>2, <2>1, <2>2
  <2> QED
    BY <1>1, <1>2, <2>2, <2>3 DEF Mismatch
<1>5. ASSUME Parser!TagAt(s, p + j, tag) PROVE j + m - 1 <= n
  <2>1. p + j + m - 1 <= p + n
    BY <1>2, <1>5 DEF Parser!TagAt, m
  <2> QED
    BY <1>1, <2>1
<1>6. ASSUME ~ Parser!TagAt(b, j, tag), j + m - 1 <= n PROVE Mismatch(b, j, tag)
  <2>1. PICK i \in 1..m : b[j + i - 1] # tag[i]
    BY <1>1, <1>6 DEF Parser!TagAt, m, n
  <2>2. j + i - 1 <= n
    BY <1>1, <1>6
  <2> QED
    BY <1>1, <2>1, <2>2 DEF Mismatch, n
<1> QED
  BY <1>3, <1>4, <1>5, <1>6 DEF tag, m, n

(* Characters where no tag can begin are passed on as they are.            *)
LEMMA ParserPasses ==
    ASSUME ParserInv, parserPc # "idle", NEW m \in Nat, m <= Len(buf),
           \A j \in 1..m : Mismatch(buf, j, Parser!Tag),
           NEW o, o = Emits(out, Parser!Kind, SubSeq(buf, 1, m))
    PROVE  /\ o \in Seq(Item) /\ Len(o) = Len(out) + m
           /\ Parser!Reading(text)[Before + m] = Reached(0, Parser!Kind, o)
           /\ \A k \in 1..(Before + m) : Decided(text, k)
<1> DEFINE p == Before
           kind == Parser!Kind
<1>1. /\ buf \in Seq(Letters) /\ text \in Seq(Letters) /\ out \in Seq(Item)
      /\ Len(buf) \in Nat /\ Len(text) \in Nat
      /\ kind \in {"reasoning", "content"} /\ Parser!Tag = TagOf(kind)
      /\ p \in Nat /\ Len(text) = p + Len(buf)
  BY ParserTypes
<1>2. /\ \A i \in 1..Len(buf) : buf[i] = text[p + i]
      /\ Parser!Reading(text)[p] = Reached(0, kind, out)
      /\ \A k \in 1..p : Decided(text, k)
  BY DEF ParserInv, ParserStands
<1> HIDE DEF p, kind
<1>4. o = Run(out, kind, text, p, m) /\ o \in Seq(Item) /\ Len(o) = Len(out) + m
  <2>1. \A i \in 1..m : i \in 1..Len(buf)
    BY <1>1
  <2>2. Follows(buf, text, p, m)
    BY <1>2, <2>1 DEF Follows
  <2>3. buf \in Seq(Letters) /\ out \in Seq(Item) /\ kind \in {"reasoning", "content"} /\ p \in Nat
    BY <1>1
  <2>4. IsRun(Emits(out, kind, SubSeq(buf, 1, m)), out, kind, text, p, m)
    BY <2>2, <2>3, EmittedPart
  <2> QED
    BY <2>4 DEF kind, IsRun
<1>5. \A j \in 1..m : Mismatch(text, p + j, TagOf(kind))
  <2> SUFFICES ASSUME NEW j \in 1..m PROVE Mismatch(text, p + j, TagOf(kind))
    OBVIOUS
  <2>1. j \in Nat /\ j >= 1 /\ Mismatch(buf, j, TagOf(kind))
    BY <1>1
  <2> QED
    BY <1>1, <1>2, <2>1, InText
<1>6. NoTagIn(text, p, m, kind)
  BY <1>5, MismatchIsNoTag DEF NoTagIn
<1>7. \A j \in 0..m : Parser!Reading(text)[p + j] = Reached(0, kind, Run(out, kind, text, p, j))
  <2>1. p + m <= Len(text)
    BY <1>1
  <2>2. /\ text \in Seq(Letters) /\ out \in Seq(Item) /\ kind \in {"reasoning", "content"}
        /\ p \in Nat
    BY <1>1
  <2>3. Parser!Reading(text)[p] = Reached(0, kind, out)
    BY <1>2
  <2> QED
    BY <1>6, <2>1, <2>2, <2>3, PlainRun
<1>8. Parser!Reading(text)[p + m] = Reached(0, kind, o)
  <2>1. m \in 0..m
    OBVIOUS
  <2> QED
    BY <1>4, <1>7, <2>1
<1>9. ASSUME NEW k \in 1..(p + m) PROVE Decided(text, k)
  <2>1. CASE k \in 1..p
    BY <1>2, <2>1
  <2>2. CASE k \notin 1..p
    <3> DEFINE j == k - p
    <3>1. j \in 1..m /\ p + j = k /\ j - 1 \in 0..m /\ p + (j - 1) = k - 1
      BY <1>1, <2>2
    <3>2. Parser!Reading(text)[k - 1] = Reached(0, kind, Run(out, kind, text, p, j - 1))
      BY <1>7, <3>1
    <3>3. Parser!Reading(text)[k - 1].kind = kind
      BY <3>2 DEF Reached
    <3>4. Mismatch(text, k, TagOf(kind))
      BY <1>5, <3>1
    <3> QED
      BY <3>3, <3>4 DEF Decided
  <2> QED
    BY <2>1, <2>2
<1> QED
  BY <1>4, <1>8, <1>9 DEF p, kind

(* The same of the next state.                                             *)
LEMMA ParserStandsThen ==
    ASSUME NEW p, p = Before',
           Len(out') + Len(buf') <= Len(text'),
           \A i \in 1..Len(buf') : buf'[i] = text'[p + i],
           Parser!Reading(text')[p] = Reached(0, Parser!Kind', out'),
           \A k \in 1..p : Decided(text', k)
    PROVE  ParserStands'
<1>1. Parser!Reading(text)' = Parser!Reading(text')
  BY DEF Parser!Reading, Parser!After
<1>2. ASSUME NEW k PROVE Decided(text, k)' <=> Decided(text', k)
  <2>1. /\ Mismatch(text, k, TagOf(Parser!Reading(text)[k - 1].kind))'
              <=> Mismatch(text', k, TagOf(Parser!Reading(text')[k - 1].kind))
        /\ Parser!TagAt(text, k, TagOf(Parser!Reading(text)[k - 1].kind))'
              <=> Parser!TagAt(text', k, TagOf(Parser!Reading(text')[k - 1].kind))
    BY <1>1 DEF Mismatch, Parser!TagAt, TagOf
  <2> QED
    BY <1>1, <2>1 DEF Decided
<1>3. \A k \in 1..Before' : Decided(text, k)'
  BY <1>2
<1> QED
  BY <1>1, <1>3 DEF ParserStands, Reached

LEMMA ParserFeeds == ASSUME ParserInv, Parser!Feed PROVE ParserInv'
<1> DEFINE p == Before
           b == Len(buf)
           l == Len(text)
<1>1. PICK n \in 1..MaxChunk : \E chunk \in [1..n -> Letters] :
          buf' = buf \o chunk /\ text' = text \o chunk
  BY DEF Parser!Feed
<1>2. PICK chunk \in [1..n -> Letters] : buf' = buf \o chunk /\ text' = text \o chunk
  BY <1>1
<1>3. chunk \in Seq(Letters) /\ Len(chunk) = n /\ n \in Nat
  <2>1. n \in Nat
    OBVIOUS
  <2> QED
    BY <2>1
<1>4. /\ parserPc = "streaming" /\ parserPc' = "feeding" /\ inThink' = inThink
      /\ out' = out /\ parsed' = parsed
  BY DEF Parser!Feed
<1>5. /\ buf \in Seq(Letters) /\ text \in Seq(Letters) /\ out \in Seq(Item)
      /\ b \in Nat /\ l \in Nat /\ Len(out) \in Nat
      /\ p \in Nat /\ p <= l /\ l = p + b
  BY <1>4, ParserTypes
<1>6. inThink \in BOOLEAN /\ parsed \in 0..MaxCalls
  BY ParserTypes
<1>7. /\ Len(out) + b <= l
      /\ \A i \in 1..b : buf[i] = text[p + i]
      /\ Parser!Reading(text)[p] = Reached(0, Parser!Kind, out)
      /\ \A k \in 1..p : Decided(text, k)
  BY <1>4 DEF ParserInv, ParserStands
<1>8. /\ buf' \in Seq(Letters) /\ Len(buf') = b + n
      /\ \A i \in 1..b : buf'[i] = buf[i]
      /\ \A i \in 1..n : buf'[b + i] = chunk[i]
  <2> DEFINE d == buf \o chunk
  <2>1. buf \in Seq(Letters) /\ chunk \in Seq(Letters)
    BY <1>3, <1>5
  <2>2. d \in Seq(Letters) /\ Len(d) = Len(buf) + Len(chunk)
    BY <2>1, Joined
  <2>3. \A i \in 1..Len(buf) : d[i] = buf[i]
    BY <2>1, Joined
  <2>4. \A i \in 1..Len(chunk) : d[Len(buf) + i] = chunk[i]
    BY <2>1, Joined
  <2>5. buf' = d
    BY <1>2
  <2> HIDE DEF d
  <2> QED
    BY <1>3, <2>2, <2>3, <2>4, <2>5 DEF b
<1>9. /\ text' \in Seq(Letters) /\ Len(text') = l + n
      /\ \A i \in 1..l : text'[i] = text[i]
      /\ \A i \in 1..n : text'[l + i] = chunk[i]
  <2> DEFINE d == text \o chunk
  <2>1. text \in Seq(Letters) /\ chunk \in Seq(Letters)
    BY <1>3, <1>5
  <2>2. d \in Seq(Letters) /\ Len(d) = Len(text) + Len(chunk)
    BY <2>1, Joined
  <2>3. \A i \in 1..Len(text) : d[i] = text[i]
    BY <2>1, Joined
  <2>4. \A i \in 1..Len(chunk) : d[Len(text) + i] = chunk[i]
    BY <2>1, Joined
  <2>5. text' = d
    BY <1>2
  <2> HIDE DEF d
  <2> QED
    BY <1>3, <2>2, <2>3, <2>4, <2>5 DEF l
<1>10. p = Before'
  <2>1. Before' = Len(text') - Len(buf')
    BY DEF Before
  <2>2. Len(text') - Len(buf') = p
    <3> HIDE DEF p, b, l
    <3>1. (l + n) - (b + n) = p
      BY <1>3, <1>5
    <3>2. Len(text') = l + n /\ Len(buf') = b + n
      BY <1>8, <1>9
    <3> QED
      BY <3>1, <3>2
  <2> QED
    BY <2>1, <2>2
<1> HIDE DEF p, b, l
<1>11. Len(out') + Len(buf') <= Len(text')
  <2>1. Len(out') = Len(out)
    BY <1>4
  <2>2. Len(buf') = b + n /\ Len(text') = l + n /\ Len(out) + b <= l
    BY <1>7, <1>8, <1>9
  <2>3. Len(out) + (b + n) <= l + n
    BY <1>3, <1>5, <2>2
  <2> QED
    BY <2>1, <2>2, <2>3
<1>12. ASSUME NEW i \in 1..Len(buf') PROVE buf'[i] = text'[p + i]
  <2>1. CASE i <= b
    <3>1. i \in 1..b /\ p + i \in 1..l
      BY <1>3, <1>5, <1>8, <2>1
    <3> QED
      BY <1>7, <1>8, <1>9, <3>1
  <2>2. CASE ~ (i <= b)
    <3>1. i \in 1..(b + n)
      BY <1>8
    <3>2. i - b \in 1..n
      BY <1>3, <1>5, <2>2, <3>1
    <3>3. b + (i - b) = i
      BY <1>3, <1>5, <3>1
    <3>4. l + (i - b) = p + i
      BY <1>3, <1>5, <3>1
    <3> QED
      BY <1>8, <1>9, <3>2, <3>3, <3>4
  <2> QED
    BY <2>1, <2>2
<1>13. /\ Parser!Reading(text')[p] = Parser!Reading(text)[p]
       /\ \A k \in 1..p : Decided(text', k)
  <2>1. Len(text) <= Len(text') /\ p <= Len(text)
    BY <1>3, <1>5, <1>9 DEF l
  <2>2. \A i \in 1..Len(text) : text'[i] = text[i]
    BY <1>9 DEF l
  <2>3. text \in Seq(Letters) /\ text' \in Seq(Letters) /\ p \in Nat
    BY <1>5, <1>9
  <2>4. \A k \in 1..p : Decided(text, k)
    BY <1>7
  <2> QED
    BY <2>1, <2>2, <2>3, <2>4, ReadingGoesOn
<1>14. Parser!Kind' = Parser!Kind
  BY <1>4 DEF Parser!Kind
<1>15. Parser!Reading(text')[p] = Reached(0, Parser!Kind', out')
  BY <1>4, <1>7, <1>13, <1>14
<1>16. ParserStands'
  BY <1>10, <1>11, <1>12, <1>13, <1>15, ParserStandsThen
<1>17. Parser!TypeOK'
  <2>1. inThink' \in BOOLEAN
    BY <1>4, <1>6
  <2>2. parsed' \in 0..MaxCalls
    BY <1>4, <1>6
  <2>3. parserPc' \in {"idle", "streaming", "feeding"}
    BY <1>4
  <2> QED
    BY <1>8, <1>11, <2>1, <2>2, <2>3 DEF Parser!TypeOK
<1>18. out' \in Seq(Item)
  BY <1>4, <1>5
<1> QED
  BY <1>4, <1>9, <1>16, <1>17, <1>18 DEF ParserInv, Parser!HeldMayBeTag

(* The first d characters of what is held back are given up.               *)
LEMMA ParserDrops ==
    ASSUME ParserInv, parserPc # "idle", NEW d \in Nat, d <= Len(buf),
           buf' = SubSeq(buf, d + 1, Len(buf)), text' = text
    PROVE  /\ buf' \in Seq(Letters) /\ Len(buf') = Len(buf) - d
           /\ Before' = Before + d
           /\ \A i \in 1..Len(buf') : d + i \in 1..Len(buf) /\ buf'[i] = buf[d + i]
           /\ \A i \in 1..Len(buf') : buf'[i] = text'[(Before + d) + i]
<1> DEFINE p == Before
           b == Len(buf)
           c == SubSeq(buf, d + 1, b)
<1>1. /\ buf \in Seq(Letters) /\ b \in Nat /\ Len(text) \in Nat
      /\ p \in Nat /\ Len(text) = p + b
  BY ParserTypes
<1>2. d + 1 \in Nat /\ 1 <= d + 1 /\ d + 1 <= b + 1 /\ b <= Len(buf) /\ b + 1 - (d + 1) = b - d
  BY <1>1
<1>3. /\ c \in Seq(Letters) /\ Len(c) = b + 1 - (d + 1)
      /\ \A i \in 1..(b + 1 - (d + 1)) : c[i] = buf[d + 1 + i - 1]
  BY <1>1, <1>2, Part
<1>4. \A i \in 1..b : buf[i] = text[p + i]
  BY DEF ParserInv, ParserStands
<1>5. Before' = Len(text') - Len(buf')
  BY DEF Before
<1>6. buf' = c /\ text' = text /\ d <= b
  OBVIOUS
<1> HIDE DEF c, b, p
<1>7. buf' \in Seq(Letters) /\ Len(buf') = b - d
  BY <1>2, <1>3, <1>6
<1>8. Before' = p + d
  <2>1. Len(text') = p + b
    BY <1>1, <1>6
  <2>2. Len(buf') = b - d
    BY <1>7
  <2>3. (p + b) - (b - d) = p + d
    BY <1>1
  <2> QED
    BY <1>5, <2>1, <2>2, <2>3
<1>9. ASSUME NEW i \in 1..Len(buf')
      PROVE  d + i \in 1..b /\ buf'[i] = buf[d + i] /\ buf'[i] = text'[(p + d) + i]
  <2>1. i \in 1..(b - d) /\ d + i \in 1..b /\ d + 1 + i - 1 = d + i /\ p + (d + i) = (p + d) + i
    BY <1>1, <1>6, <1>7
  <2>2. buf'[i] = buf[d + i]
    BY <1>2, <1>3, <1>6, <2>1
  <2>3. buf[d + i] = text[(p + d) + i]
    BY <1>4, <2>1
  <2> QED
    BY <1>6, <2>1, <2>2, <2>3
<1> QED
  BY <1>7, <1>8, <1>9 DEF b, p

LEMMA ParserFindsTag == ASSUME ParserInv, Parser!TagFound PROVE ParserInv'
<1> DEFINE p == Before
           kind == Parser!Kind
           tag == TagOf(kind)
           m == Len(tag)
           b == Len(buf)
           k == Parser!Find(buf, tag)
           d == k + m - 1
<1>1. /\ parserPc = "feeding" /\ parserPc' = "feeding" /\ text' = text /\ parsed' = parsed
      /\ inThink' = ~ inThink
  BY DEF Parser!TagFound
<1>2. /\ buf \in Seq(Letters) /\ text \in Seq(Letters) /\ out \in Seq(Item)
      /\ b \in Nat /\ Len(text) \in Nat /\ Len(out) \in Nat
      /\ kind \in {"reasoning", "content"} /\ Parser!Tag = tag
      /\ p \in Nat /\ Len(text) = p + b
  BY <1>1, ParserTypes
<1>3. inThink \in BOOLEAN /\ parsed \in 0..MaxCalls
  BY ParserTypes
<1>4. /\ Parser!Occurs(buf, tag)
      /\ out' = out \o Parser!Emitted(kind, SubSeq(buf, 1, k - 1))
      /\ buf' = SubSeq(buf, k + m, b)
  <2>1. /\ Parser!Occurs(buf, Parser!Tag)
        /\ out' = out \o Parser!Emitted(kind, SubSeq(buf, 1, Parser!Find(buf, Parser!Tag) - 1))
        /\ buf' = SubSeq(buf, Parser!Find(buf, Parser!Tag) + Len(Parser!Tag), Len(buf))
    BY DEF Parser!TagFound
  <2>2. Parser!Tag = tag
    BY <1>2
  <2> HIDE DEF tag, kind
  <2> QED
    BY <2>1, <2>2
<1>5. m \in Nat /\ m >= 1
  BY Tags
<1> HIDE DEF p, kind, tag, m, b, k, d
<1>6. k \in Parser!Places(buf, tag) /\ \A j \in Parser!Places(buf, tag) : k <= j
  <2>1. Parser!Places(buf, tag) \in SUBSET Nat
    BY <1>2 DEF Parser!Places
  <2>2. Parser!Places(buf, tag) # {}
    BY <1>4 DEF Parser!Occurs
  <2>3. \E x \in Parser!Places(buf, tag) : \A y \in Parser!Places(buf, tag) : x <= y
    BY <2>1, <2>2, LeastNatural
  <2> QED
    BY <2>3 DEF k, Parser!Find
<1>7. k \in 1..b /\ k \in Nat /\ k >= 1 /\ Parser!TagAt(buf, k, tag)
  BY <1>2, <1>6 DEF Parser!Places, b
<1>8. d \in Nat /\ d <= b /\ d + 1 = k + m /\ d = k + (m - 1)
  <2>1. k + m - 1 <= b
    BY <1>7 DEF Parser!TagAt, m, b
  <2> QED
    BY <1>2, <1>5, <1>7, <2>1 DEF d
<1>9. \A i \in 1..b : buf[i] = text[p + i]
  BY <1>1 DEF ParserInv, ParserStands, p, b
<1>10. ASSUME NEW j \in 1..(k - 1) PROVE Mismatch(buf, j, Parser!Tag)
  <2>1. /\ j \in Nat /\ j >= 1 /\ j \in 1..b /\ ~ (k <= j) /\ j + m - 1 <= b
    BY <1>2, <1>5, <1>7, <1>8 DEF d
  <2>2. ~ Parser!TagAt(buf, j, tag)
    BY <1>2, <1>6, <2>1 DEF Parser!Places, b
  <2>3. Mismatch(buf, j, tag)
    <3>1. \A i \in 1..Len(buf) : buf[i] = text[p + i]
      BY <1>9 DEF b
    <3>2. Len(text) = p + Len(buf) /\ j + Len(TagOf(kind)) - 1 <= Len(buf) /\ ~ Parser!TagAt(buf, j, TagOf(kind))
      BY <1>2, <2>1, <2>2 DEF b, m, tag
    <3>3. Mismatch(buf, j, TagOf(kind))
      BY <1>2, <2>1, <3>1, <3>2, InText
    <3> QED
      BY <3>3 DEF tag
  <2> QED
    BY <1>2, <2>3
<1>11. /\ out' \in Seq(Item) /\ Len(out') = Len(out) + (k - 1)
       /\ Parser!Reading(text)[p + (k - 1)] = Reached(0, kind, out')
       /\ \A q \in 1..(p + (k - 1)) : Decided(text, q)
  <2>1. k - 1 \in Nat /\ k - 1 <= Len(buf)
    BY <1>2, <1>7 DEF b
  <2>2. out' = Emits(out, Parser!Kind, SubSeq(buf, 1, k - 1))
    BY <1>4 DEF Emits, kind
  <2>3. /\ out' \in Seq(Item) /\ Len(out') = Len(out) + (k - 1)
        /\ Parser!Reading(text)[Before + (k - 1)] = Reached(0, Parser!Kind, out')
        /\ \A q \in 1..(Before + (k - 1)) : Decided(text, q)
    BY <1>1, <1>10, <2>1, <2>2, ParserPasses
  <2> QED
    BY <2>3 DEF p, kind
<1>12. Parser!TagAt(text, p + k, tag)
  <2>1. \A i \in 1..Len(buf) : buf[i] = text[p + i]
    BY <1>9 DEF b
  <2>2. Len(text) = p + Len(buf) /\ Parser!TagAt(buf, k, TagOf(kind))
    BY <1>2, <1>7 DEF b, tag
  <2>3. Parser!TagAt(text, p + k, TagOf(kind))
    BY <1>2, <1>7, <2>1, <2>2, InText
  <2> QED
    BY <2>3 DEF tag
<1>13. Parser!Reading(text)[p + k] = Reached(m - 1, Other(kind), out')
  <2>1. p + (k - 1) \in Nat /\ p + (k - 1) + 1 = p + k
    BY <1>2, <1>7
  <2>2. Parser!Reading(text)[p + (k - 1) + 1]
            = Parser!After(Parser!Reading(text)[p + (k - 1)], text, p + (k - 1) + 1)
    BY <2>1, ReadingSteps
  <2>3. Parser!Reading(text)[p + k] = Parser!After(Reached(0, kind, out'), text, p + k)
    BY <1>11, <2>1, <2>2
  <2>4. Parser!After(Reached(0, kind, out'), text, p + k) = Reached(Len(TagOf(kind)) - 1, Other(kind), out')
    BY <1>12, AfterTag DEF tag
  <2> QED
    BY <2>3, <2>4 DEF m, tag
<1>14. \A i \in 0..(m - 1) : Parser!Reading(text)[(p + k) + i] = Reached((m - 1) - i, Other(kind), out')
  <2>1. m - 1 \in Nat /\ p + k \in Nat
    BY <1>2, <1>5, <1>7
  <2> QED
    BY <1>13, <2>1, TagPassed
<1>15. Parser!Reading(text)[p + d] = Reached(0, Other(kind), out')
  <2>1. m - 1 \in 0..(m - 1) /\ (p + k) + (m - 1) = p + d /\ (m - 1) - (m - 1) = 0
    BY <1>2, <1>5, <1>7, <1>8
  <2> QED
    BY <1>14, <2>1
<1>16. ASSUME NEW q \in 1..(p + d) PROVE Decided(text, q)
  <2>1. CASE q \in 1..(p + (k - 1))
    BY <1>11, <2>1
  <2>2. CASE q = p + k
    <3>1. q - 1 = p + (k - 1)
      BY <1>2, <1>7, <2>2
    <3>2. Parser!Reading(text)[q - 1].kind = kind
      BY <1>11, <3>1 DEF Reached
    <3> QED
      BY <1>12, <2>2, <3>2 DEF Decided, tag
  <2>3. CASE q \notin 1..(p + (k - 1)) /\ q # p + k
    <3> DEFINE i == (q - 1) - (p + k)
    <3>1. i \in 0..(m - 1) /\ (p + k) + i = q - 1 /\ (m - 1) - i > 0
      BY <1>2, <1>5, <1>7, <1>8, <2>3
    <3> HIDE DEF i
    <3>2. Parser!Reading(text)[(p + k) + i] = Reached((m - 1) - i, Other(kind), out')
      BY <1>14, <3>1
    <3>3. (p + k) + i = q - 1
      BY <3>1
    <3>4. Parser!Reading(text)[q - 1] = Reached((m - 1) - i, Other(kind), out')
      BY <3>2, <3>3
    <3>5. Parser!Reading(text)[q - 1].skip = (m - 1) - i
      BY <3>4 DEF Reached
    <3> QED
      BY <3>1, <3>5 DEF Decided
  <2> QED
    BY <2>1, <2>2, <2>3
<1>17. /\ buf' \in Seq(Letters) /\ Len(buf') = b - d
       /\ Before' = p + d
       /\ \A i \in 1..Len(buf') : buf'[i] = text'[(p + d) + i]
  <2>1. d <= Len(buf) /\ buf' = SubSeq(buf, d + 1, Len(buf))
    BY <1>4, <1>8 DEF b
  <2>2. /\ buf' \in Seq(Letters) /\ Len(buf') = Len(buf) - d
        /\ Before' = Before + d
        /\ \A i \in 1..Len(buf') : buf'[i] = text'[(Before + d) + i]
    BY <1>1, <1>8, <2>1, ParserDrops
  <2> QED
    BY <2>2 DEF p, b
<1>18. Parser!Kind' = Other(kind)
  BY <1>1, <1>3 DEF Parser!Kind, Other, kind
<1>19. Len(out') + Len(buf') <= Len(text')
  <2>1. Len(out) + b <= Len(text)
    BY <1>1 DEF ParserInv, ParserStands, b
  <2>2. Len(out') = Len(out) + (k - 1) /\ Len(buf') = b - d
    BY <1>11, <1>17
  <2>3. Len(text') = Len(text)
    BY <1>1
  <2> QED
    BY <1>2, <1>5, <1>7, <1>8, <2>1, <2>2, <2>3
<1>20. ParserStands'
  <2>1. Parser!Reading(text')[p + d] = Reached(0, Parser!Kind', out')
    BY <1>1, <1>15, <1>18
  <2>2. \A q \in 1..(p + d) : Decided(text', q)
    BY <1>1, <1>16
  <2>3. p + d = Before' /\ \A i \in 1..Len(buf') : buf'[i] = text'[(p + d) + i]
    BY <1>17
  <2> QED
    BY <1>19, <2>1, <2>2, <2>3, ParserStandsThen
<1>21. Parser!TypeOK'
  <2>1. inThink' \in BOOLEAN
    BY <1>1, <1>3
  <2>2. parsed' \in 0..MaxCalls
    BY <1>1, <1>3
  <2>3. parserPc' \in {"idle", "streaming", "feeding"}
    BY <1>1
  <2>4. buf' \in Seq(Letters)
    BY <1>17
  <2> QED
    BY <1>19, <2>1, <2>2, <2>3, <2>4 DEF Parser!TypeOK
<1>22. out' \in Seq(Item) /\ text' \in Seq(Letters)
  BY <1>1, <1>2, <1>11
<1> QED
  BY <1>1, <1>20, <1>21, <1>22 DEF ParserInv, Parser!HeldMayBeTag

(* The longest end of a text that a tag may begin with.                    *)
LEMMA LongestFit ==
    ASSUME NEW s \in Seq(Letters), NEW kind
    PROVE  /\ Parser!Holdback(s, TagOf(kind)) \in Parser!Fits(s, TagOf(kind))
           /\ \A n \in Parser!Fits(s, TagOf(kind)) : n <= Parser!Holdback(s, TagOf(kind))
<1> DEFINE tag == TagOf(kind)
           m == Len(tag)
           F == Parser!Fits(s, tag)
           R == {x \in Nat : \E n \in F : x = m - n}
<1>1. m \in Nat /\ m >= 1
  BY Tags
<1>2. Len(s) \in Nat
  OBVIOUS
<1> HIDE DEF tag
<1>3. 0 \in F
  BY <1>1, <1>2 DEF Parser!Fits
<1>4. \A n \in F : n \in 0..(m - 1)
  BY DEF Parser!Fits
<1> HIDE DEF F, m
<1>5. \A n \in F : m - n \in R
  BY <1>1, <1>4
<1>6. PICK x \in R : \A y \in R : x <= y
  <2>1. R \in SUBSET Nat /\ R # {}
    BY <1>3, <1>5
  <2> HIDE DEF R
  <2> QED
    BY <2>1, LeastNatural
<1>7. PICK h \in F : x = m - h
  BY <1>6
<1>8. ASSUME NEW n \in F PROVE n <= h
  <2>1. x <= m - n
    BY <1>5, <1>6
  <2>2. n \in 0..(m - 1) /\ h \in 0..(m - 1)
    BY <1>4
  <2> QED
    BY <1>1, <1>7, <2>1, <2>2
<1>9. \E y \in F : \A n \in F : n <= y
  BY <1>8
<1> QED
  BY <1>9 DEF F, tag, Parser!Holdback

LEMMA ParserHolds == ASSUME ParserInv, Parser!Hold PROVE ParserInv'
<1> DEFINE p == Before
           kind == Parser!Kind
           tag == TagOf(kind)
           m == Len(tag)
           b == Len(buf)
           h == Parser!Holdback(buf, tag)
           d == b - h
<1>1. /\ parserPc = "feeding" /\ parserPc' = "streaming" /\ text' = text /\ parsed' = parsed
      /\ inThink' = inThink
  BY DEF Parser!Hold
<1>2. /\ buf \in Seq(Letters) /\ text \in Seq(Letters) /\ out \in Seq(Item)
      /\ b \in Nat /\ Len(text) \in Nat /\ Len(out) \in Nat
      /\ kind \in {"reasoning", "content"} /\ Parser!Tag = tag
      /\ p \in Nat /\ Len(text) = p + b
  BY <1>1, ParserTypes
<1>3. inThink \in BOOLEAN /\ parsed \in 0..MaxCalls
  BY ParserTypes
<1>4. /\ ~ Parser!Occurs(buf, tag)
      /\ out' = out \o Parser!Emitted(kind, SubSeq(buf, 1, d))
      /\ buf' = SubSeq(buf, d + 1, b)
  <2>1. /\ ~ Parser!Occurs(buf, Parser!Tag)
        /\ out' = out \o Parser!Emitted(kind, SubSeq(buf, 1, Len(buf) - Parser!Holdback(buf, Parser!Tag)))
        /\ buf' = SubSeq(buf, Len(buf) - Parser!Holdback(buf, Parser!Tag) + 1, Len(buf))
    BY DEF Parser!Hold
  <2>2. Parser!Tag = tag
    BY <1>2
  <2> HIDE DEF tag, kind
  <2> QED
    BY <2>1, <2>2
<1>5. m \in Nat /\ m >= 1 /\ DOMAIN tag = 1..m /\ tag \in Seq(Letters)
  BY Tags
<1>6. h \in Parser!Fits(buf, tag) /\ \A n \in Parser!Fits(buf, tag) : n <= h
  BY <1>2, LongestFit
<1> HIDE DEF p, kind, tag, m, b, h, d
<1>7. h \in 0..(m - 1) /\ h <= b /\ \A j \in 1..h : buf[b - h + j] = tag[j]
  BY <1>6 DEF Parser!Fits, m, b
<1>8. d \in Nat /\ d <= b /\ b - d = h
  BY <1>2, <1>5, <1>7 DEF d
<1>9. \A i \in 1..b : buf[i] = text[p + i]
  BY <1>1 DEF ParserInv, ParserStands, p, b
<1>10. ASSUME NEW j \in 1..d PROVE Mismatch(buf, j, tag)
  <2>1. j \in Nat /\ j >= 1 /\ j \in 1..b
    BY <1>2, <1>8
  <2>2. CASE j + m - 1 <= b
    <3>1. ~ Parser!TagAt(buf, j, tag)
      BY <1>2, <1>4, <2>1 DEF Parser!Occurs, Parser!Places, b
    <3>2. \A i \in 1..Len(buf) : buf[i] = text[p + i]
      BY <1>9 DEF b
    <3>3. Len(text) = p + Len(buf) /\ j + Len(TagOf(kind)) - 1 <= Len(buf) /\ ~ Parser!TagAt(buf, j, TagOf(kind))
      BY <1>2, <2>2, <3>1 DEF b, m, tag
    <3>4. Mismatch(buf, j, TagOf(kind))
      BY <1>2, <2>1, <3>2, <3>3, InText
    <3> QED
      BY <3>4 DEF tag
  <2>3. CASE ~ (j + m - 1 <= b)
    <3> DEFINE n == b - j + 1
    <3>1. n \in 0..(m - 1) /\ n <= b /\ ~ (n <= h)
      BY <1>2, <1>5, <1>7, <1>8, <2>1, <2>3
    <3>2. n \notin Parser!Fits(buf, tag)
      BY <1>6, <3>1
    <3>3. PICK i \in 1..n : buf[b - n + i] # tag[i]
      <4> HIDE DEF n
      <4> QED
        BY <3>1, <3>2 DEF Parser!Fits, m, b
    <3>4. i \in 1..m /\ b - n + i = j + i - 1 /\ j + i - 1 <= b
      BY <1>2, <1>5, <2>1, <3>1
    <3>5. buf[j + i - 1] # tag[i]
      BY <3>3, <3>4
    <3> QED
      BY <1>5, <3>4, <3>5 DEF Mismatch, b
  <2> QED
    BY <2>2, <2>3
<1>11. /\ out' \in Seq(Item) /\ Len(out') = Len(out) + d
       /\ Parser!Reading(text)[p + d] = Reached(0, kind, out')
       /\ \A q \in 1..(p + d) : Decided(text, q)
  <2>1. d \in Nat /\ d <= Len(buf)
    BY <1>8 DEF b
  <2>2. out' = Emits(out, Parser!Kind, SubSeq(buf, 1, d))
    BY <1>4 DEF Emits, kind
  <2>3. \A j \in 1..d : Mismatch(buf, j, Parser!Tag)
    BY <1>2, <1>10
  <2>4. /\ out' \in Seq(Item) /\ Len(out') = Len(out) + d
        /\ Parser!Reading(text)[Before + d] = Reached(0, Parser!Kind, out')
        /\ \A q \in 1..(Before + d) : Decided(text, q)
    BY <1>1, <2>1, <2>2, <2>3, ParserPasses
  <2> QED
    BY <2>4 DEF p, kind
<1>12. /\ buf' \in Seq(Letters) /\ Len(buf') = b - d
       /\ Before' = p + d
       /\ \A i \in 1..Len(buf') : d + i \in 1..b /\ buf'[i] = buf[d + i]
       /\ \A i \in 1..Len(buf') : buf'[i] = text'[(p + d) + i]
  <2>1. d <= Len(buf) /\ buf' = SubSeq(buf, d + 1, Len(buf))
    BY <1>4, <1>8 DEF b
  <2>2. /\ buf' \in Seq(Letters) /\ Len(buf') = Len(buf) - d
        /\ Before' = Before + d
        /\ \A i \in 1..Len(buf') : d + i \in 1..Len(buf) /\ buf'[i] = buf[d + i]
        /\ \A i \in 1..Len(buf') : buf'[i] = text'[(Before + d) + i]
    BY <1>1, <1>8, <2>1, ParserDrops
  <2> QED
    BY <2>2 DEF p, b
<1>13. Parser!Kind' = kind /\ Parser!Tag' = tag
  <2>1. Parser!Kind' = Parser!Kind /\ Parser!Tag' = Parser!Tag
    BY <1>1 DEF Parser!Kind, Parser!Tag
  <2> QED
    BY <1>2, <2>1 DEF kind
<1>14. Len(out') + Len(buf') <= Len(text')
  <2>1. Len(out) + b <= Len(text)
    BY <1>1 DEF ParserInv, ParserStands, b
  <2>2. Len(out') = Len(out) + d /\ Len(buf') = b - d
    BY <1>11, <1>12
  <2>3. Len(text') = Len(text)
    BY <1>1
  <2> QED
    BY <1>2, <1>8, <2>1, <2>2, <2>3
<1>15. ParserStands'
  <2>1. Parser!Reading(text')[p + d] = Reached(0, Parser!Kind', out')
    BY <1>1, <1>11, <1>13
  <2>2. \A q \in 1..(p + d) : Decided(text', q)
    BY <1>1, <1>11
  <2>3. p + d = Before' /\ \A i \in 1..Len(buf') : buf'[i] = text'[(p + d) + i]
    BY <1>12
  <2> QED
    BY <1>14, <2>1, <2>2, <2>3, ParserStandsThen
<1>16. Parser!HeldMayBeTag'
  <2> DEFINE c == SubSeq(buf', 1, h)
             t == SubSeq(tag, 1, h)
  <2>1. Len(buf') = h /\ h < m /\ h \in Nat /\ 1 \in Nat /\ 1 <= 1 /\ 1 <= h + 1 /\ h + 1 - 1 = h
    BY <1>5, <1>7, <1>8, <1>12
  <2>2. c \in Seq(Letters) /\ Len(c) = h + 1 - 1 /\ \A i \in 1..(h + 1 - 1) : c[i] = buf'[1 + i - 1]
    <3>1. h <= Len(buf') /\ buf' \in Seq(Letters)
      BY <1>12, <2>1
    <3> QED
      BY <2>1, <3>1, Part
  <2>3. t \in Seq(Letters) /\ Len(t) = h + 1 - 1 /\ \A i \in 1..(h + 1 - 1) : t[i] = tag[1 + i - 1]
    <3>1. h <= Len(tag)
      BY <1>5, <2>1 DEF m
    <3> QED
      BY <1>5, <2>1, <3>1, Part
  <2> HIDE DEF c, t
  <2>4. ASSUME NEW i \in 1..h PROVE c[i] = t[i]
    <3>1. 1 + i - 1 = i /\ b - h + i = d + i
      BY <2>1 DEF d
    <3>2. c[i] = buf'[i] /\ t[i] = tag[i]
      BY <2>1, <2>2, <2>3, <3>1
    <3>3. buf'[i] = buf[d + i]
      BY <1>12, <2>1
    <3>4. buf[d + i] = tag[i]
      BY <1>7, <3>1
    <3> QED
      BY <3>2, <3>3, <3>4
  <2>5. c = [i \in 1..h |-> c[i]] /\ t = [i \in 1..h |-> t[i]]
    <3>1. Len(c) = h /\ Len(t) = h
      BY <2>1, <2>2, <2>3
    <3>2. c = [i \in 1..Len(c) |-> c[i]]
      BY <2>2
    <3>3. t = [i \in 1..Len(t) |-> t[i]]
      BY <2>3
    <3> QED
      BY <3>1, <3>2, <3>3
  <2>6. c = t
    BY <2>4, <2>5
  <2>7. SubSeq(buf', 1, Len(buf')) = SubSeq(Parser!Tag', 1, Len(buf'))
    BY <1>13, <2>1, <2>6 DEF c, t
  <2>8. Len(buf') < Len(Parser!Tag') /\ Len(buf') <= Len(Parser!Tag')
    BY <1>5, <1>13, <2>1 DEF m
  <2> QED
    BY <2>7, <2>8 DEF Parser!HeldMayBeTag, Parser!IsPrefix
<1>17. Parser!TypeOK'
  <2>1. inThink' \in BOOLEAN
    BY <1>1, <1>3
  <2>2. parsed' \in 0..MaxCalls
    BY <1>1, <1>3
  <2>3. parserPc' \in {"idle", "streaming", "feeding"}
    BY <1>1
  <2>4. buf' \in Seq(Letters)
    BY <1>12
  <2> QED
    BY <1>14, <2>1, <2>2, <2>3, <2>4 DEF Parser!TypeOK
<1>18. out' \in Seq(Item) /\ text' \in Seq(Letters)
  BY <1>1, <1>2, <1>11
<1> QED
  BY <1>1, <1>15, <1>16, <1>17, <1>18 DEF ParserInv

(* What is held back begins no tag: between two chunks it reads as it is.  *)
LEMMA ParserAgrees ==
    ASSUME ParserInv, parserPc = "streaming"
    PROVE  /\ Emits(out, Parser!Kind, buf) = Parser!Split(text)
           /\ Emits(out, Parser!Kind, buf) \in Seq(Item)
<1> DEFINE p == Before
           kind == Parser!Kind
           b == Len(buf)
<1>1. /\ buf \in Seq(Letters) /\ text \in Seq(Letters) /\ out \in Seq(Item)
      /\ b \in Nat /\ kind \in {"reasoning", "content"} /\ Parser!Tag = TagOf(kind)
      /\ p \in Nat /\ Len(text) = p + b
  BY ParserTypes
<1>2. \A i \in 1..b : buf[i] = text[p + i]
  BY DEF ParserInv, ParserStands
<1>3. Parser!Reading(text)[p] = Reached(0, kind, out)
  BY DEF ParserInv, ParserStands
<1>4. b < Len(TagOf(kind)) /\ Len(TagOf(kind)) \in Nat
  <2>1. Len(buf) < Len(Parser!Tag)
    BY DEF ParserInv, Parser!HeldMayBeTag
  <2>2. Parser!Tag = TagOf(kind)
    BY <1>1
  <2> HIDE DEF kind
  <2> QED
    BY <2>1, <2>2, Tags
<1> HIDE DEF p, kind
<1>5. NoTagIn(text, p, b, kind)
  <2> SUFFICES ASSUME NEW j \in 1..b PROVE ~ Parser!TagAt(text, p + j, TagOf(kind))
    BY DEF NoTagIn
  <2>1. j \in Nat /\ j >= 1 /\ ~ (j + Len(TagOf(kind)) - 1 <= b)
    BY <1>1, <1>4
  <2> QED
    BY <1>1, <1>2, <2>1, InText
<1>6. \A j \in 0..b : Parser!Reading(text)[p + j] = Reached(0, kind, Run(out, kind, text, p, j))
  <2>1. p + b <= Len(text)
    BY <1>1
  <2>2. /\ text \in Seq(Letters) /\ out \in Seq(Item) /\ kind \in {"reasoning", "content"}
        /\ p \in Nat /\ b \in Nat
    BY <1>1
  <2> HIDE DEF b
  <2> QED
    BY <1>3, <1>5, <2>1, <2>2, PlainRun
<1>7. Parser!Reading(text)[Len(text)] = Reached(0, kind, Run(out, kind, text, p, b))
  <2>1. b \in 0..b /\ p + b = Len(text)
    BY <1>1
  <2> HIDE DEF b
  <2> QED
    BY <1>6, <2>1
<1>8. Parser!Split(text) = Run(out, kind, text, p, b)
  BY <1>7 DEF Parser!Split, Reached
<1>9. IsRun(Emits(out, kind, buf), out, kind, text, p, b)
  <2>1. Follows(buf, text, p, b)
    BY <1>2 DEF Follows
  <2>2. /\ buf \in Seq(Letters) /\ out \in Seq(Item) /\ kind \in {"reasoning", "content"}
        /\ p \in Nat /\ Len(buf) = b
    BY <1>1
  <2> HIDE DEF b
  <2> QED
    BY <2>1, <2>2, EmittedIsRun
<1> QED
  BY <1>8, <1>9 DEF IsRun, kind

LEMMA ParserFlushes == ASSUME ParserInv, Parser!Flush PROVE ParserInv'
<1>1. /\ parserPc = "streaming" /\ parserPc' = "idle" /\ text' = text /\ parsed' = parsed
      /\ buf' = <<>> /\ out' = Emits(out, Parser!Kind, buf)
  BY DEF Parser!Flush, Emits
<1>2. inThink' \in BOOLEAN
  <2>1. inThink' = IF buf = <<>> THEN inThink ELSE FALSE
    BY DEF Parser!Flush
  <2>2. inThink \in BOOLEAN
    BY ParserTypes
  <2>3. CASE buf = <<>>
    BY <2>1, <2>2, <2>3
  <2>4. CASE buf # <<>>
    BY <2>1, <2>4
  <2> QED
    BY <2>3, <2>4
<1>3. text' \in Seq(Letters) /\ parsed' \in 0..MaxCalls
  BY <1>1, ParserTypes
<1>4. out' = Parser!Split(text) /\ out' \in Seq(Item)
  BY <1>1, ParserAgrees
<1>5. Parser!Split(text)' = Parser!Split(text)
  BY <1>1 DEF Parser!Split, Parser!Reading, Parser!After
<1>6. Parser!TypeOK'
  <2>1. buf' \in Seq(Letters)
    BY <1>1
  <2>2. parserPc' = "idle" /\ parserPc' \in {"idle", "streaming", "feeding"}
    BY <1>1
  <2> QED
    BY <1>2, <1>3, <2>1, <2>2 DEF Parser!TypeOK
<1> QED
  BY <1>1, <1>3, <1>4, <1>5, <1>6 DEF ParserInv, Parser!HeldMayBeTag, ParserStands

LEMMA ParserAbandons == ASSUME ParserInv, Parser!Abandon PROVE ParserInv'
<1>1. /\ parserPc' = "idle" /\ text' = text /\ parsed' = parsed
      /\ buf' = buf /\ inThink' = inThink /\ out' = <<>>
  BY DEF Parser!Abandon
<1>2. inThink \in BOOLEAN /\ buf \in Seq(Letters) /\ text \in Seq(Letters) /\ parsed \in 0..MaxCalls
  BY ParserTypes
<1>3. out' \in Seq(Item)
  BY <1>1
<1>4. Parser!TypeOK'
  <2>1. inThink' \in BOOLEAN
    BY <1>1, <1>2
  <2>2. parsed' \in 0..MaxCalls
    BY <1>1, <1>2
  <2>3. parserPc' = "idle" /\ parserPc' \in {"idle", "streaming", "feeding"}
    BY <1>1
  <2>4. buf' \in Seq(Letters)
    BY <1>1, <1>2
  <2> QED
    BY <2>1, <2>2, <2>3, <2>4 DEF Parser!TypeOK
<1> QED
  BY <1>1, <1>2, <1>3, <1>4 DEF ParserInv, Parser!HeldMayBeTag, ParserStands

LEMMA ParserRests == ASSUME ParserInv, UNCHANGED parserVars PROVE ParserInv'
<1>1. /\ parserPc' = parserPc /\ text' = text /\ parsed' = parsed
      /\ buf' = buf /\ inThink' = inThink /\ out' = out
  BY DEF parserVars
<1>2. Parser!TypeOK' /\ Parser!HeldMayBeTag'
  <2>1. Parser!TypeOK'
    <3>1. inThink' \in BOOLEAN
      BY <1>1, ParserTypes
    <3>2. /\ parserPc \in {"idle", "streaming", "feeding"} /\ buf \in Seq(Letters)
          /\ Len(out) + Len(buf) <= Len(text) \/ parserPc = "idle"
          /\ parsed \in 0..MaxCalls
      BY DEF ParserInv, Parser!TypeOK
    <3> QED
      BY <1>1, <3>1, <3>2 DEF Parser!TypeOK
  <2>2. Parser!HeldMayBeTag'
    <3>1. Parser!Tag' = Parser!Tag
      BY <1>1 DEF Parser!Tag
    <3>2. Parser!HeldMayBeTag
      BY DEF ParserInv
    <3> QED
      BY <1>1, <3>1, <3>2 DEF Parser!HeldMayBeTag, Parser!IsPrefix
  <2> QED
    BY <2>1, <2>2
<1>3. text' \in Seq(Letters) /\ out' \in Seq(Item)
  BY <1>1, ParserTypes
<1>4. Parser!Split(text)' = Parser!Split(text)
  BY <1>1 DEF Parser!Split, Parser!Reading, Parser!After
<1>5. ParserStands'
  <2>1. CASE parserPc = "idle"
    BY <1>1, <2>1 DEF ParserStands
  <2>2. CASE parserPc # "idle"
    <3>1. /\ Len(out) + Len(buf) <= Len(text)
          /\ \A i \in 1..Len(buf) : buf[i] = text[Before + i]
          /\ Parser!Reading(text)[Before] = Reached(0, Parser!Kind, out)
          /\ \A k \in 1..Before : Decided(text, k)
      BY <2>2 DEF ParserInv, ParserStands
    <3>2. Before' = Before /\ Parser!Kind' = Parser!Kind
      BY <1>1 DEF Before, Parser!Kind
    <3>3. Len(out') + Len(buf') <= Len(text')
      BY <1>1, <3>1
    <3>4. \A i \in 1..Len(buf') : buf'[i] = text'[Before + i]
      BY <1>1, <3>1
    <3>5. Parser!Reading(text')[Before] = Reached(0, Parser!Kind', out')
      BY <1>1, <3>1, <3>2
    <3>6. \A k \in 1..Before : Decided(text', k)
      BY <1>1, <3>1
    <3> QED
      BY <3>2, <3>3, <3>4, <3>5, <3>6, ParserStandsThen
  <2> QED
    BY <2>1, <2>2
<1> QED
  BY <1>1, <1>2, <1>3, <1>4, <1>5 DEF ParserInv

LEMMA ParserGoesOn == ParserInv /\ [Parser!Next]_parserVars => ParserInv'
<1> SUFFICES ASSUME ParserInv, [Parser!Next]_parserVars PROVE ParserInv'
  OBVIOUS
<1>1. CASE Parser!Reset
  BY <1>1, ParserResets
<1>2. CASE Parser!Feed
  BY <1>2, ParserFeeds
<1>3. CASE Parser!TagFound
  BY <1>3, ParserFindsTag
<1>4. CASE Parser!Hold
  BY <1>4, ParserHolds
<1>5. CASE Parser!Flush
  BY <1>5, ParserFlushes
<1>6. CASE Parser!Abandon
  BY <1>6, ParserAbandons
<1>7. CASE UNCHANGED parserVars
  BY <1>7, ParserRests
<1> QED
  BY <1>1, <1>2, <1>3, <1>4, <1>5, <1>6, <1>7 DEF Parser!Next

(* ParserSound for all tags and all texts, however they are cut: in every  *)
(* model call what has been emitted, with what is held back, is the whole  *)
(* text split at its tags, and what is held back may begin one.            *)
THEOREM ParserAlwaysSound == TranslatorSpec => []ParserSound
<1>1. TranslatorInit => ParserInv
  BY ParserBegins DEF TranslatorInit
<1>2. ParserInv /\ [TranslatorNext]_translatorVars => ParserInv'
  <2> SUFFICES ASSUME ParserInv, [TranslatorNext]_translatorVars PROVE ParserInv'
    OBVIOUS
  <2>1. [Parser!Next]_parserVars
    BY DEF TranslatorNext, translatorVars, BlockStep, ParserStep, RoundStep
  <2> QED
    BY <2>1, ParserGoesOn
<1>3. ParserInv => ParserSound
  <2> SUFFICES ASSUME ParserInv PROVE ParserSound
    OBVIOUS
  <2>1. Parser!AgreesWithWhole
    <3>1. parserPc = "streaming" => out \o Parser!Emitted(Parser!Kind, buf) = Parser!Split(text)
      BY ParserAgrees DEF Emits
    <3>2. parserPc = "idle" /\ out # <<>> => out = Parser!Split(text)
      BY DEF ParserInv
    <3> QED
      BY <3>1, <3>2 DEF Parser!AgreesWithWhole
  <2> QED
    BY <2>1 DEF ParserInv, ParserSound
<1> QED
  BY <1>1, <1>2, <1>3, PTL DEF TranslatorSpec
=============================================================================
