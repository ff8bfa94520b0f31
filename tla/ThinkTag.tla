------------------------------ MODULE ThinkTag ------------------------------
(***************************************************************************)
(* ThinkTagParser: splits a stream of chunks into reasoning and content at *)
(* <think> and </think>, which chunk boundaries may cut anywhere.  Each    *)
(* turn of the loop in feed() is a step.  The agent resets the parser      *)
(* before a model call and flushes it after; a call that fails is not      *)
(* flushed.  A text is a sequence of characters, the tags are constants.   *)
(***************************************************************************)
EXTENDS Integers, Sequences, SequencesExt, FiniteSets

CONSTANTS
    OpenTag, CloseTag, Letters,
    MaxText,      \* bound: characters of one model call
    MaxChunk,     \* bound: characters of one chunk
    MaxCalls      \* bound: model calls

VARIABLES
    pc,
    buf, inThink,     \* _buf, _in_think
    out,              \* what feed() and flush() returned: [kind, char]
    text,             \* what feed() has been given in this call
    calls

vars == <<pc, buf, inThink, out, text, calls>>

Kind == IF inThink THEN "reasoning" ELSE "content"
Tag == IF inThink THEN CloseTag ELSE OpenTag

Emitted(kind, s) == [k \in DOMAIN s |-> [kind |-> kind, char |-> s[k]]]

TagAt(s, k, tag) ==
    k + Len(tag) - 1 <= Len(s) /\ \A j \in DOMAIN tag : s[k + j - 1] = tag[j]

(* find *)
Places(s, tag) == {k \in DOMAIN s : TagAt(s, k, tag)}
Occurs(s, tag) == Places(s, tag) # {}
Find(s, tag) == CHOOSE k \in Places(s, tag) : \A j \in Places(s, tag) : k <= j

(* _suffix_prefix_len *)
Fits(s, tag) ==
    {n \in 0..(Len(tag) - 1) : n <= Len(s) /\ \A j \in 1..n : s[Len(s) - n + j] = tag[j]}
Holdback(s, tag) == CHOOSE n \in Fits(s, tag) : \A m \in Fits(s, tag) : m <= n

Init ==
    /\ pc = "idle"
    /\ buf = <<>> /\ inThink = FALSE
    /\ out = <<>> /\ text = <<>>
    /\ calls = 0

-----------------------------------------------------------------------------
(* Slip: only the buffer is reset. *)
Reset_Buffer ==
    /\ pc = "idle" /\ calls < MaxCalls
    /\ calls' = calls + 1
    /\ buf' = <<>>
    /\ out' = <<>> /\ text' = <<>>
    /\ pc' = "streaming"
    /\ UNCHANGED inThink

(* reset, before each model call *)
Reset ==
    /\ pc = "idle" /\ calls < MaxCalls
    /\ calls' = calls + 1
    /\ buf' = <<>> /\ inThink' = FALSE
    /\ out' = <<>> /\ text' = <<>>
    /\ pc' = "streaming"

(* feed *)
Feed ==
    /\ pc = "streaming"
    /\ \E n \in 1..MaxChunk : \E chunk \in [1..n -> Letters] :
          /\ Len(text) + n <= MaxText
          /\ buf' = buf \o chunk
          /\ text' = text \o chunk
    /\ pc' = "feeding"
    /\ UNCHANGED <<inThink, out, calls>>

TagFound ==
    /\ pc = "feeding" /\ Occurs(buf, Tag)
    /\ LET k == Find(buf, Tag)
       IN  /\ out' = out \o Emitted(Kind, SubSeq(buf, 1, k - 1))
           /\ buf' = SubSeq(buf, k + Len(Tag), Len(buf))
    /\ inThink' = ~ inThink
    /\ UNCHANGED <<pc, text, calls>>

(* No tag: all is emitted but what may be the beginning of one. *)
Hold ==
    /\ pc = "feeding" /\ ~ Occurs(buf, Tag)
    /\ LET n == Len(buf) - Holdback(buf, Tag)
       IN  /\ out' = out \o Emitted(Kind, SubSeq(buf, 1, n))
           /\ buf' = SubSeq(buf, n + 1, Len(buf))
    /\ pc' = "streaming"
    /\ UNCHANGED <<inThink, text, calls>>

(* flush: nothing is held back any more; _in_think stays as it is when     *)
(* nothing was.                                                            *)
Flush ==
    /\ pc = "streaming"
    /\ out' = out \o Emitted(Kind, buf)
    /\ buf' = <<>>
    /\ inThink' = IF buf = <<>> THEN inThink ELSE FALSE
    /\ pc' = "idle"
    /\ UNCHANGED <<text, calls>>

(* The model call fails or its consumer leaves: the parser is left as it is. *)
Abandon ==
    /\ pc = "streaming"
    /\ pc' = "idle"
    /\ out' = <<>>
    /\ UNCHANGED <<buf, inThink, text, calls>>

Next ==
    \/ Reset \/ Feed \/ TagFound \/ Hold \/ Flush \/ Abandon

Spec == Init /\ [][Next]_vars

-----------------------------------------------------------------------------
(* The reference: the whole text is read character by character.  `skip`   *)
(* characters belong to a tag that has been seen.                          *)
After(acc, s, k) ==
    LET tag == IF acc.kind = "reasoning" THEN CloseTag ELSE OpenTag
    IN  IF acc.skip > 0 THEN [acc EXCEPT !.skip = @ - 1]
        ELSE IF TagAt(s, k, tag)
        THEN [skip |-> Len(tag) - 1, out |-> acc.out,
              kind |-> IF acc.kind = "reasoning" THEN "content" ELSE "reasoning"]
        ELSE [acc EXCEPT !.out = Append(@, [kind |-> acc.kind, char |-> s[k]])]

Reading(s) ==
    LET Read[k \in Nat] == IF k = 0 THEN [skip |-> 0, kind |-> "content", out |-> <<>>]
                           ELSE After(Read[k - 1], s, k)
    IN  Read

Split(s) == Reading(s)[Len(s)].out

TypeOK ==
    /\ pc \in {"idle", "streaming", "feeding"}
    /\ buf \in Seq(Letters) /\ inThink \in BOOLEAN
    /\ Len(out) + Len(buf) <= Len(text) \/ pc = "idle"
    /\ calls \in 0..MaxCalls

(* Wherever the chunks are cut, what has been emitted, with what is held   *)
(* back, is the whole text split at its tags: nothing lost, repeated or in *)
(* the wrong kind, in every model call, also after one that broke off, and *)
(* also when the call has ended in a flush.                                *)
AgreesWithWhole ==
    /\ pc = "streaming" => out \o Emitted(Kind, buf) = Split(text)
    /\ pc = "idle" /\ out # <<>> => out = Split(text)

(* No more is held back than may begin a tag: what is content is passed on *)
(* as soon as it can be told.                                              *)
HeldMayBeTag == pc = "streaming" => Len(buf) < Len(Tag) /\ IsPrefix(buf, Tag)
=============================================================================
