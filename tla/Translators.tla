---------------------------- MODULE Translators ----------------------------
(***************************************************************************)
(* What translates a stream piece by piece and keeps state between the     *)
(* pieces: the Anthropic serializer, the parser of think tags and the      *)
(* rounds of the Responses API.  They share no state: a behaviour is one   *)
(* of one translator, the others stay as they began.  The serializer's     *)
(* module is extended, the other two are instances.                        *)
(***************************************************************************)
EXTENDS AnthropicSse

CONSTANTS
    OpenTag, CloseTag, Letters, MaxText, MaxChunk, MaxCalls,   \* of ThinkTag
    MaxRounds, MaxPerRound                                     \* of ResponsesApi

ASSUME TranslatorAssumption ==
    /\ OpenTag \in Seq(Letters) \ {<<>>} /\ CloseTag \in Seq(Letters) \ {<<>>}
    /\ {MaxText, MaxChunk, MaxCalls} \subseteq Nat
    /\ {MaxRounds, MaxPerRound} \subseteq Nat \ {0}

VARIABLES
    translator,
    parserPc, buf, inThink, out, text, parsed,
    roundPc, round, calls, currentCall, index, executed, input, results, pills

Parser == INSTANCE ThinkTag WITH pc <- parserPc, calls <- parsed
Rounds == INSTANCE ResponsesApi WITH pc <- roundPc, current <- currentCall

parserVars == <<parserPc, buf, inThink, out, text, parsed>>
roundVars == <<roundPc, round, calls, currentCall, index, executed, input, results, pills>>
translatorVars == <<translator, vars, parserVars, roundVars>>

BlockStep(A) == translator = "anthropic" /\ A /\ UNCHANGED <<translator, parserVars, roundVars>>
ParserStep(A) == translator = "think tags" /\ A /\ UNCHANGED <<translator, vars, roundVars>>
RoundStep(A) == translator = "responses" /\ A /\ UNCHANGED <<translator, vars, parserVars>>

TranslatorInit ==
    /\ translator \in {"anthropic", "think tags", "responses"}
    /\ Init /\ Parser!Init /\ Rounds!Init

TranslatorNext == BlockStep(Next) \/ ParserStep(Parser!Next) \/ RoundStep(Rounds!Next)

TranslatorSpec == TranslatorInit /\ [][TranslatorNext]_translatorVars

-----------------------------------------------------------------------------
(* The parser's output, with what it holds back, is the text split at its  *)
(* tags, and it holds back no more than may begin one.                     *)
ParserSound ==
    translator = "think tags" =>
        Parser!TypeOK /\ Parser!AgreesWithWhole /\ Parser!HeldMayBeTag

(* In the rounds of the Responses API no call is executed twice or after   *)
(* its round, the only call of a response is always executed, and what is  *)
(* posted holds the calls executed, each with its own output.              *)
RoundsSound ==
    translator = "responses" =>
        /\ Rounds!TypeOK /\ Rounds!InputPairs
        /\ Rounds!ExecutedOnce /\ Rounds!SingleCallExecuted
=============================================================================
