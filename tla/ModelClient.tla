----------------------------- MODULE ModelClient -----------------------------
(***************************************************************************)
(* LLMClient: one call of call_model, call_model_json, call_model_stream   *)
(* or call_model_validated.  The provider answers, fails, or answers       *)
(* without a choice; a stream may fail after its start; a validator     *)
(* accepts a response or raises.                                           *)
(***************************************************************************)
EXTENDS Integers, Sequences, FiniteSets

CONSTANTS
    Retries   \* values of max_retries

Operations == {"chat", "json", "stream", "validated"}
Schemas == {"model", "dict", "neither"}   \* what call_model_json was given
Fitting == "object of the schema"
Values == {Fitting, "object", "list", "no JSON", "no content"}

VARIABLES
    operation, schema, maxRetries,
    pc,          \* "begin", "calling", "chunks", "validating", "sleeping", "over"
    calls,       \* calls of litellm.acompletion
    rejected,    \* responses the validator rejected
    slept,       \* the delays, in seconds
    outcome      \* what the caller got

vars == <<operation, schema, maxRetries, pc, calls, rejected, slept, outcome>>
given == <<operation, schema, maxRetries>>
made == <<calls, rejected, slept>>

Pending == [kind |-> "none", value |-> ""]
Returned(value) == [kind |-> "returned", value |-> value]
LLMError(cause) == [kind |-> "LLMError", value |-> cause]
Raised == [kind |-> "IndexError", value |-> ""]

Init ==
    /\ operation \in Operations /\ schema \in Schemas /\ maxRetries \in Retries
    /\ pc = "begin"
    /\ calls = 0 /\ rejected = 0 /\ slept = <<>>
    /\ outcome = Pending

Over(o) == pc' = "over" /\ outcome' = o
Go(p) == pc' = p /\ UNCHANGED outcome

-----------------------------------------------------------------------------
TotalAttempts == 1 + maxRetries

(* A schema that is no schema is refused before the call, and a negative   *)
(* max_retries admits no attempt.                                          *)
Begin ==
    /\ pc = "begin"
    /\ IF \/ operation = "json" /\ schema = "neither"
          \/ operation = "validated" /\ TotalAttempts <= 0
         THEN Over(LLMError("arguments"))
         ELSE Go("calling")
    /\ UNCHANGED <<given, made>>

(* The caller's value: what json.loads gives, checked for a model class.   *)
Parsed(value) ==
    IF value \in {"no JSON", "no content"} THEN LLMError("output")
    ELSE IF schema = "model" /\ value # Fitting THEN LLMError("output")
    ELSE Returned(value)

(* Slip: a failure of the provider counts as a rejected response. *)
Fails_Retries ==
    /\ pc = "calling"
    /\ calls' = calls + 1
    /\ IF operation = "validated" /\ rejected < maxRetries
         THEN Go("calling") ELSE Over(LLMError("provider"))
    /\ UNCHANGED <<given, rejected, slept>>

(* The provider's exceptions, of any class, are translated. *)
Fails ==
    /\ pc = "calling"
    /\ calls' = calls + 1
    /\ Over(LLMError("provider"))
    /\ UNCHANGED <<given, rejected, slept>>

(* A response without a choice passes the translation. *)
NoChoice ==
    /\ pc = "calling" /\ operation # "stream"
    /\ calls' = calls + 1
    /\ Over(Raised)
    /\ UNCHANGED <<given, rejected, slept>>

Answers ==
    /\ pc = "calling"
    /\ calls' = calls + 1
    /\ CASE operation = "chat" -> Over(Returned("response"))
         [] operation = "json" -> \E value \in Values : Over(Parsed(value))
         [] operation = "stream" -> Go("chunks")
         [] operation = "validated" -> Go("validating")
    /\ UNCHANGED <<given, rejected, slept>>

-----------------------------------------------------------------------------
(* The chunks arrive; the iteration ends, or fails and is translated. *)
StreamEnds ==
    /\ pc = "chunks"
    /\ \E o \in {Returned("end"), LLMError("stream")} : Over(o)
    /\ UNCHANGED <<given, made>>

-----------------------------------------------------------------------------
Accept ==
    /\ pc = "validating"
    /\ Over(Returned("validated"))
    /\ UNCHANGED <<given, made>>

(* The validator raises: a delay that doubles, or no attempt is left. *)
Reject ==
    /\ pc = "validating"
    /\ rejected' = rejected + 1
    /\ IF rejected' < TotalAttempts
         THEN Go("sleeping") /\ slept' = Append(slept, 2^rejected)
         ELSE Over(LLMError("validation")) /\ UNCHANGED slept
    /\ UNCHANGED <<given, calls>>

Wake ==
    /\ pc = "sleeping"
    /\ Go("calling")
    /\ UNCHANGED <<given, made>>

Next ==
    \/ Begin \/ Fails \/ NoChoice \/ Answers
    \/ StreamEnds
    \/ Accept \/ Reject \/ Wake

Spec == Init /\ [][Next]_vars

-----------------------------------------------------------------------------
TypeOK ==
    /\ operation \in Operations /\ schema \in Schemas /\ maxRetries \in Retries
    /\ pc \in {"begin", "calling", "chunks", "validating", "sleeping", "over"}
    /\ calls \in Nat /\ rejected \in 0..calls /\ slept \in Seq(Int)
    /\ outcome.kind \in {"none", "returned", "LLMError", "IndexError"}
    /\ pc = "over" <=> outcome # Pending

(* Every call but the first follows a rejected response and one delay: a   *)
(* provider that fails is not asked again, whatever attempts are left.     *)
RetriesOnlyRejections ==
    /\ calls <= rejected + 1
    /\ calls <= IF operation # "validated" THEN 1 ELSE IF TotalAttempts > 0 THEN TotalAttempts ELSE 0
    /\ outcome = LLMError("provider") => calls = rejected + 1

(* The time a caller may wait: n retries cost 2^n - 1 seconds, and a call  *)
(* that gave up has not slept after its last attempt.                      *)
BackoffCost ==
    /\ \A k \in DOMAIN slept : slept[k] = 2^(k - 1)
    /\ Len(slept) = IF outcome = LLMError("validation") THEN rejected - 1 ELSE rejected
    /\ outcome = LLMError("validation") => rejected = TotalAttempts

(* The docstring of call_model_json: "When it is a raw JSON-schema dict    *)
(* the return value is a plain dict."                                      *)
DictGivesDict ==
    operation = "json" /\ schema = "dict" /\ outcome.kind = "returned" =>
        outcome.value \in {Fitting, "object"}

(* The docstring of LLMError: it "Wraps the underlying litellm/provider    *)
(* exception so callers only need to catch one type."                      *)
OneErrorType == outcome.kind \in {"none", "returned", "LLMError"}
=============================================================================
