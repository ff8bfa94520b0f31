----------------------------- MODULE SerialAgent -----------------------------
(***************************************************************************)
(* What the chat server promises about the agent its requests share: the   *)
(* agent serves one conversation at a time.  A conversation begins with    *)
(* the messages its request brought, only its own replies and tool results *)
(* are added to it, and it ends before the next one begins.                *)
(***************************************************************************)
EXTENDS Sequences

CONSTANTS
    Req,              \* requests
    NoOne,            \* no request
    Incoming,         \* the messages a request brings
    SetupMessages     \* what setup() left in agent.messages

VARIABLES
    owner,            \* the request being served
    messages          \* agent.messages

Roles == {"system", "user", "assistant", "tool"}
Msg(r, role) == [from |-> r, role |-> role]

SerialInit == owner = NoOne /\ messages = SetupMessages

Begin(r) ==
    /\ owner = NoOne
    /\ owner' = r
    /\ messages' = Incoming[r]

Extend(r) ==
    /\ owner = r
    /\ \E role \in {"assistant", "tool"} :
          messages' = Append(messages, Msg(r, role))
    /\ UNCHANGED owner

End(r) ==
    /\ owner = r
    /\ owner' = NoOne
    /\ UNCHANGED messages

SerialNext == \E r \in Req : Begin(r) \/ Extend(r) \/ End(r)

SerialSpec == SerialInit /\ [][SerialNext]_<<owner, messages>>
=============================================================================
