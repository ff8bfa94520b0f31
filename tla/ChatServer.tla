----------------------------- MODULE ChatServer -----------------------------
(***************************************************************************)
(* OpenAIChatServer: concurrent chat requests on one agent.  A request is  *)
(* streamed, synchronous, or in Responses-API mode; the first two hold     *)
(* _agent_lock from the replacement of agent.messages to the end of        *)
(* astep_stream, the third never takes it.  The lock is asyncio.Lock, with *)
(* its FIFO of waiters and the gap between waking a waiter and its claim.  *)
(*                                                                         *)
(* The agent loop inside (AgentLoop) is reduced to what it does to the     *)
(* shared state: it appends replies and tool results, runs tools in the    *)
(* executor, and yields events.                                            *)
(***************************************************************************)
EXTENDS SequencesExt

CONSTANTS
    Req,             \* the requests of a run
    NoOne,           \* no request
    Kind,            \* Kind[r]: "stream", "sync" or "responses"
    SendsSystem,     \* requests whose client sends a system message first
    MaxWork          \* bound: agent steps in one request

ASSUME ServerAssumption ==
    /\ NoOne \notin Req
    /\ Kind \in [Req -> {"stream", "sync", "responses"}]
    /\ SendsSystem \subseteq Req
    /\ MaxWork \in Nat

VARIABLES
    phase,      \* phase[r]: where the handler of r stands
    locked,     \* _agent_lock._locked
    waiters,    \* _agent_lock._waiters, oldest first
    woken,      \* waiters whose future has been set
    messages,   \* agent.messages
    threads,    \* requests with a tool function running in the executor
    work        \* work[r]: agent steps made for r

vars == <<phase, locked, waiters, woken, messages, threads, work>>
lockVars == <<locked, waiters, woken>>

-----------------------------------------------------------------------------
Msg(r, role) == [from |-> r, role |-> role]
SetupMessages == <<Msg(NoOne, "system")>>
Incoming ==
    [r \in Req |-> IF r \in SendsSystem
                     THEN <<Msg(r, "system"), Msg(r, "user")>>
                     ELSE <<Msg(r, "user")>>]

(* The phases in which a handler is inside `async with self._agent_lock`. *)
Inside == {"running", "tool", "sending", "abandoned"}
Final == {"done", "failed", "gone"}

Init ==
    /\ phase = [r \in Req |-> "idle"]
    /\ locked = FALSE
    /\ waiters = <<>>
    /\ woken = {}
    /\ messages = SetupMessages
    /\ threads = {}
    /\ work = [r \in Req |-> 0]

Move(r, p) == phase' = [phase EXCEPT ![r] = p]

-----------------------------------------------------------------------------
(* asyncio.Lock. *)

(* _wake_up_first: sets the future of the oldest waiter. *)
WokenFirst(queue, set) ==
    IF queue = <<>> THEN set ELSE set \cup {Head(queue)}

(* The queue without its entry for r, of which there is one. *)
Leaves(r, queue) ==
    \E i \in DOMAIN waiters : waiters[i] = r /\ queue = RemoveAt(waiters, i)

(* Slip in the lock: a newcomer may pass a waiter that was woken. *)
LockFree_Barging == ~ locked

LockFree == ~ locked /\ waiters = <<>>

Release ==
    /\ locked' = FALSE
    /\ woken' = WokenFirst(waiters, woken)
    /\ UNCHANGED waiters

(* Slip: a cancelled waiter does not pass the wake-up on. *)
LeaveQueue_LostWakeUp(r) ==
    /\ Leaves(r, waiters')
    /\ woken' = woken \ {r}
    /\ UNCHANGED locked

(* A waiter is cancelled: if it had been woken, the next one must be. *)
LeaveQueue(r) ==
    /\ Leaves(r, waiters')
    /\ woken' = IF locked THEN woken \ {r}
                ELSE WokenFirst(waiters', woken \ {r})
    /\ UNCHANGED locked

-----------------------------------------------------------------------------
(* The handlers. *)

(* Slip: agent.messages is assigned before the lock is asked for. *)
Arrive_AssignFirst(r) ==
    /\ phase[r] = "idle"
    /\ Kind[r] # "responses"
    /\ messages' = Incoming[r]
    /\ IF LockFree
         THEN /\ Move(r, "running")
              /\ locked' = TRUE
              /\ UNCHANGED <<waiters, woken>>
         ELSE /\ Move(r, "queued")
              /\ waiters' = Append(waiters, r)
              /\ UNCHANGED <<locked, woken>>
    /\ UNCHANGED <<threads, work>>

(* The body of _collect_sync or the first step of _stream: the lock is     *)
(* free and the conversation of r replaces the history at once, or r       *)
(* joins the queue.                                                        *)
Arrive(r) ==
    /\ phase[r] = "idle"
    /\ Kind[r] # "responses"
    /\ IF LockFree
         THEN /\ Move(r, "running")
              /\ locked' = TRUE
              /\ messages' = Incoming[r]
              /\ UNCHANGED <<waiters, woken>>
         ELSE /\ Move(r, "queued")
              /\ waiters' = Append(waiters, r)
              /\ UNCHANGED <<locked, woken, messages>>
    /\ UNCHANGED <<threads, work>>

(* A woken waiter claims the lock. *)
Granted(r) ==
    /\ phase[r] = "queued"
    /\ r \in woken
    /\ Move(r, "running")
    /\ locked' = TRUE
    /\ Leaves(r, waiters')
    /\ woken' = woken \ {r}
    /\ messages' = Incoming[r]
    /\ UNCHANGED <<threads, work>>

(* The agent, for the request inside. *)
Work(r) ==
    /\ work[r] < MaxWork
    /\ work' = [work EXCEPT ![r] = @ + 1]

Reply(r) ==
    /\ phase[r] = "running"
    /\ Work(r)
    /\ messages' = Append(messages, Msg(r, "assistant"))
    /\ UNCHANGED <<phase, lockVars, threads>>

(* tools.execute hands a sync tool to the executor and awaits it. *)
BeginTool(r) ==
    /\ phase[r] = "running"
    /\ Work(r)
    /\ Move(r, "tool")
    /\ threads' = threads \cup {r}
    /\ UNCHANGED <<lockVars, messages>>

EndTool(r) ==
    /\ phase[r] = "tool"
    /\ Move(r, "running")
    /\ threads' = threads \ {r}
    /\ messages' = Append(messages, Msg(r, "tool"))
    /\ UNCHANGED <<lockVars, work>>

(* Slip: the body of _collect_sync turned into a generator as well. *)
Yield_Any(r) ==
    /\ phase[r] = "running"
    /\ Work(r)
    /\ Move(r, "sending")
    /\ UNCHANGED <<lockVars, messages, threads>>

(* _stream yields a chunk and stays suspended until it has been sent. *)
Yield(r) ==
    /\ phase[r] = "running"
    /\ Kind[r] = "stream"
    /\ Work(r)
    /\ Move(r, "sending")
    /\ UNCHANGED <<lockVars, messages, threads>>

Sent(r) ==
    /\ phase[r] = "sending"
    /\ Move(r, "running")
    /\ UNCHANGED <<lockVars, messages, threads, work>>

(* astep_stream is exhausted, or raised: an error chunk for a stream, the  *)
(* 500 of the framework for a synchronous request.                         *)
Finish(r) ==
    /\ phase[r] = "running"
    /\ \E p \in {"done", "failed"} : Move(r, p)
    /\ Release
    /\ UNCHANGED <<messages, threads, work>>

-----------------------------------------------------------------------------
(* The client of a streamed request goes away; a synchronous handler does  *)
(* not notice.                                                             *)

LeaveQueued(r) ==
    /\ phase[r] = "queued"
    /\ Kind[r] = "stream"
    /\ Move(r, "gone")
    /\ LeaveQueue(r)
    /\ UNCHANGED <<messages, threads, work>>

(* CancelledError arrives at an await inside the chain of generators: all  *)
(* of it unwinds and the lock is released.  A sync tool goes on in its     *)
(* thread.                                                                 *)
CancelRunning(r) ==
    /\ phase[r] \in {"running", "tool"}
    /\ Kind[r] = "stream"
    /\ Move(r, "gone")
    /\ Release
    /\ UNCHANGED <<messages, threads, work>>

(* The chunk is being sent: it is the response that is cancelled, and the  *)
(* generator stays suspended at its yield, inside the lock, until the      *)
(* event loop's hook for lost generators closes it.                        *)
AbandonSending(r) ==
    /\ phase[r] = "sending"
    /\ Move(r, "abandoned")
    /\ UNCHANGED <<lockVars, messages, threads, work>>

(* Slip: the generator is dropped and its `async with` never left. *)
CloseAbandoned_KeepsLock(r) ==
    /\ phase[r] = "abandoned"
    /\ Move(r, "gone")
    /\ UNCHANGED <<lockVars, messages, threads, work>>

CloseAbandoned(r) ==
    /\ phase[r] = "abandoned"
    /\ Move(r, "gone")
    /\ Release
    /\ UNCHANGED <<messages, threads, work>>

(* A tool whose request is gone returns; nobody takes its result. *)
OrphanEnds(r) ==
    /\ r \in threads
    /\ phase[r] # "tool"
    /\ threads' = threads \ {r}
    /\ UNCHANGED <<phase, lockVars, messages, work>>

-----------------------------------------------------------------------------
(* Responses-API mode: the handler uses the agent's tools beside the lock. *)
Proxy(r) ==
    /\ phase[r] = "idle"
    /\ Kind[r] = "responses"
    /\ Move(r, "proxying")
    /\ UNCHANGED <<lockVars, messages, threads, work>>

ProxyEnds(r) ==
    /\ phase[r] = "proxying"
    /\ \E p \in Final : Move(r, p)
    /\ UNCHANGED <<lockVars, messages, threads, work>>

-----------------------------------------------------------------------------
Serve(r) == Reply(r) \/ BeginTool(r) \/ EndTool(r) \/ Yield(r) \/ Finish(r)

Depart(r) == LeaveQueued(r) \/ CancelRunning(r) \/ AbandonSending(r)

Next ==
    \E r \in Req :
        \/ Arrive(r)
        \/ Granted(r)
        \/ Serve(r)
        \/ Sent(r)
        \/ Depart(r)
        \/ CloseAbandoned(r)
        \/ OrphanEnds(r)
        \/ Proxy(r)
        \/ ProxyEnds(r)

Spec == Init /\ [][Next]_vars

(* The event loop runs every task that is ready, the agent's run ends      *)
(* (its turns are capped and each tool and model call returns), and a      *)
(* client takes a chunk or goes away.                                      *)
(* Requests need not arrive and clients need not leave.                    *)
Fairness ==
    \A r \in Req :
        /\ WF_vars(Granted(r))
        /\ WF_vars(Serve(r))
        /\ WF_vars(Sent(r) \/ AbandonSending(r))
        /\ WF_vars(CloseAbandoned(r))

FairSpec == Spec /\ Fairness

-----------------------------------------------------------------------------
Phases(kind) ==
    CASE kind = "stream" -> {"idle", "queued"} \cup Inside \cup Final
      [] kind = "sync" -> {"idle", "queued", "running", "tool", "done", "failed"}
      [] kind = "responses" -> {"idle", "proxying"} \cup Final
AllPhases == {"idle", "queued", "proxying"} \cup Inside \cup Final
Message == [from : Req \cup {NoOne},
            role : {"system", "user", "assistant", "tool"}]

TypeOK ==
    /\ phase \in [Req -> AllPhases]
    /\ \A r \in Req : phase[r] \in Phases(Kind[r])
    /\ locked \in BOOLEAN
    /\ waiters \in Seq(Req)
    /\ woken \in SUBSET Req
    /\ messages \in Seq(Message)
    /\ threads \in SUBSET Req
    /\ work \in [Req -> Nat]

(* The lock is held exactly while one handler is inside, the gap between   *)
(* waking a waiter and its claim included.                                 *)
LockHeldInside ==
    /\ \A r, q \in Req : phase[r] \in Inside /\ phase[q] \in Inside => r = q
    /\ locked <=> \E r \in Req : phase[r] \in Inside

(* The queue holds exactly the requests that wait, each once, and a free   *)
(* lock with waiters has woken the oldest of them, it alone: no            *)
(* cancellation loses the wake-up.                                         *)
QueueSound ==
    /\ \A i, j \in DOMAIN waiters : waiters[i] = waiters[j] => i = j
    /\ \A r \in Req : phase[r] = "queued" <=> \E i \in DOMAIN waiters : waiters[i] = r
    /\ woken = IF locked \/ waiters = <<>> THEN {} ELSE {Head(waiters)}

(* A request sees its own conversation: while it is inside, agent.messages *)
(* holds what it brought and what the agent added for it, no message of    *)
(* another request, whoever came, waited or left meanwhile.                *)
OwnConversation ==
    \A r \in Req : phase[r] \in Inside =>
        /\ \A k \in DOMAIN messages : messages[k].from = r
        /\ Len(messages) >= Len(Incoming[r])

(* First come, first served: nobody gets inside past an older waiter. *)
FirstComeFirstServed ==
    [][\A r \in Req :
          phase[r] \notin Inside /\ phase'[r] \in Inside
            => waiters = <<>> \/ Head(waiters) = r]_vars

(* The agent is a SerialAgent whose owner is the handler inside. *)
Owner == IF \E r \in Req : phase[r] \in Inside
           THEN CHOOSE r \in Req : phase[r] \in Inside
           ELSE NoOne

Serial == INSTANCE SerialAgent WITH owner <- Owner

ServesOneConversation == Serial!SerialSpec

(* A request that waits for the lock is served, or its client leaves. *)
EveryWaiterServed ==
    \A r \in Req : phase[r] = "queued" ~> phase[r] \in Final

(* The class docstring: "all requests share a single agent instance,       *)
(* serialised through _agent_lock".                                        *)
RequestsSerialised ==
    \A r, q \in Req :
        phase[r] \in Inside \cup {"proxying"} /\ phase[q] \in Inside \cup {"proxying"}
            => r = q

(* The same sentence, for the work the agent does: a tool runs only while  *)
(* the request that called it is the one being served.                     *)
ToolsSerialised ==
    \A r \in threads, q \in Req : phase[q] \in Inside => q = r

(* The comment in agent_info: the first message of the agent is "always    *)
(* role=system".                                                           *)
SystemPromptFirst == messages[1].role = "system"
=============================================================================
