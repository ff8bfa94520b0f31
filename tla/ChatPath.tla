------------------------------ MODULE ChatPath ------------------------------
(***************************************************************************)
(* The whole path of a chat message: pages (sendMessage in app.js), the    *)
(* gateway's relay with its http.Client of 120 s, and the agent server     *)
(* with its lock.  Gateway and ChatServer have the middle and the far end  *)
(* in detail; here they are what matters to the other ends: a bounded pipe *)
(* of content chunks with a timer, and a queue for one agent.              *)
(*                                                                         *)
(* A page may stop reading without leaving, and an agent may hang.         *)
(***************************************************************************)
EXTENDS Integers, SequencesExt, FiniteSets

CONSTANTS
    Page,
    MaxRequests,   \* bound: messages sent from all pages
    MaxChunks,     \* bound: content chunks of one answer
    PagePipe,      \* chunks the connection of a page holds that does not read
    AgentPipe      \* the same of the gateway's connection to the agent

ASSUME PathAssumption == {MaxRequests, MaxChunks, PagePipe, AgentPipe} \subseteq Nat

Requests == 1..MaxRequests

VARIABLES
    messages,    \* page: its conversation
    reading,     \* page: requests whose answer it reads; `streaming` while any
    asked,       \* requests sent so far
    reader,      \* request: the client's end, "here" or "gone"
    taken,       \* request: content chunks the page has taken
    relay,       \* request: "none", "relaying", "refused" or "returned"
    relayed,     \* request: chunks written towards the page
    link,        \* request: gateway's connection to the agent is open
    stage,       \* request: its handler is "none", "queued", "serving", "sending", "abandoned", "over"
    emitted,     \* request: chunks the agent has yielded
    whole,       \* request: the agent sent its terminator
    queue        \* requests that wait for the lock, oldest first

pathVars == <<messages, reading, asked, reader, taken, relay, relayed, link,
          stage, emitted, whole, queue>>
pageVars == <<messages, reading, asked, reader, taken>>
gatewayVars == <<relay, relayed, link>>
agentVars == <<stage, emitted, whole, queue>>

User(n) == [role |-> "user", request |-> n, chunks |-> 0]
Assistant(n) == [role |-> "assistant", request |-> n, chunks |-> taken[n]]

PathInit ==
    /\ messages = [p \in Page |-> <<>>]
    /\ reading = [p \in Page |-> {}]
    /\ asked = 0
    /\ reader = [n \in Requests |-> "here"]
    /\ taken = [n \in Requests |-> 0]
    /\ relay = [n \in Requests |-> "none"]
    /\ relayed = [n \in Requests |-> 0]
    /\ link = [n \in Requests |-> FALSE]
    /\ stage = [n \in Requests |-> "none"]
    /\ emitted = [n \in Requests |-> 0]
    /\ whole = [n \in Requests |-> FALSE]
    /\ queue = <<>>

-----------------------------------------------------------------------------
(* The page. *)

Streaming(p) == reading[p] # {}

(* Slip: the input is not locked while an answer streams. *)
Send_Unlocked(p) ==
    /\ asked < MaxRequests
    /\ asked' = asked + 1
    /\ messages' = [messages EXCEPT ![p] = Append(@, User(asked'))]
    /\ reading' = [reading EXCEPT ![p] = @ \cup {asked'}]
    /\ UNCHANGED <<reader, taken, gatewayVars, agentVars>>

(* sendMessage up to its fetch *)
Send(p) ==
    /\ ~ Streaming(p) /\ asked < MaxRequests
    /\ asked' = asked + 1
    /\ messages' = [messages EXCEPT ![p] = Append(@, User(asked'))]
    /\ reading' = [reading EXCEPT ![p] = @ \cup {asked'}]
    /\ UNCHANGED <<reader, taken, gatewayVars, agentVars>>

Read(p) ==
    /\ \E n \in reading[p] :
          /\ taken[n] < relayed[n]
          /\ taken' = [taken EXCEPT ![n] = @ + 1]
    /\ UNCHANGED <<messages, reading, asked, reader, gatewayVars, agentVars>>

(* The end of sendMessage, by its catch clause or not: text that came is   *)
(* an answer, whole or cut; without text nothing is added.                 *)
Unlock(p, n) ==
    /\ messages' = [messages EXCEPT ![p] = IF taken[n] = 0 THEN @ ELSE Append(@, Assistant(n))]
    /\ reading' = [reading EXCEPT ![p] = @ \ {n}]
    /\ UNCHANGED <<asked, taken>>

(* Slip: a response that is not ok leaves before setStreaming(false). *)
Finalize_NotOk(p) ==
    /\ \E n \in reading[p] :
          relay[n] = "returned" /\ taken[n] = relayed[n] /\ Unlock(p, n)
    /\ UNCHANGED <<reader, gatewayVars, agentVars>>

(* The response has ended, or it was not ok. *)
Finalize(p) ==
    /\ \E n \in reading[p] :
          /\ relay[n] \in {"returned", "refused"} /\ taken[n] = relayed[n]
          /\ Unlock(p, n)
    /\ UNCHANGED <<reader, gatewayVars, agentVars>>

(* fetch or read() rejects: the connection of the page is gone. *)
BreakOff(p) ==
    /\ \E n \in reading[p] :
          Unlock(p, n) /\ reader' = [reader EXCEPT ![n] = "gone"]
    /\ UNCHANGED <<gatewayVars, agentVars>>

(* The page is closed or loaded again. *)
Leave(p) ==
    /\ messages[p] # <<>>
    /\ messages' = [messages EXCEPT ![p] = <<>>]
    /\ reading' = [reading EXCEPT ![p] = {}]
    /\ reader' = [n \in Requests |-> IF n \in reading[p] THEN "gone" ELSE reader[n]]
    /\ UNCHANGED <<asked, taken, gatewayVars, agentVars>>

-----------------------------------------------------------------------------
(* The gateway, for request n. *)

(* doBackendRequest: the agent answers 200 before it waits for the lock. *)
Connect(n) ==
    /\ n <= asked /\ relay[n] = "none"
    /\ relay' = [relay EXCEPT ![n] = "relaying"]
    /\ link' = [link EXCEPT ![n] = TRUE]
    /\ stage' = [stage EXCEPT ![n] = "queued"]
    /\ queue' = Append(queue, n)
    /\ UNCHANGED <<pageVars, relayed, emitted, whole>>

(* It is refused, or answers with another status. *)
Refuse(n) ==
    /\ n <= asked /\ relay[n] = "none"
    /\ relay' = [relay EXCEPT ![n] = "refused"]
    /\ UNCHANGED <<pageVars, relayed, link, agentVars>>

(* A write blocks while the page does not read, and is dropped when the    *)
(* page is gone.                                                           *)
CanWrite(n) == relayed[n] - taken[n] < PagePipe \/ reader[n] = "gone"

(* A chunk is written, from what came before the connection broke as well. *)
Relay(n) ==
    /\ relay[n] = "relaying"
    /\ relayed[n] < emitted[n] /\ CanWrite(n)
    /\ relayed' = [relayed EXCEPT ![n] = @ + 1]
    /\ UNCHANGED <<pageVars, relay, link, agentVars>>

(* [DONE], or the end of what comes from the agent *)
Return(n) ==
    /\ relay[n] = "relaying"
    /\ \/ relayed[n] = emitted[n] /\ (whole[n] \/ ~ link[n])
       \/ ~ link[n] /\ CanWrite(n)
    /\ relay' = [relay EXCEPT ![n] = "returned"]
    /\ link' = [link EXCEPT ![n] = FALSE]
    /\ UNCHANGED <<pageVars, relayed, agentVars>>

(* The 120 s of the http.Client cover the body; they run while the relay   *)
(* is blocked in a write.                                                  *)
Timeout(n) ==
    /\ link[n]
    /\ link' = [link EXCEPT ![n] = FALSE]
    /\ UNCHANGED <<pageVars, relay, relayed, agentVars>>

-----------------------------------------------------------------------------
(* The agent server, for request n. *)

Holder == {n \in Requests : stage[n] \in {"serving", "sending", "abandoned"}}

Grant ==
    /\ Holder = {} /\ queue # <<>>
    /\ stage' = [stage EXCEPT ![Head(queue)] = "serving"]
    /\ queue' = Tail(queue)
    /\ UNCHANGED <<pageVars, gatewayVars, emitted, whole>>

(* A chunk is yielded and sent; sending waits while the pipe is full, and  *)
(* a chunk for a broken connection is dropped.                             *)
Emit(n) ==
    /\ stage[n] = "serving" /\ emitted[n] < MaxChunks
    /\ emitted' = [emitted EXCEPT ![n] = @ + 1]
    /\ stage' = [stage EXCEPT ![n] = "sending"]
    /\ UNCHANGED <<pageVars, gatewayVars, whole, queue>>

Sent(n) ==
    /\ stage[n] = "sending"
    /\ emitted[n] - relayed[n] <= AgentPipe \/ ~ link[n]
    /\ stage' = [stage EXCEPT ![n] = "serving"]
    /\ UNCHANGED <<pageVars, gatewayVars, emitted, whole, queue>>

(* The answer, or an error event, and the terminator *)
Finish(n) ==
    /\ stage[n] = "serving"
    /\ stage' = [stage EXCEPT ![n] = "over"]
    /\ whole' = [whole EXCEPT ![n] = TRUE]
    /\ UNCHANGED <<pageVars, gatewayVars, emitted, queue>>

(* asyncio.Lock.acquire: who is cancelled in it takes its future along. *)
LeavesQueue(n) ==
    IF stage[n] = "queued"
    THEN \E i \in DOMAIN queue : queue[i] = n /\ queue' = RemoveAt(queue, i)
    ELSE queue' = queue

(* Slip: a request that sends nothing is not told. *)
Disconnected_OnSend(n) ==
    /\ ~ link[n] /\ stage[n] \in {"queued", "sending"}
    /\ stage' = [stage EXCEPT ![n] = IF @ = "sending" THEN "abandoned" ELSE "over"]
    /\ LeavesQueue(n)
    /\ UNCHANGED <<pageVars, gatewayVars, emitted, whole>>

(* The server notices that the connection is gone: the request leaves the  *)
(* queue, its agent is cancelled, or a generator stays suspended at its    *)
(* yield, with the lock.                                                   *)
Disconnected(n) ==
    /\ ~ link[n] /\ stage[n] \in {"queued", "serving", "sending"}
    /\ stage' = [stage EXCEPT ![n] = IF @ = "sending" THEN "abandoned" ELSE "over"]
    /\ LeavesQueue(n)
    /\ UNCHANGED <<pageVars, gatewayVars, emitted, whole>>

(* The event loop closes the lost generator. *)
Close(n) ==
    /\ stage[n] = "abandoned"
    /\ stage' = [stage EXCEPT ![n] = "over"]
    /\ UNCHANGED <<pageVars, gatewayVars, emitted, whole, queue>>

-----------------------------------------------------------------------------
PageReads(p) == Read(p) \/ Finalize(p)

PathNext ==
    \/ \E p \in Page : Send(p) \/ PageReads(p) \/ BreakOff(p) \/ Leave(p)
    \/ Grant
    \/ \E n \in Requests :
          \/ Connect(n) \/ Refuse(n) \/ Relay(n) \/ Return(n) \/ Timeout(n)
          \/ Emit(n) \/ Sent(n) \/ Finish(n) \/ Disconnected(n) \/ Close(n)

PathSpec == PathInit /\ [][PathNext]_pathVars

(* The timer runs out, a broken connection is noticed, the event loop runs *)
(* what is ready, and the gateway's goroutines run.  Nothing is asked of   *)
(* the agent and of its model, and nothing of the pages.                   *)
PathFairness ==
    /\ WF_pathVars(Grant)
    /\ \A n \in Requests :
          /\ WF_pathVars(Connect(n) \/ Refuse(n)) /\ WF_pathVars(Return(n))
          /\ WF_pathVars(Timeout(n)) /\ WF_pathVars(Disconnected(n)) /\ WF_pathVars(Close(n))

FairPathSpec == PathSpec /\ PathFairness

-----------------------------------------------------------------------------
Entry == [role : {"user", "assistant"}, request : Requests, chunks : 0..MaxChunks]

PathTypeOK ==
    /\ messages \in [Page -> Seq(Entry)]
    /\ reading \in [Page -> SUBSET Requests]
    /\ asked \in 0..MaxRequests
    /\ \A n \in Requests :
          /\ taken[n] <= relayed[n] /\ relayed[n] <= emitted[n]
          /\ link[n] => emitted[n] - relayed[n] <= AgentPipe + 1
    /\ Cardinality(Holder) <= 1

(* What a page sends with its next message: each answer stands directly    *)
(* behind its own question and is what came first of it; a question whose  *)
(* answer was lost without a word is followed by the next one.             *)
AnswersFollowQuestions ==
    \A p \in Page : \A k \in DOMAIN messages[p] :
        LET e == messages[p][k] IN
        e.role = "assistant" =>
            /\ k > 1 /\ messages[p][k - 1] = User(e.request)
            /\ e.chunks \in 1..emitted[e.request]
            /\ e.request \notin reading[p]

(* The conversations are in order, and one handler at most holds the lock. *)
PathSound == PathTypeOK /\ AnswersFollowQuestions

(* Whether a page reads, stops reading or leaves, and whether the agent    *)
(* answers or hangs: no request stays in the queue or keeps the lock.      *)
RequestsEnd == \A n \in Requests : stage[n] # "none" ~> stage[n] = "over"

(* A page that reads can be written in again, whatever becomes of the      *)
(* agent, as long as the gateway runs: the page itself has no timer.       *)
PageUnlocks ==
    \A p \in Page : WF_pathVars(PageReads(p)) => (Streaming(p) ~> ~ Streaming(p))
=============================================================================
