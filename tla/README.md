# Verification of tool-calling-demo

TLA+ models of the calculus assistant: an agent that streams a model's answer
and runs its tool calls (Python, `calculus-agent`), a gateway in front of it
(Go, `calculus-gateway`) and a chat page (JavaScript, `calculus-ui`).  This
directory holds the modules, the TLC configurations that check them on small
instances, and the proofs that TLAPS checks for every instance.

Paths are relative to `src/`.  `FA` stands for
`calculus-agent/packages/fipsagents/src/fipsagents`.

## 1. Inventory

How a question travels: the page (`app.js`, `sendMessage`) posts its whole
history; the UI server and the gateway (`chat.go`, `sse.go`) pass it on; the
agent server (`FA/server/__init__.py`) takes its lock, replaces
`agent.messages` and drives `BaseAgent.astep_stream`; the events of that
generator become chunks (`FA/serialization/openai_sse.py`), which travel back
line by line and end as text and tool-call pills on the page.

| Component | State it keeps | Operations | What is hard | What makes it correct |
|---|---|---|---|---|
| Agent loop, `FA/baseagent/agent.py` 376-626 | history, per-turn buffer of tool-call fragments, metrics | model call, chunk, tool execution, cap, exceptions, close | fragments in any order; errors between two appends; an end for every model | history fit for the next call; results pair with calls; client and model told the same; it ends |
| OpenAI serializer, `FA/serialization/openai_sse.py` | indexes opened | one event to chunks; error; end | state that outlives a turn; an exception mid-stream | well-framed stream; the client learns the end |
| Chat page, `calculus-ui/static/app.js` | pills per index, history, streaming flag | read a chunk; send | partial streams, indexes reused | arguments and results in the right pill; a history a provider accepts |
| Chat server, `FA/server/__init__.py` | the one agent, its lock and queue | streamed, synchronous and Responses-API requests; cancellation | cancellation at any await; the gap between wake-up and claim; abandoned generators; tool threads | conversations never mix; first come, first served; every waiter served |
| Responses-API proxy, `calculus-agent/src/server.py` | input list per round | rounds of function calls | works beside the lock; several calls in a round | each call executed once and paired with its output; the call of a response executed |
| Gateway relay, `calculus-gateway/internal` | one channel of lines, `done` | relay, heartbeat, copy, close | two goroutines; backend breaks in a line; client stalls or leaves; 120 s timeout | lines in order, whole events, nothing leaked |
| Run loop, `agent.py` 223-317, `calculus-agent/src/agent.py` | error counter | step, backoff, cap | retry on the history a failed step left | the history stays fit for the next call |
| Lifecycle and MCP, `agent.py` 120-221, 270-288, 673-792 | clients, prompts, resources, registry | setup, connect, shutdown | failure half way; a second setup | every opened client closed; no tool of a closed client |
| Tool registry, inspector, `tools.py`, `tool_inspector.py` | tools by name | register, discover, execute | duplicates, planes, enforce mode | dispatch only to visible tools |
| Model client, `llm.py` | none | call, stream, validated call | retries that grow the prompt | a bounded number of calls and of seconds |
| Reasoning parser, `reasoning.py` | buffer, inside flag | feed, flush, reset | tags split across chunks | the parts concatenated are the input without its tags |
| Anthropic serializer, `anthropic_messages.py` | block indexes | event to blocks | overlapping blocks | each block started, then stopped, once |
| Workflow, `FA/workflow` | graph, step counter | build, validate, run, retry, error edge | bounds, retries on mutated state | ends within max_steps, takes edges of the graph only |
| Memory backends, `memory*.py` | a database, a file, a remote store | search, write, update | updates in several steps | nothing is lost by a failure half way |
| Skills, prompts, rules, config | parsed files | load, activate | — | — |

`PROJECT.json` lists all of these with what is modelled, which source lines each
definition stands for, and the hazards of the code at the lines where they
bite, with the properties for them.

## 2. Modules

```
 calls                                what travels back
 RunLoop                              AgentLoop <- OpenAiSse (agent + serializer + page)
 Lifecycle                            Translators: AnthropicSse | ThinkTag | ResponsesApi
 Workflow                             SerialAgent <~ ChatServer
 ServiceClients: ModelClient |        SseDelivery <~ Gateway
   MemoryClient | SqliteMemory |      ChatPath (pages + gateway + agent server)
   MarkdownMemory | LlamaStackMemory | PgVectorMemory
```

`<-` is EXTENDS, `<~` is "is implemented by", `|` separates instances.  Each
module checked by itself has an `MC` module with its instance.  The proofs are in
eight modules: `AgentLoopProofs` (AgentLoop, OpenAiSse), `ChatServerProofs`,
`AnthropicSseProofs` (AnthropicSse, ResponsesApi, ThinkTag), `GatewayProofs`
(Gateway, ChatPath), `RunLoopProofs`, `LifecycleProofs`, `WorkflowProofs` and
`ServiceClientsProofs` (the model client and the memory backends).

### The agent

**AgentLoop** is one call of `astep_stream`.  `pc` is the generator's place:
`request` (loop header), `streaming` (inside the `async for` over the model's
chunks), `tools` (inside the loop over `assembled_calls`), and the three ways to
end.  `toolBuf` is `tool_buf`, `pending` the assembled calls not yet executed,
`messages` is `self.messages`, `events` the events yielded.  A chunk's parts are
handled one after the other in the code, so each is an action (`ContentChunk`,
`FinishChunk`, `ToolCallChunk`).  The end of a stream is `FinalTurn`, `ToolTurn`
or an exception (`ModelFails`, `NoChunk`); `ExecuteTool` is one round of the
execution loop with the tool's success or error, `ArgumentsFail` the
`TypeError` of arguments that do not unpack.  `Close` is the consumer's
departure, which may also come before the first event.  A message remembers
whether it has the key `tool_calls` (`listed`), because a turn all of whose calls
are dropped writes one with an empty list.  Text is reduced to its presence.
The id a provider gives to index `i` in model call `t` is `<<t, i>>`:
ids are fresh, as providers make them.

**RunLoop** is `run()` over a step, which is the default one (bounded, because
it drains `astep_stream`) or `CalculusAssistant.step` (not bounded); `capped`
says which, and the initial states have both.  A step is its model calls and
tools; of the history the module keeps the calls without an answer, because a
provider refuses such a history, and a step that raised leaves them there for the
next step to meet.

**Lifecycle** is `setup()`, `connect_mcp()`, `shutdown()` and a second life, for an agent
whose servers list any items and fail, and whose connections are cancelled at any
await, in `setup()` as well as in a later `connect_mcp()` (`Cancel`): the agent is
then ready with entries of a client it does not know (`abandoned`).  A tool,
prompt or resource is kept with its owner, so that "it can be called" means "its
owner is open".

**Workflow** is a graph under construction (`AddNode` ... `SetEntryPoint`) and the
runner that sets its nodes up, validates it, walks it and shuts the nodes
down.  `attempt` counts the runner's retries of a node, `post` those of a
`RemoteNode` inside one of them.  TLC builds every graph within the bound.

### The clients of outside services

**ServiceClients** composes six modules that share no state.  An interleaving of
clients that do not interact has no behaviour that each of them alone does not
have, so a behaviour chooses one client and the others stay as they began.

- **ModelClient**: one call of `LLMClient`, its failures, and the retries of
  `call_model_validated`.
- **MemoryClient**: `create_memory_client` and `build_memory_prefix`.
- **SqliteMemory**: operations in threads that share one connection; `view` is
  what the connection sees, `disk` what is committed.  A commit commits what
  every thread has executed, and any failing statement, a search's included, may
  make SQLite roll all of it back (`StatementFails`); `spoiled` are the operations
  under way at such a moment.
- **MarkdownMemory**: a file of sections, or a directory; a rewriting truncates
  first (`Truncate1`, `Truncate2`), and reads, appends and crashes fall between.
- **LlamaStackMemory**: requests that are carried out, or carried out with their
  answer lost, or refused, from several agents.
- **PgVectorMemory**: an embedding request and a statement per operation, both of
  which may fail.

In the backends a text is the number of the operation that wrote it, so that
"newer" can be said, and `found` holds what a search would return.

### What travels back

**OpenAiSse** extends AgentLoop by `stream_events_as_sse` and the page.  The
serializer pulls an event only when it has translated the last one, because
both are generators; the wire is the sequence of chunks; the page reads at its
own pace.

**Translators** composes, in the same way as ServiceClients, three translators
that keep state from one piece of a stream to the next.  **AnthropicSse** is
`stream_events_as_anthropic_messages`: its frames are kept as the content blocks
their reader makes of them, and the source may complete, raise or just end.
**ThinkTag** is `ThinkTagParser`, with tags of three and four characters for
`<think>` and `</think>`: what matters is that both begin alike and that any
proper prefix can be cut off by a chunk.  **ResponsesApi** is
`stream_responses_api` with its rounds of function calls.

**SerialAgent** is what the server promises: the agent serves one conversation
at a time.  **ChatServer** is the server that should implement it: any number of
requests, each streamed, synchronous or in Responses-API mode, and
`asyncio.Lock` as CPython has it (a deque of waiters, the first of which is
*woken*, and claims the lock only when its task runs).  `phase[r] = "sending"` is
the generator suspended at a `yield`, where a cancelled response leaves it
suspended inside the lock (`abandoned`) until the event loop finalizes it.
`threads` are the synchronous tools running in the executor.

**SseDelivery** is what a relay promises: a prefix of the backend's lines, in
order, with at most one cut line at its end.  **Gateway** is one request in the
gateway: `ServeHTTP`, the relay loop and the scanner goroutine, with the
unbuffered channel between them (`scanner = "offer"` is the send of
`lines <- scanner.Text()` waiting in its `select`).  A client reads, has stopped
reading (`stalled`: no write returns, `Writable`) or is gone.  A `ResponseWriter`
that cannot flush is left out: net/http's can, and the log wrapper passes it on.

**ChatPath** puts both ends and the middle together for several pages and
messages.  Gateway and ChatServer have the middle in detail; here a request is a
pipe of content chunks of bounded size from the agent to the page, the timer of
the gateway's `http.Client`, and a place in the queue for the agent.  What it
adds are the dependencies between the parts: a page that does not read fills
the pipe, blocks the agent, and with it everybody in the queue.  Two
simplifications: the agent's handler is over when it has put its last chunk into
the pipe (`Finish` does not wait for the terminator to be taken), and every request
takes the lock, also of a page set to the Responses-API mode, which passes it by.

Operators with a suffix, such as `FirstDelta_EveryId` or `LeaveQueue_LostWakeUp`,
stand beside the operator they vary and describe a slip a programmer could make
there; each property is known to fail when the slip named for it in
`PROJECT.json` replaces the original.

## 3. Runs

| Run | Instance | Shows |
|---|---|---|
| `agent_loop_no_calls` | 2 model calls, 2 deltas per turn, indexes 0 and 1, five delta shapes, three finish reasons | violation: the next model call is made with an empty list of tool calls |
| `run_loop` | both kinds of step; 4 steps, 2 model calls each where they are bounded, up to 2 tools, delays 1, 2, 3 | `LoopSound`, `RunEnds` |
| `lifecycle` | 2 lives, 2 configured servers and one connected later, 2 tool names | `OwnersSound`, `FirstRegistrationWins` |
| `workflow` | every graph of 2 nodes (one remote) and 3 edges, 3 steps, 2 attempts, 1 retry of a POST | `WalkSound`, `AllShutDown`, `WorkflowEnds` |
| `service_clients` | for each backend 2 writes (LlamaStack: 1) and 1 or 2 updates, searches cut at 10 (SQLite) and 2 rows, 1 crash, 1 restart, 2 agents | `ModelCallSound`, `MemorySetupSound`, `SqliteSound`, `MarkdownSound`, `LlamaStackSound`, `PgVectorSound` |
| `translators` | 2 turns with 2 calls and 5 blocks; texts of 7 characters in chunks of up to 2; 3 rounds of up to 2 calls | `BlocksSound`, `ParserSound`, `RoundsSound` |
| `openai_sse` | 2 model calls, 2 deltas per turn, indexes 0 and 1, deltas that open a call, carry a fragment, or repeat an id or bring it without a name | `CallsPaired`, `ResultsPairWithCalls`, `ClientAndHistoryAgree`, `SseSound`, `FirstTurnShown`, `ClientLearnsTheEnd` |
| `openai_sse_pills` | 2 model calls, one index | violation: the second turn's results find no pill |
| `chat_server` | 2 streamed, 1 synchronous, 1 Responses-API request, 2 agent steps each | lock and queue, `OwnConversation`, `FirstComeFirstServed`, refinement of SerialAgent, `EveryWaiterServed` |
| `gateway` | a stream of two events, `[DONE]` and a blank line, 2 heartbeats, a client that may stall, read on or leave | `RelaySound`, `OneDataLinePerEvent`, refinement of SseDelivery, `NothingLeaks` |
| `gateway_long_line` | the second event longer than 64 KiB | violation: the relay ends without that event |
| `chat_path` | 2 pages, 2 messages, 2 chunks per answer | `PathSound`, `RequestsEnd`, `PageUnlocks` |

A property whose name ends in `Sound` is a conjunction of named parts: the type
invariant of the module and the statements that only together describe a sound
state.  What the properties say, and why they are not obvious:

- `CallsPaired`: a tool turn writes the assistant message first and its
  answers one at a time, with exceptions and departures possible in between;
  yet whenever the loop is back at its header, every call of the history is
  answered directly after its message and every tool message answers a call.
  `HistoryWellShaped` asks in addition that no message has an empty list of calls,
  which fails where all calls of a turn are dropped.
- `ResultsPairWithCalls`: call ids are announced by one delta only, the one
  that first brings the id; a repeated id must not announce the call again.
- `ClientAndHistoryAgree`: the results streamed to the client are one by one
  the tool messages the model sees, and the metric counts them.
- `LoopSound`: a sleep is the backoff of the failures since the last success
  (`BackoffFollowsStreak`), and a call that has no answer outside a round was
  left by a step that raised (`OpenOnlyByFailure`).  `RunEnds`: `run()` ends, unless
  it runs `CalculusAssistant.step` and the model asks for tools for ever.
- `OwnersSound`: although prompts and resources enter the maps before their
  client enters `_mcp_clients`, and any await may fail or be cancelled, what a ready
  agent finds, and every tool registered in this life, belongs to an open client;
  one that `shutdown()` does not know had its `connect_mcp` cut short, and
  `shutdown()` leaves only such clients open.  Tools of an earlier life are
  excepted: they stay registered, their clients closed, and keep their names
  (`FirstRegistrationWins`).
- `WalkSound`: the nodes executed are a path of the graph, an error edge follows
  only a node that failed in every attempt (`FollowsGraph`); a remote node's
  failed attempts leave nothing in the state (`RemoteAllOrNothing`); and a
  state is returned only for a walk that ended (`EndedAtEnd`).
- `ModelCallSound`: only a rejected response is asked for again.
  `MemorySetupSound`: the client is the configured one unless a step failed, and
  the prefix keeps its limit up to the mark of the cut.
- `SqliteSound`: what an operation returned is on disk, whichever thread's
  commit put it there, and a search with words that does not fail finds it;
  except for an operation that was under way when SQLite rolled the shared
  transaction back.  `MarkdownSound`: what was returned
  stays, if operations did not overlap and no rewriting broke off.
  `LlamaStackSound`: what was returned is attached until an update of it begins,
  and an update does not leave both texts unless its delete failed.
  `PgVectorSound`: a row's embedding is that of its text, or, if the request for
  that one failed, of an earlier text of the same row, no older than the last one
  whose request was answered, however updates overlap; and what was returned
  is found, or the result is full.
- `BlocksSound`: the serializer's `current_block_index` and `tool_block_indexes`
  are the blocks that are open for the reader.  `ParserSound`: what has been
  returned and what is held back are, at every moment, the whole text split at
  its tags by the reference definition `Split`, so the cuts between chunks make
  no difference; and no more is held back than may begin a tag.
  `RoundsSound`: no call is executed twice or after its round (`ExecutedOnce`), the
  call of a response that holds one is executed before the next request
  (`SingleCallExecuted`), and that request pairs every call executed with its
  output (`InputPairs`).
- `SseSound`, `ClientLearnsTheEnd`: the end of the chunks tells the client
  how the agent's run ended, exceptions included.
- `FirstTurnShown`: what the page's pairing by index and by id achieves as long
  as indexes are new; `ResultsFindTheirPill`, the promise of the docstring of
  `ToolResultEvent`, fails from the second tool turn on.
- `LockHeldInside`, `QueueSound`, `OwnConversation`, `FirstComeFirstServed`: see
  section 5.  `ServesOneConversation`: the server, seen through the lock, is a
  SerialAgent.
- `OneDataLinePerEvent`: a heartbeat ends in a blank line, which dispatches an
  event in an event-stream client; it may fall between a data line and its own
  blank line, and still two data lines never share an event.  The rest of a line
  in which the backend broke off is dispatched by the next heartbeat, and only as
  the last event of a stream without terminator.
- `DeliversInOrder`: without the heartbeats, the client's lines are a prefix of
  the backend's; only the last may be a cut one.  `NothingLeaks`: handler,
  scanner goroutine and body all end, in particular when the scanner offers a
  line while the relay returns after `[DONE]`; only a client that stays and never
  reads again can prevent it, because the gateway sets no `WriteTimeout`.
- `PathSound`: in what a page sends with its next message each answer stands
  behind its own question.  `RequestsEnd`: a page that stalls or an agent that
  hangs holds neither lock nor queue for ever, because the gateway's timer ends
  its request and the server then notices.  `PageUnlocks`: a page that reads can
  be written in again.

### Bounds

`MaxDeltas`, `MaxWork`, `MaxBeats`, `MaxText`, `MaxCalls`, `MaxBlocks`, `MaxFound`,
`MaxCrashes`, `MaxRestarts`, `MaxDynamic`, `MaxLives`, `MaxEdges`, `MaxRequests`,
`MaxChunks` and `MaxPerRound` only bound counters; the other numbers are
parameters of the code, taken small.

- Two model calls are enough for anything that relates turns, because the loop
  keeps nothing between turns but the history, the events, `finish_reason` and
  whether `chunk` is bound; two deltas on two indexes give split, repeated,
  interleaved and incomplete calls.  The same two turns of two calls, with
  text between them, give every overlap of content blocks.
- Four steps of RunLoop reach the ceiling of the delay and leave room for a
  success between failures.
- Two lives give tools of a closed client; a server connected later is the
  third client, and an owner before and behind the one that fails.
- Two nodes with three edges have every cycle, conditional and error edges at
  the same node, and nodes that cannot be reached; three steps are one more
  than the nodes.
- Two writes and an update are a holder, an overlapping operation and a third
  one of which both may be the target; one crash or restart separates what was
  persisted from what was not, and nothing counts them.  A search of pgvector
  is cut at as many rows as there are memories, so that each must be found.
- Seven characters hold both tags, each of which a chunk of one or two
  characters cuts anywhere, or one tag and false starts of it.
- The three requests that take the lock give a holder, a woken waiter and
  one behind it, which is every situation the lock's queue distinguishes; the
  proofs do away with the bound.
- The gateway's script has two events, so that a line can be lost, doubled or
  overtaken, and a line after the terminator, so that the scanner can still be
  offering when the relay returns.
- In ChatPath a page's connection holds one chunk more than it has read and
  the agent's none (`PagePipe`, `AgentPipe`): with two chunks an answer can be
  cut before, inside and behind what was delivered, and block at either end.

### Fairness

- RunLoop: weak fairness of `Next`.  A provider answers or fails, tools return, a
  sleep is over.  The model is not made to stop asking for tools: with the
  default step the cap ends it, with `CalculusAssistant.step` nothing does.
- Workflow: weak fairness of `Execute`: nodes and edge functions return, HTTP
  calls have a timeout.  A program need not ever start its workflow.
- OpenAiSse: weak fairness of the generator chain and of the page's reading: a
  provider's stream ends (the number of deltas is bounded), tools return, the
  event loop runs the generators.  `Disconnect` is never forced.
- ChatServer: a woken waiter claims the lock, the agent's run for the request
  inside goes on and ends (as `ClientLearnsTheEnd` says of OpenAiSse), a client takes its chunk
  or leaves, and the event loop finalizes an abandoned generator.  The code
  has no write timeout: a client that does neither holds the lock for ever,
  which `EveryWaiterServed` does not cover.
- Gateway: goroutines run when they can; `http.Client.Timeout` (120 s,
  `cmd/server/main.go:28`) ends a stream that does not end by itself, which is
  the fairness of `BackendEnds \/ BackendBreaks`.  The backend need not send.  The
  handler's fairness is strong: a client that stops and reads again, however
  often, makes room for the line that waits.  Nothing makes it read, for the
  server has no `WriteTimeout` (`cmd/server/main.go:61-65`): a client that stays and
  never reads again keeps handler, scanner and body, and `NothingLeaks` excepts it.
- ChatPath: that timer, the server noticing a broken connection, the event loop
  and the gateway's goroutines.  Nothing is asked of the agent and its model, and
  nothing of the pages; `PageUnlocks` is for pages that go on reading.

ServiceClients and Lifecycle have no liveness: an operation that hangs, hangs.
Translators has none either: a generator goes on when its consumer asks, which
a client that does not read never does, and httpx's timeout of 120 s
(`calculus-agent/src/server.py:89`) limits each read, not the stream.

Deadlock is not checked: every behaviour of these modules ends (a generator is
exhausted, every request is final, a workflow has returned, the bounded
operations of a client are done).

## 4. Where code and comments disagree

Three disagreements have a run, because they lose a user's data, or the conversation,
on the ordinary path; `PROJECT.json` lists them as findings.

1. `events.py:51-53` says results pair with calls by id; serializer and page
   forget to start anew with each turn (run `openai_sse_pills`).
2. `sse.go:13-14` says each event is written to the client; a line beyond 64 KiB
   ends the relay silently (run `gateway_long_line`).
3. `agent.py:562-564` says the assistant message makes the history correctly shaped
   for the next model call; when every buffered call lacks an id or a name, lines
   565-571 append one with `"tool_calls": []` (run `agent_loop_no_calls`).

The other sentences are definitions in the modules that do not hold, each with
the sentence quoted above it.  They have no run of their own; to see the
counterexample of one, name it as an INVARIANT (or PROPERTY, where it is
temporal) in a configuration of its module; a module that is checked as an
instance of another takes the CONSTANTS it has there.

| Module | Definition | The sentence, and what the code does |
|---|---|---|
| AgentLoop | `StopsOnOtherFinish` | `agent.py:396-397`: the loop terminates on a finish reason other than `tool_calls`; it looks only at `tool_buf` |
| RunLoop | `NextCallShaped` | `agent.py:562-564`: the history is "correctly shaped for the next model call"; a step that raised leaves it open |
| RunLoop | `NoRunaway` | `agent.yaml:64-65`: "Prevents runaway loops."; `CalculusAssistant.step` loops inside one step |
| ChatServer | `RequestsSerialised`, `ToolsSerialised` | `server/__init__.py:139-140`: requests are serialised through the lock; Responses-API requests pass it by, and a synchronous tool outlives its cancelled request |
| ChatServer | `SystemPromptFirst` | `calculus-agent/src/server.py:239`: the first message is always the system prompt; every request replaces the history |
| Lifecycle | `McpClosed`, `HandlesClosed` | `agent.py:271`: shutdown closes MCP connections and handles; clients cut short and memory connections stay |
| Lifecycle | `PrefixPinned` | `agent.py:921-924`: the memory prefix is pinned at index 1; a second setup moves it |
| Workflow | `ExceededMeansUnfinished` | `workflow/errors.py:45`: raised when the workflow exceeds `max_steps`; raised also when the last permitted step reached END |
| Workflow | `LastExcExists` | `workflow/runner.py:187` asserts that an exception was caught; with `node_retries = 0` there is none |
| ModelClient | `DictGivesDict`, `OneErrorType` | `llm.py:218-219` and `38-39`: a dict schema gives a dict, and callers catch one type; a JSON list is returned, and a response without choices raises IndexError |
| MemoryClient | `NeverRaises`, `PrefixWithinMax` | `memory.py:213` and `config.py:230`: making a client never raises, the prefix is at most `max_prefix_chars` long; only ImportError is caught around the import of a backend, and the mark of the cut comes on top of the limit |
| SqliteMemory | `SafeInOneProcess`, `EmptyFindsAll` | `memory_sqlite.py:8` and `agent.py:928`: safe in one process, and the empty query finds all; a commit or statement whose failure rolls back takes other threads' statements with it, and the empty query has no words to fall back to |
| MarkdownMemory | `NamelessIsWritten`, `FailedUpdateKeepsOthers` | `memory_markdown.py:24` and `28`: a timestamp serves as id, update replaces one section; at level 2 the timestamp is no safe file name, and a failed rewriting leaves an empty file |
| LlamaStackMemory | `FailedIsNotPersisted`, `ReplacedNotRemoved`, `FoundAfterRestart` | `memory_llamastack.py:104`, `111`, `156`: what failed is not persisted, an update replaces, the store is found again; a lost answer, a failed upload and two stores of one name contradict them |
| AnthropicSse | `WellFormedAtTheEnd`, `OwnBlock` | `anthropic_messages.py:297` and `222`: the stream is well formed, a call has its own block; not when the source just ends, and not in a second turn |
| ResponsesApi | `EveryCallExecuted`, `ResultsFindTheirPill` | `calculus-agent/src/server.py:44-46`: a function call is executed; of several in a round only the last is, and the page keeps the pill of index 0 (`app.js:562`) |

## 5. Proofs

A theorem `Spec => []Inv` is proved from an inductive invariant, which is given
here by the names of its parts with the reason why each is needed: where `Inv`
alone would not survive a step.  The assumption named with each module is the one
its constants have in the model; every run evaluates it.

`AgentLoopProofs` (`ConstantsAssumption`; any number of model calls, indexes, deltas)

- `TypeCorrect`.
- `ResultsPair`: `Spec => []ResultsPairWithCalls`.  The property says nothing of
  the turn in progress, so it is not inductive; `PairingInv` adds that an entry
  of the buffer with an id was announced (`BufferAnnounced`), that an id announced
  in this turn is in the buffer and no announced id is of a later turn
  (`AnnouncedBuffered`), that pending calls have ids (`PendingBuffered`), and that
  no pending call has a result (`ResultsNotPending`).  Each action that yields has
  a lemma of its own.
- `CallsAlwaysPaired`: `Spec => []CallsPaired`.  Inside a tool turn the history
  is *open* at one message: all after it are answers, and what is unanswered is
  exactly what is pending (`OpenAt`, `HistoryInv`).
- `ClientAndModelAgree`: `Spec => []ClientAndHistoryAgree`.  Each result is
  streamed in the step that puts its answer into the history (`SameIds`); that
  both come in one order (`SameOrder`) survives because the id is new, which is
  known from the pairing above.
- `StreamRunsTheLoop`: `SseSpec => Spec`, so that all of this also holds behind the
  serializer.
- `StreamAlwaysSound`: `SseSpec => []SseSound`.  `Framed` says where in the chunks
  the role, the finish reason and `[DONE]` may stand; that the finish reason
  comes once and last needs that the loop's terminal event does (`EventsSound`).
- `FirstTurnAlwaysShown`: `SseSpec => []FirstTurnShown`.  In the first turn an index
  and an id belong together: an index is opened once, by the call whose id has it
  (`CallsOf`, `OpenedBy`, `FirstOpened`), fragments of later turns come later on
  the wire (`CallsInOrder`), and the page's pills are those of the fragments it
  has read (`PageInv`).

`ChatServerProofs` (`ServerAssumption`; any set of requests)

- `TypeCorrect`, `LockHeld`, `QueueIsSound`: mutual exclusion and the queue are
  inductive only together (`LockInv`): a woken waiter may claim the lock because
  `woken` is empty while it is held, and `woken` is what the queue says because
  only the handler inside releases.  One lemma per way of touching the lock:
  taken, released, awaited, given up, untouched.
- `FirstCome`: the action property, from the same invariant.
- `Isolation`: `Spec => []OwnConversation`.
- `Refines`: `Spec => Serial!SerialSpec`.  `StepKinds` sorts the steps into those that
  leave `agent.messages` alone, those that begin a conversation and those that
  extend it; under `LockInv` they are stutters or ends, `Begin` and `Extend`.

`AnthropicSseProofs` (`AnthropicAssumption`; any number of turns,
indexes and blocks)

- `BlocksAlwaysSound`: `Spec => []BlocksSound`.  The invariant says block by block
  which ones are open (`Tracked`); closing the current block keeps a call's block
  open only because their kinds differ (`CurrentIsNoCall`), and a call's later
  arguments stay apart only because no two calls share a block (`Distinct`), so
  both belong to `BlockInv`.  `Owners` says whose arguments a block of the first
  turn holds, `NothingLeft` that the two proper ends leave nothing tracked.
- `RoundsAlwaysSound`, about ResponsesApi as Translators composes it
  (`TranslatorAssumption`; any number of rounds and calls): while a
  round streams, its current call is the last there is (`CurrentIsLast`), which
  the step that executes it needs; every round before executed its last call
  (`LastExecuted`), which is the only one where there is only one; and no call is of
  a round to come (`NoneAhead`), which the head of a round needs.
- `ParserAlwaysSound`, about ThinkTag in the same composition (any two tags that are
  not empty, any texts and cuts): during a call what is held back is the
  end of the text, and the reference reading of the text has come, before it, to
  the parser's own kind and output (`ParserStands`).  For that to survive the
  next chunk, more text must not change what has been read: at every character
  passed there is a tag, or the rest of one, or a character that differs from
  the tag within the text (`Decided`; `ReadingGoesOn`).  The parser passes
  only such characters, because where no tag is found and none is held back the
  text differs from it (`ParserPasses`, `LongestFit`); and what is held back is
  shorter than a tag, so that at the end it reads as it is (`ParserAgrees`).

`GatewayProofs` (`GatewayAssumption`; any script, any number of heartbeats)

- `RelayAlwaysSound`: `Spec => []RelaySound`.  That a response is closed on every
  path is inductive once the body and the status are tied to the handler's place
  (`BodyFollowsHandler`); that the scanner's count stays within the script
  although it also counts the rest of a broken line is `ScannerKeeps`.
- `RelayDelivers`: `Spec => DeliversInOrder`, the refinement of SseDelivery.  What
  the scanner offers is the next line or the rest of a broken one (`OfferInv`),
  and what a client has is what went through the channel (`RelayedInv`).  A line
  that the relay writes maps to `Deliver`, a heartbeat to a stutter; that is a fact about
  `WithoutBeats`, the output without its heartbeats.
- `EventsStayWhole`: `EventScript => (Spec => []OneDataLinePerEvent)`, where
  `EventScript` says what the agent server writes: a blank line follows each data
  line.  A data line not yet ended (`Unended`) is ended by the next thing the
  scanner offers, or nothing comes any more; and behind the rest of a broken line
  the scanner is through its input (`CutInv`), so that only heartbeats follow.

- `PathAlwaysSound`: `PathSpec => []PathSound`, about ChatPath (`PathAssumption`; any
  pages, requests and pipes).  A page that reads, reads the answer to the last
  message of its conversation (`LastAsked`), or an answer could be stored behind
  another question.  The counters of chunks stay in order (`InOrder`) because one
  handler at most has the lock (`OneHolder`) and nothing happens for a request
  before it arrives (`Begun`).

`RunLoopProofs` (`LoopConfigAssumption`; any backoff in whole numbers, any steps and calls)

- `LoopAlwaysSound`: `Spec => []LoopSound`.  The error counter is the length of the
  last run of errors and there is one outcome for each step over (`Progress`); a
  result is set only by the step that ends the run (`Finished`).

`LifecycleProofs` (`LifecycleAssumption`; any servers, lists of tools, lives)

- `OwnersAlwaysSound`: `Spec => []OwnersSound`.  Between entering a client and
  recording it, what is found may belong to the client in hand (`Entered`,
  `Listed`, `Reachable`), and after a cancellation to one that is
  forgotten; a client in hand is new, because the known ones are of
  this life and of earlier servers (`OfLives`); and a client still open is known,
  in hand, or forgotten, where `shutdown()` works through the known ones (`StillOpen`).
- `FirstRegistrationAlwaysWins`: the action property.

`WorkflowProofs` (`WorkflowAssumption`; any graph and numbers of retries)

- `WalkAlwaysSound`: `Spec => []WalkSound`.  `path` grows when a node is done, so
  what must be known is that the current node is the entry or that the last node
  executed leads to it (`Arrived`), how much of the walk is recorded at each place of
  the runner (`Walking`), and that a remote node still being tried has written
  nothing (`Written`).
- `EverythingShutDown`: a node that is still open is one `shutdown()` has not come
  to (`StillOpen`).

`ServiceClientsProofs` (`ServiceAssumption`, in which there is at least one safe name for a
heading; any number of operations, agents, crashes)

- `SqliteAlwaysSound`: an operation past its statement has its row, in that text or
  a later one, in the open transaction, and one that returned has it on the disk;
  the transaction never falls behind the disk (`SqliteSteps`).  An operation
  beyond these is one that was under way at a rollback.  That a search finds what was
  returned although it has a limit counts rows, with the theorems on
  finite sets.
- `PgVectorAlwaysSound`: a row has the text of an operation or a later one from its
  statement on (`PgSteps`), and a write's row does not exist before.  The
  embedding is followed row by row (`PgNotAhead`, `PgBehindIfFailed`, `PgKept`): a
  statement writes text and embedding at once, or the text alone if its
  request failed.
- `MarkdownAlwaysSound`: `ReturnedStays` speaks of a file that is whole, and a rewriting
  writes a text it has read before.  So the invariant says that also each text
  an update holds has the section of every operation that returned and that none
  overlapped (`TextsKeep`), and that the file has these sections unless it is half
  written (`FileKeeps`); in a directory, that the files are there, emptied at
  most by an operation under way (`FilesKeep`, `EmptyIsThere`).  Two operations
  under way have both overlapped (`Overlapping`), and the section to be replaced
  exists (`MarkdownSteps`), so that the new text has every other section of the old
  one (`Spliced`).
- `LlamaStackAlwaysSound`: an update that goes on after its delete does so in a store
  which no longer holds the old memory (`LlamaSteps`); and a file is attached only
  by an operation that is then over.
- `ModelCallAlwaysSound`: between the steps of a call, what was asked is what was
  rejected, and an attempt is left where one may still be made (`ModelStage`).
- `MemorySetupAlwaysSound`: where the making of a client stands tells which backend
  was configured (`MemoryStage`), and the joined contents are at least as long
  as each of them (`JoinedBounds`).

Four definitions are recursive functions over the naturals: `Power` (the factor of the
backoff), `JoinedTo` (the joined memories), `WithoutBeats`, and `Reading` (the reference
of the parser).  The provers do not
take the induction theorems of the library, whose parameter is an operator; the
proofs say instead that a set of naturals with 0 and each successor is all of
them (`InductiveSet`), build the finite pieces of the function (`Sums` in
`ServiceClientsProofs`) and show that it satisfies its equation
(`JoinedEquation`, `PowerEquation`, `ReadingSteps`).

Only model-checked is liveness (`RunEnds`, `WorkflowEnds`, `ClientLearnsTheEnd`,
`EveryWaiterServed`, `NothingLeaks`, `RequestsEnd`, `PageUnlocks`), which needs fairness and `ENABLED`, out of the prover's
reach.  Every invariant and every action property the passing runs check is a theorem.

## 6. Plan

Everything of the first plan is modelled, and every safety property the runs
check is proved.  What could come next:

1. The safety part of the liveness arguments: for each waiting state of ChatServer and
   Gateway a measure that every step of the fair actions decreases and no other
   step increases.
2. The history across runs: AgentLoop and RunLoop share `agent.messages`, and
   RunLoop keeps only the open calls of it; a refinement would tie the two.

## 7. Not modelled

- The patterns of `ToolInspector` and the schemas of the tool planes: data about
  one call, without state.
- `write` and `update` of the MemoryHub client: calls of an SDK that is not in the
  repository, one each.  `report_contradiction` only logs.
- Of the server's lifespan, that nothing is served before `setup()` and after
  `shutdown()`; both are in Lifecycle.
- Skills, prompts, rules and configuration: parsed once; a skill's activation
  reads its file and sets a field of it, and nothing interacts with it.
- Health checks, agent card and request log of the gateway: stateless handlers.
- The UI server: Go's `ReverseProxy`, a library, in order like the connection.
- Rendering of text on the page, and settings, which are parameters of a request.
- Diagnostics, evaluations, charts and build files: tooling and deployment.
