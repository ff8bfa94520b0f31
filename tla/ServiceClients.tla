--------------------------- MODULE ServiceClients ---------------------------
(***************************************************************************)
(* The clients an agent has for the services outside it: the model, and    *)
(* the memory backend its configuration selects.  They share no state, so  *)
(* a behaviour is one of one client, with the services it talks to; the    *)
(* others stay as they began.                                              *)
(***************************************************************************)
EXTENDS Integers, FiniteSets

CONSTANTS
    Agents,                   \* of LlamaStackMemory
    Writes, Updates,          \* operations, for each memory backend
    Names, Stamp, NoName,     \* of MarkdownMemory
    SqliteLimit, PgLimit,
    Sizes, MaxFound, Limits,  \* of MemoryClient
    Retries,                  \* of ModelClient
    MaxCrashes, MaxRestarts

Backends == {"sqlite", "markdown", "llamastack", "pgvector"}
Services == {"model", "memory"} \cup Backends

ASSUME ServiceAssumption ==
    /\ \A b \in Backends : IsFiniteSet(Writes[b]) /\ Writes[b] \cap Updates[b] = {}
    /\ Sizes \cup Limits \cup {SqliteLimit, PgLimit, MaxFound, MaxCrashes, MaxRestarts} \subseteq Nat
    /\ Names # {} /\ Stamp \notin Names /\ NoName \notin Names \cup {Stamp}
    /\ Retries \subseteq Int

VARIABLES
    service,
    operation, schema, maxRetries, callPc, calls, rejected, slept, outcome,
    backend, classGiven, limit, setupPc, memoryClient, failed, memories, prefix, cut,
    sqliteClient, sqlitePc, sqliteTarget, sqliteStamp, view, disk, ran, spoiled, asked, hits,
        sqliteCrashes,
    level, key, headed, mdPc, text, doc, place, at, clock, overlapped, torn, mdCrashes,
    llamaClient, store, stores, llamaPc, agent, llamaTarget, uploaded, attached, undeleted,
        restarts,
    pgClient, index, pgPc, pgTarget, pgStamp, embedded, rows, pgRan, how, pgFound

Model == INSTANCE ModelClient WITH pc <- callPc
Memory == INSTANCE MemoryClient WITH pc <- setupPc, client <- memoryClient, found <- memories
Sqlite == INSTANCE SqliteMemory WITH
    Writes <- Writes["sqlite"], Updates <- Updates["sqlite"], Limit <- SqliteLimit,
    pc <- sqlitePc, client <- sqliteClient, target <- sqliteTarget, stamp <- sqliteStamp,
    found <- hits, crashes <- sqliteCrashes
Markdown == INSTANCE MarkdownMemory WITH
    Writes <- Writes["markdown"], Updates <- Updates["markdown"],
    pc <- mdPc, crashes <- mdCrashes
Llama == INSTANCE LlamaStackMemory WITH
    Writes <- Writes["llamastack"], Updates <- Updates["llamastack"],
    pc <- llamaPc, client <- llamaClient, target <- llamaTarget
PgVector == INSTANCE PgVectorMemory WITH
    Writes <- Writes["pgvector"], Updates <- Updates["pgvector"], Limit <- PgLimit,
    pc <- pgPc, client <- pgClient, target <- pgTarget, stamp <- pgStamp,
    ran <- pgRan, found <- pgFound

modelVars == <<operation, schema, maxRetries, callPc, calls, rejected, slept, outcome>>
memoryVars == <<backend, classGiven, limit, setupPc, memoryClient, failed, memories, prefix, cut>>
sqliteVars == <<sqliteClient, sqlitePc, sqliteTarget, sqliteStamp, view, disk, ran, spoiled,
                asked, hits, sqliteCrashes>>
markdownVars == <<level, key, headed, mdPc, text, doc, place, at, clock, overlapped, torn, mdCrashes>>
llamaVars == <<llamaClient, store, stores, llamaPc, agent, llamaTarget, uploaded, attached,
               undeleted, restarts>>
pgVars == <<pgClient, index, pgPc, pgTarget, pgStamp, embedded, rows, pgRan, how, pgFound>>
vars == <<service, modelVars, memoryVars, sqliteVars, markdownVars, llamaVars, pgVars>>

(* The parameters of a client that is not the chosen one are fixed. *)
Parameters ==
    /\ service = "model" \/ (operation = "chat" /\ schema = "dict" /\ maxRetries = 0)
    /\ service = "memory" \/ (backend = "null" /\ classGiven = FALSE /\ limit = 0)
    /\ service = "markdown" \/ (level = 1 /\ headed = {} /\ key = [o \in Markdown!Ops |->
                                                                  CHOOSE n \in Names : TRUE])

Init ==
    /\ service \in Services
    /\ Parameters
    /\ Model!Init /\ Memory!Init
    /\ Sqlite!Init /\ Markdown!Init /\ Llama!Init /\ PgVector!Init

Next ==
    \/ /\ service = "model" /\ Model!Next
       /\ UNCHANGED <<service, memoryVars, sqliteVars, markdownVars, llamaVars, pgVars>>
    \/ /\ service = "memory" /\ Memory!Next
       /\ UNCHANGED <<service, modelVars, sqliteVars, markdownVars, llamaVars, pgVars>>
    \/ /\ service = "sqlite" /\ Sqlite!Next
       /\ UNCHANGED <<service, modelVars, memoryVars, markdownVars, llamaVars, pgVars>>
    \/ /\ service = "markdown" /\ Markdown!Next
       /\ UNCHANGED <<service, modelVars, memoryVars, sqliteVars, llamaVars, pgVars>>
    \/ /\ service = "llamastack" /\ Llama!Next
       /\ UNCHANGED <<service, modelVars, memoryVars, sqliteVars, markdownVars, pgVars>>
    \/ /\ service = "pgvector" /\ PgVector!Next
       /\ UNCHANGED <<service, modelVars, memoryVars, sqliteVars, markdownVars, llamaVars>>

Spec == Init /\ [][Next]_vars

-----------------------------------------------------------------------------
(* A call of the model asks the provider again only after a rejected       *)
(* response, and its delays double and cost 2^n - 1 s for n retries.       *)
ModelCallSound ==
    service = "model" => Model!TypeOK /\ Model!RetriesOnlyRejections /\ Model!BackoffCost

(* The agent's memory client is the configured one, or the null client     *)
(* when a step of making it failed, and the prefix keeps to its limit.     *)
MemorySetupSound ==
    service = "memory" => Memory!TypeOK /\ Memory!ClientAsConfigured /\ Memory!PrefixBounded

(* What SQLite's write() or update() has returned is on disk, and searches *)
(* find it.                                                                *)
SqliteSound ==
    service = "sqlite" => Sqlite!TypeOK /\ Sqlite!ReturnedIsDurable /\ Sqlite!SearchFindsReturned

(* What a write to the Markdown store has returned stays there, unless     *)
(* operations overlapped or a rewriting broke off.                         *)
MarkdownSound ==
    service = "markdown" => Markdown!TypeOK /\ Markdown!ReturnedStays

(* What LlamaStack has returned is attached until an update of it begins,  *)
(* and old and new text are not both stored unless a delete failed.        *)
LlamaStackSound ==
    service = "llamastack" => Llama!TypeOK /\ Llama!ReturnedIsAttached /\ Llama!NeverBoth

(* In pgvector a row's embedding falls behind its text only by a failed    *)
(* embedding request, and what was returned is found.                      *)
PgVectorSound ==
    service = "pgvector" => PgVector!TypeOK /\ PgVector!EmbeddingFollowsContent /\ PgVector!ReturnedIsFound
=============================================================================
