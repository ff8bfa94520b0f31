----------------------------- MODULE Lifecycle -----------------------------
(***************************************************************************)
(* The life of a BaseAgent: setup() with its MCP connections, connect_mcp  *)
(* called later by the agent itself, shutdown(), and setup() again.  start *)
(* calls shutdown() whatever setup() and run() do.                         *)
(*                                                                         *)
(* A client is <<life, number>>; Local owns the agent's own tools.         *)
(* Which items a server lists, and which of its answers fail, is open.     *)
(***************************************************************************)
EXTENDS Integers, Sequences, FiniteSets, SequencesExt

CONSTANTS
    LocalTools,    \* names of the tools in tools/
    ToolNames,     \* names that MCP tools may have
    Items,         \* names of prompts, URIs of resources and of templates
    Servers,       \* config.mcp_servers, how many
    MaxLives, MaxDynamic   \* bounds: setups, and connect_mcp calls after them

ASSUME LifecycleAssumption ==
    /\ LocalTools \subseteq ToolNames
    /\ {Servers, MaxLives, MaxDynamic} \subseteq Nat

Kinds == <<"prompts", "resources", "templates">>
Clients == (1..MaxLives) \X (1..(Servers + MaxDynamic))

VARIABLES
    pc,
    life,        \* setups begun
    server,      \* connect_mcp calls of this life
    kind,        \* the listing that connect_mcp is at
    tools,       \* ToolRegistry._tools: name -> owner
    catalog,     \* _mcp_prompts, _mcp_resources, _mcp_resource_templates
    clients,     \* _mcp_clients
    open,        \* clients entered and not closed
    abandoned,   \* clients whose connect_mcp was cut short after they opened
    handles,     \* lives whose memory backend holds a connection
    messages     \* self.messages

vars == <<pc, life, server, kind, tools, catalog, clients, open, abandoned,
          handles, messages>>
registries == <<tools, catalog, clients>>

Local == <<0, 0>>
Nothing == [k \in DOMAIN Kinds |-> <<>>]
Client == <<life, server>>
Add(map, names, owner) ==
    [n \in DOMAIN map \cup names |-> IF n \in DOMAIN map THEN map[n] ELSE owner]

(* ToolRegistry.register raises for a name that is taken, which            *)
(* _register_mcp_tool logs; discover skips it.                             *)
Register(names, owner) == Add(tools, names, owner)
Discover == Register(LocalTools, Local)

(* get_mcp_prompt, read_resource: the client an item is asked from. *)
Found == UNION {{catalog[k][n] : n \in DOMAIN catalog[k]} : k \in DOMAIN Kinds}

Init ==
    /\ pc = "idle"
    /\ life = 0 /\ server = 0 /\ kind = 0
    /\ tools = <<>> /\ catalog = Nothing /\ clients = <<>>
    /\ open = {} /\ abandoned = {} /\ handles = {}
    /\ messages = <<>>

-----------------------------------------------------------------------------
(* Configuration, local tools, prompts, skills and rules; each of these    *)
(* may raise after the tools have been discovered.                         *)
SetUp ==
    /\ pc = "idle" /\ life < MaxLives
    /\ life' = life + 1
    /\ server' = 0
    /\ tools' = Discover
    /\ pc' \in {"memory", "failed"}
    /\ UNCHANGED <<kind, catalog, clients, open, abandoned, handles, messages>>

(* create_memory_client never raises; the backend may hold a connection. *)
CreateMemory ==
    /\ pc = "memory"
    /\ handles' \in {handles, handles \cup {life}}
    /\ pc' = "servers"
    /\ UNCHANGED <<life, server, kind, registries, open, abandoned, messages>>

(* connect_mcp: from setup() for each configured server, or later.  The    *)
(* transport of a stdio server is built outside the try.                   *)
Configured == server < Servers
Returned == IF server <= Servers THEN "servers" ELSE "ready"

BeginConnect ==
    /\ \/ pc = "servers" /\ Configured
       \/ pc = "ready" /\ server < Servers + MaxDynamic
    /\ server' = server + 1
    /\ pc' \in {"entering"} \cup (IF pc = "servers" THEN {"failed"} ELSE {})
    /\ UNCHANGED <<life, kind, registries, open, abandoned, handles, messages>>

(* __aenter__ *)
Enter ==
    /\ pc = "entering"
    /\ \/ pc' = "tools" /\ open' = open \cup {Client}
       \/ pc' = Returned /\ UNCHANGED open
    /\ UNCHANGED <<life, server, kind, registries, abandoned, handles, messages>>

(* Slip: an MCP tool takes the place of one with its name. *)
ListTools_Replaces ==
    /\ pc = "tools"
    /\ \/ /\ \E names \in SUBSET ToolNames :
                tools' = [n \in DOMAIN tools \cup names |->
                              IF n \in names THEN Client ELSE tools[n]]
          /\ pc' = "catalog" /\ kind' = 1
          /\ UNCHANGED abandoned
       \/ /\ pc' = Returned
          /\ abandoned' = abandoned \cup {Client}
          /\ UNCHANGED <<tools, kind>>
    /\ UNCHANGED <<life, server, catalog, clients, open, handles, messages>>

(* list_tools: a name that is taken is skipped; a failure is logged, and   *)
(* the client, which is open by now, is forgotten.                         *)
ListTools ==
    /\ pc = "tools"
    /\ \/ /\ \E names \in SUBSET ToolNames : tools' = Register(names, Client)
          /\ pc' = "catalog" /\ kind' = 1
          /\ UNCHANGED abandoned
       \/ /\ pc' = Returned
          /\ abandoned' = abandoned \cup {Client}
          /\ UNCHANGED <<tools, kind>>
    /\ UNCHANGED <<life, server, catalog, clients, open, handles, messages>>

(* list_prompts, list_resources, list_resource_templates: failures are     *)
(* logged, duplicates skipped.                                             *)
ListItems ==
    /\ pc = "catalog" /\ kind <= Len(Kinds)
    /\ \E names \in SUBSET Items :
          catalog' = [catalog EXCEPT ![kind] = Add(@, names, Client)]
    /\ kind' = kind + 1
    /\ UNCHANGED <<pc, life, server, tools, clients, open, abandoned, handles, messages>>

Connected ==
    /\ pc = "catalog" /\ kind > Len(Kinds)
    /\ clients' = Append(clients, Client)
    /\ pc' = Returned
    /\ kind' = 0
    /\ UNCHANGED <<life, server, tools, catalog, open, abandoned, handles, messages>>

(* The system prompt, then the memory prefix, whose search may raise (a    *)
(* custom backend's) when the system prompt is in place already.           *)
Seed ==
    /\ pc = "servers" /\ ~ Configured
    /\ messages' = Append(messages, "system")
    /\ pc' = "prefix"
    /\ UNCHANGED <<life, server, kind, registries, open, abandoned, handles>>

Prefix ==
    /\ pc = "prefix"
    /\ \/ pc' = "ready" /\ messages' \in {messages, Append(messages, "prefix")}
       \/ pc' = "failed" /\ UNCHANGED messages
    /\ UNCHANGED <<life, server, kind, registries, open, abandoned, handles>>

(* Cancelled at an await, which no handler catches: start() within         *)
(* setup(), or a later connect_mcp that the agent has put under a timeout, *)
(* say.  The client that was being connected is forgotten, and its tools,  *)
(* and what it has listed by now, stay registered.                         *)
Cancel ==
    /\ pc \in {"memory", "entering", "tools", "catalog", "prefix"}
    /\ pc = "catalog" => kind <= Len(Kinds)
    /\ abandoned' = IF pc \in {"tools", "catalog"} THEN abandoned \cup {Client} ELSE abandoned
    /\ pc' = IF pc \in {"memory", "prefix"} \/ Returned = "servers" THEN "failed" ELSE "ready"
    /\ kind' = 0
    /\ UNCHANGED <<life, server, registries, open, handles, messages>>

(* shutdown: the clients are closed one after the other, errors are logged. *)
BeginShutdown ==
    /\ pc \in {"ready", "failed"}
    /\ pc' = "closing"
    /\ kind' = 1
    /\ UNCHANGED <<life, server, registries, open, abandoned, handles, messages>>

(* Slip: an error while one client is closed ends the loop. *)
CloseClient_StopsAtError ==
    /\ pc = "closing" /\ kind <= Len(clients)
    /\ open' = open \ {clients[kind]}
    /\ kind' \in {kind + 1, Len(clients) + 1}
    /\ UNCHANGED <<pc, life, server, registries, abandoned, handles, messages>>

CloseClient ==
    /\ pc = "closing" /\ kind <= Len(clients)
    /\ open' = open \ {clients[kind]}
    /\ kind' = kind + 1
    /\ UNCHANGED <<pc, life, server, registries, abandoned, handles, messages>>

(* Tools, messages and the memory client stay as they are. *)
EndShutdown ==
    /\ pc = "closing" /\ kind > Len(clients)
    /\ clients' = <<>>
    /\ catalog' = Nothing
    /\ kind' = 0
    /\ pc' = "idle"
    /\ UNCHANGED <<life, server, tools, open, abandoned, handles, messages>>

Next ==
    \/ SetUp
    \/ CreateMemory
    \/ BeginConnect
    \/ Enter
    \/ ListTools
    \/ ListItems
    \/ Connected
    \/ Seed
    \/ Prefix
    \/ Cancel
    \/ BeginShutdown
    \/ CloseClient
    \/ EndShutdown

Spec == Init /\ [][Next]_vars

-----------------------------------------------------------------------------
Owner(map) == {map[n] : n \in DOMAIN map}

TypeOK ==
    /\ pc \in {"idle", "memory", "servers", "entering", "tools", "catalog", "prefix",
               "ready", "failed", "closing"}
    /\ life \in 0..MaxLives /\ server \in 0..(Servers + MaxDynamic)
    /\ DOMAIN tools \subseteq ToolNames /\ Owner(tools) \subseteq Clients \cup {Local}
    /\ \A k \in DOMAIN Kinds :
          DOMAIN catalog[k] \subseteq Items /\ Owner(catalog[k]) \subseteq Clients
    /\ clients \in Seq(Clients) /\ IsInjective(clients)
    /\ open \subseteq Clients /\ abandoned \subseteq Clients
    /\ handles \subseteq 1..MaxLives

(* A prompt or resource that get_mcp_prompt or read_resource finds belongs *)
(* to a client that is open and that shutdown() knows, although it is put  *)
(* into the maps before the client is put into _mcp_clients; only a        *)
(* connect_mcp that was cancelled leaves some of a client that shutdown()  *)
(* does not know.  After shutdown() nothing is found.                      *)
CatalogOfClients ==
    /\ pc = "ready" =>
          /\ Found \subseteq ToSet(clients) \cup abandoned
          /\ Found \cup ToSet(clients) \subseteq open
    /\ pc \in {"idle", "memory"} => Found = {} /\ clients = <<>>

(* Whatever fails, shutdown() leaves open only clients whose connect_mcp   *)
(* was cut short.                                                          *)
KnownClientsClosed == pc = "idle" => open \subseteq abandoned

(* A tool registered in this life can be called: its client is open, also  *)
(* when another server's connection failed half way.  Of a tool left from  *)
(* an earlier life nothing is said: its client was closed, and the         *)
(* registry keeps it, and keeps it in place of a new one of its name.      *)
NewToolsReachable ==
    pc = "ready" => \A owner \in Owner(tools) :
                        owner[1] = life => owner \in open

(* What the agent has registered in this life belongs to open clients,     *)
(* which shutdown() closes unless their connect_mcp was cut short, over    *)
(* failures, cancellations and a second life.                              *)
OwnersSound == TypeOK /\ CatalogOfClients /\ KnownClientsClosed /\ NewToolsReachable

(* A tool once registered is never replaced, by a server connected later   *)
(* or in a later life: local tools first, then the order of the servers.   *)
FirstRegistrationWins ==
    [][\A n \in DOMAIN tools : n \in DOMAIN tools' /\ tools'[n] = tools[n]]_vars

(* "shutdown() closes MCP client connections." *)
McpClosed == pc = "idle" => open = {}

(* "Clean up resources: close MCP connections and any open handles" *)
HandlesClosed == pc = "idle" => handles = {}

(* The memory prefix is "at index 1 in self.messages, immediately after    *)
(* the system prompt.  It stays pinned there".                             *)
PrefixPinned ==
    \A k \in DOMAIN messages : messages[k] = "prefix" => k = 2 /\ messages[1] = "system"
=============================================================================
