-------------------------- MODULE LifecycleProofs --------------------------
(* Whose tools and items an agent holds, for any servers, any lists of     *)
(* theirs and any failures, over any number of lives.                      *)
EXTENDS Lifecycle, TLAPS

Up == {"memory", "servers", "entering", "tools", "catalog", "prefix", "ready"}
Connecting == {"entering", "tools", "catalog"}
Entered == IF pc \in {"tools", "catalog"} THEN {Client} ELSE {}
Listed == IF pc = "catalog" THEN {Client} ELSE {}

(* Where the program stands, and the shape of what the type invariant      *)
(* leaves open.                                                            *)
Standing ==
    /\ kind \in Nat
    /\ catalog = [k \in 1..3 |-> catalog[k]]
    /\ pc # "idle" => life >= 1
    /\ pc \in Connecting => server >= 1
    /\ pc \in {"catalog", "closing"} => kind >= 1
    /\ pc \in {"idle", "memory"} => Found = {} /\ clients = <<>>

(* Every tool's owner is of a life begun, every known client of this life, *)
(* and the one that is being connected is none of these.                   *)
OfLives ==
    /\ \A n \in DOMAIN tools : tools[n][1] <= life
    /\ \A k \in DOMAIN clients :
          /\ clients[k][1] = life /\ clients[k][2] <= server
          /\ pc \in Connecting => clients[k][2] < server

(* What is found or can be called belongs to open clients.                 *)
Reachable ==
    /\ pc \in Up =>
          /\ Found \subseteq ToSet(clients) \cup Listed \cup abandoned
          /\ Found \subseteq open
          /\ \A n \in DOMAIN tools : tools[n][1] = life => tools[n] \in open
    /\ pc # "closing" => ToSet(clients) \cup Entered \subseteq open

(* A client still open is known, being connected, or was forgotten; while  *)
(* shutdown() goes through the known ones it closes each.                  *)
StillOpen ==
    IF pc = "closing"
    THEN open \subseteq abandoned \cup {clients[k] : k \in kind..Len(clients)}
    ELSE open \subseteq abandoned \cup ToSet(clients) \cup Entered

IInv == TypeOK /\ Standing /\ OfLives /\ Reachable /\ StillOpen

-----------------------------------------------------------------------------
LEMMA Bounds == Servers \in Nat /\ MaxLives \in Nat /\ MaxDynamic \in Nat
BY LifecycleAssumption

LEMMA ThreeKinds == DOMAIN Kinds = 1..3 /\ Len(Kinds) = 3
BY DEF Kinds

(* What is there keeps its owner, what is new gets the one given.          *)
LEMMA Adding ==
    ASSUME NEW map, NEW names, NEW owner
    PROVE  /\ DOMAIN Add(map, names, owner) = DOMAIN map \cup names
           /\ \A n \in DOMAIN map : Add(map, names, owner)[n] = map[n]
           /\ \A n \in names \ DOMAIN map : Add(map, names, owner)[n] = owner
           /\ Owner(Add(map, names, owner)) \subseteq Owner(map) \cup {owner}
BY DEF Add, Owner

LEMMA FoundStays == ASSUME catalog' = catalog PROVE Found' = Found
BY DEF Found

(* Items enter the maps under the client that listed them.                 *)
LEMMA FoundGrows ==
    ASSUME Standing, pc = "catalog", ListItems
    PROVE  Found' \subseteq Found \cup {Client}
<1>1. PICK names \in SUBSET Items :
         catalog' = [catalog EXCEPT ![kind] = Add(catalog[kind], names, Client)]
  BY DEF ListItems
<1>2. kind \in 1..3
  BY ThreeKinds DEF ListItems, Standing
<1>3. DOMAIN catalog = 1..3
  BY DEF Standing
<1>4. /\ catalog'[kind] = Add(catalog[kind], names, Client)
      /\ \A k \in 1..3 : k # kind => catalog'[k] = catalog[k]
  BY <1>1, <1>2, <1>3
<1>5. Owner(catalog'[kind]) \subseteq Owner(catalog[kind]) \cup {Client}
  BY <1>4, Adding
<1>6. ASSUME NEW k \in 1..3, NEW n \in DOMAIN catalog'[k]
      PROVE  catalog'[k][n] \in Owner(catalog[k]) \cup {Client}
  BY <1>4, <1>5 DEF Owner
<1>7. \A k \in 1..3 : Owner(catalog[k]) \subseteq Found
  BY ThreeKinds DEF Owner, Found
<1> QED
  BY <1>6, <1>7, ThreeKinds DEF Found

LEMMA NothingFound == ASSUME catalog' = Nothing PROVE Found' = {}
BY DEF Found, Nothing

LEMMA InitInv == Init => IInv
<1> SUFFICES ASSUME Init PROVE IInv
  OBVIOUS
<1>1. /\ pc = "idle" /\ life = 0 /\ server = 0 /\ kind = 0
      /\ tools = <<>> /\ catalog = Nothing /\ clients = <<>>
      /\ open = {} /\ abandoned = {} /\ handles = {}
  BY DEF Init
<1>2. DOMAIN tools = {} /\ DOMAIN clients = {}
  BY <1>1
<1>3. ToSet(clients) = {} /\ IsInjective(clients) /\ clients \in Seq(Clients)
  BY <1>1, <1>2 DEF ToSet, IsInjective
<1>4. /\ catalog = [k \in 1..3 |-> catalog[k]] /\ Found = {}
      /\ \A k \in DOMAIN Kinds : DOMAIN catalog[k] = {}
  BY <1>1, ThreeKinds DEF Nothing, Found
<1>5. TypeOK
  <2>1. life \in 0..MaxLives /\ server \in 0..(Servers + MaxDynamic)
    BY <1>1, Bounds
  <2>2. Owner(tools) = {} /\ \A k \in DOMAIN Kinds : Owner(catalog[k]) = {}
    BY <1>2, <1>4 DEF Owner
  <2> QED
    BY <1>1, <1>2, <1>3, <1>4, <2>1, <2>2 DEF TypeOK
<1>6. Standing /\ OfLives
  BY <1>1, <1>2, <1>4 DEF Standing, OfLives, Connecting
<1>7. Reachable /\ StillOpen
  BY <1>1, <1>2, <1>3, <1>4 DEF Reachable, StillOpen, Up, Entered, Listed
<1> QED
  BY <1>5, <1>6, <1>7 DEF IInv

(* The client of a connect_mcp call that is under way.                     *)
LEMMA ClientIs ==
    ASSUME TypeOK, Standing, pc \in Connecting
    PROVE  Client \in Clients /\ Client[1] = life /\ Client[2] = server
BY Bounds DEF TypeOK, Standing, Client, Clients, Connecting

(* Appending a client no other of which has its number.                    *)
LEMMA ClientAdded ==
    ASSUME clients \in Seq(Clients), IsInjective(clients), Client \in Clients,
           \A k \in DOMAIN clients : clients[k] # Client,
           clients' = Append(clients, Client)
    PROVE  /\ clients' \in Seq(Clients) /\ IsInjective(clients')
           /\ ToSet(clients') = ToSet(clients) \cup {Client}
           /\ DOMAIN clients' = DOMAIN clients \cup {Len(clients) + 1}
           /\ clients'[Len(clients) + 1] = Client
           /\ \A k \in DOMAIN clients : clients'[k] = clients[k]
<1>1. /\ clients' \in Seq(Clients) /\ Len(clients') = Len(clients) + 1
      /\ clients'[Len(clients) + 1] = Client
      /\ \A k \in 1..Len(clients) : clients'[k] = clients[k]
      /\ Len(clients) \in Nat
  OBVIOUS
<1>2. DOMAIN clients = 1..Len(clients) /\ DOMAIN clients' = 1..(Len(clients) + 1)
  BY <1>1
<1>3. IsInjective(clients')
  BY <1>1, <1>2 DEF IsInjective
<1>4. ToSet(clients') = ToSet(clients) \cup {Client}
  BY <1>1, <1>2 DEF ToSet
<1> QED
  BY <1>1, <1>2, <1>3, <1>4

(* A step that leaves the registries alone and moves within setup().       *)
LEMMA TypesStay ==
    ASSUME TypeOK, UNCHANGED <<tools, catalog, clients>>
    PROVE  /\ DOMAIN tools' \subseteq ToolNames /\ Owner(tools') \subseteq Clients \cup {Local}
           /\ \A k \in DOMAIN Kinds :
                 DOMAIN catalog'[k] \subseteq Items /\ Owner(catalog'[k]) \subseteq Clients
           /\ clients' \in Seq(Clients) /\ IsInjective(clients') /\ ToSet(clients') = ToSet(clients)
           /\ Found' = Found
BY FoundStays DEF TypeOK

LEMMA StepTypes == IInv /\ Next => TypeOK'
<1> SUFFICES ASSUME IInv, Next PROVE TypeOK'
  OBVIOUS
<1>0. TypeOK /\ Standing
  BY DEF IInv
<1>1. pc' \in {"idle", "memory", "servers", "entering", "tools", "catalog", "prefix",
               "ready", "failed", "closing"}
  BY <1>0 DEF TypeOK, Next, SetUp, CreateMemory, BeginConnect, Enter, ListTools, ListItems,
     Connected, Seed, Prefix, Cancel, BeginShutdown, CloseClient, EndShutdown, Returned
<1>2. life' \in 0..MaxLives
  BY <1>0, Bounds DEF TypeOK, Next, SetUp, CreateMemory, BeginConnect, Enter, ListTools,
     ListItems, Connected, Seed, Prefix, Cancel, BeginShutdown, CloseClient, EndShutdown
<1>3. server' \in 0..(Servers + MaxDynamic)
  BY <1>0, Bounds DEF TypeOK, Next, SetUp, CreateMemory, BeginConnect, Configured, Enter,
     ListTools, ListItems, Connected, Seed, Prefix, Cancel, BeginShutdown, CloseClient,
     EndShutdown
<1>4. DOMAIN tools' \subseteq ToolNames /\ Owner(tools') \subseteq Clients \cup {Local}
  <2>1. CASE SetUp
    <3>1. tools' = Add(tools, LocalTools, Local)
      BY <2>1 DEF SetUp, Discover, Register
    <3>2. DOMAIN tools' = DOMAIN tools \cup LocalTools /\ Owner(tools') \subseteq Owner(tools) \cup {Local}
      BY <3>1, Adding
    <3> QED
      BY <1>0, <3>2, LifecycleAssumption DEF TypeOK
  <2>2. CASE ListTools
    <3>1. Client \in Clients
      BY <1>0, <2>2, ClientIs DEF ListTools, Connecting
    <3>2. CASE tools' = tools
      BY <1>0, <3>2 DEF TypeOK
    <3>3. CASE \E names \in SUBSET ToolNames : tools' = Register(names, Client)
      <4>1. PICK names \in SUBSET ToolNames : tools' = Add(tools, names, Client)
        BY <3>3 DEF Register
      <4>2. DOMAIN tools' = DOMAIN tools \cup names /\ Owner(tools') \subseteq Owner(tools) \cup {Client}
        BY <4>1, Adding
      <4> QED
        BY <1>0, <3>1, <4>2 DEF TypeOK
    <3> QED
      BY <2>2, <3>2, <3>3 DEF ListTools
  <2>3. CASE UNCHANGED tools
    BY <1>0, <2>3 DEF TypeOK
  <2> QED
    BY <2>1, <2>2, <2>3 DEF Next, CreateMemory, BeginConnect, Enter, ListItems, Connected, Seed,
       Prefix, Cancel, BeginShutdown, CloseClient, EndShutdown, registries
<1>5. \A k \in DOMAIN Kinds :
         DOMAIN catalog'[k] \subseteq Items /\ Owner(catalog'[k]) \subseteq Clients
  <2>1. CASE ListItems
    <3>1. PICK names \in SUBSET Items :
             catalog' = [catalog EXCEPT ![kind] = Add(catalog[kind], names, Client)]
      BY <2>1 DEF ListItems
    <3>2. kind \in DOMAIN Kinds /\ DOMAIN catalog = 1..3 /\ Client \in Clients
      BY <1>0, <2>1, ThreeKinds, ClientIs DEF ListItems, Standing, Connecting
    <3>3. /\ DOMAIN Add(catalog[kind], names, Client) \subseteq Items
          /\ Owner(Add(catalog[kind], names, Client)) \subseteq Clients
      <4>1. /\ DOMAIN Add(catalog[kind], names, Client) = DOMAIN catalog[kind] \cup names
            /\ Owner(Add(catalog[kind], names, Client)) \subseteq Owner(catalog[kind]) \cup {Client}
        BY Adding
      <4>2. DOMAIN catalog[kind] \subseteq Items /\ Owner(catalog[kind]) \subseteq Clients
        BY <1>0, <3>2 DEF TypeOK
      <4> QED
        BY <3>2, <4>1, <4>2
    <3>4. \A k \in DOMAIN Kinds : catalog'[k] = IF k = kind THEN Add(catalog[kind], names, Client)
                                                ELSE catalog[k]
      BY <3>1, <3>2, ThreeKinds
    <3> QED
      BY <1>0, <3>3, <3>4 DEF TypeOK
  <2>2. CASE catalog' = Nothing
    BY <2>2 DEF Nothing, Owner
  <2>3. CASE UNCHANGED catalog
    BY <1>0, <2>3 DEF TypeOK
  <2> QED
    BY <2>1, <2>2, <2>3 DEF Next, SetUp, CreateMemory, BeginConnect, Enter, ListTools, Connected,
       Seed, Prefix, Cancel, BeginShutdown, CloseClient, EndShutdown, registries
<1>6. clients' \in Seq(Clients) /\ IsInjective(clients')
  <2>1. CASE Connected
    <3>1. Client \in Clients /\ Client[2] = server
      BY <1>0, <2>1, ClientIs DEF Connected, Connecting
    <3>2. \A k \in DOMAIN clients : clients[k] # Client
      <4>1. ASSUME NEW k \in DOMAIN clients PROVE clients[k][2] < server /\ clients[k][2] \in Nat
        <5>1. clients[k] \in Clients
          BY <1>0 DEF TypeOK
        <5>2. clients[k][2] < server
          BY <2>1 DEF IInv, OfLives, Connected, Connecting
        <5> QED
          BY <5>1, <5>2 DEF Clients
      <4>2. server \in Nat
        BY <1>0, Bounds DEF TypeOK
      <4> QED
        BY <3>1, <4>1, <4>2
    <3> QED
      BY <1>0, <2>1, <3>1, <3>2, ClientAdded DEF TypeOK, Connected
  <2>2. CASE clients' = <<>>
    <3>1. DOMAIN clients' = {}
      BY <2>2
    <3> QED
      BY <2>2, <3>1 DEF IsInjective
  <2>3. CASE UNCHANGED clients
    BY <1>0, <2>3 DEF TypeOK
  <2> QED
    BY <2>1, <2>2, <2>3 DEF Next, SetUp, CreateMemory, BeginConnect, Enter, ListTools, ListItems,
       Seed, Prefix, Cancel, BeginShutdown, CloseClient, EndShutdown, registries
<1>7. open' \subseteq Clients /\ abandoned' \subseteq Clients
  <2>1. pc \in Connecting => Client \in Clients
    BY <1>0, ClientIs
  <2> QED
    BY <1>0, <2>1 DEF TypeOK, Connecting, Next, SetUp, CreateMemory, BeginConnect, Enter, ListTools,
       ListItems, Connected, Seed, Prefix, Cancel, BeginShutdown, CloseClient, EndShutdown
<1>8. handles' \subseteq 1..MaxLives
  <2>1. CASE CreateMemory
    <3>1. life \in 1..MaxLives
      BY <1>0, <2>1 DEF TypeOK, Standing, CreateMemory
    <3> QED
      BY <1>0, <2>1, <3>1 DEF TypeOK, CreateMemory
  <2>2. CASE UNCHANGED handles
    BY <1>0, <2>2 DEF TypeOK
  <2> QED
    BY <2>1, <2>2 DEF Next, SetUp, BeginConnect, Enter, ListTools, ListItems, Connected, Seed,
       Prefix, Cancel, BeginShutdown, CloseClient, EndShutdown
<1> QED
  BY <1>1, <1>2, <1>3, <1>4, <1>5, <1>6, <1>7, <1>8 DEF TypeOK

(* A step of setup(), or into its failure, at which no client is entered,  *)
(* listed or closed.                                                       *)
LEMMA QuietKeeps ==
    ASSUME IInv, CreateMemory \/ BeginConnect \/ Seed \/ Prefix
    PROVE  Standing' /\ OfLives' /\ Reachable' /\ StillOpen'
<1>1. /\ UNCHANGED <<life, kind, open, abandoned>> /\ UNCHANGED registries
      /\ pc \in {"memory", "servers", "prefix", "ready"}
      /\ pc' \in {"servers", "entering", "prefix", "ready", "failed"}
      /\ server' \in {server, server + 1}
      /\ pc' = "entering" => server' = server + 1
  BY DEF CreateMemory, BeginConnect, Seed, Prefix
<1>2. UNCHANGED <<tools, catalog, clients>>
  BY <1>1 DEF registries
<1>3. Found' = Found /\ ToSet(clients') = ToSet(clients)
  BY <1>2, TypesStay DEF IInv
<1>4. server \in Nat /\ life \in Nat
  BY Bounds DEF IInv, TypeOK
<1>5. Standing'
  BY <1>1, <1>2, <1>3, <1>4 DEF IInv, Standing, Connecting
<1>6. OfLives'
  <2>1. ASSUME NEW k \in DOMAIN clients
        PROVE  clients[k][1] = life /\ clients[k][2] <= server /\ clients[k][2] \in Nat
    <3>1. clients[k] \in Clients
      BY DEF IInv, TypeOK
    <3> QED
      BY <3>1 DEF IInv, OfLives, Clients
  <2>2. \A n \in DOMAIN tools : tools[n][1] <= life
    BY DEF IInv, OfLives
  <2> QED
    BY <1>1, <1>2, <1>4, <2>1, <2>2 DEF OfLives, Connecting
<1>7. Entered = {} /\ Entered' = {} /\ Listed = {} /\ Listed' = {}
  BY <1>1 DEF Entered, Listed
<1>8. Reachable'
  BY <1>1, <1>2, <1>3, <1>7 DEF IInv, Reachable, Up
<1>9. StillOpen'
  BY <1>1, <1>3, <1>7 DEF IInv, StillOpen
<1> QED
  BY <1>5, <1>6, <1>8, <1>9

LEMMA SetUpKeeps ==
    ASSUME IInv, SetUp
    PROVE  Standing' /\ OfLives' /\ Reachable' /\ StillOpen'
<1>1. /\ pc = "idle" /\ life' = life + 1 /\ server' = 0 /\ pc' \in {"memory", "failed"}
      /\ UNCHANGED <<kind, catalog, clients, open, abandoned>>
      /\ tools' = Add(tools, LocalTools, Local)
  BY DEF SetUp, Discover, Register
<1>2. clients = <<>> /\ Found = {} /\ life \in Nat /\ kind \in Nat
  BY <1>1, Bounds DEF IInv, Standing, TypeOK
<1>3. DOMAIN clients = {} /\ ToSet(clients) = {} /\ ToSet(clients') = {} /\ Found' = {}
  BY <1>1, <1>2, FoundStays DEF ToSet
<1>4. ASSUME NEW n \in DOMAIN tools' PROVE tools'[n][1] <= life
  <2>1. /\ DOMAIN tools' = DOMAIN tools \cup LocalTools
        /\ \A m \in DOMAIN tools : tools'[m] = tools[m]
        /\ \A m \in LocalTools \ DOMAIN tools : tools'[m] = Local
    BY <1>1 DEF Add
  <2>2. CASE n \in DOMAIN tools
    BY <2>1, <2>2 DEF IInv, OfLives
  <2>3. CASE n \notin DOMAIN tools
    BY <1>2, <1>4, <2>1, <2>3 DEF Local
  <2> QED
    BY <2>2, <2>3
<1>5. ASSUME NEW n \in DOMAIN tools' PROVE tools'[n][1] \in Nat
  <2>1. tools'[n] \in Clients \cup {Local}
    BY <1>5, StepTypes DEF TypeOK, Owner, Next
  <2> QED
    BY <2>1 DEF Clients, Local
<1>6. Standing' /\ OfLives'
  BY <1>1, <1>2, <1>3, <1>4, <1>5 DEF IInv, Standing, OfLives, Connecting
<1>7. Entered' = {} /\ Entered = {}
  BY <1>1 DEF Entered
<1>8. Reachable'
  <2>1. ASSUME NEW n \in DOMAIN tools' PROVE tools'[n][1] # life'
    BY <1>1, <1>2, <1>4, <1>5, <2>1
  <2> QED
    BY <1>1, <1>3, <1>7, <2>1 DEF Reachable
<1>9. StillOpen'
  BY <1>1, <1>3, <1>7 DEF IInv, StillOpen
<1> QED
  BY <1>6, <1>8, <1>9

(* A client opens, and its tools are listed; or it is forgotten.           *)
LEMMA EnterKeeps ==
    ASSUME IInv, Enter \/ ListTools
    PROVE  Standing' /\ OfLives' /\ Reachable' /\ StillOpen'
<1>1. /\ UNCHANGED <<life, server, catalog, clients>>
      /\ pc \in {"entering", "tools"} /\ pc' \in {"servers", "ready", "tools", "catalog"}
      /\ pc' = "tools" => pc = "entering"
      /\ pc' = "catalog" => pc = "tools" /\ kind' = 1
      /\ kind' \in {kind, 1}
  BY DEF Enter, ListTools, Returned, registries
<1>2. Found' = Found /\ ToSet(clients') = ToSet(clients)
  BY <1>1, FoundStays
<1>3. server \in Nat /\ life \in Nat /\ kind \in Nat /\ life >= 1 /\ server >= 1
  BY <1>1, Bounds DEF IInv, TypeOK, Standing, Connecting
<1>4. Standing'
  BY <1>1, <1>3 DEF IInv, Standing, Connecting
<1>5. Client' = Client /\ Client[1] = life
  BY <1>1 DEF Client
<1>6. /\ open' \in {open, open \cup {Client}} /\ abandoned' \in {abandoned, abandoned \cup {Client}}
      /\ Client \in open' => Client \in open \/ pc' = "tools"
      /\ pc' = "tools" => Client \in open' /\ UNCHANGED <<tools, abandoned>>
      /\ pc' # "tools" => open' = open
  BY <1>1 DEF Enter, ListTools, Returned, registries
<1>7. pc = "tools" => Client \in open /\ (pc' # "catalog" => abandoned' = abandoned \cup {Client})
  <2>1. pc = "tools" => Client \in open
    BY DEF IInv, Reachable, Entered
  <2>2. pc = "tools" => (pc' # "catalog" => abandoned' = abandoned \cup {Client})
    BY DEF Enter, ListTools
  <2> QED
    BY <2>1, <2>2
<1>8. ASSUME NEW n \in DOMAIN tools'
      PROVE  \/ n \in DOMAIN tools /\ tools'[n] = tools[n]
             \/ pc' = "catalog" /\ tools'[n] = Client
  <2>1. CASE tools' = tools
    BY <1>8, <2>1
  <2>2. CASE tools' # tools
    <3>1. ListTools /\ pc' = "catalog"
      BY <2>2 DEF Enter, ListTools, registries
    <3>2. PICK names \in SUBSET ToolNames : tools' = Add(tools, names, Client)
      BY <2>2, <3>1 DEF ListTools, Register
    <3>3. /\ DOMAIN tools' = DOMAIN tools \cup names
          /\ \A m \in DOMAIN tools : tools'[m] = tools[m]
          /\ \A m \in names \ DOMAIN tools : tools'[m] = Client
      BY <3>2 DEF Add
    <3> QED
      BY <1>8, <3>1, <3>3
  <2> QED
    BY <2>1, <2>2
<1>9. OfLives'
  BY <1>1, <1>3, <1>5, <1>8 DEF IInv, OfLives, Connecting
<1>10. Entered' = (IF pc' \in {"tools", "catalog"} THEN {Client} ELSE {})
  BY <1>5 DEF Entered
<1>11. Reachable'
  <2>1. Found' \subseteq ToSet(clients') \cup Listed' \cup abandoned' /\ Found' \subseteq open'
    <3>1. Found \subseteq ToSet(clients) \cup Listed \cup abandoned /\ Listed = {}
      BY <1>1 DEF IInv, Reachable, Up, Listed
    <3>2. Found \subseteq open
      BY <1>1 DEF IInv, Reachable, Up
    <3> QED
      BY <1>2, <1>6, <3>1, <3>2
  <2>2. \A n \in DOMAIN tools' : tools'[n][1] = life' => tools'[n] \in open'
    BY <1>1, <1>6, <1>7, <1>8 DEF IInv, Reachable, Up
  <2>3. ToSet(clients') \cup Entered' \subseteq open'
    BY <1>1, <1>2, <1>6, <1>7, <1>10 DEF IInv, Reachable
  <2> QED
    BY <2>1, <2>2, <2>3 DEF Reachable
<1>12. StillOpen'
  BY <1>1, <1>2, <1>6, <1>7, <1>10 DEF IInv, StillOpen, Entered
<1> QED
  BY <1>4, <1>9, <1>11, <1>12

LEMMA ListItemsKeeps ==
    ASSUME IInv, ListItems
    PROVE  Standing' /\ OfLives' /\ Reachable' /\ StillOpen'
<1>1. /\ UNCHANGED <<pc, life, server, tools, clients, open, abandoned>>
      /\ pc = "catalog" /\ kind' = kind + 1
  BY DEF ListItems
<1>2. Found' \subseteq Found \cup {Client}
  BY <1>1, FoundGrows DEF IInv
<1>3. ToSet(clients') = ToSet(clients) /\ Entered' = Entered /\ Listed' = {Client} /\ Listed = {Client}
  BY <1>1 DEF Entered, Listed, Client
<1>4. catalog' = [k \in 1..3 |-> catalog'[k]]
  <2>1. catalog = [k \in 1..3 |-> catalog[k]]
    BY DEF IInv, Standing
  <2> QED
    BY <2>1 DEF ListItems
<1>5. Standing'
  BY <1>1, <1>4 DEF IInv, Standing, Connecting
<1>6. OfLives'
  BY <1>1 DEF IInv, OfLives, Connecting
<1>7. Reachable'
  <2>1. Found' \subseteq ToSet(clients') \cup Listed' \cup abandoned'
    BY <1>1, <1>2, <1>3 DEF IInv, Reachable, Up
  <2>2. Found' \subseteq open'
    <3>1. Found \subseteq open
      BY <1>1 DEF IInv, Reachable, Up
    <3>2. Client \in open
      BY <1>1 DEF IInv, Reachable, Entered
    <3> QED
      BY <1>1, <1>2, <3>1, <3>2
  <2> QED
    BY <1>1, <1>3, <2>1, <2>2 DEF IInv, Reachable, Up
<1>8. StillOpen'
  BY <1>1, <1>3 DEF IInv, StillOpen
<1> QED
  BY <1>5, <1>6, <1>7, <1>8

LEMMA ConnectedKeeps ==
    ASSUME IInv, Connected
    PROVE  Standing' /\ OfLives' /\ Reachable' /\ StillOpen'
<1>1. /\ UNCHANGED <<life, server, tools, catalog, open, abandoned>>
      /\ pc = "catalog" /\ pc' \in {"servers", "ready"} /\ kind' = 0
      /\ clients' = Append(clients, Client)
  BY DEF Connected, Returned
<1>2. Client \in Clients /\ Client[1] = life /\ Client[2] = server
  BY <1>1, ClientIs DEF IInv, Connecting
<1>3. ASSUME NEW k \in DOMAIN clients
      PROVE  clients[k][1] = life /\ clients[k][2] < server /\ clients[k][2] \in Nat
  <2>1. clients[k] \in Clients
    BY DEF IInv, TypeOK
  <2> QED
    BY <1>1, <2>1 DEF IInv, OfLives, Clients, Connecting
<1>4. server \in Nat /\ life \in Nat /\ life >= 1
  BY <1>1, Bounds DEF IInv, TypeOK, Standing
<1>5. /\ ToSet(clients') = ToSet(clients) \cup {Client}
      /\ DOMAIN clients' = DOMAIN clients \cup {Len(clients) + 1}
      /\ clients'[Len(clients) + 1] = Client
      /\ \A k \in DOMAIN clients : clients'[k] = clients[k]
  <2>1. \A k \in DOMAIN clients : clients[k] # Client
    BY <1>2, <1>3, <1>4
  <2> QED
    BY <1>1, <1>2, <2>1, ClientAdded DEF IInv, TypeOK
<1>6. Standing'
  BY <1>1, <1>4 DEF IInv, Standing, Connecting
<1>7. OfLives'
  <2>1. ASSUME NEW k \in DOMAIN clients' PROVE clients'[k][1] = life /\ clients'[k][2] <= server
    BY <1>2, <1>3, <1>4, <1>5
  <2> QED
    BY <1>1, <2>1 DEF IInv, OfLives, Connecting
<1>8. Entered = {Client} /\ Listed = {Client} /\ Entered' = {} /\ Listed' = {}
  BY <1>1 DEF Entered, Listed
<1>9. Found' = Found
  BY <1>1, FoundStays
<1>10. Reachable'
  BY <1>1, <1>5, <1>8, <1>9 DEF IInv, Reachable, Up
<1>11. StillOpen'
  BY <1>1, <1>5, <1>8 DEF IInv, StillOpen
<1> QED
  BY <1>6, <1>7, <1>10, <1>11

(* A client that is being connected when a cancellation arrives is         *)
(* forgotten; what it listed stays.                                        *)
LEMMA CancelKeeps ==
    ASSUME IInv, Cancel
    PROVE  Standing' /\ OfLives' /\ Reachable' /\ StillOpen'
<1>1. /\ UNCHANGED <<life, server, open>> /\ UNCHANGED <<tools, catalog, clients>>
      /\ pc \in {"memory", "entering", "tools", "catalog", "prefix"}
      /\ pc' \in {"failed", "ready"} /\ kind' = 0
      /\ abandoned' = abandoned \cup Entered
  BY DEF Cancel, registries, Entered
<1>2. ToSet(clients') = ToSet(clients) /\ Found' = Found /\ Entered' = {} /\ Listed' = {}
  BY <1>1, FoundStays DEF Entered, Listed
<1>3. Standing' /\ OfLives'
  BY <1>1 DEF IInv, Standing, OfLives, Connecting
<1>4. Listed \subseteq Entered
  BY DEF Listed, Entered
<1>5. /\ Found \subseteq ToSet(clients) \cup Listed \cup abandoned /\ Found \subseteq open
      /\ \A n \in DOMAIN tools : tools[n][1] = life => tools[n] \in open
      /\ ToSet(clients) \subseteq open
  BY <1>1 DEF IInv, Reachable, Up
<1>6. Reachable'
  BY <1>1, <1>2, <1>4, <1>5 DEF Reachable
<1>7. StillOpen'
  BY <1>1, <1>2 DEF IInv, StillOpen
<1> QED
  BY <1>3, <1>6, <1>7

LEMMA ShutdownKeeps ==
    ASSUME IInv, BeginShutdown \/ CloseClient \/ EndShutdown
    PROVE  Standing' /\ OfLives' /\ Reachable' /\ StillOpen'
<1>0. Len(clients) \in Nat /\ DOMAIN clients = 1..Len(clients)
  BY DEF IInv, TypeOK
<1>1. CASE BeginShutdown
  <2>1. /\ UNCHANGED <<life, server, open, abandoned>> /\ UNCHANGED <<tools, catalog, clients>>
        /\ pc \in {"ready", "failed"} /\ pc' = "closing" /\ kind' = 1
    BY <1>1 DEF BeginShutdown, registries
  <2>2. Standing' /\ OfLives' /\ Reachable'
    BY <2>1 DEF IInv, Standing, OfLives, Reachable, Connecting, Up
  <2>3. ToSet(clients) = {clients[k] : k \in 1..Len(clients)} /\ Entered = {}
    BY <1>0, <2>1 DEF ToSet, Entered
  <2>4. StillOpen'
    BY <2>1, <2>3 DEF IInv, StillOpen
  <2> QED
    BY <2>2, <2>4
<1>2. CASE CloseClient
  <2>1. /\ UNCHANGED <<pc, life, server, abandoned>> /\ UNCHANGED <<tools, catalog, clients>>
        /\ pc = "closing" /\ kind <= Len(clients) /\ kind' = kind + 1
        /\ open' = open \ {clients[kind]}
    BY <1>2 DEF CloseClient, registries
  <2>2. kind \in Nat /\ kind >= 1
    BY <2>1 DEF IInv, Standing
  <2>3. Standing' /\ OfLives' /\ Reachable'
    BY <2>1, <2>2 DEF IInv, Standing, OfLives, Reachable, Connecting, Up
  <2>4. ASSUME NEW c \in open', c \notin abandoned
        PROVE  \E k \in (kind + 1)..Len(clients) : c = clients[k]
    <3>1. PICK k \in kind..Len(clients) : c = clients[k]
      BY <2>1, <2>4 DEF IInv, StillOpen
    <3>2. k # kind
      BY <2>1, <2>4, <3>1
    <3> QED
      BY <1>0, <2>2, <3>1, <3>2
  <2>5. StillOpen'
    BY <2>1, <2>4 DEF StillOpen
  <2> QED
    BY <2>3, <2>5
<1>3. CASE EndShutdown
  <2>1. /\ UNCHANGED <<life, server, tools, open, abandoned>>
        /\ pc = "closing" /\ kind > Len(clients) /\ pc' = "idle" /\ kind' = 0
        /\ clients' = <<>> /\ catalog' = Nothing
    BY <1>3 DEF EndShutdown
  <2>2. Found' = {} /\ DOMAIN clients' = {} /\ ToSet(clients') = {} /\ Entered' = {}
    BY <2>1, NothingFound DEF ToSet, Entered
  <2>3. catalog' = [k \in 1..3 |-> catalog'[k]]
    BY <2>1, ThreeKinds DEF Nothing
  <2>4. Standing' /\ OfLives'
    BY <2>1, <2>2, <2>3 DEF IInv, Standing, OfLives, Connecting
  <2>5. kind..Len(clients) = {}
    BY <1>0, <2>1 DEF IInv, Standing
  <2>6. open' \subseteq abandoned'
    BY <2>1, <2>5 DEF IInv, StillOpen
  <2>7. StillOpen'
    BY <2>1, <2>6 DEF StillOpen
  <2>8. Reachable'
    BY <2>1, <2>2 DEF Reachable, Up
  <2> QED
    BY <2>4, <2>7, <2>8
<1> QED
  BY <1>1, <1>2, <1>3

LEMMA StepInv == IInv /\ [Next]_vars => IInv'
<1> SUFFICES ASSUME IInv, [Next]_vars PROVE IInv'
  OBVIOUS
<1>1. CASE Next
  <2>1. TypeOK'
    BY <1>1, StepTypes
  <2>2. Standing' /\ OfLives' /\ Reachable' /\ StillOpen'
    BY <1>1, SetUpKeeps, QuietKeeps, EnterKeeps, ListItemsKeeps, ConnectedKeeps, CancelKeeps,
       ShutdownKeeps DEF Next
  <2> QED
    BY <2>1, <2>2 DEF IInv
<1>2. CASE UNCHANGED vars
  <2>1. /\ pc' = pc /\ life' = life /\ server' = server /\ kind' = kind /\ tools' = tools
        /\ catalog' = catalog /\ clients' = clients /\ open' = open
        /\ abandoned' = abandoned /\ handles' = handles
    BY <1>2 DEF vars
  <2>2. Found' = Found /\ ToSet(clients') = ToSet(clients) /\ Entered' = Entered /\ Listed' = Listed
    BY <2>1, FoundStays DEF Entered, Listed, Client
  <2>3. TypeOK'
    BY <2>1 DEF IInv, TypeOK
  <2>4. Standing' /\ OfLives'
    BY <2>1, <2>2 DEF IInv, Standing, OfLives
  <2>5. Reachable' /\ StillOpen'
    BY <2>1, <2>2 DEF IInv, Reachable, StillOpen
  <2> QED
    BY <2>3, <2>4, <2>5 DEF IInv
<1> QED
  BY <1>1, <1>2

(* What get_mcp_prompt and read_resource find, and every tool that was     *)
(* registered in this life, belongs to an open client, whichever           *)
(* connections failed or were cancelled half way; what is found belongs to *)
(* a client that shutdown() knows or whose connect_mcp was cut short, and  *)
(* shutdown() leaves only such a one open.                                 *)
THEOREM OwnersAlwaysSound == Spec => []OwnersSound
<1>1. ASSUME IInv PROVE OwnersSound
  <2>1. pc = "ready" => Entered = {} /\ Listed = {}
    BY DEF Entered, Listed
  <2>2. pc = "idle" => Entered = {} /\ ToSet(clients) = {}
    <3>1. pc = "idle" => clients = <<>>
      BY <1>1 DEF IInv, Standing
    <3>2. clients = <<>> => DOMAIN clients = {}
      OBVIOUS
    <3> QED
      BY <3>1, <3>2 DEF Entered, ToSet
  <2>3. CatalogOfClients
    BY <1>1, <2>1 DEF IInv, Standing, Reachable, Up, CatalogOfClients
  <2>4. KnownClientsClosed
    BY <1>1, <2>2 DEF IInv, StillOpen, KnownClientsClosed
  <2>5. NewToolsReachable
    BY <1>1 DEF IInv, Reachable, Up, NewToolsReachable, Owner
  <2> QED
    BY <1>1, <2>3, <2>4, <2>5 DEF IInv, OwnersSound
<1> QED
  BY <1>1, InitInv, StepInv, PTL DEF Spec

(* A tool keeps its owner: neither a server that lists a tool of the same  *)
(* name later nor another life takes the name.                             *)
THEOREM FirstRegistrationAlwaysWins == Spec => FirstRegistrationWins
<1> DEFINE Keeps == \A n \in DOMAIN tools : n \in DOMAIN tools' /\ tools'[n] = tools[n]
<1>1. ASSUME Next PROVE Keeps
  <2>1. ASSUME NEW names, NEW owner, tools' = Add(tools, names, owner) PROVE Keeps
    BY <2>1 DEF Add
  <2>2. CASE SetUp
    BY <2>1, <2>2 DEF SetUp, Discover, Register
  <2>3. CASE ListTools
    BY <2>1, <2>3 DEF ListTools, Register
  <2>4. CASE UNCHANGED tools
    BY <2>4
  <2> QED
    BY <1>1, <2>2, <2>3, <2>4 DEF Next, CreateMemory, BeginConnect, Enter, ListItems, Connected,
       Seed, Prefix, Cancel, BeginShutdown, CloseClient, EndShutdown, registries
<1>2. [Next]_vars => [Keeps]_vars
  BY <1>1
<1> QED
  BY <1>2, PTL DEF Spec, FirstRegistrationWins
=============================================================================
