---------------------------- MODULE MemoryClient ----------------------------
(***************************************************************************)
(* create_memory_client, the MemoryHub client and build_memory_prefix:     *)
(* from the configured backend to the client an agent gets, and from the   *)
(* memories that client finds to the prefix message.  The backends have    *)
(* modules of their own; here each one's factory makes a client or not.    *)
(***************************************************************************)
EXTENDS Integers, Sequences, SequencesExt, FiniteSets

CONSTANTS
    Sizes,       \* lengths of a memory's content
    MaxFound,    \* bound: memories found
    Limits       \* max_prefix_chars, 0 for no limit

Unset == "unset"
Helpers == {"sqlite", "pgvector", "markdown", "llamastack"}
Backends == {Unset, "memoryhub", "custom", "null"} \cup Helpers

VARIABLES
    backend, classGiven, limit,   \* the configuration
    pc, client,
    failed,      \* a step of making the client has failed
    found,       \* contents search("") returned, [size, blank]
    prefix,      \* length of the memory prefix, 0 for None
    cut

vars == <<backend, classGiven, limit, pc, client, failed, found, prefix, cut>>
config == <<backend, classGiven, limit>>
memory == <<found, prefix, cut>>

Content == [size : Sizes, blank : BOOLEAN]
HubConfigured == backend \in {Unset, "memoryhub"}

Init ==
    /\ backend \in Backends /\ classGiven \in BOOLEAN /\ limit \in Limits
    /\ pc = "dispatch" /\ client = "none" /\ failed = FALSE
    /\ found = <<>> /\ prefix = 0 /\ cut = FALSE

GetsNull == pc' = "search" /\ client' = "null"
Gets(kind) == pc' = "search" /\ client' = kind /\ UNCHANGED failed

-----------------------------------------------------------------------------
(* Slip: an unset backend disables memory. *)
Dispatch_NoDetection ==
    /\ pc = "dispatch"
    /\ \/ backend \in {"null", Unset} /\ GetsNull
       \/ backend = "custom" /\ ~ classGiven /\ GetsNull
       \/ /\ \/ backend = "memoryhub" /\ pc' = "hub"
             \/ backend \in Helpers /\ pc' = "import"
             \/ backend = "custom" /\ classGiven /\ pc' = "custom"
          /\ UNCHANGED client
    /\ failed' = (backend = "custom" /\ ~ classGiven)
    /\ UNCHANGED <<config, memory>>

(* create_memory_client: without a backend MemoryHub is looked for. *)
Dispatch ==
    /\ pc = "dispatch"
    /\ \/ backend = "null" /\ GetsNull
       \/ backend = "custom" /\ ~ classGiven /\ GetsNull
       \/ /\ \/ HubConfigured /\ pc' = "hub"
             \/ backend \in Helpers /\ pc' = "import"
             \/ backend = "custom" /\ classGiven /\ pc' = "custom"
          /\ UNCHANGED client
    /\ failed' = (backend = "custom" /\ ~ classGiven)
    /\ UNCHANGED <<config, memory>>

Raise == pc' = "raised" /\ UNCHANGED client

(* _create_memoryhub_client: does the file exist?  exists() may raise. *)
HubExists ==
    /\ pc = "hub"
    /\ \/ pc' = "hub import" /\ UNCHANGED <<client, failed>>
       \/ GetsNull /\ failed' = TRUE
       \/ Raise /\ failed' = TRUE
    /\ UNCHANGED <<config, memory>>

(* import memoryhub: only ImportError is caught. *)
HubImport ==
    /\ pc = "hub import"
    /\ \/ pc' = "hub connect" /\ UNCHANGED <<client, failed>>
       \/ GetsNull /\ failed' = TRUE
       \/ Raise /\ failed' = TRUE
    /\ UNCHANGED <<config, memory>>

(* Read and parse the file, find the key, construct and register. *)
HubConnect ==
    /\ pc = "hub connect"
    /\ \/ Gets("memoryhub")
       \/ GetsNull /\ failed' = TRUE
    /\ UNCHANGED <<config, memory>>

(* _create_sqlite_client and its like: import the module, of which only an *)
(* ImportError is caught, and call its factory, which catches everything.  *)
ImportHelper ==
    /\ pc = "import"
    /\ \/ pc' = "factory" /\ UNCHANGED <<client, failed>>
       \/ GetsNull /\ failed' = TRUE
       \/ Raise /\ failed' = TRUE
    /\ UNCHANGED <<config, memory>>

CallFactory ==
    /\ pc = "factory"
    /\ \/ Gets(backend)
       \/ GetsNull /\ failed' = TRUE
    /\ UNCHANGED <<config, memory>>

(* _create_custom_client: import, check, construct, set up, in one try. *)
Custom ==
    /\ pc = "custom"
    /\ \/ Gets("custom")
       \/ GetsNull /\ failed' = TRUE
    /\ UNCHANGED <<config, memory>>

(* search("") of the client: the MemoryHub client takes a list, models or  *)
(* an older SDK's memories, and nothing when the SDK fails; a custom one's *)
(* exception ends setup().                                                 *)
Search ==
    /\ pc = "search"
    /\ \/ client # "null" /\ pc' = "build" /\ found' \in BoundedSeq(Content, MaxFound)
       \/ client = "null" /\ pc' = "build" /\ UNCHANGED found
       \/ client = "custom" /\ pc' = "search raised" /\ UNCHANGED found
    /\ UNCHANGED <<config, client, failed, prefix, cut>>

Separator == 7     \* "\n\n---\n\n"
Truncated == 15    \* "\n\n... [truncated]", one character for the dots
Parts == {k \in DOMAIN found : ~ found[k].blank /\ found[k].size > 0}

(* The length of what the first k contents give, a separator behind each *)
JoinedTo[k \in Nat] ==
    IF k = 0 THEN 0
    ELSE JoinedTo[k - 1] + (IF k \in Parts THEN found[k].size + Separator ELSE 0)
Joined == JoinedTo[Len(found)] - Separator

(* build_memory_prefix: blanks are dropped, the rest joined and cut. *)
BuildPrefix ==
    /\ pc = "build"
    /\ cut' = (Parts # {} /\ limit > 0 /\ Joined > limit)
    /\ prefix' = CASE Parts = {} -> 0
                   [] cut' -> limit + Truncated
                   [] OTHER -> Joined
    /\ pc' = "ready"
    /\ UNCHANGED <<config, client, failed, found>>

Next ==
    \/ Dispatch
    \/ HubExists \/ HubImport \/ HubConnect
    \/ ImportHelper \/ CallFactory
    \/ Custom
    \/ Search \/ BuildPrefix

Spec == Init /\ [][Next]_vars

-----------------------------------------------------------------------------
TypeOK ==
    /\ backend \in Backends
    /\ pc \in {"dispatch", "hub", "hub import", "hub connect", "import", "factory", "custom",
               "search", "build", "ready", "raised", "search raised"}
    /\ client \in {"none", "memoryhub", "custom", "null"} \cup Helpers
    /\ prefix \in Nat
    /\ cut => prefix > limit

(* The agent gets the client its configuration names, or the null client,  *)
(* and that only when it asked for it or a step failed: never the client   *)
(* of another backend.                                                     *)
ClientAsConfigured ==
    client # "none" =>
        \/ client = (IF backend = Unset THEN "memoryhub" ELSE backend)
        \/ client = "null" /\ failed

(* However many memories are found, the prefix exceeds the limit by no     *)
(* more than the mark; none that is not blank is left out unless the mark  *)
(* says so.                                                                *)
PrefixBounded ==
    /\ limit # 0 => prefix <= limit + Truncated
    /\ pc = "ready" /\ ~ cut =>
          \A k \in DOMAIN found : found[k].blank \/ found[k].size <= prefix

(* "This function **never** raises" *)
NeverRaises == pc # "raised"

(* "Maximum character length for the memory prefix" *)
PrefixWithinMax == limit # 0 => prefix <= limit
=============================================================================
