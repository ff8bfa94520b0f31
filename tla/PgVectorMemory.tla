--------------------------- MODULE PgVectorMemory ---------------------------
(***************************************************************************)
(* The pgvector memory backend: one embedding request and one SQL          *)
(* statement for each operation, on a table that several agents share.     *)
(* Either may fail; a statement may also be carried out and its answer     *)
(* lost.  A row is [content, embedding], each the number of the statement  *)
(* whose text it holds, 0 for none; a memory is named by its write.        *)
(***************************************************************************)
EXTENDS Integers, FiniteSets

CONSTANTS Writes, Updates, Limit

Ops == Writes \cup Updates
Answers == {"done", "failed"}

VARIABLES
    client,      \* "none", "ready" or "null"
    index,       \* the ivfflat index exists
    pc, target, stamp,
    embedded,    \* operations whose embedding request was answered
    rows,
    ran,         \* statements carried out
    how, found   \* the last search, until something else happens

vars == <<client, index, pc, target, stamp, embedded, rows, ran, how, found>>
table == <<stamp, rows, ran>>

NoRow == [content |-> 0, embedding |-> 0]
Present == {id \in Writes : rows[id].content # 0}
NoSearch == how' = "none" /\ found' = {}

(* LIMIT *)
Cut(ids, s) == s \subseteq ids /\ (s = ids \/ Cardinality(s) = Limit) /\ Cardinality(s) <= Limit

Init ==
    /\ client = "none" /\ index = FALSE
    /\ pc = [o \in Ops |-> "idle"]
    /\ target = [o \in Ops |-> o]
    /\ stamp = [o \in Ops |-> 0]
    /\ embedded = {}
    /\ rows = [id \in Writes |-> NoRow]
    /\ ran = 0
    /\ how = "none" /\ found = {}

-----------------------------------------------------------------------------
(* create_pgvector_client: a wrong setting, the pool or the schema makes a *)
(* null client; only the index may fail.                                   *)
Create ==
    /\ client = "none"
    /\ client' \in {"ready", "null"}
    /\ index' \in {client' = "ready", FALSE}
    /\ NoSearch
    /\ UNCHANGED <<pc, target, embedded, table>>

Ignore(o) ==
    /\ client = "null" /\ pc[o] = "idle"
    /\ pc' = [pc EXCEPT ![o] = "failed"]
    /\ NoSearch
    /\ UNCHANGED <<client, index, target, embedded, table>>

(* _get_embedding; without an answer the operation goes on. *)
Embed(o) ==
    /\ client = "ready" /\ pc[o] = "idle"
    /\ \E id \in Writes :
          /\ o \in Writes => id = o
          /\ target' = [target EXCEPT ![o] = id]
    /\ embedded' \in {embedded, embedded \cup {o}}
    /\ pc' = [pc EXCEPT ![o] = "execute"]
    /\ NoSearch
    /\ UNCHANGED <<client, index, table>>

Applies(o, row) ==
    /\ ran' = ran + 1
    /\ stamp' = [stamp EXCEPT ![o] = ran']
    /\ rows' = [rows EXCEPT ![target[o]] = row]

Embedding(o, otherwise) == IF o \in embedded THEN ran + 1 ELSE otherwise

Insert(o) ==
    /\ o \in Writes /\ pc[o] = "execute"
    /\ \/ /\ Applies(o, [content |-> ran + 1, embedding |-> Embedding(o, 0)])
          /\ pc' \in {[pc EXCEPT ![o] = answer] : answer \in Answers}
       \/ pc' = [pc EXCEPT ![o] = "failed"] /\ UNCHANGED table
    /\ NoSearch
    /\ UNCHANGED <<client, index, target, embedded>>

(* Slip: the embedding is set also when there is none, as INSERT does. *)
UpdateRow_Blanks(o) ==
    /\ o \in Updates /\ pc[o] = "execute"
    /\ \/ /\ target[o] \in Present
          /\ Applies(o, [content |-> ran + 1, embedding |-> Embedding(o, 0)])
          /\ pc' \in {[pc EXCEPT ![o] = answer] : answer \in Answers}
       \/ target[o] \notin Present /\ pc' = [pc EXCEPT ![o] = "unknown"] /\ UNCHANGED table
       \/ pc' = [pc EXCEPT ![o] = "failed"] /\ UNCHANGED table
    /\ NoSearch
    /\ UNCHANGED <<client, index, target, embedded>>

(* UPDATE ... RETURNING: without an embedding the old one stays. *)
UpdateRow(o) ==
    /\ o \in Updates /\ pc[o] = "execute"
    /\ \/ /\ target[o] \in Present
          /\ Applies(o, [content |-> ran + 1,
                         embedding |-> Embedding(o, rows[target[o]].embedding)])
          /\ pc' \in {[pc EXCEPT ![o] = answer] : answer \in Answers}
       \/ target[o] \notin Present /\ pc' = [pc EXCEPT ![o] = "unknown"] /\ UNCHANGED table
       \/ pc' = [pc EXCEPT ![o] = "failed"] /\ UNCHANGED table
    /\ NoSearch
    /\ UNCHANGED <<client, index, target, embedded>>

(* ORDER BY distance: the index is approximate and knows no row without an *)
(* embedding; without it these come last.                                  *)
VectorSearch ==
    /\ client = "ready"
    /\ how' = "vector"
    /\ LET near == {id \in Present : rows[id].embedding # 0}
       IN  \E s \in SUBSET Present :
              /\ IF index THEN s \subseteq near /\ Cardinality(s) <= Limit
                 ELSE Cut(Present, s) /\ (near \subseteq s \/ s \subseteq near)
              /\ found' = s
    /\ UNCHANGED <<client, index, pc, target, embedded, table>>

(* The embedding or its query failed: ILIKE, for a text all memories hold *)
TextSearch ==
    /\ client = "ready"
    /\ how' = "text"
    /\ \E s \in SUBSET Present : Cut(Present, s) /\ found' = s
    /\ UNCHANGED <<client, index, pc, target, embedded, table>>

(* Both queries failed, or there is only a null client. *)
SearchNothing ==
    /\ client # "none"
    /\ how' = "failed" /\ found' = {}
    /\ UNCHANGED <<client, index, pc, target, embedded, table>>

Next ==
    \/ Create
    \/ \E o \in Ops : Ignore(o) \/ Embed(o) \/ Insert(o) \/ UpdateRow(o)
    \/ VectorSearch \/ TextSearch \/ SearchNothing

Spec == Init /\ [][Next]_vars

-----------------------------------------------------------------------------
TypeOK ==
    /\ client \in {"none", "ready", "null"} /\ index \in BOOLEAN
    /\ pc \in [Ops -> {"idle", "execute", "done", "failed", "unknown"}]
    /\ target \in [Ops -> Ops] /\ stamp \in [Ops -> 0..ran]
    /\ embedded \subseteq Ops
    /\ rows \in [Writes -> [content : 0..ran, embedding : 0..ran]]
    /\ found \subseteq Present /\ Cardinality(found) <= Limit

(* A row's embedding is that of its text, unless the embedding request for *)
(* that text failed; then it is that of an earlier one, by which the row   *)
(* is found until its next update.  However the updates overlap it is      *)
(* never that of a later text, and never older than, or gone after, one    *)
(* that was stored.                                                        *)
EmbeddingFollowsContent ==
    \A id \in Writes :
        LET row == rows[id]
            stored == {o \in Ops : target[o] = id /\ stamp[o] # 0}
        IN  /\ row.embedding <= row.content
            /\ row.embedding # row.content =>
                  \E o \in stored : stamp[o] = row.content /\ o \notin embedded
            /\ \A o \in stored : o \in embedded => row.embedding >= stamp[o]

(* What was returned is in the table, or a later text of the same memory   *)
(* is; and a search that gets an answer without the index, or falls back   *)
(* to text, leaves it out only for as many others as the limit allows.     *)
ReturnedIsFound ==
    \A o \in Ops : pc[o] = "done" =>
        /\ rows[target[o]].content >= stamp[o]
        /\ how = "text" \/ (how = "vector" /\ ~ index) =>
              target[o] \in found \/ Cardinality(found) = Limit
=============================================================================
