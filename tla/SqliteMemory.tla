---------------------------- MODULE SqliteMemory ----------------------------
(***************************************************************************)
(* The SQLite memory backend.  Every write, update and search runs in a    *)
(* thread of its own on the one connection of the client, so the           *)
(* statements of several operations share one open transaction and any of  *)
(* their commits commits them all.                                         *)
(*                                                                         *)
(* A row is abstracted to the number of the statement that gave it its     *)
(* content, 0 where there is no row; a memory is named by the write that   *)
(* creates it.                                                             *)
(***************************************************************************)
EXTENDS Integers, FiniteSets

CONSTANTS
    Writes,       \* write() calls, and the ids they make
    Updates,      \* update() calls
    Limit,        \* kwargs.get("limit", 10)
    MaxCrashes    \* bound: ends of the process

Ops == Writes \cup Updates
Queries == {"words", "symbols", "empty"}

VARIABLES
    client,       \* what create_sqlite_client made
    pc,
    target,       \* the memory an operation is about, itself while there is none
    stamp,        \* the number of its statement
    view,         \* the table as the connection sees it
    disk,         \* the table as committed
    ran,          \* statements run
    spoiled,      \* operations under way when the transaction was rolled back
    asked, found, \* the last search, until something else happens
    crashes

vars == <<client, pc, target, stamp, view, disk, ran, spoiled, asked, found, crashes>>
table == <<view, disk, ran, spoiled>>

UnderWay == {o \in Ops : pc[o] \in {"selected", "executed"}}
Present(id) == view[id] # 0
NoSearch == asked' = "none" /\ found' = {}
Smaller(a, b) == IF a < b THEN a ELSE b

Init ==
    /\ client = "none"
    /\ pc = [o \in Ops |-> "idle"]
    /\ target = [o \in Ops |-> o]
    /\ stamp = [o \in Ops |-> 0]
    /\ view = [id \in Writes |-> 0] /\ disk = view
    /\ ran = 0 /\ spoiled = {}
    /\ asked = "none" /\ found = {}
    /\ crashes = 0

-----------------------------------------------------------------------------
(* create_sqlite_client: connect and create the schema, or a null client. *)
Create ==
    /\ client = "none"
    /\ client' \in {"sqlite", "null"}
    /\ NoSearch
    /\ UNCHANGED <<pc, target, stamp, table, crashes>>

(* Every operation of a NullMemoryClient returns None. *)
Ignore(o) ==
    /\ client = "null" /\ pc[o] = "idle"
    /\ pc' = [pc EXCEPT ![o] = "failed"]
    /\ NoSearch
    /\ UNCHANGED <<client, target, stamp, table, crashes>>

(* The statement opens the transaction if none is open, and changes the    *)
(* row where there is one to change.                                       *)
Executes(o, change) ==
    /\ ran' = ran + 1
    /\ stamp' = [stamp EXCEPT ![o] = ran']
    /\ view' = IF change THEN [view EXCEPT ![target[o]] = ran'] ELSE view
    /\ UNCHANGED <<disk, spoiled>>

(* A statement that fails.  An error of the disk makes SQLite roll the     *)
(* open transaction back, with the statements of other operations; any     *)
(* other error, such as a lock, leaves it.                                 *)
RolledBack ==
    /\ view' = disk
    /\ spoiled' = spoiled \cup UnderWay
    /\ UNCHANGED <<disk, ran>>
StatementFails == UNCHANGED table \/ RolledBack

(* The exception becomes None. *)
Fails(o) ==
    /\ pc' = [pc EXCEPT ![o] = "failed"]
    /\ StatementFails
    /\ UNCHANGED stamp

(* Slip: the result is returned before the commit. *)
Insert_Returns(o) ==
    /\ client = "sqlite" /\ o \in Writes /\ pc[o] = "idle"
    /\ \/ pc' = [pc EXCEPT ![o] = "done"] /\ Executes(o, TRUE)
       \/ Fails(o)
    /\ NoSearch
    /\ UNCHANGED <<client, target, crashes>>

(* _write_sync: INSERT *)
Insert(o) ==
    /\ client = "sqlite" /\ o \in Writes /\ pc[o] = "idle"
    /\ \/ pc' = [pc EXCEPT ![o] = "executed"] /\ Executes(o, TRUE)
       \/ Fails(o)
    /\ NoSearch
    /\ UNCHANGED <<client, target, crashes>>

(* _update_sync: SELECT; an unknown id returns None *)
Select(o) ==
    /\ client = "sqlite" /\ o \in Updates /\ pc[o] = "idle"
    /\ \E id \in Writes :
          /\ target' = [target EXCEPT ![o] = id]
          /\ \/ /\ pc' = [pc EXCEPT ![o] = IF Present(id) THEN "selected" ELSE "unknown"]
                /\ UNCHANGED <<stamp, table>>
             \/ Fails(o)
    /\ NoSearch
    /\ UNCHANGED <<client, crashes>>

(* UPDATE; no row may be left, which is not looked at. *)
Update(o) ==
    /\ pc[o] = "selected"
    /\ \/ pc' = [pc EXCEPT ![o] = "executed"] /\ Executes(o, Present(target[o]))
       \/ Fails(o)
    /\ NoSearch
    /\ UNCHANGED <<client, target, crashes>>

Commit(o) ==
    /\ pc[o] = "executed"
    /\ disk' = view
    /\ pc' = [pc EXCEPT ![o] = "done"]
    /\ NoSearch
    /\ UNCHANGED <<client, target, stamp, view, ran, spoiled, crashes>>

(* A commit that fails: nobody rolls back.                                 *)
FailToCommit(o) ==
    /\ pc[o] = "executed"
    /\ Fails(o)
    /\ NoSearch
    /\ UNCHANGED <<client, target, crashes>>

(* _search_sync for a query that every memory matches.  "words" is one     *)
(* that FTS5 parses.  Another one falls back to its words, of which the    *)
(* empty one has none.                                                     *)
Search ==
    /\ client # "none"
    /\ asked' \in Queries
    /\ LET rows == {id \in Writes : Present(id)}
           max  == Smaller(Limit, Cardinality(rows))
       IN  \E ids \in SUBSET rows :
              /\ Cardinality(ids) = max
              /\ found' = IF asked' = "empty" \/ client = "null" THEN {}
                          ELSE {<<id, view[id]>> : id \in ids}
    /\ UNCHANGED <<client, pc, target, stamp, table, crashes>>

(* Any exception of a search becomes the empty list. *)
SearchFails ==
    /\ client = "sqlite"
    /\ asked' = "failed" /\ found' = {}
    /\ StatementFails
    /\ UNCHANGED <<client, pc, target, stamp, crashes>>

(* The process ends: what is not committed is gone. *)
Crash ==
    /\ crashes < MaxCrashes
    /\ crashes' = crashes + 1
    /\ client' = "none"
    /\ view' = disk
    /\ pc' = [o \in Ops |-> IF o \in UnderWay THEN "ended" ELSE pc[o]]
    /\ NoSearch
    /\ UNCHANGED <<target, stamp, disk, ran, spoiled>>

Next ==
    \/ Create
    \/ \E o \in Ops :
          Ignore(o) \/ Insert(o) \/ Select(o) \/ Update(o) \/ Commit(o) \/ FailToCommit(o)
    \/ Search
    \/ SearchFails
    \/ Crash

Spec == Init /\ [][Next]_vars

-----------------------------------------------------------------------------
TypeOK ==
    /\ client \in {"none", "sqlite", "null"}
    /\ pc \in [Ops -> {"idle", "selected", "executed", "done", "failed", "unknown", "ended"}]
    /\ target \in [Ops -> Ops]
    /\ stamp \in [Ops -> 0..ran]
    /\ view \in [Writes -> 0..ran] /\ disk \in [Writes -> 0..ran]
    /\ spoiled \subseteq Ops
    /\ asked \in Queries \cup {"none", "failed"}
    /\ crashes \in 0..MaxCrashes

(* What write() or update() has returned is on disk, or a later statement  *)
(* about the same memory is, and stays there when the process ends;        *)
(* whichever operation's commit put it there.  Excepted is only an         *)
(* operation that was under way when SQLite rolled the shared transaction  *)
(* back, for a failed commit or statement of another operation.            *)
ReturnedIsDurable ==
    \A o \in Ops \ spoiled : pc[o] = "done" => disk[target[o]] >= stamp[o]

(* A search with words that does not fail, whether FTS5 parses its query   *)
(* or not, finds every memory that has been returned, in its last content, *)
(* if the limit allows; with the same exception.  A search that fails      *)
(* returns the empty list, as one that finds nothing.                      *)
SearchFindsReturned ==
    client = "sqlite" /\ asked \in {"words", "symbols"} /\ Limit >= Cardinality(Writes) =>
        \A o \in Ops \ spoiled :
            pc[o] = "done" => \E r \in found : r[1] = target[o] /\ r[2] >= stamp[o]

(* "Single-process safe": what an operation has returned is on disk. *)
SafeInOneProcess ==
    \A o \in Ops : pc[o] = "done" => disk[target[o]] >= stamp[o]

(* The empty query serves "to retrieve all memories in backend-native      *)
(* order".                                                                 *)
EmptyFindsAll ==
    client = "sqlite" /\ asked = "empty" /\ Limit >= Cardinality(Writes) =>
        {id \in Writes : Present(id)} \subseteq {r[1] : r \in found}
=============================================================================
