------------------------ MODULE ServiceClientsProofs ------------------------
(* What the clients of the services outside the agent promise, for any     *)
(* number of operations, overlapping and failing in any way.               *)
EXTENDS ServiceClients, FiniteSetTheorems, SequenceTheorems, WellFoundedInduction, TLAPS

LEMMA Bounds ==
    /\ SqliteLimit \in Nat /\ PgLimit \in Nat /\ MaxCrashes \in Nat /\ MaxRestarts \in Nat
    /\ \A b \in Backends : IsFiniteSet(Writes[b])
    /\ Retries \subseteq Int
<1>1. Sizes \cup Limits \cup {SqliteLimit, PgLimit, MaxFound, MaxCrashes, MaxRestarts} \subseteq Nat
  BY ServiceAssumption
<1> QED
  BY <1>1, ServiceAssumption

(* A set of natural numbers that is not empty has a least one.             *)
LEMMA LeastNatural ==
    ASSUME NEW S \in SUBSET Nat, S # {}
    PROVE  \E x \in S : \A y \in S : x <= y
<1> DEFINE Less == OpToRel(<, Nat)
<1>1. IsWellFoundedOn(Less, Nat)
  BY NatLessThanWellFounded
<1>2. \E x \in S : \A y \in S : ~ (<<y, x>> \in Less)
  <2> HIDE DEF Less
  <2> QED
    BY <1>1, WFMin
<1>3. PICK x \in S : \A y \in S : ~ (<<y, x>> \in Less)
  BY <1>2
<1>4. ASSUME NEW y \in S PROVE x <= y
  <2>1. ~ (y < x)
    BY <1>3 DEF OpToRel
  <2> QED
    BY <2>1
<1> QED
  BY <1>4

-----------------------------------------------------------------------------
(* SQLite.  An operation past its SELECT has a row; one past its statement *)
(* has it, or a later one about the same memory, in the open transaction,  *)
(* which never falls behind the disk; one that returned, on the disk.      *)
(* Operations that were under way at a rollback are beyond that.           *)
SqliteSteps ==
    \A o \in Sqlite!Ops :
        /\ sqlitePc[o] = "idle" => sqliteTarget[o] = o
        /\ sqlitePc[o] \in {"selected", "executed", "done"} =>
              sqliteTarget[o] \in Writes["sqlite"]
        /\ sqlitePc[o] = "selected" /\ o \notin spoiled => view[sqliteTarget[o]] >= 1
        /\ sqlitePc[o] \in {"executed", "done"} => sqliteStamp[o] >= 1
        /\ sqlitePc[o] = "executed" /\ o \notin spoiled =>
              view[sqliteTarget[o]] >= sqliteStamp[o]
        /\ sqlitePc[o] = "done" /\ o \notin spoiled =>
              disk[sqliteTarget[o]] >= sqliteStamp[o]

SqliteInv ==
    /\ Sqlite!TypeOK /\ ran \in Nat
    /\ SqliteSteps
    /\ \A id \in Writes["sqlite"] : view[id] >= disk[id]
    /\ Sqlite!SearchFindsReturned

LEMMA SqliteInit == Sqlite!Init => SqliteInv
BY Bounds DEF Sqlite!Init, SqliteInv, Sqlite!TypeOK, SqliteSteps, Sqlite!SearchFindsReturned,
   Sqlite!Ops, Sqlite!Queries

(* The statement of operation o, which changes its row or finds none.      *)
LEMMA SqliteExecutes ==
    ASSUME SqliteInv, NEW o \in Sqlite!Ops, NEW change \in BOOLEAN,
           sqlitePc[o] \in {"idle", "selected"}, Sqlite!Executes(o, change),
           sqliteTarget[o] \in Writes["sqlite"], o \notin spoiled => change,
           sqlitePc' = [sqlitePc EXCEPT ![o] = "executed"],
           UNCHANGED <<sqliteClient, sqliteTarget, sqliteCrashes>>, Sqlite!NoSearch
    PROVE  SqliteInv'
<1>1. /\ ran' = ran + 1 /\ sqliteStamp' = [sqliteStamp EXCEPT ![o] = ran + 1]
      /\ view' = IF change THEN [view EXCEPT ![sqliteTarget[o]] = ran + 1] ELSE view
      /\ disk' = disk /\ spoiled' = spoiled /\ asked' = "none" /\ hits' = {}
  BY DEF Sqlite!Executes, Sqlite!NoSearch
<1>2. Sqlite!TypeOK /\ ran \in Nat /\ ran' \in Nat /\ \A n \in 0..ran : n \in 0..(ran + 1)
  BY <1>1 DEF SqliteInv
<1>3. Sqlite!TypeOK'
  <2>1. sqliteStamp' \in [Sqlite!Ops -> 0..(ran + 1)]
    BY <1>1, <1>2 DEF Sqlite!TypeOK
  <2>2. view' \in [Writes["sqlite"] -> 0..(ran + 1)] /\ disk' \in [Writes["sqlite"] -> 0..(ran + 1)]
    BY <1>1, <1>2 DEF Sqlite!TypeOK
  <2> QED
    BY <1>1, <1>2, <2>1, <2>2 DEF Sqlite!TypeOK, Sqlite!Ops
<1>4. \A id \in Writes["sqlite"] : view'[id] >= view[id]
  BY <1>1, <1>2 DEF Sqlite!TypeOK
<1>5. \A id \in Writes["sqlite"] : view'[id] >= disk'[id]
  BY <1>1, <1>2, <1>4 DEF SqliteInv, Sqlite!TypeOK
<1>6. SqliteSteps'
  <2> SUFFICES ASSUME NEW p \in Sqlite!Ops
      PROVE  /\ sqlitePc'[p] = "idle" => sqliteTarget'[p] = p
             /\ sqlitePc'[p] \in {"selected", "executed", "done"} =>
                   sqliteTarget'[p] \in Writes["sqlite"]
             /\ sqlitePc'[p] = "selected" /\ p \notin spoiled' => view'[sqliteTarget'[p]] >= 1
             /\ sqlitePc'[p] \in {"executed", "done"} => sqliteStamp'[p] >= 1
             /\ sqlitePc'[p] = "executed" /\ p \notin spoiled' =>
                   view'[sqliteTarget'[p]] >= sqliteStamp'[p]
             /\ sqlitePc'[p] = "done" /\ p \notin spoiled' =>
                   disk'[sqliteTarget'[p]] >= sqliteStamp'[p]
    BY DEF SqliteSteps, Sqlite!Ops
  <2>1. CASE p = o
    BY <1>1, <1>2, <2>1 DEF Sqlite!TypeOK
  <2>2. CASE p # o
    <3>1. sqlitePc'[p] = sqlitePc[p] /\ sqliteTarget'[p] = sqliteTarget[p] /\ sqliteStamp'[p] = sqliteStamp[p]
      BY <1>1, <1>2, <2>2 DEF Sqlite!TypeOK
    <3>2. sqliteStamp[p] \in Nat /\ \A id \in Writes["sqlite"] : view[id] \in Nat /\ view'[id] \in Nat
      BY <1>2, <1>3 DEF Sqlite!TypeOK
    <3> QED
      BY <1>1, <1>4, <3>1, <3>2 DEF SqliteInv, SqliteSteps
  <2> QED
    BY <2>1, <2>2
<1>7. Sqlite!SearchFindsReturned'
  BY <1>1 DEF Sqlite!SearchFindsReturned
<1> QED
  BY <1>2, <1>3, <1>5, <1>6, <1>7 DEF SqliteInv

(* A step that runs no statement: it moves one operation on.               *)
LEMMA SqliteMoves ==
    ASSUME SqliteInv, NEW o \in Sqlite!Ops, NEW to, NEW id \in Sqlite!Ops,
           sqlitePc' = [sqlitePc EXCEPT ![o] = to],
           sqliteTarget' = [sqliteTarget EXCEPT ![o] = id],
           \/ to \in {"failed", "unknown"}
           \/ /\ to = "selected" /\ id \in Writes["sqlite"] /\ view[id] # 0,
           UNCHANGED <<sqliteStamp, view, disk, ran, spoiled, sqliteCrashes>>,
           sqliteClient' = sqliteClient, Sqlite!NoSearch
    PROVE  SqliteInv'
<1>1. Sqlite!TypeOK /\ ran \in Nat
  BY DEF SqliteInv
<1>2. Sqlite!TypeOK'
  BY <1>1 DEF Sqlite!TypeOK, Sqlite!NoSearch
<1>3. SqliteSteps'
  <2> SUFFICES ASSUME NEW p \in Sqlite!Ops
      PROVE  /\ sqlitePc'[p] = "idle" => sqliteTarget'[p] = p
             /\ sqlitePc'[p] \in {"selected", "executed", "done"} =>
                   sqliteTarget'[p] \in Writes["sqlite"]
             /\ sqlitePc'[p] = "selected" /\ p \notin spoiled' => view'[sqliteTarget'[p]] >= 1
             /\ sqlitePc'[p] \in {"executed", "done"} => sqliteStamp'[p] >= 1
             /\ sqlitePc'[p] = "executed" /\ p \notin spoiled' =>
                   view'[sqliteTarget'[p]] >= sqliteStamp'[p]
             /\ sqlitePc'[p] = "done" /\ p \notin spoiled' =>
                   disk'[sqliteTarget'[p]] >= sqliteStamp'[p]
    BY DEF SqliteSteps, Sqlite!Ops
  <2>1. CASE p = o
    <3>1. view[id] \in Nat \/ to # "selected"
      BY <1>1 DEF Sqlite!TypeOK
    <3> QED
      BY <1>1, <2>1, <3>1 DEF Sqlite!TypeOK
  <2>2. CASE p # o
    BY <1>1, <2>2 DEF SqliteInv, SqliteSteps, Sqlite!TypeOK
  <2> QED
    BY <2>1, <2>2
<1>4. Sqlite!SearchFindsReturned'
  BY DEF Sqlite!SearchFindsReturned, Sqlite!NoSearch
<1> QED
  BY <1>1, <1>2, <1>3, <1>4 DEF SqliteInv

LEMMA SqliteCommits ==
    ASSUME SqliteInv, NEW o \in Sqlite!Ops, Sqlite!Commit(o)
    PROVE  SqliteInv'
<1>1. /\ sqlitePc[o] = "executed" /\ sqlitePc' = [sqlitePc EXCEPT ![o] = "done"] /\ disk' = view
      /\ asked' = "none" /\ hits' = {}
      /\ UNCHANGED <<sqliteClient, sqliteTarget, sqliteStamp, view, ran, spoiled, sqliteCrashes>>
  BY DEF Sqlite!Commit, Sqlite!NoSearch
<1>2. Sqlite!TypeOK /\ ran \in Nat
  BY DEF SqliteInv
<1>3. Sqlite!TypeOK'
  BY <1>1, <1>2 DEF Sqlite!TypeOK
<1>4. \A id \in Writes["sqlite"] :
         view[id] \in Nat /\ disk[id] \in Nat /\ view[id] >= disk[id]
  BY <1>2 DEF SqliteInv, Sqlite!TypeOK
<1>5. SqliteSteps'
  <2> SUFFICES ASSUME NEW p \in Sqlite!Ops
      PROVE  /\ sqlitePc'[p] = "idle" => sqliteTarget'[p] = p
             /\ sqlitePc'[p] \in {"selected", "executed", "done"} =>
                   sqliteTarget'[p] \in Writes["sqlite"]
             /\ sqlitePc'[p] = "selected" /\ p \notin spoiled' => view'[sqliteTarget'[p]] >= 1
             /\ sqlitePc'[p] \in {"executed", "done"} => sqliteStamp'[p] >= 1
             /\ sqlitePc'[p] = "executed" /\ p \notin spoiled' =>
                   view'[sqliteTarget'[p]] >= sqliteStamp'[p]
             /\ sqlitePc'[p] = "done" /\ p \notin spoiled' =>
                   disk'[sqliteTarget'[p]] >= sqliteStamp'[p]
    BY DEF SqliteSteps, Sqlite!Ops
  <2>1. sqliteStamp[p] \in Nat /\ sqlitePc'[p] = (IF p = o THEN "done" ELSE sqlitePc[p])
    BY <1>1, <1>2 DEF Sqlite!TypeOK
  <2> QED
    BY <1>1, <1>4, <2>1 DEF SqliteInv, SqliteSteps
<1>6. Sqlite!SearchFindsReturned'
  BY <1>1 DEF Sqlite!SearchFindsReturned
<1> QED
  BY <1>1, <1>2, <1>3, <1>4, <1>5, <1>6 DEF SqliteInv

(* A statement or a commit that fails, and perhaps takes the others'       *)
(* statements with it; failing is the operation it belongs to, if any.     *)
LEMMA SqliteFails ==
    ASSUME SqliteInv, NEW failing \in SUBSET Sqlite!Ops,
           sqlitePc' = [p \in Sqlite!Ops |-> IF p \in failing THEN "failed" ELSE sqlitePc[p]],
           sqliteTarget' \in [Sqlite!Ops -> Sqlite!Ops],
           \A p \in Sqlite!Ops \ failing : sqliteTarget'[p] = sqliteTarget[p],
           Sqlite!StatementFails, asked' \in {"none", "failed"},
           UNCHANGED <<sqliteClient, sqliteStamp, sqliteCrashes>>
    PROVE  SqliteInv'
<1>1. /\ \/ UNCHANGED <<view, spoiled>>
         \/ view' = disk /\ spoiled' = spoiled \cup Sqlite!UnderWay
      /\ disk' = disk /\ ran' = ran
  BY DEF Sqlite!StatementFails, Sqlite!RolledBack, Sqlite!table
<1>2. Sqlite!TypeOK /\ ran \in Nat
  BY DEF SqliteInv
<1>3. Sqlite!TypeOK'
  <2>1. sqlitePc' \in [Sqlite!Ops -> {"idle", "selected", "executed", "done", "failed", "unknown", "ended"}]
    BY <1>2 DEF Sqlite!TypeOK
  <2>2. spoiled' \subseteq Sqlite!Ops /\ view' \in [Writes["sqlite"] -> 0..ran]
    BY <1>1, <1>2 DEF Sqlite!TypeOK, Sqlite!UnderWay
  <2> QED
    BY <1>1, <1>2, <2>1, <2>2 DEF Sqlite!TypeOK, Sqlite!Ops
<1>4. \A id \in Writes["sqlite"] :
         view[id] \in Nat /\ disk[id] \in Nat /\ view'[id] >= disk'[id]
  BY <1>1, <1>2 DEF SqliteInv, Sqlite!TypeOK
<1>5. SqliteSteps'
  <2> SUFFICES ASSUME NEW p \in Sqlite!Ops
      PROVE  /\ sqlitePc'[p] = "idle" => sqliteTarget'[p] = p
             /\ sqlitePc'[p] \in {"selected", "executed", "done"} =>
                   sqliteTarget'[p] \in Writes["sqlite"]
             /\ sqlitePc'[p] = "selected" /\ p \notin spoiled' => view'[sqliteTarget'[p]] >= 1
             /\ sqlitePc'[p] \in {"executed", "done"} => sqliteStamp'[p] >= 1
             /\ sqlitePc'[p] = "executed" /\ p \notin spoiled' =>
                   view'[sqliteTarget'[p]] >= sqliteStamp'[p]
             /\ sqlitePc'[p] = "done" /\ p \notin spoiled' =>
                   disk'[sqliteTarget'[p]] >= sqliteStamp'[p]
    BY DEF SqliteSteps, Sqlite!Ops
  <2>1. CASE p \in failing
    BY <2>1
  <2>2. CASE p \notin failing
    <3>1. sqlitePc'[p] = sqlitePc[p] /\ sqliteTarget'[p] = sqliteTarget[p]
      BY <2>2
    <3>2. CASE UNCHANGED <<view, spoiled>>
      BY <1>1, <3>1, <3>2 DEF SqliteInv, SqliteSteps
    <3>3. CASE spoiled' = spoiled \cup Sqlite!UnderWay
      BY <1>1, <3>1, <3>3 DEF SqliteInv, SqliteSteps, Sqlite!UnderWay
    <3> QED
      BY <1>1, <3>2, <3>3
  <2> QED
    BY <2>1, <2>2
<1>6. Sqlite!SearchFindsReturned'
  BY DEF Sqlite!SearchFindsReturned
<1> QED
  BY <1>1, <1>2, <1>3, <1>4, <1>5, <1>6 DEF SqliteInv

(* The operation whose statement or commit failed.                         *)
LEMMA SqliteOperationFails ==
    ASSUME SqliteInv, NEW o \in Sqlite!Ops, NEW id \in Sqlite!Ops,
           sqliteTarget' = [sqliteTarget EXCEPT ![o] = id],
           Sqlite!Fails(o), Sqlite!NoSearch, UNCHANGED <<sqliteClient, sqliteCrashes>>
    PROVE  SqliteInv'
<1>1. /\ sqlitePc \in [Sqlite!Ops -> {"idle", "selected", "executed", "done", "failed", "unknown",
                                      "ended"}]
      /\ sqliteTarget \in [Sqlite!Ops -> Sqlite!Ops]
  BY DEF SqliteInv, Sqlite!TypeOK
<1>2. sqlitePc' = [p \in Sqlite!Ops |-> IF p \in {o} THEN "failed" ELSE sqlitePc[p]]
  BY <1>1 DEF Sqlite!Fails
<1>3. /\ sqliteTarget' \in [Sqlite!Ops -> Sqlite!Ops]
      /\ \A p \in Sqlite!Ops \ {o} : sqliteTarget'[p] = sqliteTarget[p]
  BY <1>1
<1>4. Sqlite!StatementFails /\ sqliteStamp' = sqliteStamp /\ asked' \in {"none", "failed"}
  BY DEF Sqlite!Fails, Sqlite!NoSearch
<1>5. {o} \in SUBSET Sqlite!Ops
  OBVIOUS
<1> QED
  BY <1>2, <1>3, <1>4, <1>5, SqliteFails

LEMMA SqliteSearchFails == ASSUME SqliteInv, Sqlite!SearchFails PROVE SqliteInv'
<1>1. /\ sqlitePc \in [Sqlite!Ops -> {"idle", "selected", "executed", "done", "failed", "unknown",
                                      "ended"}]
      /\ sqliteTarget \in [Sqlite!Ops -> Sqlite!Ops]
  BY DEF SqliteInv, Sqlite!TypeOK
<1>2. /\ Sqlite!StatementFails /\ asked' = "failed"
      /\ UNCHANGED <<sqliteClient, sqlitePc, sqliteTarget, sqliteStamp, sqliteCrashes>>
  BY DEF Sqlite!SearchFails
<1>3. sqlitePc' = [p \in Sqlite!Ops |-> IF p \in {} THEN "failed" ELSE sqlitePc[p]]
  BY <1>1, <1>2
<1>4. {} \in SUBSET Sqlite!Ops /\ \A p \in Sqlite!Ops \ {} : sqliteTarget'[p] = sqliteTarget[p]
  BY <1>2
<1>5. sqliteTarget' \in [Sqlite!Ops -> Sqlite!Ops] /\ asked' \in {"none", "failed"}
  BY <1>1, <1>2
<1> QED
  BY <1>2, <1>3, <1>4, <1>5, SqliteFails

(* The operator that the backend's module takes from FiniteSets.           *)
LEMMA SameCardinality == \A S : Sqlite!Cardinality(S) = Cardinality(S)
BY DEF Sqlite!Cardinality, Cardinality

(* With a limit no smaller than the table every row is found.              *)
LEMMA SqliteSearches ==
    ASSUME SqliteInv, Sqlite!Search
    PROVE  SqliteInv'
<1>1. /\ asked' \in Sqlite!Queries
      /\ UNCHANGED <<sqliteClient, sqlitePc, sqliteTarget, sqliteStamp, view, disk, ran, spoiled,
                     sqliteCrashes>>
  BY DEF Sqlite!Search, Sqlite!table
<1>2. Sqlite!TypeOK' /\ SqliteSteps'
  BY <1>1 DEF SqliteInv, Sqlite!TypeOK, SqliteSteps
<1>3. Sqlite!SearchFindsReturned'
  <2> SUFFICES ASSUME sqliteClient' = "sqlite", asked' \in {"words", "symbols"},
                      SqliteLimit >= Sqlite!Cardinality(Writes["sqlite"]),
                      NEW o \in Sqlite!Ops \ spoiled', sqlitePc'[o] = "done"
               PROVE  \E r \in hits' : r[1] = sqliteTarget'[o] /\ r[2] >= sqliteStamp'[o]
    BY DEF Sqlite!SearchFindsReturned, Sqlite!Ops
  <2>0. /\ sqliteClient = "sqlite" /\ asked' # "empty" /\ o \notin spoiled /\ sqlitePc[o] = "done"
        /\ sqliteTarget' = sqliteTarget /\ sqliteStamp' = sqliteStamp
    BY <1>1
  <2> DEFINE there == {id \in Writes["sqlite"] : view[id] # 0}
  <2>1. PICK ids \in SUBSET there :
           /\ Cardinality(ids) = Sqlite!Smaller(SqliteLimit, Cardinality(there))
           /\ hits' = {<<id, view[id]>> : id \in ids}
    BY <2>0, SameCardinality DEF Sqlite!Search, Sqlite!Present
  <2>2. /\ IsFiniteSet(Writes["sqlite"]) /\ IsFiniteSet(there)
        /\ Cardinality(there) <= Cardinality(Writes["sqlite"])
        /\ Cardinality(there) \in Nat /\ Cardinality(Writes["sqlite"]) \in Nat
    <3>1. IsFiniteSet(Writes["sqlite"])
      BY Bounds DEF Backends
    <3>2. there \in SUBSET Writes["sqlite"]
      OBVIOUS
    <3>3. IsFiniteSet(there) /\ Cardinality(there) <= Cardinality(Writes["sqlite"])
      BY <3>1, <3>2, FS_Subset
    <3> QED
      BY <3>1, <3>3, FS_CardinalityType
  <2>3. Cardinality(ids) = Cardinality(there)
    <3>1. SqliteLimit >= Cardinality(Writes["sqlite"])
      BY SameCardinality
    <3> QED
      BY <2>1, <2>2, <3>1, Bounds DEF Sqlite!Smaller
  <2>4. ids = there
    BY <2>2, <2>3, FS_Subset
  <2>5. /\ sqliteTarget[o] \in Writes["sqlite"] /\ view[sqliteTarget[o]] \in Nat
        /\ view[sqliteTarget[o]] >= sqliteStamp[o] /\ sqliteStamp[o] >= 1 /\ sqliteStamp[o] \in Nat
    <3>1. sqliteTarget[o] \in Writes["sqlite"] /\ sqliteStamp[o] >= 1
          /\ disk[sqliteTarget[o]] >= sqliteStamp[o]
      BY <2>0 DEF SqliteInv, SqliteSteps
    <3>2. /\ view[sqliteTarget[o]] \in Nat /\ disk[sqliteTarget[o]] \in Nat /\ sqliteStamp[o] \in Nat
          /\ view[sqliteTarget[o]] >= disk[sqliteTarget[o]]
      BY <3>1 DEF SqliteInv, Sqlite!TypeOK
    <3> QED
      BY <3>1, <3>2
  <2>6. sqliteTarget[o] \in there
    BY <2>5
  <2>7. <<sqliteTarget[o], view[sqliteTarget[o]]>> \in hits'
    BY <2>1, <2>4, <2>6
  <2>8. \E r \in hits' : r[1] = sqliteTarget[o] /\ r[2] >= sqliteStamp[o]
    BY <2>5, <2>7
  <2> QED
    BY <2>0, <2>8
<1> QED
  BY <1>1, <1>2, <1>3 DEF SqliteInv

(* The process ends, or a client is made: what is on disk stays.           *)
LEMMA SqliteCrashes ==
    ASSUME SqliteInv, Sqlite!Crash \/ Sqlite!Create
    PROVE  SqliteInv'
<1>1. /\ asked' = "none" /\ hits' = {} /\ UNCHANGED <<sqliteTarget, sqliteStamp, disk, ran, spoiled>>
      /\ sqliteClient' \in {"none", "sqlite", "null"}
  BY DEF Sqlite!Crash, Sqlite!Create, Sqlite!NoSearch, Sqlite!table
<1>2. \/ UNCHANGED <<view, sqlitePc>>
      \/ view' = disk /\ sqlitePc' = [o \in Sqlite!Ops |-> IF o \in Sqlite!UnderWay THEN "ended"
                                                           ELSE sqlitePc[o]]
  BY DEF Sqlite!Crash, Sqlite!Create, Sqlite!table
<1>3. sqliteCrashes' \in 0..MaxCrashes
  BY Bounds DEF SqliteInv, Sqlite!TypeOK, Sqlite!Crash, Sqlite!Create
<1>4. Sqlite!TypeOK /\ ran \in Nat
  BY DEF SqliteInv
<1>5. Sqlite!TypeOK'
  <2>1. sqlitePc' \in [Sqlite!Ops -> {"idle", "selected", "executed", "done", "failed", "unknown", "ended"}]
    BY <1>2, <1>4 DEF Sqlite!TypeOK
  <2> QED
    BY <1>1, <1>2, <1>3, <1>4, <2>1 DEF Sqlite!TypeOK
<1>6. \A id \in Writes["sqlite"] : disk[id] \in Nat /\ view'[id] >= disk[id]
  BY <1>2, <1>4 DEF SqliteInv, Sqlite!TypeOK
<1>7. SqliteSteps'
  <2> SUFFICES ASSUME NEW p \in Sqlite!Ops
      PROVE  /\ sqlitePc'[p] = "idle" => sqliteTarget'[p] = p
             /\ sqlitePc'[p] \in {"selected", "executed", "done"} =>
                   sqliteTarget'[p] \in Writes["sqlite"]
             /\ sqlitePc'[p] = "selected" /\ p \notin spoiled' => view'[sqliteTarget'[p]] >= 1
             /\ sqlitePc'[p] \in {"executed", "done"} => sqliteStamp'[p] >= 1
             /\ sqlitePc'[p] = "executed" /\ p \notin spoiled' =>
                   view'[sqliteTarget'[p]] >= sqliteStamp'[p]
             /\ sqlitePc'[p] = "done" /\ p \notin spoiled' =>
                   disk'[sqliteTarget'[p]] >= sqliteStamp'[p]
    BY DEF SqliteSteps, Sqlite!Ops
  <2>1. CASE UNCHANGED <<view, sqlitePc>>
    BY <1>1, <2>1 DEF SqliteInv, SqliteSteps
  <2>2. CASE sqlitePc' = [q \in Sqlite!Ops |-> IF q \in Sqlite!UnderWay THEN "ended"
                                               ELSE sqlitePc[q]]
    <3>1. sqlitePc'[p] = IF sqlitePc[p] \in {"selected", "executed"} THEN "ended" ELSE sqlitePc[p]
      BY <2>2 DEF Sqlite!UnderWay
    <3> QED
      BY <1>1, <3>1 DEF SqliteInv, SqliteSteps
  <2> QED
    BY <1>2, <2>1, <2>2
<1>8. Sqlite!SearchFindsReturned'
  BY <1>1 DEF Sqlite!SearchFindsReturned
<1> QED
  BY <1>1, <1>4, <1>5, <1>6, <1>7, <1>8 DEF SqliteInv

LEMMA SqliteStep == ASSUME SqliteInv, Sqlite!Next PROVE SqliteInv'
<1>1. Sqlite!TypeOK
  BY DEF SqliteInv
<1>2. ASSUME NEW o \in Sqlite!Ops, Sqlite!Ignore(o) PROVE SqliteInv'
  <2>1. sqliteTarget' = [sqliteTarget EXCEPT ![o] = sqliteTarget[o]] /\ sqliteTarget[o] \in Sqlite!Ops
    BY <1>1, <1>2 DEF Sqlite!Ignore, Sqlite!TypeOK
  <2> QED
    BY <1>2, <2>1, SqliteMoves DEF Sqlite!Ignore, Sqlite!table
<1>3. ASSUME NEW o \in Sqlite!Ops, Sqlite!Insert(o) PROVE SqliteInv'
  <2>1. /\ sqliteTarget' = [sqliteTarget EXCEPT ![o] = sqliteTarget[o]] /\ sqliteTarget[o] \in Sqlite!Ops
        /\ o \in Writes["sqlite"] /\ sqlitePc[o] = "idle" /\ Sqlite!NoSearch
        /\ UNCHANGED <<sqliteClient, sqliteTarget, sqliteCrashes>>
    BY <1>1, <1>3 DEF Sqlite!Insert, Sqlite!TypeOK
  <2>2. sqliteTarget[o] \in Writes["sqlite"]
    BY <2>1 DEF SqliteInv, SqliteSteps
  <2>3. CASE sqlitePc' = [sqlitePc EXCEPT ![o] = "executed"] /\ Sqlite!Executes(o, TRUE)
    BY <2>1, <2>2, <2>3, SqliteExecutes
  <2>4. CASE Sqlite!Fails(o)
    BY <2>1, <2>4, SqliteOperationFails
  <2> QED
    BY <1>3, <2>3, <2>4 DEF Sqlite!Insert
<1>4. ASSUME NEW o \in Sqlite!Ops, Sqlite!Select(o) PROVE SqliteInv'
  <2>1. PICK id \in Writes["sqlite"] :
          /\ sqliteTarget' = [sqliteTarget EXCEPT ![o] = id]
          /\ \/ /\ sqlitePc' = [sqlitePc EXCEPT ![o] = IF view[id] # 0 THEN "selected"
                                                     ELSE "unknown"]
                /\ UNCHANGED <<sqliteStamp, view, disk, ran, spoiled>>
             \/ Sqlite!Fails(o)
    BY <1>4 DEF Sqlite!Select, Sqlite!Present, Sqlite!table
  <2>2. /\ sqliteCrashes' = sqliteCrashes /\ sqliteClient' = sqliteClient /\ Sqlite!NoSearch
        /\ id \in Sqlite!Ops
    BY <1>4 DEF Sqlite!Select, Sqlite!Ops
  <2>3. CASE Sqlite!Fails(o)
    BY <2>1, <2>2, <2>3, SqliteOperationFails
  <2>4. CASE ~ Sqlite!Fails(o)
    BY <2>1, <2>2, <2>4, SqliteMoves
  <2> QED
    BY <2>3, <2>4
<1>5. ASSUME NEW o \in Sqlite!Ops, Sqlite!Update(o) PROVE SqliteInv'
  <2>1. /\ sqliteTarget' = [sqliteTarget EXCEPT ![o] = sqliteTarget[o]] /\ sqliteTarget[o] \in Sqlite!Ops
        /\ sqlitePc[o] = "selected" /\ Sqlite!NoSearch
        /\ UNCHANGED <<sqliteClient, sqliteTarget, sqliteCrashes>>
    BY <1>1, <1>5 DEF Sqlite!Update, Sqlite!TypeOK
  <2>2. /\ sqliteTarget[o] \in Writes["sqlite"]
        /\ o \notin spoiled => view[sqliteTarget[o]] >= 1
    BY <2>1 DEF SqliteInv, SqliteSteps
  <2>3. /\ o \notin spoiled => Sqlite!Present(sqliteTarget[o])
        /\ Sqlite!Present(sqliteTarget[o]) \in BOOLEAN
    BY <2>2 DEF Sqlite!Present
  <2>4. CASE /\ sqlitePc' = [sqlitePc EXCEPT ![o] = "executed"]
             /\ Sqlite!Executes(o, Sqlite!Present(sqliteTarget[o]))
    BY <2>1, <2>2, <2>3, <2>4, SqliteExecutes
  <2>5. CASE Sqlite!Fails(o)
    BY <2>1, <2>5, SqliteOperationFails
  <2> QED
    BY <1>5, <2>4, <2>5 DEF Sqlite!Update
<1>6. ASSUME NEW o \in Sqlite!Ops, Sqlite!FailToCommit(o) PROVE SqliteInv'
  <2>1. sqliteTarget' = [sqliteTarget EXCEPT ![o] = sqliteTarget[o]] /\ sqliteTarget[o] \in Sqlite!Ops
    BY <1>1, <1>6 DEF Sqlite!FailToCommit, Sqlite!TypeOK
  <2> QED
    BY <1>6, <2>1, SqliteOperationFails DEF Sqlite!FailToCommit
<1> QED
  BY <1>2, <1>3, <1>4, <1>5, <1>6, SqliteCommits, SqliteSearches, SqliteSearchFails, SqliteCrashes
     DEF Sqlite!Next

LEMMA SqliteStays == ASSUME SqliteInv, UNCHANGED sqliteVars PROVE SqliteInv'
<1>1. UNCHANGED <<sqliteClient, sqlitePc, sqliteTarget, sqliteStamp, view, disk, ran, spoiled,
                  asked, hits, sqliteCrashes>>
  BY DEF sqliteVars
<1> QED
  BY <1>1 DEF SqliteInv, SqliteSteps, Sqlite!TypeOK, Sqlite!SearchFindsReturned

(* What write() or update() of the SQLite backend returned is on disk, in  *)
(* that text or a later one, and every search with words that does not     *)
(* fail finds it; however many operations share the connection, whoever's  *)
(* commit it was, whichever statements failed, and after any number of     *)
(* crashes.  Only an operation that was under way when SQLite rolled the   *)
(* shared transaction back, for another's failure, is excepted.            *)
THEOREM SqliteAlwaysSound == Spec => []SqliteSound
<1>1. Init => SqliteInv
  BY SqliteInit DEF Init
<1>2. SqliteInv /\ [Next]_vars => SqliteInv'
  <2> SUFFICES ASSUME SqliteInv, [Next]_vars PROVE SqliteInv'
    OBVIOUS
  <2>1. Sqlite!Next \/ UNCHANGED sqliteVars
    BY DEF Next, vars
  <2> QED
    BY <2>1, SqliteStep, SqliteStays
<1>3. SqliteInv => SqliteSound
  BY DEF SqliteInv, SqliteSound, SqliteSteps, Sqlite!ReturnedIsDurable
<1> QED
  BY <1>1, <1>2, <1>3, PTL DEF Spec

-----------------------------------------------------------------------------
(* pgvector.  An operation has a stamp when its statement was carried out, *)
(* and only then; the row it is about exists from then on, with its text   *)
(* or a later one.  A write's row does not exist before its statement.     *)
PgSteps ==
    \A o \in PgVector!Ops :
        /\ pgPc[o] = "idle" => pgTarget[o] = o
        /\ pgPc[o] \in {"idle", "execute", "unknown"} => pgStamp[o] = 0
        /\ pgPc[o] = "execute" => pgTarget[o] \in Writes["pgvector"]
        /\ pgPc[o] = "execute" /\ o \in Writes["pgvector"] => pgTarget[o] = o
        /\ pgPc[o] = "done" => pgStamp[o] # 0
        /\ pgStamp[o] # 0 => /\ pgTarget[o] \in Writes["pgvector"]
                             /\ rows[pgTarget[o]].content >= pgStamp[o]

PgInv ==
    /\ PgVector!TypeOK /\ pgRan \in Nat
    /\ PgSteps
    /\ \A o \in Writes["pgvector"] : pgPc[o] \in {"idle", "execute"} => rows[o] = PgVector!NoRow
    /\ PgVector!EmbeddingFollowsContent
    /\ PgVector!ReturnedIsFound

(* The parts of EmbeddingFollowsContent, for one row.                      *)
PgNotAhead(w) == rows[w].embedding <= rows[w].content
PgBehindIfFailed(w) ==
    rows[w].embedding # rows[w].content =>
        \E p \in PgVector!Ops : /\ pgTarget[p] = w /\ pgStamp[p] # 0
                               /\ pgStamp[p] = rows[w].content /\ p \notin embedded
PgKept(w) ==
    \A p \in PgVector!Ops : pgTarget[p] = w /\ pgStamp[p] # 0 /\ p \in embedded =>
        rows[w].embedding >= pgStamp[p]

LEMMA PgEmbedding ==
    PgVector!EmbeddingFollowsContent <=>
        \A w \in Writes["pgvector"] : PgNotAhead(w) /\ PgBehindIfFailed(w) /\ PgKept(w)
<1>1. ASSUME NEW w \in Writes["pgvector"]
      PROVE  LET stored == {p \in PgVector!Ops : pgTarget[p] = w /\ pgStamp[p] # 0}
             IN  /\ PgBehindIfFailed(w) <=>
                       (rows[w].embedding # rows[w].content =>
                            \E p \in stored : pgStamp[p] = rows[w].content /\ p \notin embedded)
                 /\ PgKept(w) <=>
                       (\A p \in stored : p \in embedded => rows[w].embedding >= pgStamp[p])
  BY DEF PgBehindIfFailed, PgKept
<1> QED
  BY <1>1 DEF PgVector!EmbeddingFollowsContent, PgNotAhead

LEMMA PgEmbeddingNext ==
    (\A w \in Writes["pgvector"] : (PgNotAhead(w) /\ PgBehindIfFailed(w) /\ PgKept(w))')
        => PgVector!EmbeddingFollowsContent'
<1>1. ASSUME NEW w \in Writes["pgvector"], PgBehindIfFailed(w)', PgKept(w)'
      PROVE  LET stored == {p \in PgVector!Ops : pgTarget'[p] = w /\ pgStamp'[p] # 0}
             IN  /\ rows'[w].embedding # rows'[w].content =>
                       \E p \in stored : pgStamp'[p] = rows'[w].content /\ p \notin embedded'
                 /\ \A p \in stored : p \in embedded' => rows'[w].embedding >= pgStamp'[p]
  BY <1>1 DEF PgBehindIfFailed, PgKept, PgVector!Ops
<1> QED
  BY <1>1 DEF PgVector!EmbeddingFollowsContent, PgNotAhead, PgVector!Ops

LEMMA PgDisjoint == Writes["pgvector"] \cap Updates["pgvector"] = {}
BY ServiceAssumption DEF Backends

LEMMA PgCardinality == \A S : PgVector!Cardinality(S) = Cardinality(S)
BY DEF PgVector!Cardinality, Cardinality

LEMMA PgInit == PgVector!Init => PgInv
<1> SUFFICES ASSUME PgVector!Init PROVE PgInv
  OBVIOUS
<1>1. PgVector!TypeOK
  <2>1. pgFound \subseteq PgVector!Present /\ PgVector!Cardinality(pgFound) <= PgLimit
    BY PgCardinality, FS_EmptySet, Bounds DEF PgVector!Init
  <2>2. rows \in [Writes["pgvector"] -> [content : 0..pgRan, embedding : 0..pgRan]]
    BY DEF PgVector!Init, PgVector!NoRow
  <2>3. pgStamp \in [PgVector!Ops -> 0..pgRan]
    BY DEF PgVector!Init
  <2> QED
    BY <2>1, <2>2, <2>3 DEF PgVector!Init, PgVector!TypeOK
<1>2. PgSteps /\ pgRan \in Nat
  BY DEF PgVector!Init, PgSteps
<1>3. PgVector!EmbeddingFollowsContent /\ PgVector!ReturnedIsFound
  BY DEF PgVector!Init, PgVector!EmbeddingFollowsContent, PgVector!ReturnedIsFound,
     PgVector!NoRow
<1> QED
  BY <1>1, <1>2, <1>3 DEF PgInv, PgVector!Init

(* After a step that is no search the last search is no longer looked at.  *)
LEMMA PgNoSearch ==
    ASSUME PgVector!NoSearch
    PROVE  pgFound' = {} /\ PgVector!Cardinality(pgFound') <= PgLimit /\ how' = "none"
BY PgCardinality, FS_EmptySet, Bounds DEF PgVector!NoSearch

(* The statement of operation o is carried out, answered or not.           *)
LEMMA PgApplies ==
    ASSUME PgInv, NEW o \in PgVector!Ops, NEW old, NEW new, pgPc[o] = "execute",
           \/ o \in Writes["pgvector"] /\ old = 0
           \/ /\ o \in Updates["pgvector"] /\ old = rows[pgTarget[o]].embedding
              /\ rows[pgTarget[o]].content # 0,
           new = IF o \in embedded THEN pgRan + 1 ELSE old,
           PgVector!Applies(o, [content |-> pgRan + 1, embedding |-> new]),
           pgPc' \in {[pgPc EXCEPT ![o] = answer] : answer \in PgVector!Answers},
           UNCHANGED <<pgClient, index, pgTarget, embedded>>, PgVector!NoSearch
    PROVE  PgInv'
<1> DEFINE id == pgTarget[o]
           row == [content |-> pgRan + 1, embedding |-> new]
<1>1. /\ pgRan' = pgRan + 1 /\ pgStamp' = [pgStamp EXCEPT ![o] = pgRan + 1]
      /\ rows' = [rows EXCEPT ![id] = row]
      /\ pgFound' = {} /\ PgVector!Cardinality(pgFound') <= PgLimit /\ how' = "none"
  BY PgNoSearch DEF PgVector!Applies
<1>2. PgVector!TypeOK /\ pgRan \in Nat /\ id \in Writes["pgvector"]
  BY DEF PgInv, PgSteps
<1>3. PICK answer \in {"done", "failed"} : pgPc' = [pgPc EXCEPT ![o] = answer]
  BY DEF PgVector!Answers
<1>4. \A n \in 0..pgRan : n \in 0..(pgRan + 1) /\ n < pgRan + 1
  BY <1>2
<1>5. old \in 0..pgRan /\ old <= rows[id].content /\ rows[id].content \in 0..pgRan
      /\ row \in [content : 0..(pgRan + 1), embedding : 0..(pgRan + 1)]
  <2>1. rows[id] \in [content : 0..pgRan, embedding : 0..pgRan]
    BY <1>2 DEF PgVector!TypeOK
  <2>2. old \in 0..pgRan
    BY <1>2, <2>1
  <2>3. rows[id].embedding <= rows[id].content
    BY <1>2 DEF PgInv, PgVector!EmbeddingFollowsContent
  <2>4. new \in 0..(pgRan + 1)
    BY <1>2, <2>2
  <2> QED
    BY <1>2, <2>1, <2>2, <2>3, <2>4
<1>6. PgVector!TypeOK'
  <2>1. pgStamp' \in [PgVector!Ops -> 0..(pgRan + 1)]
    BY <1>1, <1>2, <1>4 DEF PgVector!TypeOK
  <2>2. rows' \in [Writes["pgvector"] -> [content : 0..(pgRan + 1), embedding : 0..(pgRan + 1)]]
    <3>1. ASSUME NEW w \in Writes["pgvector"]
          PROVE  rows'[w] \in [content : 0..(pgRan + 1), embedding : 0..(pgRan + 1)]
      <4>1. rows[w] \in [content : 0..pgRan, embedding : 0..pgRan]
        BY <1>2 DEF PgVector!TypeOK
      <4>2. rows[w] \in [content : 0..(pgRan + 1), embedding : 0..(pgRan + 1)]
        BY <1>4, <4>1
      <4> QED
        BY <1>1, <1>2, <1>5, <4>2 DEF PgVector!TypeOK
    <3> QED
      BY <1>1, <1>2, <3>1 DEF PgVector!TypeOK
  <2>3. pgPc' \in [PgVector!Ops -> {"idle", "execute", "done", "failed", "unknown"}]
    BY <1>2, <1>3 DEF PgVector!TypeOK
  <2> QED
    BY <1>1, <1>2, <2>1, <2>2, <2>3 DEF PgVector!TypeOK
<1>7. \A w \in Writes["pgvector"] :
         /\ rows'[w] = (IF w = id THEN row ELSE rows[w])
         /\ rows[w].content \in 0..pgRan /\ rows[w].embedding \in 0..pgRan
  BY <1>1, <1>2 DEF PgVector!TypeOK
<1>8. \A p \in PgVector!Ops :
         /\ pgStamp'[p] = (IF p = o THEN pgRan + 1 ELSE pgStamp[p])
         /\ pgPc'[p] = (IF p = o THEN answer ELSE pgPc[p])
         /\ pgStamp[p] \in 0..pgRan
  BY <1>1, <1>2, <1>3 DEF PgVector!TypeOK
<1>9. PgSteps'
  <2> SUFFICES ASSUME NEW p \in PgVector!Ops
      PROVE  /\ pgPc'[p] = "idle" => pgTarget'[p] = p
             /\ pgPc'[p] \in {"idle", "execute", "unknown"} => pgStamp'[p] = 0
             /\ pgPc'[p] = "execute" => pgTarget'[p] \in Writes["pgvector"]
             /\ pgPc'[p] = "execute" /\ p \in Writes["pgvector"] => pgTarget'[p] = p
             /\ pgPc'[p] = "done" => pgStamp'[p] # 0
             /\ pgStamp'[p] # 0 => /\ pgTarget'[p] \in Writes["pgvector"]
                                   /\ rows'[pgTarget'[p]].content >= pgStamp'[p]
    BY DEF PgSteps, PgVector!Ops
  <2>1. CASE p = o
    BY <1>2, <1>3, <1>7, <1>8, <2>1
  <2>2. CASE p # o
    <3>1. pgStamp'[p] = pgStamp[p] /\ pgPc'[p] = pgPc[p] /\ pgTarget'[p] = pgTarget[p]
      BY <1>8, <2>2
    <3>2. /\ pgPc[p] = "idle" => pgTarget[p] = p
          /\ pgPc[p] \in {"idle", "execute", "unknown"} => pgStamp[p] = 0
          /\ pgPc[p] = "execute" => pgTarget[p] \in Writes["pgvector"]
          /\ pgPc[p] = "execute" /\ p \in Writes["pgvector"] => pgTarget[p] = p
          /\ pgPc[p] = "done" => pgStamp[p] # 0
          /\ pgStamp[p] # 0 => /\ pgTarget[p] \in Writes["pgvector"]
                               /\ rows[pgTarget[p]].content >= pgStamp[p]
      BY DEF PgInv, PgSteps
    <3>3. pgStamp[p] # 0 => rows'[pgTarget[p]].content >= pgStamp[p]
      BY <1>2, <1>7, <1>8, <3>2
    <3> QED
      BY <3>1, <3>2, <3>3
  <2> QED
    BY <2>1, <2>2
<1>10. \A w \in Writes["pgvector"] : pgPc'[w] \in {"idle", "execute"} => rows'[w] = PgVector!NoRow
  <2> SUFFICES ASSUME NEW w \in Writes["pgvector"], pgPc'[w] \in {"idle", "execute"}
               PROVE  rows'[w] = PgVector!NoRow
    OBVIOUS
  <2>1. w # o /\ pgPc[w] \in {"idle", "execute"} /\ rows[w] = PgVector!NoRow
    BY <1>3, <1>8 DEF PgInv, PgVector!Ops
  <2>2. w # id
    <3>1. CASE o \in Writes["pgvector"]
      BY <2>1, <3>1 DEF PgInv, PgSteps
    <3>2. CASE rows[id].content # 0
      BY <2>1, <3>2 DEF PgVector!NoRow
    <3> QED
      BY <3>1, <3>2 DEF PgVector!Ops
  <2> QED
    BY <1>7, <2>1, <2>2
<1>11. PgVector!EmbeddingFollowsContent'
  <2> SUFFICES ASSUME NEW w \in Writes["pgvector"]
               PROVE  (PgNotAhead(w) /\ PgBehindIfFailed(w) /\ PgKept(w))'
    BY PgEmbeddingNext
  <2>1. PgNotAhead(w) /\ PgBehindIfFailed(w) /\ PgKept(w)
    BY PgEmbedding DEF PgInv
  <2>2. CASE w # id
    <3>1. rows'[w] = rows[w] /\ \A p \in PgVector!Ops : pgTarget[p] = w => pgStamp'[p] = pgStamp[p]
      BY <1>7, <1>8, <2>2
    <3>2. PgNotAhead(w)'
      BY <2>1, <3>1 DEF PgNotAhead
    <3>3. PgBehindIfFailed(w)'
      BY <2>1, <3>1 DEF PgBehindIfFailed, PgVector!Ops
    <3>4. PgKept(w)'
      BY <2>1, <3>1 DEF PgKept, PgVector!Ops
    <3> QED
      BY <3>2, <3>3, <3>4
  <2>3. CASE w = id
    <3>1. rows'[w].embedding = new /\ rows'[w].content = pgRan + 1
      BY <1>7, <2>3
    <3>2. new <= pgRan + 1
      BY <1>2, <1>5
    <3>3. ASSUME NEW p \in PgVector!Ops, pgTarget[p] = w, pgStamp'[p] # 0, p \in embedded
          PROVE  new >= pgStamp'[p]
      <4>1. CASE o \in embedded
        BY <1>2, <1>8, <4>1
      <4>2. CASE o \notin embedded /\ old = 0 /\ o \in Writes["pgvector"]
        <5>1. p # o /\ pgStamp'[p] = pgStamp[p]
          BY <1>8, <3>3, <4>2
        <5>2. rows[w].content >= pgStamp[p] /\ pgStamp[p] # 0 /\ pgStamp[p] \in Nat
          BY <1>8, <3>3, <5>1 DEF PgInv, PgSteps
        <5>3. w = o /\ rows[o] = PgVector!NoRow
          BY <2>3, <4>2 DEF PgInv, PgSteps
        <5> QED
          BY <5>2, <5>3 DEF PgVector!NoRow
      <4>3. CASE o \notin embedded /\ old = rows[id].embedding
        <5>1. p # o /\ pgStamp'[p] = pgStamp[p]
          BY <1>8, <3>3, <4>3
        <5> QED
          BY <2>1, <2>3, <3>3, <4>3, <5>1 DEF PgKept
      <4> QED
        BY <4>1, <4>2, <4>3
    <3>4. PgNotAhead(w)'
      BY <3>1, <3>2 DEF PgNotAhead
    <3>5. PgBehindIfFailed(w)'
      <4>1. CASE o \in embedded
        BY <3>1, <4>1 DEF PgBehindIfFailed
      <4>2. CASE o \notin embedded
        <5>1. pgTarget'[o] = w /\ pgStamp'[o] = pgRan + 1 /\ pgRan + 1 # 0 /\ o \notin embedded'
          BY <1>2, <1>8, <2>3, <4>2
        <5> QED
          BY <3>1, <5>1 DEF PgBehindIfFailed, PgVector!Ops
      <4> QED
        BY <4>1, <4>2
    <3>6. PgKept(w)'
      BY <3>1, <3>3 DEF PgKept, PgVector!Ops
    <3> QED
      BY <3>4, <3>5, <3>6
  <2> QED
    BY <2>2, <2>3
<1>12. PgVector!ReturnedIsFound'
  BY <1>1, <1>8, <1>9 DEF PgVector!ReturnedIsFound, PgSteps
<1> QED
  BY <1>1, <1>2, <1>6, <1>9, <1>10, <1>11, <1>12 DEF PgInv

(* A step of operation o that carries out no statement.                    *)
LEMMA PgMoves ==
    ASSUME PgInv, NEW o \in PgVector!Ops, NEW to \in {"execute", "failed", "unknown"},
           NEW id \in PgVector!Ops, pgPc[o] \in {"idle", "execute"},
           pgPc' = [pgPc EXCEPT ![o] = to], pgTarget' = [pgTarget EXCEPT ![o] = id],
           to = "execute" => /\ pgPc[o] = "idle" /\ id \in Writes["pgvector"]
                             /\ o \in Writes["pgvector"] => id = o,
           embedded' \in {embedded, embedded \cup {o}},
           UNCHANGED <<pgClient, index, pgStamp, rows, pgRan>>, PgVector!NoSearch
    PROVE  PgInv'
<1>1. pgFound' = {} /\ PgVector!Cardinality(pgFound') <= PgLimit /\ how' = "none"
  BY PgNoSearch
<1>2. PgVector!TypeOK /\ pgRan \in Nat /\ pgStamp[o] = 0
  BY DEF PgInv, PgSteps
<1>3. \A p \in PgVector!Ops :
         /\ pgPc'[p] = (IF p = o THEN to ELSE pgPc[p])
         /\ pgTarget'[p] = (IF p = o THEN id ELSE pgTarget[p])
  BY <1>2 DEF PgVector!TypeOK
<1>4. PgVector!TypeOK'
  <2>1. /\ pgPc' \in [PgVector!Ops -> {"idle", "execute", "done", "failed", "unknown"}]
        /\ pgTarget' \in [PgVector!Ops -> PgVector!Ops]
    BY <1>2 DEF PgVector!TypeOK
  <2> QED
    BY <1>1, <1>2, <2>1 DEF PgVector!TypeOK
<1>5. PgSteps'
  <2> SUFFICES ASSUME NEW p \in PgVector!Ops
      PROVE  /\ pgPc'[p] = "idle" => pgTarget'[p] = p
             /\ pgPc'[p] \in {"idle", "execute", "unknown"} => pgStamp'[p] = 0
             /\ pgPc'[p] = "execute" => pgTarget'[p] \in Writes["pgvector"]
             /\ pgPc'[p] = "execute" /\ p \in Writes["pgvector"] => pgTarget'[p] = p
             /\ pgPc'[p] = "done" => pgStamp'[p] # 0
             /\ pgStamp'[p] # 0 => /\ pgTarget'[p] \in Writes["pgvector"]
                                   /\ rows'[pgTarget'[p]].content >= pgStamp'[p]
    BY DEF PgSteps, PgVector!Ops
  <2> QED
    BY <1>2, <1>3 DEF PgInv, PgSteps
<1>6. \A w \in Writes["pgvector"] : pgPc'[w] \in {"idle", "execute"} => rows'[w] = PgVector!NoRow
  BY <1>3 DEF PgInv, PgVector!Ops
<1>7. PgVector!EmbeddingFollowsContent'
  <2> SUFFICES ASSUME NEW w \in Writes["pgvector"]
               PROVE  (PgNotAhead(w) /\ PgBehindIfFailed(w) /\ PgKept(w))'
    BY PgEmbeddingNext
  <2>1. PgNotAhead(w) /\ PgBehindIfFailed(w) /\ PgKept(w)
    BY PgEmbedding DEF PgInv
  <2>2. \A p \in PgVector!Ops : pgStamp[p] # 0 =>
           pgTarget'[p] = pgTarget[p] /\ (p \in embedded' <=> p \in embedded)
    BY <1>2, <1>3
  <2>3. PgNotAhead(w)'
    BY <2>1 DEF PgNotAhead
  <2>4. PgBehindIfFailed(w)'
    BY <2>1, <2>2 DEF PgBehindIfFailed, PgVector!Ops
  <2>5. PgKept(w)'
    BY <2>1, <2>2 DEF PgKept, PgVector!Ops
  <2> QED
    BY <2>3, <2>4, <2>5
<1>8. PgVector!ReturnedIsFound'
  <2>1. \A p \in PgVector!Ops : pgPc'[p] = "done" =>
           rows'[pgTarget'[p]].content >= pgStamp'[p]
    BY <1>2, <1>3 DEF PgInv, PgVector!ReturnedIsFound
  <2> QED
    BY <1>1, <2>1 DEF PgVector!ReturnedIsFound, PgVector!Ops
<1> QED
  BY <1>1, <1>2, <1>4, <1>5, <1>6, <1>7, <1>8 DEF PgInv

LEMMA PgCreates ==
    ASSUME PgInv, PgVector!Create
    PROVE  PgInv'
<1>1. /\ pgFound' = {} /\ PgVector!Cardinality(pgFound') <= PgLimit /\ how' = "none"
      /\ UNCHANGED <<pgPc, pgTarget, pgStamp, embedded, rows, pgRan>>
      /\ pgClient' \in {"ready", "null"} /\ index' \in BOOLEAN
  BY PgNoSearch DEF PgVector!Create, PgVector!table
<1>2. PgVector!TypeOK'
  BY <1>1 DEF PgInv, PgVector!TypeOK
<1>3. PgVector!ReturnedIsFound' /\ PgVector!EmbeddingFollowsContent'
  BY <1>1 DEF PgInv, PgVector!ReturnedIsFound, PgVector!EmbeddingFollowsContent
<1> QED
  BY <1>1, <1>2, <1>3 DEF PgInv, PgSteps

(* A search whose answer comes in the order of the distances, or from the  *)
(* texts, leaves a row out only for the limit.                             *)
LEMMA PgSearches ==
    ASSUME PgInv, PgVector!VectorSearch \/ PgVector!TextSearch \/ PgVector!SearchNothing
    PROVE  PgInv'
<1>1. UNCHANGED <<pgClient, index, pgPc, pgTarget, pgStamp, embedded, rows, pgRan>>
  BY DEF PgVector!VectorSearch, PgVector!TextSearch, PgVector!SearchNothing, PgVector!table
<1>2. /\ pgFound' \subseteq PgVector!Present
      /\ PgVector!Cardinality(pgFound') <= PgLimit
      /\ how' = "text" \/ (how' = "vector" /\ ~ index) =>
            pgFound' = PgVector!Present \/ PgVector!Cardinality(pgFound') = PgLimit
  <2>1. CASE PgVector!VectorSearch
    BY <2>1 DEF PgVector!VectorSearch, PgVector!Cut
  <2>2. CASE PgVector!TextSearch
    BY <2>2 DEF PgVector!TextSearch, PgVector!Cut
  <2>3. CASE PgVector!SearchNothing
    BY <2>3, PgCardinality, FS_EmptySet, Bounds DEF PgVector!SearchNothing
  <2> QED
    BY <2>1, <2>2, <2>3
<1>3. PgVector!Present' = PgVector!Present
  BY <1>1 DEF PgVector!Present
<1>4. PgVector!TypeOK'
  BY <1>1, <1>2, <1>3 DEF PgInv, PgVector!TypeOK
<1>5. PgSteps' /\ PgVector!EmbeddingFollowsContent'
  BY <1>1 DEF PgInv, PgSteps, PgVector!EmbeddingFollowsContent
<1>6. PgVector!ReturnedIsFound'
  <2> SUFFICES ASSUME NEW o \in PgVector!Ops, pgPc[o] = "done"
      PROVE  /\ rows[pgTarget[o]].content >= pgStamp[o]
             /\ how' = "text" \/ (how' = "vector" /\ ~ index) =>
                   pgTarget[o] \in pgFound' \/ PgVector!Cardinality(pgFound') = PgLimit
    BY <1>1 DEF PgVector!ReturnedIsFound, PgVector!Ops
  <2>1. /\ pgTarget[o] \in Writes["pgvector"] /\ rows[pgTarget[o]].content >= pgStamp[o]
        /\ pgStamp[o] # 0 /\ pgStamp[o] \in Nat
    BY DEF PgInv, PgSteps, PgVector!TypeOK
  <2>2. pgTarget[o] \in PgVector!Present
    BY <2>1 DEF PgVector!Present
  <2> QED
    BY <1>2, <2>1, <2>2
<1> QED
  BY <1>1, <1>4, <1>5, <1>6 DEF PgInv

LEMMA PgStep == ASSUME PgInv, PgVector!Next PROVE PgInv'
<1>1. PgVector!TypeOK
  BY DEF PgInv
<1>2. ASSUME NEW o \in PgVector!Ops
      PROVE  pgTarget[o] \in PgVector!Ops /\ pgTarget = [pgTarget EXCEPT ![o] = pgTarget[o]]
  BY <1>1 DEF PgVector!TypeOK
<1>3. ASSUME NEW o \in PgVector!Ops, NEW to \in {"failed", "unknown"},
             pgPc[o] \in {"idle", "execute"}, pgPc' = [pgPc EXCEPT ![o] = to],
             UNCHANGED <<pgClient, index, pgTarget, embedded, pgStamp, rows, pgRan>>,
             PgVector!NoSearch
      PROVE  PgInv'
  BY <1>2, <1>3, PgMoves
<1>4. ASSUME NEW o \in PgVector!Ops, PgVector!Ignore(o) PROVE PgInv'
  BY <1>3, <1>4 DEF PgVector!Ignore, PgVector!table
<1>5. ASSUME NEW o \in PgVector!Ops, PgVector!Embed(o) PROVE PgInv'
  <2>1. PICK id \in Writes["pgvector"] :
          (o \in Writes["pgvector"] => id = o) /\ pgTarget' = [pgTarget EXCEPT ![o] = id]
    BY <1>5 DEF PgVector!Embed
  <2>2. /\ id \in PgVector!Ops /\ pgPc[o] = "idle" /\ pgPc' = [pgPc EXCEPT ![o] = "execute"]
        /\ embedded' \in {embedded, embedded \cup {o}}
        /\ UNCHANGED <<pgClient, index, pgStamp, rows, pgRan>> /\ PgVector!NoSearch
    BY <1>5 DEF PgVector!Embed, PgVector!table, PgVector!Ops
  <2> QED
    BY <2>1, <2>2, PgMoves
<1>6. ASSUME NEW o \in PgVector!Ops, PgVector!Insert(o) PROVE PgInv'
  <2> DEFINE new == IF o \in embedded THEN pgRan + 1 ELSE 0
  <2>1. /\ o \in Writes["pgvector"] /\ pgPc[o] = "execute"
        /\ UNCHANGED <<pgClient, index, pgTarget, embedded>> /\ PgVector!NoSearch
    BY <1>6 DEF PgVector!Insert
  <2>2. CASE /\ PgVector!Applies(o, [content |-> pgRan + 1, embedding |-> new])
             /\ pgPc' \in {[pgPc EXCEPT ![o] = answer] : answer \in PgVector!Answers}
    BY <2>1, <2>2, PgApplies
  <2>3. CASE pgPc' = [pgPc EXCEPT ![o] = "failed"] /\ UNCHANGED <<pgStamp, rows, pgRan>>
    BY <1>3, <2>1, <2>3
  <2> QED
    BY <1>6, <2>2, <2>3 DEF PgVector!Insert, PgVector!Embedding, PgVector!table
<1>7. ASSUME NEW o \in PgVector!Ops, PgVector!UpdateRow(o) PROVE PgInv'
  <2> DEFINE new == IF o \in embedded THEN pgRan + 1 ELSE rows[pgTarget[o]].embedding
  <2>1. /\ o \in Updates["pgvector"] /\ pgPc[o] = "execute"
        /\ UNCHANGED <<pgClient, index, pgTarget, embedded>> /\ PgVector!NoSearch
    BY <1>7 DEF PgVector!UpdateRow
  <2>2. CASE /\ pgTarget[o] \in PgVector!Present
             /\ PgVector!Applies(o, [content |-> pgRan + 1, embedding |-> new])
             /\ pgPc' \in {[pgPc EXCEPT ![o] = answer] : answer \in PgVector!Answers}
    <3>1. rows[pgTarget[o]].content # 0
      BY <2>2 DEF PgVector!Present
    <3> QED
      BY <2>1, <2>2, <3>1, PgApplies
  <2>3. CASE /\ pgPc' \in {[pgPc EXCEPT ![o] = "unknown"], [pgPc EXCEPT ![o] = "failed"]}
             /\ UNCHANGED <<pgStamp, rows, pgRan>>
    BY <1>3, <2>1, <2>3
  <2> QED
    BY <1>7, <2>2, <2>3 DEF PgVector!UpdateRow, PgVector!Embedding, PgVector!table
<1> QED
  BY <1>4, <1>5, <1>6, <1>7, PgCreates, PgSearches DEF PgVector!Next

LEMMA PgStays == ASSUME PgInv, UNCHANGED pgVars PROVE PgInv'
<1>1. /\ UNCHANGED <<pgClient, index, pgPc, pgTarget, pgStamp, embedded, rows, pgRan, how, pgFound>>
      /\ PgVector!Present' = PgVector!Present
  BY DEF pgVars, PgVector!Present
<1>2. PgVector!TypeOK'
  BY <1>1 DEF PgInv, PgVector!TypeOK
<1>3. PgSteps' /\ PgVector!EmbeddingFollowsContent' /\ PgVector!ReturnedIsFound'
  BY <1>1 DEF PgInv, PgSteps, PgVector!EmbeddingFollowsContent, PgVector!ReturnedIsFound
<1> QED
  BY <1>1, <1>2, <1>3 DEF PgInv

(* In the pgvector table a row's embedding is that of its text, or, when   *)
(* the request for that one failed, that of an earlier text, and of no     *)
(* earlier one than the last whose request was answered: however updates   *)
(* of it overlap and whichever requests and statements fail.  And what was *)
(* returned is found, unless the index or as many others as the limit      *)
(* allows leave it out.                                                    *)
THEOREM PgVectorAlwaysSound == Spec => []PgVectorSound
<1>1. Init => PgInv
  BY PgInit DEF Init
<1>2. PgInv /\ [Next]_vars => PgInv'
  <2> SUFFICES ASSUME PgInv, [Next]_vars PROVE PgInv'
    OBVIOUS
  <2>1. PgVector!Next \/ UNCHANGED pgVars
    BY DEF Next, vars
  <2> QED
    BY <2>1, PgStep, PgStays
<1>3. PgInv => PgVectorSound
  BY DEF PgInv, PgVectorSound
<1> QED
  BY <1>1, <1>2, <1>3, PTL DEF Spec

-----------------------------------------------------------------------------
(* LlamaStack.  An operation under way is of an agent whose client has a   *)
(* store; a file is attached only once its operation is over; an update    *)
(* replaces a memory whose operation is over; and an update whose delete   *)
(* was answered goes on in a store that no longer holds the old memory.    *)
LlamaUnderWay == {"delete", "upload", "attach"}

LlamaSteps ==
    \A o \in Llama!Ops :
        /\ llamaPc[o] \in LlamaUnderWay => agent[o] \in Agents /\ llamaClient[agent[o]] = "ready"
        /\ llamaPc[o] = "delete" => o \in Updates["llamastack"]
        /\ llamaPc[o] = "attach" => o \in uploaded
        /\ llamaPc[o] = "idle" => llamaTarget[o] = o
        /\ llamaTarget[o] # o => llamaPc[llamaTarget[o]] \in {"done", "failed"}
        /\ llamaPc[o] \in {"upload", "attach"} /\ o \notin undeleted /\ llamaTarget[o] # o =>
              <<store[agent[o]], llamaTarget[o]>> \notin attached

LlamaInv ==
    /\ Llama!TypeOK
    /\ \A a \in Agents : llamaClient[a] = "ready" => store[a] >= 1
    /\ LlamaSteps
    /\ \A p \in attached : llamaPc[p[2]] \in {"done", "failed"}
    /\ Llama!ReturnedIsAttached
    /\ Llama!NeverBoth

LEMMA LlamaInit == Llama!Init => LlamaInv
<1> SUFFICES ASSUME Llama!Init PROVE LlamaInv
  OBVIOUS
<1>1. Llama!TypeOK
  BY DEF Llama!Init, Llama!TypeOK
<1>2. LlamaSteps
  BY DEF Llama!Init, LlamaSteps, LlamaUnderWay
<1>3. Llama!ReturnedIsAttached /\ Llama!NeverBoth
  BY DEF Llama!Init, Llama!ReturnedIsAttached, Llama!NeverBoth, Llama!Ops
<1> QED
  BY <1>1, <1>2, <1>3 DEF LlamaInv, Llama!Init

(* Clients list and create stores: no operation of theirs is under way.    *)
LEMMA LlamaOpens ==
    ASSUME LlamaInv, NEW a \in Agents, Llama!ListStores(a) \/ Llama!CreateStore(a)
    PROVE  LlamaInv'
<1>1. /\ UNCHANGED <<llamaPc, agent, llamaTarget, uploaded, attached, undeleted>>
      /\ llamaClient[a] # "ready"
  BY DEF Llama!ListStores, Llama!CreateStore, Llama!server
<1>2. Llama!TypeOK
  BY DEF LlamaInv
<1>3. stores \in Nat /\ stores' \in {stores, stores + 1}
  BY <1>2 DEF Llama!TypeOK, Llama!ListStores, Llama!CreateStore, Llama!server
<1>4. stores' \in Nat /\ \A n \in 0..stores : n \in 0..stores'
  BY <1>3
<1>5. /\ store' \in [Agents -> 0..stores']
      /\ llamaClient' \in [Agents -> {"none", "absent", "ready", "null"}]
      /\ \A b \in Agents : b # a => store'[b] = store[b] /\ llamaClient'[b] = llamaClient[b]
      /\ llamaClient'[a] = "ready" => store'[a] >= 1
  <2>1. /\ store \in [Agents -> 0..stores] /\ store \in [Agents -> 0..stores']
        /\ llamaClient \in [Agents -> {"none", "absent", "ready", "null"}]
    BY <1>2, <1>4 DEF Llama!TypeOK
  <2>2. CASE Llama!ListStores(a)
    <3>1. stores' = stores
      BY <2>2 DEF Llama!ListStores, Llama!server
    <3>2. CASE /\ stores > 0 /\ llamaClient' = [llamaClient EXCEPT ![a] = "ready"]
               /\ store' = [store EXCEPT ![a] = 1]
      BY <1>3, <2>1, <3>1, <3>2
    <3>3. CASE store' = store /\ \E c \in {"absent", "null"} : llamaClient' = [llamaClient EXCEPT ![a] = c]
      BY <2>1, <3>3
    <3> QED
      BY <2>2, <3>2, <3>3 DEF Llama!ListStores
  <2>3. CASE Llama!CreateStore(a)
    <3>1. PICK answer \in {"answered", "lost", "refused"} :
             /\ stores' = stores + (IF answer # "refused" THEN 1 ELSE 0)
             /\ llamaClient' = [llamaClient EXCEPT ![a] = IF answer = "answered" THEN "ready" ELSE "null"]
             /\ store' = [store EXCEPT ![a] = stores']
      BY <2>3 DEF Llama!CreateStore, Llama!Applied, Llama!Outcomes
    <3>2. answer = "answered" => stores' >= 1
      BY <1>3, <3>1
    <3> QED
      BY <1>4, <2>1, <3>1, <3>2
  <2> QED
    BY <2>2, <2>3
<1>6. Llama!TypeOK'
  <2>1. 1..stores \subseteq 1..stores'
    BY <1>3, <1>4
  <2>2. attached' \subseteq (1..stores') \X uploaded'
    BY <1>1, <1>2, <2>1 DEF Llama!TypeOK
  <2> QED
    BY <1>1, <1>2, <1>4, <1>5, <2>2 DEF Llama!TypeOK
<1>7. \A b \in Agents : llamaClient'[b] = "ready" => store'[b] >= 1
  BY <1>5 DEF LlamaInv
<1>8. LlamaSteps'
  <2>1. ASSUME NEW o \in Llama!Ops, llamaPc[o] \in LlamaUnderWay
        PROVE  /\ agent[o] \in Agents /\ agent[o] # a /\ llamaClient'[agent[o]] = "ready"
               /\ store'[agent[o]] = store[agent[o]]
    <3>1. agent[o] \in Agents /\ llamaClient[agent[o]] = "ready"
      BY <2>1 DEF LlamaInv, LlamaSteps
    <3>2. agent[o] # a
      BY <1>1, <3>1
    <3> QED
      BY <1>5, <3>1, <3>2
  <2> QED
    BY <1>1, <2>1 DEF LlamaInv, LlamaSteps, LlamaUnderWay, Llama!Ops
<1>9. Llama!ReturnedIsAttached'
  BY <1>1, <1>3, <1>4 DEF LlamaInv, Llama!ReturnedIsAttached, Llama!Ops
<1>10. Llama!NeverBoth'
  <2>1. \A s \in Nat, o \in Llama!Ops : <<s, o>> \in attached => s \in 1..stores
    BY <1>2 DEF Llama!TypeOK
  <2> QED
    BY <1>1, <1>4, <2>1 DEF LlamaInv, Llama!NeverBoth, Llama!Ops
<1> QED
  BY <1>1, <1>6, <1>7, <1>8, <1>9, <1>10 DEF LlamaInv

(* The process of an agent ends.                                           *)
LEMMA LlamaRestarts ==
    ASSUME LlamaInv, NEW a \in Agents, Llama!Restart(a)
    PROVE  LlamaInv'
<1>1. /\ UNCHANGED <<stores, agent, llamaTarget, uploaded, attached, undeleted>>
      /\ llamaClient' = [llamaClient EXCEPT ![a] = "none"] /\ store' = [store EXCEPT ![a] = 0]
      /\ llamaPc' = [o \in Llama!Ops |-> IF agent[o] = a /\ llamaPc[o] \in LlamaUnderWay
                                         THEN "ended" ELSE llamaPc[o]]
  BY DEF Llama!Restart, Llama!server, LlamaUnderWay
<1>2. Llama!TypeOK /\ stores \in Nat
  BY DEF LlamaInv, Llama!TypeOK
<1>3. Llama!TypeOK'
  <2>1. store' \in [Agents -> 0..stores] /\ llamaClient' \in [Agents -> {"none", "absent", "ready", "null"}]
    BY <1>1, <1>2 DEF Llama!TypeOK
  <2>2. llamaPc' \in [Llama!Ops -> {"idle", "delete", "upload", "attach", "done", "failed", "ended"}]
    BY <1>1, <1>2 DEF Llama!TypeOK
  <2> QED
    BY <1>1, <1>2, <2>1, <2>2 DEF Llama!TypeOK
<1>4. \A b \in Agents : /\ llamaClient'[b] = "ready" => store'[b] >= 1
                        /\ b # a => llamaClient'[b] = llamaClient[b] /\ store'[b] = store[b]
  BY <1>1, <1>2 DEF LlamaInv, Llama!TypeOK
<1>5. ASSUME NEW o \in Llama!Ops
      PROVE  /\ llamaPc'[o] \in LlamaUnderWay => llamaPc'[o] = llamaPc[o] /\ agent[o] # a
             /\ llamaPc[o] \in {"idle", "done", "failed"} => llamaPc'[o] = llamaPc[o]
             /\ llamaPc'[o] \in {"idle", "done", "failed"} => llamaPc'[o] = llamaPc[o]
  BY <1>1 DEF LlamaUnderWay
<1>6. LlamaSteps'
  <2>0. /\ agent' = agent /\ llamaTarget' = llamaTarget /\ uploaded' = uploaded
        /\ attached' = attached /\ undeleted' = undeleted /\ Llama!Ops' = Llama!Ops
    BY <1>1 DEF Llama!Ops
  <2> SUFFICES ASSUME NEW o \in Llama!Ops
      PROVE  /\ llamaPc'[o] \in LlamaUnderWay => agent[o] \in Agents /\ llamaClient'[agent[o]] = "ready"
             /\ llamaPc'[o] = "delete" => o \in Updates["llamastack"]
             /\ llamaPc'[o] = "attach" => o \in uploaded
             /\ llamaPc'[o] = "idle" => llamaTarget[o] = o
             /\ llamaTarget[o] # o => llamaPc'[llamaTarget[o]] \in {"done", "failed"}
             /\ llamaPc'[o] \in {"upload", "attach"} /\ o \notin undeleted /\ llamaTarget[o] # o =>
                   <<store'[agent[o]], llamaTarget[o]>> \notin attached
    BY <2>0 DEF LlamaSteps
  <2>1. llamaTarget[o] \in Llama!Ops
    BY <1>2 DEF Llama!TypeOK
  <2>2. llamaPc'[o] \in LlamaUnderWay =>
           /\ llamaPc'[o] = llamaPc[o] /\ agent[o] \in Agents
           /\ llamaClient'[agent[o]] = "ready" /\ store'[agent[o]] = store[agent[o]]
    BY <1>4, <1>5 DEF LlamaInv, LlamaSteps
  <2>3. llamaPc'[llamaTarget[o]] \in {"done", "failed"} \/ llamaTarget[o] = o
    BY <1>5, <2>1 DEF LlamaInv, LlamaSteps
  <2>4. CASE llamaPc'[o] \in LlamaUnderWay
    <3>1. llamaPc'[o] = llamaPc[o] /\ llamaPc'[o] # "idle"
      BY <1>5, <2>4 DEF LlamaUnderWay
    <3> QED
      BY <2>2, <2>3, <2>4, <3>1 DEF LlamaInv, LlamaSteps
  <2>5. CASE llamaPc'[o] \notin LlamaUnderWay
    <3>1. llamaPc'[o] \notin {"delete", "upload", "attach"}
      BY <2>5 DEF LlamaUnderWay
    <3>2. llamaPc'[o] = "idle" => llamaTarget[o] = o
      BY <1>5 DEF LlamaInv, LlamaSteps
    <3> QED
      BY <2>3, <2>5, <3>1, <3>2
  <2> QED
    BY <2>4, <2>5
<1>7. \A p \in attached : llamaPc'[p[2]] \in {"done", "failed"}
  <2>1. \A p \in attached : p[2] \in Llama!Ops
    BY <1>2 DEF Llama!TypeOK
  <2> QED
    BY <1>5, <2>1 DEF LlamaInv
<1>8. Llama!ReturnedIsAttached'
  BY <1>1, <1>5 DEF LlamaInv, Llama!ReturnedIsAttached, Llama!Ops
<1>9. Llama!NeverBoth'
  <2>1. \A u \in Updates["llamastack"] : llamaPc'[u] \in {"upload", "attach", "done", "failed"} =>
           llamaPc[u] = llamaPc'[u]
    BY <1>5 DEF LlamaUnderWay, Llama!Ops
  <2> QED
    BY <1>1, <2>1 DEF LlamaInv, Llama!NeverBoth
<1> QED
  BY <1>1, <1>3, <1>4, <1>6, <1>7, <1>8, <1>9 DEF LlamaInv

(* An operation begins: an update with the id of a memory that is over.    *)
LEMMA LlamaBegins ==
    ASSUME LlamaInv, NEW o \in Llama!Ops, NEW a \in Agents, Llama!Begin(o, a)
    PROVE  LlamaInv'
<1>1. /\ llamaPc[o] = "idle" /\ agent' = [agent EXCEPT ![o] = a]
      /\ UNCHANGED <<llamaClient, store, stores, uploaded, attached, undeleted, restarts>>
  BY DEF Llama!Begin, Llama!clients, Llama!server
<1>2. Llama!TypeOK
  BY DEF LlamaInv
<1>3. PICK to \in {"failed", "upload", "delete"} :
         /\ llamaPc' = [llamaPc EXCEPT ![o] = to]
         /\ to # "failed" => llamaClient[a] = "ready"
         /\ to = "delete" => o \in Updates["llamastack"]
  BY DEF Llama!Begin
<1>4. llamaTarget[o] = o
  BY <1>1 DEF LlamaInv, LlamaSteps
<1>5. PICK old \in Llama!Ops :
         /\ llamaTarget' = [llamaTarget EXCEPT ![o] = old]
         /\ to # "delete" => old = o
         /\ old # o => llamaPc[old] \in {"done", "failed"}
  <2>1. CASE llamaTarget' = llamaTarget
    BY <1>2, <1>4, <2>1 DEF Llama!TypeOK
  <2>2. CASE \E old \in Llama!Search(a) \cup {d \in Llama!Ops : agent[d] = a /\ llamaPc[d] = "done"} :
                llamaTarget' = [llamaTarget EXCEPT ![o] = old]
    <3>1. PICK old \in Llama!Search(a) \cup {d \in Llama!Ops : agent[d] = a /\ llamaPc[d] = "done"} :
                llamaTarget' = [llamaTarget EXCEPT ![o] = old]
      BY <2>2
    <3>2. old \in Llama!Ops /\ llamaPc[old] \in {"done", "failed"}
      <4>1. CASE old \in Llama!Search(a)
        <5>1. old \in Llama!Ops /\ <<store[a], old>> \in attached
          BY <4>1 DEF Llama!Search, Llama!Visible
        <5> QED
          BY <5>1 DEF LlamaInv
      <4> QED
        BY <3>1, <4>1
    <3>3. to = "delete" \/ llamaTarget' = llamaTarget
      BY <1>2, <1>3 DEF Llama!Begin, Llama!TypeOK
    <3> QED
      BY <2>1, <3>1, <3>2, <3>3
  <2> QED
    BY <2>1, <2>2 DEF Llama!Begin
<1>6. \A q \in Llama!Ops : /\ llamaPc'[q] = (IF q = o THEN to ELSE llamaPc[q])
                           /\ agent'[q] = (IF q = o THEN a ELSE agent[q])
                           /\ llamaTarget'[q] = (IF q = o THEN old ELSE llamaTarget[q])
                           /\ llamaTarget[q] \in Llama!Ops
  BY <1>1, <1>2, <1>3, <1>5 DEF Llama!TypeOK
<1>7. Llama!TypeOK'
  <2>1. /\ llamaPc' \in [Llama!Ops -> {"idle", "delete", "upload", "attach", "done", "failed", "ended"}]
        /\ agent' \in [Llama!Ops -> Agents \cup {Llama!Nobody}]
        /\ llamaTarget' \in [Llama!Ops -> Llama!Ops]
    BY <1>1, <1>2, <1>3, <1>5 DEF Llama!TypeOK
  <2> QED
    BY <1>1, <1>2, <2>1 DEF Llama!TypeOK
<1>8. \A p \in attached : p[2] \in Llama!Ops /\ p[2] # o /\ llamaPc'[p[2]] \in {"done", "failed"}
  <2>1. \A p \in attached : p[2] \in Llama!Ops /\ llamaPc[p[2]] \in {"done", "failed"}
    BY <1>2 DEF LlamaInv, Llama!TypeOK
  <2> QED
    BY <1>1, <1>6, <2>1
<1>9. LlamaSteps'
  <2> SUFFICES ASSUME NEW q \in Llama!Ops
      PROVE  /\ llamaPc'[q] \in LlamaUnderWay => agent'[q] \in Agents /\ llamaClient'[agent'[q]] = "ready"
             /\ llamaPc'[q] = "delete" => q \in Updates["llamastack"]
             /\ llamaPc'[q] = "attach" => q \in uploaded'
             /\ llamaPc'[q] = "idle" => llamaTarget'[q] = q
             /\ llamaTarget'[q] # q => llamaPc'[llamaTarget'[q]] \in {"done", "failed"}
             /\ llamaPc'[q] \in {"upload", "attach"} /\ q \notin undeleted' /\ llamaTarget'[q] # q =>
                   <<store'[agent'[q]], llamaTarget'[q]>> \notin attached'
    BY DEF LlamaSteps, Llama!Ops
  <2>1. CASE q = o
    BY <1>1, <1>3, <1>5, <1>6, <2>1 DEF LlamaUnderWay
  <2>2. CASE q # o
    <3>1. llamaTarget[q] # o \/ llamaTarget[q] = q
      BY <1>1, <1>6 DEF LlamaInv, LlamaSteps
    <3> QED
      BY <1>1, <1>6, <2>2, <3>1 DEF LlamaInv, LlamaSteps
  <2> QED
    BY <2>1, <2>2
<1>10. Llama!ReturnedIsAttached'
  <2> SUFFICES ASSUME NEW q \in Llama!Ops, llamaPc'[q] = "done",
                      \A u \in Updates["llamastack"] : llamaTarget'[u] = q => u = q
               PROVE  \E s \in 1..stores : <<s, q>> \in attached
    BY <1>1 DEF Llama!ReturnedIsAttached, Llama!Ops
  <2>1. q # o /\ llamaPc[q] = "done"
    BY <1>3, <1>6
  <2>2. \A u \in Updates["llamastack"] : llamaTarget[u] = q => u = q
    BY <1>4, <1>6, <2>1 DEF Llama!Ops
  <2> QED
    BY <2>1, <2>2 DEF LlamaInv, Llama!ReturnedIsAttached
<1>11. Llama!NeverBoth'
  <2> SUFFICES ASSUME NEW u \in Updates["llamastack"] \ undeleted,
                      llamaPc'[u] \in {"upload", "attach", "done", "failed"},
                      agent'[u] # Llama!Nobody, llamaTarget'[u] # u,
                      NEW s \in 1..stores, <<s, u>> \in attached
               PROVE  <<s, llamaTarget'[u]>> \notin attached
    BY <1>1 DEF Llama!NeverBoth
  <2>1. u \in Llama!Ops /\ u # o
    BY <1>8 DEF Llama!Ops
  <2> QED
    BY <1>6, <2>1 DEF LlamaInv, Llama!NeverBoth
<1> QED
  BY <1>1, <1>7, <1>8, <1>9, <1>10, <1>11 DEF LlamaInv

(* The three requests of an operation under way move only that operation.  *)
LEMMA LlamaRequests ==
    ASSUME LlamaInv, NEW o \in Llama!Ops, Llama!Delete(o) \/ Llama!Upload(o) \/ Llama!Attach(o)
    PROVE  /\ UNCHANGED <<llamaClient, store, stores, agent, llamaTarget>>
           /\ llamaPc[o] \in LlamaUnderWay
           /\ llamaPc'[o] \in {"upload", "attach", "done", "failed"}
           /\ \A q \in Llama!Ops : q # o => llamaPc'[q] = llamaPc[q]
           /\ llamaPc' \in [Llama!Ops -> {"idle", "delete", "upload", "attach", "done", "failed", "ended"}]
           /\ agent[o] \in Agents /\ store[agent[o]] \in 1..stores
           /\ \A p \in attached : p[2] \in Llama!Ops /\ p[2] # o
<1>1. Llama!TypeOK
  BY DEF LlamaInv
<1>2. PICK to \in {"upload", "attach", "done", "failed"} : llamaPc' = [llamaPc EXCEPT ![o] = to]
  BY DEF Llama!Delete, Llama!Upload, Llama!Attach
<1>3. llamaPc[o] \in LlamaUnderWay
  BY DEF Llama!Delete, Llama!Upload, Llama!Attach, LlamaUnderWay
<1>4. agent[o] \in Agents /\ store[agent[o]] \in 1..stores
  <2>1. agent[o] \in Agents /\ llamaClient[agent[o]] = "ready"
    BY <1>3 DEF LlamaInv, LlamaSteps
  <2> QED
    BY <1>1, <2>1 DEF LlamaInv, Llama!TypeOK
<1>5. \A p \in attached : p[2] \in Llama!Ops /\ p[2] # o
  BY <1>1, <1>3 DEF LlamaInv, Llama!TypeOK, LlamaUnderWay
<1>6. UNCHANGED <<llamaClient, store, stores, agent, llamaTarget>>
  BY DEF Llama!Delete, Llama!Upload, Llama!Attach, Llama!clients
<1> QED
  BY <1>1, <1>2, <1>3, <1>4, <1>5, <1>6 DEF Llama!TypeOK

(* The old file is detached, or perhaps not.                               *)
LEMMA LlamaDeletes ==
    ASSUME LlamaInv, NEW o \in Llama!Ops, Llama!Delete(o)
    PROVE  LlamaInv'
<1>1. /\ UNCHANGED <<llamaClient, store, stores, agent, llamaTarget>>
      /\ \A q \in Llama!Ops : q # o => llamaPc'[q] = llamaPc[q]
      /\ llamaPc' \in [Llama!Ops -> {"idle", "delete", "upload", "attach", "done", "failed", "ended"}]
      /\ \A p \in attached : p[2] \in Llama!Ops /\ p[2] # o
  BY LlamaRequests
<1>2. Llama!TypeOK
  BY DEF LlamaInv
<1>3. llamaPc[o] = "delete" /\ llamaPc'[o] = "upload" /\ uploaded' = uploaded
  BY <1>2 DEF Llama!Delete, Llama!TypeOK
<1>4. o \in Updates["llamastack"]
  BY <1>3 DEF LlamaInv, LlamaSteps
<1>5. /\ attached' \in {attached, attached \ {<<store[agent[o]], llamaTarget[o]>>}}
      /\ undeleted' \in {undeleted, undeleted \cup {o}}
      /\ o \notin undeleted' => attached' = attached \ {<<store[agent[o]], llamaTarget[o]>>}
  BY DEF Llama!Delete, Llama!Mine, Llama!Applied, Llama!Outcomes
<1>6. Llama!TypeOK'
  BY <1>1, <1>2, <1>3, <1>4, <1>5 DEF Llama!TypeOK
<1>7. LlamaSteps'
  <2> SUFFICES ASSUME NEW q \in Llama!Ops
      PROVE  /\ llamaPc'[q] \in LlamaUnderWay => agent'[q] \in Agents /\ llamaClient'[agent'[q]] = "ready"
             /\ llamaPc'[q] = "delete" => q \in Updates["llamastack"]
             /\ llamaPc'[q] = "attach" => q \in uploaded'
             /\ llamaPc'[q] = "idle" => llamaTarget'[q] = q
             /\ llamaTarget'[q] # q => llamaPc'[llamaTarget'[q]] \in {"done", "failed"}
             /\ llamaPc'[q] \in {"upload", "attach"} /\ q \notin undeleted' /\ llamaTarget'[q] # q =>
                   <<store'[agent'[q]], llamaTarget'[q]>> \notin attached'
    BY DEF LlamaSteps, Llama!Ops
  <2>1. /\ llamaPc[q] \in LlamaUnderWay => agent[q] \in Agents /\ llamaClient[agent[q]] = "ready"
        /\ llamaTarget[q] # q => llamaPc[llamaTarget[q]] \in {"done", "failed"}
        /\ llamaTarget[q] \in Llama!Ops
    BY <1>2 DEF LlamaInv, LlamaSteps, Llama!TypeOK
  <2>2. llamaTarget[q] # q => llamaTarget[q] # o
    BY <1>3, <2>1
  <2>3. CASE q = o
    BY <1>1, <1>3, <1>5, <2>1, <2>2, <2>3 DEF LlamaUnderWay
  <2>4. CASE q # o
    BY <1>1, <1>3, <1>5, <2>1, <2>2, <2>4 DEF LlamaInv, LlamaSteps
  <2> QED
    BY <2>3, <2>4
<1>8. \A p \in attached' : llamaPc'[p[2]] \in {"done", "failed"}
  BY <1>1, <1>5 DEF LlamaInv
<1>9. Llama!ReturnedIsAttached'
  <2> SUFFICES ASSUME NEW q \in Llama!Ops, llamaPc'[q] = "done",
                      \A u \in Updates["llamastack"] : llamaTarget[u] = q => u = q
               PROVE  \E s \in 1..stores : <<s, q>> \in attached'
    BY <1>1 DEF Llama!ReturnedIsAttached, Llama!Ops
  <2>1. q # o /\ llamaPc[q] = "done"
    BY <1>1, <1>3
  <2>2. PICK s \in 1..stores : <<s, q>> \in attached
    BY <2>1 DEF LlamaInv, Llama!ReturnedIsAttached
  <2>3. llamaTarget[o] # q
    BY <1>4, <2>1
  <2>4. <<s, q>> # <<store[agent[o]], llamaTarget[o]>>
    BY <2>3
  <2> QED
    BY <1>5, <2>2, <2>4
<1>10. Llama!NeverBoth'
  <2> SUFFICES ASSUME NEW u \in Updates["llamastack"] \ undeleted',
                      llamaPc'[u] \in {"upload", "attach", "done", "failed"},
                      agent[u] # Llama!Nobody, llamaTarget[u] # u,
                      NEW s \in 1..stores, <<s, u>> \in attached'
               PROVE  <<s, llamaTarget[u]>> \notin attached'
    BY <1>1 DEF Llama!NeverBoth
  <2>1. u \in Llama!Ops /\ u # o /\ u \notin undeleted /\ <<s, u>> \in attached
    BY <1>1, <1>5 DEF Llama!Ops
  <2>2. <<s, llamaTarget[u]>> \notin attached
    BY <1>1, <2>1 DEF LlamaInv, Llama!NeverBoth
  <2> QED
    BY <1>5, <2>2
<1> QED
  BY <1>1, <1>6, <1>7, <1>8, <1>9, <1>10 DEF LlamaInv

LEMMA LlamaUploads ==
    ASSUME LlamaInv, NEW o \in Llama!Ops, Llama!Upload(o)
    PROVE  LlamaInv'
<1>1. /\ UNCHANGED <<llamaClient, store, stores, agent, llamaTarget>>
      /\ \A q \in Llama!Ops : q # o => llamaPc'[q] = llamaPc[q]
      /\ llamaPc' \in [Llama!Ops -> {"idle", "delete", "upload", "attach", "done", "failed", "ended"}]
      /\ \A p \in attached : p[2] \in Llama!Ops /\ p[2] # o
  BY LlamaRequests
<1>2. Llama!TypeOK
  BY DEF LlamaInv
<1>3. /\ llamaPc[o] = "upload" /\ llamaPc'[o] \in {"attach", "failed"}
      /\ llamaPc'[o] = "attach" => o \in uploaded'
      /\ uploaded' \in {uploaded, uploaded \cup {o}} /\ UNCHANGED <<attached, undeleted>>
  BY <1>2 DEF Llama!Upload, Llama!Applied, Llama!Outcomes, Llama!TypeOK
<1>4. Llama!TypeOK'
  <2>1. uploaded' \subseteq Llama!Ops /\ attached' \subseteq (1..stores) \X uploaded'
    BY <1>2, <1>3 DEF Llama!TypeOK
  <2> QED
    BY <1>1, <1>2, <1>3, <2>1 DEF Llama!TypeOK
<1>5. LlamaSteps'
  <2> SUFFICES ASSUME NEW q \in Llama!Ops
      PROVE  /\ llamaPc'[q] \in LlamaUnderWay => agent'[q] \in Agents /\ llamaClient'[agent'[q]] = "ready"
             /\ llamaPc'[q] = "delete" => q \in Updates["llamastack"]
             /\ llamaPc'[q] = "attach" => q \in uploaded'
             /\ llamaPc'[q] = "idle" => llamaTarget'[q] = q
             /\ llamaTarget'[q] # q => llamaPc'[llamaTarget'[q]] \in {"done", "failed"}
             /\ llamaPc'[q] \in {"upload", "attach"} /\ q \notin undeleted' /\ llamaTarget'[q] # q =>
                   <<store'[agent'[q]], llamaTarget'[q]>> \notin attached'
    BY DEF LlamaSteps, Llama!Ops
  <2>1. /\ llamaPc[q] \in LlamaUnderWay => agent[q] \in Agents /\ llamaClient[agent[q]] = "ready"
        /\ llamaTarget[q] # q => llamaPc[llamaTarget[q]] \in {"done", "failed"}
        /\ llamaTarget[q] \in Llama!Ops
    BY <1>2 DEF LlamaInv, LlamaSteps, Llama!TypeOK
  <2>2. llamaTarget[q] # q => llamaTarget[q] # o
    BY <1>3, <2>1
  <2>3. CASE q = o
    BY <1>1, <1>3, <2>1, <2>2, <2>3 DEF LlamaUnderWay, LlamaInv, LlamaSteps
  <2>4. CASE q # o
    BY <1>1, <1>3, <2>1, <2>2, <2>4 DEF LlamaInv, LlamaSteps
  <2> QED
    BY <2>3, <2>4
<1>6. \A p \in attached' : llamaPc'[p[2]] \in {"done", "failed"}
  BY <1>1, <1>3 DEF LlamaInv
<1>7. Llama!ReturnedIsAttached'
  <2>1. \A q \in Llama!Ops : llamaPc'[q] = "done" => llamaPc[q] = "done"
    BY <1>1, <1>3
  <2> QED
    BY <1>1, <1>3, <2>1 DEF LlamaInv, Llama!ReturnedIsAttached, Llama!Ops
<1>8. Llama!NeverBoth'
  <2>1. \A u \in Updates["llamastack"] :
           llamaPc'[u] \in {"upload", "attach", "done", "failed"} =>
              llamaPc[u] \in {"upload", "attach", "done", "failed"}
    BY <1>1, <1>3 DEF Llama!Ops
  <2> QED
    BY <1>1, <1>3, <2>1 DEF LlamaInv, Llama!NeverBoth
<1> QED
  BY <1>1, <1>4, <1>5, <1>6, <1>7, <1>8 DEF LlamaInv

(* The new file is attached, or perhaps not: to the store from which the   *)
(* old one was detached.                                                   *)
LEMMA LlamaAttaches ==
    ASSUME LlamaInv, NEW o \in Llama!Ops, Llama!Attach(o)
    PROVE  LlamaInv'
<1>1. /\ UNCHANGED <<llamaClient, store, stores, agent, llamaTarget>>
      /\ \A q \in Llama!Ops : q # o => llamaPc'[q] = llamaPc[q]
      /\ llamaPc' \in [Llama!Ops -> {"idle", "delete", "upload", "attach", "done", "failed", "ended"}]
      /\ agent[o] \in Agents /\ store[agent[o]] \in 1..stores
      /\ \A p \in attached : p[2] \in Llama!Ops /\ p[2] # o
  BY LlamaRequests
<1>2. Llama!TypeOK
  BY DEF LlamaInv
<1> DEFINE new == <<store[agent[o]], o>>
<1>3. /\ llamaPc[o] = "attach" /\ llamaPc'[o] \in {"done", "failed"}
      /\ llamaPc'[o] = "done" => attached' = attached \cup {new}
      /\ attached' \in {attached, attached \cup {new}} /\ UNCHANGED <<uploaded, undeleted>>
  BY <1>2 DEF Llama!Attach, Llama!Mine, Llama!Applied, Llama!Outcomes, Llama!TypeOK
<1>4. Llama!TypeOK'
  <2>1. o \in uploaded
    BY <1>3 DEF LlamaInv, LlamaSteps
  <2>2. attached' \subseteq (1..stores) \X uploaded
    BY <1>1, <1>2, <1>3, <2>1 DEF Llama!TypeOK
  <2> QED
    BY <1>1, <1>2, <1>3, <2>2 DEF Llama!TypeOK
<1>5. LlamaSteps'
  <2> SUFFICES ASSUME NEW q \in Llama!Ops
      PROVE  /\ llamaPc'[q] \in LlamaUnderWay => agent'[q] \in Agents /\ llamaClient'[agent'[q]] = "ready"
             /\ llamaPc'[q] = "delete" => q \in Updates["llamastack"]
             /\ llamaPc'[q] = "attach" => q \in uploaded'
             /\ llamaPc'[q] = "idle" => llamaTarget'[q] = q
             /\ llamaTarget'[q] # q => llamaPc'[llamaTarget'[q]] \in {"done", "failed"}
             /\ llamaPc'[q] \in {"upload", "attach"} /\ q \notin undeleted' /\ llamaTarget'[q] # q =>
                   <<store'[agent'[q]], llamaTarget'[q]>> \notin attached'
    BY DEF LlamaSteps, Llama!Ops
  <2>1. /\ llamaPc[q] \in LlamaUnderWay => agent[q] \in Agents /\ llamaClient[agent[q]] = "ready"
        /\ llamaTarget[q] # q => llamaPc[llamaTarget[q]] \in {"done", "failed"}
        /\ llamaTarget[q] \in Llama!Ops
    BY <1>2 DEF LlamaInv, LlamaSteps, Llama!TypeOK
  <2>2. llamaTarget[q] # q => llamaTarget[q] # o
    BY <1>3, <2>1
  <2>3. CASE q = o
    BY <1>1, <1>3, <2>1, <2>2, <2>3 DEF LlamaUnderWay
  <2>4. CASE q # o
    <3>1. llamaTarget[q] # q => <<store[agent[q]], llamaTarget[q]>> # new
      BY <2>2
    <3> QED
      BY <1>1, <1>3, <2>1, <2>2, <2>4, <3>1 DEF LlamaInv, LlamaSteps
  <2> QED
    BY <2>3, <2>4
<1>6. \A p \in attached' : llamaPc'[p[2]] \in {"done", "failed"}
  BY <1>1, <1>3 DEF LlamaInv
<1>7. Llama!ReturnedIsAttached'
  <2> SUFFICES ASSUME NEW q \in Llama!Ops, llamaPc'[q] = "done",
                      \A u \in Updates["llamastack"] : llamaTarget[u] = q => u = q
               PROVE  \E s \in 1..stores : <<s, q>> \in attached'
    BY <1>1 DEF Llama!ReturnedIsAttached, Llama!Ops
  <2>1. CASE q = o
    BY <1>1, <1>3, <2>1
  <2>2. CASE q # o
    BY <1>1, <1>3, <2>2 DEF LlamaInv, Llama!ReturnedIsAttached
  <2> QED
    BY <2>1, <2>2
<1>8. Llama!NeverBoth'
  <2> SUFFICES ASSUME NEW u \in Updates["llamastack"] \ undeleted,
                      llamaPc'[u] \in {"upload", "attach", "done", "failed"},
                      agent[u] # Llama!Nobody, llamaTarget[u] # u,
                      NEW s \in 1..stores, <<s, u>> \in attached'
               PROVE  <<s, llamaTarget[u]>> \notin attached'
    BY <1>1, <1>3 DEF Llama!NeverBoth
  <2>1. u \in Llama!Ops
    BY DEF Llama!Ops
  <2>2. llamaTarget[u] # o
    BY <1>3, <2>1 DEF LlamaInv, LlamaSteps
  <2>3. <<s, llamaTarget[u]>> # new
    BY <2>2
  <2>4. CASE <<s, u>> \in attached
    <3>1. u # o
      BY <1>1, <2>4
    <3> QED
      BY <1>1, <1>3, <2>1, <2>3, <2>4, <3>1 DEF LlamaInv, Llama!NeverBoth
  <2>5. CASE <<s, u>> = new
    <3>1. u = o /\ s = store[agent[o]]
      BY <2>5
    <3> QED
      BY <1>3, <2>1, <2>3, <3>1 DEF LlamaInv, LlamaSteps
  <2> QED
    BY <1>3, <2>4, <2>5
<1> QED
  BY <1>1, <1>4, <1>5, <1>6, <1>7, <1>8 DEF LlamaInv

LEMMA LlamaStays == ASSUME LlamaInv, UNCHANGED llamaVars PROVE LlamaInv'
<1>1. UNCHANGED <<llamaClient, store, stores, llamaPc, agent, llamaTarget, uploaded, attached, undeleted>>
  BY DEF llamaVars
<1>2. Llama!TypeOK' /\ LlamaSteps'
  BY <1>1 DEF LlamaInv, Llama!TypeOK, LlamaSteps
<1>3. Llama!ReturnedIsAttached' /\ Llama!NeverBoth'
  BY <1>1 DEF LlamaInv, Llama!ReturnedIsAttached, Llama!NeverBoth
<1> QED
  BY <1>1, <1>2, <1>3 DEF LlamaInv

(* What a write or update of the LlamaStack backend returned is attached   *)
(* to a store until an update of it begins, and no store holds a memory    *)
(* together with its replacement unless the delete raised; for any number  *)
(* of agents with one configuration, lost answers and restarts.            *)
THEOREM LlamaStackAlwaysSound == Spec => []LlamaStackSound
<1>1. Init => LlamaInv
  BY LlamaInit DEF Init
<1>2. LlamaInv /\ [Next]_vars => LlamaInv'
  <2> SUFFICES ASSUME LlamaInv, [Next]_vars PROVE LlamaInv'
    OBVIOUS
  <2>1. Llama!Next \/ UNCHANGED llamaVars
    BY DEF Next, vars
  <2> QED
    BY <2>1, LlamaOpens, LlamaRestarts, LlamaBegins, LlamaDeletes, LlamaUploads, LlamaAttaches,
       LlamaStays DEF Llama!Next
<1>3. LlamaInv => LlamaStackSound
  BY DEF LlamaInv, LlamaStackSound
<1> QED
  BY <1>1, <1>2, <1>3, PTL DEF Spec

-----------------------------------------------------------------------------
(* The model.  Between two steps of a call, what was asked is what was     *)
(* rejected, and one more once the provider has answered; an attempt is    *)
(* left wherever one may still be made, and every rejection was slept on.  *)
ModelStage ==
    /\ callPc = "begin" => calls = 0 /\ rejected = 0
    /\ callPc \in {"calling", "sleeping"} =>
          calls = rejected /\ (operation # "validated" => calls = 0)
    /\ callPc \in {"calling", "sleeping", "validating"} /\ operation = "validated" =>
          rejected < Model!TotalAttempts
    /\ callPc \in {"validating", "sleeping"} => operation = "validated"
    /\ callPc = "validating" => calls = rejected + 1
    /\ callPc = "chunks" => operation = "stream" /\ calls = 1 /\ rejected = 0

ModelInv ==
    /\ Model!TypeOK
    /\ ModelStage
    /\ Model!RetriesOnlyRejections
    /\ Model!BackoffCost

(* The outcomes are told apart by their kind. *)
LEMMA Outcomes ==
    /\ \A v : Model!Returned(v).kind = "returned" /\ Model!LLMError(v).kind = "LLMError"
    /\ \A v : Model!LLMError(v).value = v
    /\ Model!Raised.kind = "IndexError" /\ Model!Pending.kind = "none"
BY DEF Model!Returned, Model!LLMError, Model!Raised, Model!Pending

LEMMA ModelInit == Model!Init => ModelInv
<1> SUFFICES ASSUME Model!Init PROVE ModelInv
  OBVIOUS
<1>1. /\ calls = 0 /\ rejected = 0 /\ slept = <<>> /\ callPc = "begin"
      /\ outcome = Model!Pending /\ maxRetries \in Int
  BY Bounds DEF Model!Init
<1>2. slept \in Seq(Int) /\ Len(slept) = 0
  BY <1>1
<1>3. Model!TypeOK
  BY <1>1, <1>2, Outcomes DEF Model!Init, Model!TypeOK
<1>4. ModelStage /\ Model!RetriesOnlyRejections
  BY <1>1, Outcomes DEF ModelStage, Model!RetriesOnlyRejections, Model!TotalAttempts
<1>5. Model!BackoffCost
  BY <1>1, <1>2, Outcomes DEF Model!BackoffCost
<1> QED
  BY <1>3, <1>4, <1>5 DEF ModelInv

(* A step that ends the call or goes on, sleeping no further. *)
LEMMA ModelCalls ==
    ASSUME ModelInv, UNCHANGED <<operation, schema, maxRetries, rejected, slept>>,
           callPc \in {"begin", "calling", "chunks", "validating", "sleeping"},
           calls' = calls \/ (calls' = calls + 1 /\ callPc = "calling"),
           callPc' \in {"begin", "calling", "chunks", "validating", "sleeping", "over"},
           outcome'.kind \in {"none", "returned", "LLMError", "IndexError"},
           callPc' = "over" <=> outcome' # Model!Pending,
           outcome' # Model!LLMError("validation"),
           outcome' = Model!LLMError("provider") => callPc = "calling" /\ calls' = calls + 1,
           ModelStage'
    PROVE  ModelInv'
<1>1. callPc # "over" /\ outcome = Model!Pending /\ outcome # Model!LLMError("validation")
  BY Outcomes DEF ModelInv, Model!TypeOK
<1>2. calls' \in Nat /\ rejected' \in 0..calls'
  BY DEF ModelInv, Model!TypeOK
<1>3. Model!TypeOK'
  BY <1>2 DEF ModelInv, Model!TypeOK
<1>4. Model!RetriesOnlyRejections'
  <2>1. calls' <= rejected' + 1
    BY DEF ModelInv, ModelStage, Model!TypeOK, Model!RetriesOnlyRejections
  <2>2. calls' <= IF operation # "validated" THEN 1
                  ELSE IF Model!TotalAttempts > 0 THEN Model!TotalAttempts ELSE 0
    <3>1. CASE calls' = calls
      BY <3>1 DEF ModelInv, Model!RetriesOnlyRejections
    <3>2. CASE calls' = calls + 1 /\ callPc = "calling"
      <4>1. maxRetries \in Int /\ calls \in Int /\ rejected \in Int
        BY Bounds DEF ModelInv, Model!TypeOK
      <4> QED
        BY <3>2, <4>1 DEF ModelInv, ModelStage, Model!TotalAttempts
    <3> QED
      BY <3>1, <3>2
  <2>3. outcome' = Model!LLMError("provider") => calls' = rejected' + 1
    BY DEF ModelInv, ModelStage
  <2> QED
    BY <2>1, <2>2, <2>3 DEF Model!RetriesOnlyRejections, Model!TotalAttempts
<1>5. Model!BackoffCost'
  BY <1>1 DEF ModelInv, Model!BackoffCost
<1> QED
  BY <1>3, <1>4, <1>5 DEF ModelInv

LEMMA ModelBegins == ASSUME ModelInv, Model!Begin PROVE ModelInv'
<1>1. CASE callPc' = "over" /\ outcome' = Model!LLMError("arguments")
  <2>1. ModelStage'
    BY <1>1 DEF ModelStage
  <2>2. outcome' # Model!LLMError("validation") /\ outcome' # Model!LLMError("provider")
    BY <1>1, Outcomes
  <2>3. outcome' # Model!Pending /\ outcome'.kind = "LLMError"
    BY <1>1, Outcomes
  <2>4. callPc = "begin" /\ UNCHANGED <<operation, schema, maxRetries, calls, rejected, slept>>
    BY DEF Model!Begin, Model!given, Model!made
  <2> QED
    BY <1>1, <2>1, <2>2, <2>3, <2>4, ModelCalls
<1>2. CASE callPc' = "calling" /\ outcome' = outcome /\ ~(operation = "validated" /\ Model!TotalAttempts <= 0)
  <2>1. maxRetries \in Int /\ callPc = "begin" /\ outcome = Model!Pending
    BY Bounds DEF ModelInv, Model!TypeOK, Model!Begin
  <2>2. ModelStage'
    BY <1>2, <2>1 DEF ModelInv, ModelStage, Model!TotalAttempts, Model!Begin, Model!given, Model!made
  <2>3. UNCHANGED <<operation, schema, maxRetries, calls, rejected, slept>>
    BY DEF Model!Begin, Model!given, Model!made
  <2>4. /\ outcome' # Model!LLMError("validation") /\ outcome' # Model!LLMError("provider")
        /\ outcome'.kind = "none" /\ outcome' = Model!Pending
    BY <1>2, <2>1, Outcomes
  <2> QED
    BY <1>2, <2>1, <2>2, <2>3, <2>4, ModelCalls
<1> QED
  BY <1>1, <1>2 DEF Model!Begin, Model!Over, Model!Go

LEMMA ModelEnds ==
    ASSUME ModelInv, Model!Fails \/ Model!NoChoice \/ Model!StreamEnds \/ Model!Accept
    PROVE  ModelInv'
<1>1. callPc' = "over" /\ UNCHANGED <<operation, schema, maxRetries, rejected, slept>>
  BY DEF Model!Fails, Model!NoChoice, Model!StreamEnds, Model!Accept, Model!Over, Model!given, Model!made
<1>2. ModelStage'
  BY <1>1 DEF ModelStage
<1>3. /\ callPc \in {"calling", "chunks", "validating"}
      /\ calls' = calls \/ (calls' = calls + 1 /\ callPc = "calling")
      /\ \/ outcome' = Model!LLMError("provider") /\ callPc = "calling" /\ calls' = calls + 1
         \/ outcome' \in {Model!Raised, Model!Returned("end"), Model!Returned("validated"),
                          Model!LLMError("stream")}
  BY DEF Model!Fails, Model!NoChoice, Model!StreamEnds, Model!Accept, Model!Over, Model!given, Model!made
<1>4. /\ outcome'.kind \in {"returned", "LLMError", "IndexError"}
      /\ outcome' # Model!Pending /\ outcome' # Model!LLMError("validation")
      /\ outcome' = Model!LLMError("provider") => callPc = "calling" /\ calls' = calls + 1
  BY <1>3, Outcomes
<1> QED
  BY <1>1, <1>2, <1>3, <1>4, ModelCalls

LEMMA ModelAnswers == ASSUME ModelInv, Model!Answers PROVE ModelInv'
<1>1. /\ callPc = "calling" /\ calls' = calls + 1 /\ outcome = Model!Pending
      /\ UNCHANGED <<operation, schema, maxRetries, rejected, slept>>
  BY DEF ModelInv, Model!TypeOK, Model!Answers, Model!given
<1>2. /\ operation \in {"chat", "json", "stream", "validated"}
      /\ rejected \in Int /\ calls \in Int
      /\ calls = rejected /\ (operation # "validated" => calls = 0)
      /\ operation = "validated" => rejected < Model!TotalAttempts
  BY <1>1 DEF ModelInv, ModelStage, Model!TypeOK, Model!Operations
<1>3. CASE operation \in {"chat", "json"}
  <2>1. callPc' = "over" /\ \E v \in {"response", "output"} \cup Model!Values :
                               outcome' \in {Model!Returned(v), Model!LLMError("output")}
    BY <1>3 DEF Model!Answers, Model!Over, Model!Parsed
  <2>2. ModelStage'
    BY <2>1 DEF ModelStage
  <2>3. /\ outcome' # Model!LLMError("validation") /\ outcome' # Model!LLMError("provider")
        /\ outcome' # Model!Pending /\ outcome'.kind \in {"returned", "LLMError"}
    BY <2>1, Outcomes
  <2> QED
    BY <1>1, <2>1, <2>2, <2>3, ModelCalls
<1>4. CASE operation = "stream"
  <2>1. callPc' = "chunks" /\ outcome' = outcome
    BY <1>4 DEF Model!Answers, Model!Go
  <2>2. ModelStage'
    BY <1>1, <1>2, <1>4, <2>1 DEF ModelStage
  <2> QED
    BY <1>1, <2>1, <2>2, ModelCalls, Outcomes
<1>5. CASE operation = "validated"
  <2>1. callPc' = "validating" /\ outcome' = outcome
    BY <1>5 DEF Model!Answers, Model!Go
  <2>2. ModelStage'
    BY <1>1, <1>2, <1>5, <2>1 DEF ModelStage, Model!TotalAttempts
  <2> QED
    BY <1>1, <2>1, <2>2, ModelCalls, Outcomes
<1> QED
  BY <1>2, <1>3, <1>4, <1>5

LEMMA ModelWakes == ASSUME ModelInv, Model!Wake PROVE ModelInv'
<1>1. /\ callPc = "sleeping" /\ callPc' = "calling" /\ outcome = Model!Pending /\ outcome' = outcome
      /\ UNCHANGED <<operation, schema, maxRetries, calls, rejected, slept>>
  BY DEF ModelInv, Model!TypeOK, Model!Wake, Model!Go, Model!given, Model!made
<1>2. ModelStage'
  BY <1>1 DEF ModelInv, ModelStage, Model!TotalAttempts
<1> QED
  BY <1>1, <1>2, ModelCalls, Outcomes

(* A rejection with an attempt left adds one delay, twice the one before;  *)
(* the last one adds none.                                                 *)
LEMMA ModelRejects == ASSUME ModelInv, Model!Reject PROVE ModelInv'
<1>1. /\ callPc = "validating" /\ rejected' = rejected + 1
      /\ operation = "validated" /\ calls = rejected + 1 /\ rejected < Model!TotalAttempts
      /\ UNCHANGED <<operation, schema, maxRetries, calls>>
  BY DEF ModelInv, ModelStage, Model!Reject, Model!given
<1>2. /\ maxRetries \in Int /\ calls \in Nat /\ rejected \in Nat /\ slept \in Seq(Int)
      /\ Model!TotalAttempts \in Int /\ Model!TotalAttempts' = Model!TotalAttempts
      /\ outcome = Model!Pending
  BY <1>1, Bounds DEF ModelInv, Model!TypeOK, Model!TotalAttempts
<1>3. Len(slept) = rejected /\ \A k \in DOMAIN slept : slept[k] = 2^(k - 1)
  BY <1>2, Outcomes DEF ModelInv, Model!BackoffCost
<1>4. CASE rejected + 1 < Model!TotalAttempts
  <2>1. callPc' = "sleeping" /\ outcome' = outcome /\ slept' = Append(slept, 2^rejected)
    BY <1>1, <1>4 DEF Model!Reject, Model!Go
  <2>2. 2^rejected \in Int
    BY <1>2
  <2>3. slept' \in Seq(Int) /\ Len(slept') = rejected + 1
    BY <1>2, <1>3, <2>1, <2>2
  <2>4. \A k \in DOMAIN slept' : slept'[k] = 2^(k - 1)
    <3> SUFFICES ASSUME NEW k \in 1..(rejected + 1) PROVE slept'[k] = 2^(k - 1)
      BY <2>3
    <3>1. CASE k = rejected + 1
      <4>1. slept'[k] = 2^rejected
        BY <1>2, <1>3, <2>1, <2>2, <3>1
      <4>2. k - 1 = rejected
        BY <1>2, <3>1
      <4> QED
        BY <4>1, <4>2
    <3>2. CASE k # rejected + 1
      <4>1. k \in 1..rejected
        BY <1>2, <3>2
      <4>2. slept'[k] = slept[k]
        BY <1>2, <1>3, <2>1, <2>2, <4>1
      <4>3. k \in DOMAIN slept
        BY <1>2, <1>3, <4>1
      <4>4. slept[k] = 2^(k - 1)
        BY <1>3, <4>3, Zenon
      <4> QED
        BY <4>2, <4>4
    <3> QED
      BY <3>1, <3>2
  <2>5. Model!TypeOK'
    BY <1>1, <1>2, <2>1, <2>3 DEF ModelInv, Model!TypeOK
  <2>6. ModelStage' /\ Model!RetriesOnlyRejections' /\ Model!BackoffCost'
    BY <1>1, <1>2, <1>4, <2>1, <2>3, <2>4, Outcomes
       DEF ModelStage, Model!RetriesOnlyRejections, Model!BackoffCost
  <2> QED
    BY <2>5, <2>6 DEF ModelInv
<1>5. CASE ~(rejected + 1 < Model!TotalAttempts)
  <2>1. callPc' = "over" /\ outcome' = Model!LLMError("validation") /\ slept' = slept
    BY <1>1, <1>5 DEF Model!Reject, Model!Over
  <2>2. outcome' # Model!Pending /\ outcome' # Model!LLMError("provider") /\ outcome'.kind = "LLMError"
    BY <2>1, Outcomes
  <2>3. Model!TypeOK'
    BY <1>1, <1>2, <2>1, <2>2 DEF ModelInv, Model!TypeOK
  <2>4. ModelStage' /\ Model!RetriesOnlyRejections'
    BY <1>1, <1>2, <1>5, <2>1, <2>2 DEF ModelStage, Model!RetriesOnlyRejections
  <2>5. Model!BackoffCost'
    BY <1>1, <1>2, <1>3, <1>5, <2>1 DEF Model!BackoffCost
  <2> QED
    BY <2>3, <2>4, <2>5 DEF ModelInv
<1> QED
  BY <1>2, <1>4, <1>5

LEMMA ModelStays == ASSUME ModelInv, UNCHANGED modelVars PROVE ModelInv'
<1>1. UNCHANGED <<operation, schema, maxRetries, callPc, calls, rejected, slept, outcome>>
  BY DEF modelVars
<1> QED
  BY <1>1 DEF ModelInv, ModelStage, Model!TypeOK, Model!RetriesOnlyRejections, Model!BackoffCost,
     Model!TotalAttempts

(* A call of the model asks the provider again only after a response that  *)
(* the validator rejected and one delay, never more often than max_retries *)
(* allows; n retries cost delays of 1, 2, 4, ... seconds and nothing is    *)
(* slept after the last attempt; for every value of max_retries.           *)
THEOREM ModelCallAlwaysSound == Spec => []ModelCallSound
<1>1. Init => ModelInv
  BY ModelInit DEF Init
<1>2. ModelInv /\ [Next]_vars => ModelInv'
  <2> SUFFICES ASSUME ModelInv, [Next]_vars PROVE ModelInv'
    OBVIOUS
  <2>1. Model!Next \/ UNCHANGED modelVars
    BY DEF Next, vars
  <2> QED
    BY <2>1, ModelBegins, ModelEnds, ModelAnswers, ModelRejects, ModelWakes, ModelStays
       DEF Model!Next
<1>3. ModelInv => ModelCallSound
  BY DEF ModelInv, ModelCallSound
<1> QED
  BY <1>1, <1>2, <1>3, PTL DEF Spec

-----------------------------------------------------------------------------
(* The memory client.  Induction over the natural numbers, for the length  *)
(* of a prefix: a set with 0 and the successor of each member holds all.   *)
LEMMA InductiveSet ==
    ASSUME NEW S, 0 \in S, \A n \in Nat : n \in S => n + 1 \in S
    PROVE  Nat \subseteq S
<1> SUFFICES ASSUME Nat \ S # {} PROVE FALSE
  OBVIOUS
<1>1. PICK x \in Nat \ S : \A y \in Nat \ S : x <= y
  BY LeastNatural
<1>2. x # 0 /\ x - 1 \in Nat /\ (x - 1) + 1 = x /\ ~ (x <= x - 1)
  OBVIOUS
<1>3. x - 1 \in S
  BY <1>1, <1>2
<1> QED
  BY <1>1, <1>2, <1>3

(* What the k-th memory found adds to the prefix. *)
Weight(k) == IF k \in Memory!Parts THEN memories[k].size + Memory!Separator ELSE 0
Sums(f, n) == f = [i \in 0..n |-> IF i = 0 THEN 0 ELSE f[i - 1] + Weight(i)]

LEMMA WeightBounds ==
    ASSUME memories \in Seq(Memory!Content), NEW k \in Nat
    PROVE  /\ Weight(k) \in Nat
           /\ k \in Memory!Parts => Weight(k) = memories[k].size + 7 /\ memories[k].size \in Nat
<1>1. Sizes \subseteq Nat
  BY ServiceAssumption
<1>2. ASSUME k \in DOMAIN memories PROVE memories[k].size \in Nat
  <2>1. memories[k] \in Memory!Content
    BY <1>2
  <2> QED
    BY <1>1, <2>1 DEF Memory!Content
<1>3. Memory!Parts \subseteq DOMAIN memories
  BY DEF Memory!Parts
<1> QED
  BY <1>2, <1>3 DEF Weight, Memory!Separator

(* The recursion has a solution, so JoinedTo is one. *)
LEMMA JoinedEquation ==
    ASSUME memories \in Seq(Memory!Content)
    PROVE  Memory!JoinedTo = [k \in Nat |-> IF k = 0 THEN 0 ELSE Memory!JoinedTo[k - 1] + Weight(k)]
<1> DEFINE D == {n \in Nat : \E f \in [0..n -> Int] : Sums(f, n)}
<1>1. 0 \in D
  <2> DEFINE f == [i \in 0..0 |-> 0]
  <2>1. f \in [0..0 -> Int] /\ Sums(f, 0)
    BY DEF Sums
  <2> QED
    BY <2>1
<1>2. ASSUME NEW n \in Nat, NEW f \in [0..n -> Int], Sums(f, n)
      PROVE  \E g \in [0..(n + 1) -> Int] : Sums(g, n + 1)
  <2> DEFINE g == [i \in 0..(n + 1) |-> IF i <= n THEN f[i] ELSE f[n] + Weight(n + 1)]
  <2>1. f[n] + Weight(n + 1) \in Int
    <3>1. f[n] \in Int /\ n + 1 \in Nat
      OBVIOUS
    <3>2. Weight(n + 1) \in Nat
      BY <3>1, WeightBounds
    <3> QED
      BY <3>1, <3>2
  <2>2. g \in [0..(n + 1) -> Int]
    BY <2>1
  <2>3. ASSUME NEW i \in 0..(n + 1)
        PROVE  g[i] = IF i = 0 THEN 0 ELSE g[i - 1] + Weight(i)
    <3>1. CASE i = n + 1
      <4>1. i # 0 /\ i - 1 = n /\ ~ (i <= n) /\ n \in 0..(n + 1)
        BY <3>1
      <4>2. g[i] = f[n] + Weight(n + 1) /\ g[n] = f[n]
        BY <4>1
      <4> QED
        BY <3>1, <4>1, <4>2
    <3>2. CASE i \in 0..n
      <4>1. g[i] = f[i] /\ (i # 0 => g[i - 1] = f[i - 1])
        BY <3>2
      <4>2. f[i] = IF i = 0 THEN 0 ELSE f[i - 1] + Weight(i)
        BY <1>2, <3>2 DEF Sums
      <4> QED
        BY <4>1, <4>2
    <3> QED
      BY <3>1, <3>2
  <2> HIDE DEF g
  <2>4. Sums(g, n + 1)
    BY <2>2, <2>3 DEF Sums
  <2> QED
    BY <2>2, <2>4
<1>3. \A n \in Nat : n \in D => n + 1 \in D
  BY <1>2
<1>4. Nat \subseteq D
  <2> HIDE DEF D
  <2> QED
    BY <1>1, <1>3, InductiveSet
<1>5. \A n \in Nat : \E f \in [0..n -> Int] : Sums(f, n)
  BY <1>4
<1>6. ASSUME NEW m \in Nat, NEW n \in Nat, NEW f, NEW g, Sums(f, m), Sums(g, n)
      PROVE  \A i \in Nat : i <= m /\ i <= n => f[i] = g[i]
  <2> DEFINE E == {i \in Nat : i <= m /\ i <= n => f[i] = g[i]}
  <2>1. 0 \in E
    BY <1>6 DEF Sums
  <2>2. ASSUME NEW i \in Nat, i \in E PROVE i + 1 \in E
    <3> SUFFICES ASSUME i + 1 <= m, i + 1 <= n PROVE f[i + 1] = g[i + 1]
      OBVIOUS
    <3>1. f[i] = g[i]
      BY <2>2
    <3>2. i + 1 \in 0..m /\ i + 1 \in 0..n /\ i + 1 # 0 /\ (i + 1) - 1 = i
      OBVIOUS
    <3>3. f[i + 1] = f[i] + Weight(i + 1)
      BY <1>6, <3>2 DEF Sums
    <3>4. g[i + 1] = g[i] + Weight(i + 1)
      BY <1>6, <3>2 DEF Sums
    <3> QED
      BY <3>1, <3>3, <3>4
  <2>3. Nat \subseteq E
    <3> HIDE DEF E
    <3> QED
      BY <2>1, <2>2, InductiveSet
  <2> QED
    BY <2>3
<1> DEFINE F(n) == CHOOSE f : Sums(f, n)
           P == [n \in Nat |-> F(n)[n]]
<1>7. \A n \in Nat : Sums(F(n), n)
  BY <1>5
<1>8. ASSUME NEW n \in Nat PROVE P[n] = IF n = 0 THEN 0 ELSE P[n - 1] + Weight(n)
  <2>1. F(n)[n] = IF n = 0 THEN 0 ELSE F(n)[n - 1] + Weight(n)
    <3>1. n \in 0..n
      OBVIOUS
    <3> HIDE DEF F
    <3> QED
      BY <1>7, <3>1 DEF Sums
  <2>2. n # 0 => F(n)[n - 1] = F(n - 1)[n - 1]
    <3> HIDE DEF F
    <3> SUFFICES ASSUME n # 0 PROVE F(n)[n - 1] = F(n - 1)[n - 1]
      OBVIOUS
    <3>1. n - 1 \in Nat /\ n - 1 <= n
      OBVIOUS
    <3> QED
      BY <1>6, <1>7, <3>1
  <2>3. n # 0 => P[n - 1] = F(n - 1)[n - 1]
    OBVIOUS
  <2> QED
    BY <2>1, <2>2, <2>3
<1>9. P = [n \in Nat |-> IF n = 0 THEN 0 ELSE P[n - 1] + Weight(n)]
  <2> DEFINE Q == [n \in Nat |-> IF n = 0 THEN 0 ELSE P[n - 1] + Weight(n)]
  <2>1. \A n \in Nat : P[n] = Q[n]
    <3> HIDE DEF P
    <3> QED
      BY <1>8
  <2>2. P = [n \in Nat |-> P[n]] /\ Q = [n \in Nat |-> Q[n]]
    OBVIOUS
  <2>3. P = Q
    <3> HIDE DEF P, Q
    <3> QED
      BY <2>1, <2>2
  <2> QED
    BY <2>3
<1> HIDE DEF P
<1> QED
  BY <1>9 DEF Memory!JoinedTo, Weight

(* The joined contents hold each of their parts and its separator. *)
LEMMA JoinedBounds ==
    ASSUME memories \in Seq(Memory!Content)
    PROVE  \A k \in Nat : /\ Memory!JoinedTo[k] \in Nat
                          /\ \A j \in Memory!Parts : j <= k => Memory!JoinedTo[k] >= memories[j].size + 7
<1> DEFINE D == {k \in Nat : /\ Memory!JoinedTo[k] \in Nat
                             /\ \A j \in Memory!Parts : j <= k => Memory!JoinedTo[k] >= memories[j].size + 7}
<1>1. \A k \in Nat : Memory!JoinedTo[k] = IF k = 0 THEN 0 ELSE Memory!JoinedTo[k - 1] + Weight(k)
  <2> DEFINE J == Memory!JoinedTo
  <2>1. J = [k \in Nat |-> IF k = 0 THEN 0 ELSE J[k - 1] + Weight(k)]
    BY JoinedEquation
  <2> HIDE DEF J
  <2>2. \A k \in Nat : J[k] = IF k = 0 THEN 0 ELSE J[k - 1] + Weight(k)
    BY <2>1
  <2> QED
    BY <2>2 DEF J
<1>2. Memory!Parts \subseteq Nat /\ \A j \in Memory!Parts : j >= 1
  BY DEF Memory!Parts
<1>3. 0 \in D
  BY <1>1, <1>2
<1>4. ASSUME NEW k \in Nat, k \in D PROVE k + 1 \in D
  <2>1. Memory!JoinedTo[k + 1] = Memory!JoinedTo[k] + Weight(k + 1) /\ k + 1 \in Nat
    BY <1>1
  <2>2. Weight(k + 1) \in Nat /\ (k + 1 \in Memory!Parts => Weight(k + 1) = memories[k + 1].size + 7)
    BY <2>1, WeightBounds
  <2>3. Memory!JoinedTo[k] \in Nat
    BY <1>4
  <2>4. ASSUME NEW j \in Memory!Parts, j <= k + 1
        PROVE  Memory!JoinedTo[k + 1] >= memories[j].size + 7
    <3>1. j \in Nat /\ memories[j].size \in Nat
      BY <1>2, WeightBounds
    <3>2. CASE j = k + 1
      BY <2>1, <2>2, <2>3, <3>1, <3>2
    <3>3. CASE j <= k
      <4>1. Memory!JoinedTo[k] >= memories[j].size + 7
        BY <1>4, <3>3
      <4> QED
        BY <2>1, <2>2, <2>3, <3>1, <4>1
    <3> QED
      BY <2>4, <3>1, <3>2, <3>3
  <2> QED
    BY <2>1, <2>2, <2>3, <2>4
<1>5. Nat \subseteq D
  <2> HIDE DEF D
  <2> QED
    BY <1>3, <1>4, InductiveSet
<1> QED
  BY <1>5

(* Where the making of a client stands tells which backend was configured. *)
MemoryStage ==
    /\ setupPc \in {"hub", "hub import", "hub connect"} => Memory!HubConfigured
    /\ setupPc \in {"import", "factory"} => backend \in Memory!Helpers
    /\ setupPc = "custom" => backend = "custom"
    /\ setupPc \in {"dispatch", "hub", "hub import", "hub connect", "import", "factory", "custom",
                    "raised"} => memoryClient = "none"
    /\ setupPc # "ready" => prefix = 0 /\ cut = FALSE

MemoryInv ==
    /\ Memory!TypeOK /\ Memory!ClientAsConfigured /\ Memory!PrefixBounded
    /\ limit \in Nat /\ failed \in BOOLEAN /\ cut \in BOOLEAN
    /\ memories \in Seq(Memory!Content)
    /\ MemoryStage

LEMMA MemoryBegins == Memory!Init => MemoryInv
<1> SUFFICES ASSUME Memory!Init PROVE MemoryInv
  OBVIOUS
<1>1. limit \in Nat
  <2>1. Sizes \cup Limits \cup {SqliteLimit, PgLimit, MaxFound, MaxCrashes, MaxRestarts} \subseteq Nat
    BY ServiceAssumption
  <2> QED
    BY <2>1 DEF Memory!Init
<1>2. memories = <<>> /\ memories \in Seq(Memory!Content)
  BY DEF Memory!Init
<1>3. /\ backend \in Memory!Backends /\ setupPc = "dispatch" /\ memoryClient = "none"
      /\ failed = FALSE /\ prefix = 0 /\ cut = FALSE
  BY DEF Memory!Init
<1>4. Memory!TypeOK /\ Memory!ClientAsConfigured
  BY <1>3 DEF Memory!TypeOK, Memory!ClientAsConfigured
<1>5. Memory!PrefixBounded
  BY <1>1, <1>3 DEF Memory!PrefixBounded, Memory!Truncated
<1>6. MemoryStage
  BY <1>3 DEF MemoryStage
<1> QED
  BY <1>1, <1>2, <1>3, <1>4, <1>5, <1>6 DEF MemoryInv

(* A step on the way to the client: it has failed, or it goes on.          *)
LEMMA MemorySteps ==
    ASSUME MemoryInv,
           \/ Memory!Dispatch \/ Memory!HubExists \/ Memory!HubImport \/ Memory!HubConnect
           \/ Memory!ImportHelper \/ Memory!CallFactory \/ Memory!Custom
    PROVE  MemoryInv'
<1>1. UNCHANGED <<backend, classGiven, limit, memories, prefix, cut>>
  BY DEF Memory!Dispatch, Memory!HubExists, Memory!HubImport, Memory!HubConnect,
     Memory!ImportHelper, Memory!CallFactory, Memory!Custom, Memory!config, Memory!memory
<1>2. /\ setupPc \in {"dispatch", "hub", "hub import", "hub connect", "import", "factory", "custom"}
      /\ memoryClient = "none" /\ prefix = 0 /\ cut = FALSE
      /\ backend \in Memory!Backends /\ limit \in Nat
  BY DEF Memory!Dispatch, Memory!HubExists, Memory!HubImport, Memory!HubConnect,
     Memory!ImportHelper, Memory!CallFactory, Memory!Custom, MemoryInv, MemoryStage, Memory!TypeOK
<1> USE DEF Memory!GetsNull, Memory!Gets, Memory!Raise
<1>3. /\ failed' \in BOOLEAN
      /\ setupPc' \in {"hub", "hub import", "hub connect", "import", "factory", "custom",
                       "search", "raised"}
      /\ setupPc' = "search" => memoryClient' # "none"
      /\ setupPc' # "search" => memoryClient' = "none"
  BY <1>2 DEF Memory!Dispatch, Memory!HubExists, Memory!HubImport, Memory!HubConnect,
     Memory!ImportHelper, Memory!CallFactory, Memory!Custom, MemoryInv, MemoryStage, Memory!Helpers
<1>4. /\ memoryClient' \in {"none", "memoryhub", "custom", "null"} \cup Memory!Helpers
      /\ memoryClient' # "none" =>
            \/ memoryClient' = (IF backend = Memory!Unset THEN "memoryhub" ELSE backend)
            \/ memoryClient' = "null" /\ failed'
  BY <1>2 DEF Memory!Dispatch, Memory!HubExists, Memory!HubImport, Memory!HubConnect,
     Memory!ImportHelper, Memory!CallFactory, Memory!Custom, MemoryInv, MemoryStage,
     Memory!Helpers, Memory!HubConfigured, Memory!Unset
<1>5. MemoryStage'
  <2>1. /\ setupPc' \in {"hub", "hub import", "hub connect"} => Memory!HubConfigured
        /\ setupPc' \in {"import", "factory"} => backend \in Memory!Helpers
        /\ setupPc' = "custom" => backend = "custom"
    BY <1>2 DEF Memory!Dispatch, Memory!HubExists, Memory!HubImport, Memory!HubConnect,
       Memory!ImportHelper, Memory!CallFactory, Memory!Custom, MemoryInv, MemoryStage
  <2> QED
    BY <1>1, <1>2, <1>3, <2>1 DEF MemoryStage, Memory!HubConfigured, Memory!Helpers
<1>6. Memory!TypeOK'
  BY <1>1, <1>2, <1>3, <1>4 DEF MemoryInv, Memory!TypeOK, Memory!Backends, Memory!Helpers
<1>7. Memory!ClientAsConfigured'
  BY <1>1, <1>4 DEF Memory!ClientAsConfigured, Memory!Unset
<1>8. Memory!PrefixBounded'
  BY <1>1, <1>2, <1>3 DEF MemoryInv, Memory!PrefixBounded, Memory!Truncated
<1> QED
  BY <1>1, <1>2, <1>3, <1>5, <1>6, <1>7, <1>8 DEF MemoryInv, Memory!Content

LEMMA MemorySearches == ASSUME MemoryInv, Memory!Search PROVE MemoryInv'
<1>1. /\ setupPc = "search" /\ setupPc' \in {"build", "search raised"}
      /\ UNCHANGED <<backend, classGiven, limit, memoryClient, failed, prefix, cut>>
      /\ memories' = memories \/ memories' \in Memory!BoundedSeq(Memory!Content, MaxFound)
  BY DEF Memory!Search, Memory!config
<1>2. memories' \in Seq(Memory!Content)
  <2>1. CASE memories' = memories
    BY <2>1 DEF MemoryInv
  <2>2. CASE memories' \in Memory!BoundedSeq(Memory!Content, MaxFound)
    <3>1. PICK n \in 0..MaxFound : memories' \in [1..n -> Memory!Content]
      BY <2>2 DEF Memory!BoundedSeq, Memory!SeqOf
    <3>2. n \in Nat
      OBVIOUS
    <3> QED
      BY <3>1, <3>2
  <2> QED
    BY <1>1, <2>1, <2>2
<1>3. Memory!TypeOK' /\ MemoryStage'
  BY <1>1 DEF MemoryInv, Memory!TypeOK, MemoryStage, Memory!Helpers, Memory!Backends
<1>4. Memory!ClientAsConfigured' /\ Memory!PrefixBounded'
  BY <1>1 DEF MemoryInv, Memory!ClientAsConfigured, Memory!PrefixBounded, MemoryStage, Memory!Truncated
<1>5. Memory!Content' = Memory!Content
  BY DEF Memory!Content
<1> QED
  BY <1>1, <1>2, <1>3, <1>4, <1>5 DEF MemoryInv

(* The prefix is as long as what was joined, or is cut at the limit.       *)
LEMMA MemoryBuilds == ASSUME MemoryInv, Memory!BuildPrefix PROVE MemoryInv'
<1> DEFINE last == Len(memories)
<1>1. /\ setupPc = "build" /\ setupPc' = "ready"
      /\ UNCHANGED <<backend, classGiven, limit, memoryClient, failed, memories>>
      /\ cut' = (Memory!Parts # {} /\ limit > 0 /\ Memory!Joined > limit)
      /\ prefix' = CASE Memory!Parts = {} -> 0
                     [] cut' -> limit + Memory!Truncated
                     [] OTHER -> Memory!Joined
  BY DEF Memory!BuildPrefix, Memory!config
<1>2. /\ memories \in Seq(Memory!Content) /\ limit \in Nat /\ last \in Nat
  BY DEF MemoryInv
<1>3. Memory!Joined = Memory!JoinedTo[last] - 7
  BY DEF Memory!Joined, Memory!Separator
<1>4. /\ Memory!JoinedTo[last] \in Nat
      /\ \A j \in Memory!Parts : j <= last => Memory!JoinedTo[last] >= memories[j].size + 7
  BY <1>2, JoinedBounds
<1>5. /\ Memory!Joined \in Int
      /\ \A j \in Memory!Parts : memories[j].size \in Nat /\ Memory!Joined >= memories[j].size
  <2> SUFFICES ASSUME NEW j \in Memory!Parts
               PROVE  memories[j].size \in Nat /\ Memory!Joined >= memories[j].size
    BY <1>3, <1>4
  <2>1. j \in Nat /\ j <= last
    BY <1>2 DEF Memory!Parts
  <2>2. memories[j].size \in Nat
    BY <1>2, <2>1, WeightBounds
  <2> QED
    BY <1>3, <1>4, <2>1, <2>2
<1>6. /\ prefix' \in Nat /\ cut' \in BOOLEAN
      /\ cut' => prefix' = limit + 15
      /\ ~ cut' => (limit # 0 => prefix' <= limit) /\ \A j \in Memory!Parts : memories[j].size <= prefix'
  <2>1. CASE Memory!Parts = {}
    <3>1. prefix' = 0
      BY <1>1, <2>1
    <3>2. cut' = FALSE
      BY <1>1, <2>1
    <3>3. prefix' \in Nat /\ prefix' <= limit
      BY <1>2, <3>1
    <3>4. \A j \in Memory!Parts : memories[j].size <= prefix'
      BY <2>1
    <3> QED
      BY <3>2, <3>3, <3>4
  <2>2. CASE Memory!Parts # {} /\ limit > 0 /\ Memory!Joined > limit
    <3>1. cut' = TRUE
      BY <1>1, <2>2
    <3>2. prefix' = limit + 15
      BY <1>1, <2>2, <3>1 DEF Memory!Truncated
    <3> QED
      BY <1>2, <3>1, <3>2
  <2>3. CASE Memory!Parts # {} /\ ~ (limit > 0 /\ Memory!Joined > limit)
    <3>1. prefix' = Memory!Joined /\ cut' = FALSE
      BY <1>1, <2>3
    <3>2. PICK j \in Memory!Parts : TRUE
      BY <2>3
    <3>3. Memory!Joined \in Nat
      BY <1>5, <3>2
    <3>4. limit # 0 => Memory!Joined <= limit
      BY <1>2, <1>5, <2>3
    <3> QED
      BY <1>5, <3>1, <3>3, <3>4
  <2> QED
    BY <2>1, <2>2, <2>3
<1>7. Memory!TypeOK'
  BY <1>1, <1>2, <1>6 DEF MemoryInv, Memory!TypeOK
<1>8. Memory!ClientAsConfigured'
  BY <1>1 DEF MemoryInv, Memory!ClientAsConfigured
<1>9. Memory!PrefixBounded'
  <2>1. limit # 0 => prefix' <= limit + 15
    BY <1>2, <1>6
  <2>2. ASSUME ~ cut', NEW k \in DOMAIN memories PROVE memories[k].blank \/ memories[k].size <= prefix'
    <3>1. k \in Nat /\ memories[k] \in Memory!Content
      BY <1>2
    <3>2. CASE k \in Memory!Parts
      BY <1>6, <2>2, <3>2
    <3>3. CASE k \notin Memory!Parts
      <4>1. memories[k].blank \/ ~ (memories[k].size > 0)
        BY <3>3 DEF Memory!Parts
      <4>2. memories[k].size \in Nat
        <5>1. Sizes \cup Limits \cup {SqliteLimit, PgLimit, MaxFound, MaxCrashes, MaxRestarts} \subseteq Nat
          BY ServiceAssumption
        <5>2. memories[k].size \in Sizes
          BY <3>1 DEF Memory!Content
        <5> QED
          BY <5>1, <5>2
      <4> QED
        BY <4>1, <4>2, <1>6
    <3> QED
      BY <3>2, <3>3
  <2> QED
    BY <1>1, <2>1, <2>2 DEF Memory!PrefixBounded, Memory!Truncated
<1>10. MemoryStage'
  BY <1>1 DEF MemoryInv, MemoryStage
<1>11. Memory!Content' = Memory!Content
  BY DEF Memory!Content
<1> QED
  BY <1>1, <1>2, <1>6, <1>7, <1>8, <1>9, <1>10, <1>11 DEF MemoryInv

LEMMA MemoryStays == ASSUME MemoryInv, UNCHANGED memoryVars PROVE MemoryInv'
<1>1. UNCHANGED <<backend, classGiven, limit, setupPc, memoryClient, failed, memories, prefix, cut>>
  BY DEF memoryVars
<1>2. Memory!TypeOK' /\ MemoryStage' /\ Memory!ClientAsConfigured'
  <2>1. Memory!TypeOK'
    BY <1>1 DEF MemoryInv, Memory!TypeOK, Memory!Backends
  <2>2. MemoryStage'
    <3>1. Memory!HubConfigured' = Memory!HubConfigured
      BY <1>1 DEF Memory!HubConfigured
    <3>2. backend' \in Memory!Helpers <=> backend \in Memory!Helpers
      BY <1>1
    <3> QED
      BY <1>1, <3>1, <3>2 DEF MemoryInv, MemoryStage, Memory!Helpers
  <2>3. Memory!ClientAsConfigured'
    BY <1>1 DEF MemoryInv, Memory!ClientAsConfigured, Memory!HubConfigured, Memory!Helpers, Memory!Backends
  <2> QED
    BY <2>1, <2>2, <2>3
<1>3. Memory!PrefixBounded'
  BY <1>1 DEF MemoryInv, Memory!PrefixBounded, Memory!Truncated
<1> QED
  BY <1>1, <1>2, <1>3 DEF MemoryInv, Memory!Content

(* MemorySetupSound for any contents and any limit: the client is the one  *)
(* configured unless a step failed, and the prefix keeps its limit.        *)
THEOREM MemorySetupAlwaysSound == Spec => []MemorySetupSound
<1>1. Init => MemoryInv
  BY MemoryBegins DEF Init
<1>2. MemoryInv /\ [Next]_vars => MemoryInv'
  <2> SUFFICES ASSUME MemoryInv, [Next]_vars PROVE MemoryInv'
    OBVIOUS
  <2>1. Memory!Next \/ UNCHANGED memoryVars
    BY DEF Next, vars
  <2> QED
    BY <2>1, MemorySteps, MemorySearches, MemoryBuilds, MemoryStays DEF Memory!Next
<1>3. MemoryInv => MemorySetupSound
  BY DEF MemoryInv, MemorySetupSound
<1> QED
  BY <1>1, <1>2, <1>3, PTL DEF Spec

-----------------------------------------------------------------------------
(* Markdown.  Level 1: what an update has read, and the file while nobody  *)
(* rewrites it, holds all that was returned and did not overlap.  Level 2: *)
(* so does the file of a name, unless the update that truncated it is to   *)
(* give it a later body.  Two operations under way overlap.                *)
Keeps(s, o) == \E k \in DOMAIN s : s[k].uid = place[o] /\ s[k].at >= at[o]
Returned(o) == mdPc[o] = "done" /\ o \notin overlapped
Truncates(name) == \E u \in Markdown!Ops : mdPc[u] = "truncated" /\ key[u] = name

MarkdownTyped ==
    /\ key \in [Markdown!Ops -> Names \cup {NoName}]
    /\ \A u \in Writes["markdown"] \cup Updates["markdown"] :
          u \in Updates["markdown"] => key[u] # NoName
    /\ text \in [Markdown!Ops -> Seq(Markdown!Section)] /\ doc \in Seq(Markdown!Section)
    /\ place \in [Markdown!Ops -> Markdown!Ops \X {1, 2}]
    /\ clock \in Nat /\ torn \in BOOLEAN

MarkdownSteps ==
    \A o \in Markdown!UnderWay :
        /\ level = 1 => o \in Updates["markdown"] /\ Markdown!Named(text[o], key[o]) # {}
        /\ level = 2 => key[o] \in Names
        /\ level = 2 /\ o \in Updates["markdown"] /\ mdPc[o] = "read" =>
              Markdown!Named(doc, key[o]) # {}

Overlapping == \A o, p \in Markdown!UnderWay : o # p => o \in overlapped

TextsKeep ==
    level = 1 /\ ~ torn =>
        \A u \in Markdown!UnderWay : \A o \in Markdown!Ops : Returned(o) => Keeps(text[u], o)

FileKeeps ==
    level = 1 /\ ~ torn /\ ~ Markdown!HalfWritten =>
        \A o \in Markdown!Ops : Returned(o) => Keeps(doc, o)

FilesKeep ==
    level = 2 /\ ~ torn =>
        \A o \in Markdown!Ops : Returned(o) /\ ~ Markdown!Replaced(o) =>
            \E k \in DOMAIN doc : /\ doc[k].uid = place[o] /\ doc[k].id = key[o]
                                  /\ doc[k].at >= at[o] \/ Truncates(key[o])

EmptyIsThere ==
    level = 2 =>
        \A u \in Markdown!Ops \ overlapped : mdPc[u] = "truncated" =>
            \E k \in DOMAIN doc : doc[k].uid = place[u] /\ doc[k].id = key[u]

MarkdownInv ==
    /\ Markdown!TypeOK /\ MarkdownTyped /\ MarkdownSteps /\ Overlapping
    /\ TextsKeep /\ FileKeeps /\ FilesKeep /\ EmptyIsThere

LEMMA MarkdownBegins == Markdown!Init => MarkdownInv
<1> SUFFICES ASSUME Markdown!Init PROVE MarkdownInv
  OBVIOUS
<1>1. /\ doc = <<>> /\ clock = 0 /\ torn = FALSE /\ overlapped = {}
      /\ mdPc = [o \in Markdown!Ops |-> "idle"] /\ at = [o \in Markdown!Ops |-> 0]
      /\ text = [o \in Markdown!Ops |-> <<>>] /\ level \in {1, 2}
      /\ place = [o \in Markdown!Ops |-> <<o, 1>>]
  BY DEF Markdown!Init
<1>2. Markdown!TypeOK
  BY <1>1 DEF Markdown!TypeOK, Markdown!ToSet
<1>3. MarkdownTyped
  <2>1. key \in [Markdown!Ops -> Names \cup {NoName}] /\ \A u \in Updates["markdown"] : key[u] # NoName
    BY DEF Markdown!Init
  <2>2. place \in [Markdown!Ops -> Markdown!Ops \X {1, 2}]
    BY <1>1
  <2>3. text \in [Markdown!Ops -> Seq(Markdown!Section)] /\ doc \in Seq(Markdown!Section)
    BY <1>1
  <2> QED
    BY <1>1, <2>1, <2>2, <2>3 DEF MarkdownTyped
<1>4. Markdown!UnderWay = {} /\ \A o \in Markdown!Ops : mdPc[o] = "idle"
  BY <1>1 DEF Markdown!UnderWay
<1> QED
  BY <1>2, <1>3, <1>4 DEF MarkdownInv, MarkdownSteps, Overlapping, TextsKeep, FileKeeps, FilesKeep,
     EmptyIsThere, Returned

(* The first of the sections of a name is one of them.                     *)
LEMMA FirstNamed ==
    ASSUME NEW s \in Seq(Markdown!Section), NEW id, Markdown!Named(s, id) # {}
    PROVE  /\ Markdown!Position(s, id) \in DOMAIN s
           /\ s[Markdown!Position(s, id)].id = id
<1> DEFINE K == Markdown!Named(s, id)
<1>1. K \in SUBSET Nat /\ K # {} /\ K \subseteq DOMAIN s /\ \A k \in K : s[k].id = id
  BY DEF Markdown!Named
<1>2. \E k \in K : \A j \in K : k <= j
  <2> HIDE DEF K
  <2> QED
    BY <1>1, LeastNatural
<1> QED
  BY <1>1, <1>2 DEF Markdown!Position

(* Who is under way next, and who overlaps.                                *)
LEMMA Overlap ==
    ASSUME Overlapping, NEW o \in Markdown!Ops,
           \A p \in Markdown!Ops : p \in Markdown!UnderWay' => p \in Markdown!UnderWay \/ p = o,
           overlapped' = overlapped \cup Markdown!Overlaps(o)
    PROVE  Overlapping'
<1> SUFFICES ASSUME NEW p \in Markdown!UnderWay', NEW q \in Markdown!UnderWay', p # q
             PROVE  p \in overlapped'
  BY DEF Overlapping
<1>1. p \in Markdown!Ops /\ q \in Markdown!Ops
  BY DEF Markdown!UnderWay, Markdown!Ops
<1>2. CASE p \in Markdown!UnderWay /\ q \in Markdown!UnderWay
  BY <1>2 DEF Overlapping
<1>3. CASE p = o \/ q = o
  BY <1>1, <1>3 DEF Markdown!Overlaps
<1> QED
  BY <1>1, <1>2, <1>3

(* A step that writes nothing and truncates nothing: whatever it makes of  *)
(* the operations, the stores and texts stay.                              *)
LEMMA MarkdownMoves ==
    ASSUME MarkdownInv,
           UNCHANGED <<level, key, headed, text, doc, place, at, clock>>,
           overlapped \subseteq overlapped', torn' \in BOOLEAN, torn => torn',
           mdPc' \in [Markdown!Ops -> {"idle", "read", "truncated", "done", "failed", "unknown",
                                       "ended"}],
           \A o \in Markdown!Ops :
               /\ mdPc'[o] = "done" => mdPc[o] = "done"
               /\ mdPc'[o] = "truncated" => mdPc[o] = "truncated"
               /\ mdPc[o] # "idle" => mdPc'[o] # "idle"
               /\ mdPc[o] = "truncated" /\ mdPc'[o] # "truncated" => torn',
           level = 1 => Markdown!UnderWay' \subseteq Markdown!UnderWay,
           MarkdownSteps', Overlapping'
    PROVE  MarkdownInv'
<1>1. Markdown!Ops' = Markdown!Ops /\ Markdown!Section' = Markdown!Section
  BY DEF Markdown!Ops, Markdown!Section
<1>2. Markdown!TypeOK'
  BY <1>1 DEF MarkdownInv, Markdown!TypeOK, Markdown!ToSet
<1>3. MarkdownTyped'
  BY <1>1 DEF MarkdownInv, MarkdownTyped
<1>4. \A o \in Markdown!Ops : Returned(o)' => Returned(o)
  BY DEF Returned
<1>5. \A o, s : Keeps(s, o)' <=> Keeps(s', o)
  BY DEF Keeps
<1>6. TextsKeep'
  <2> SUFFICES ASSUME level = 1, ~ torn', NEW u \in Markdown!UnderWay', NEW o \in Markdown!Ops,
                      Returned(o)'
               PROVE  Keeps(text[u], o)'
    BY <1>1 DEF TextsKeep
  <2>1. Keeps(text[u], o)
    BY <1>4 DEF MarkdownInv, TextsKeep
  <2> QED
    BY <2>1 DEF Keeps
<1>7. FileKeeps'
  <2> SUFFICES ASSUME level = 1, ~ torn', ~ Markdown!HalfWritten', NEW o \in Markdown!Ops,
                      Returned(o)'
               PROVE  Keeps(doc, o)'
    BY <1>1 DEF FileKeeps
  <2>1. ~ Markdown!HalfWritten
    BY DEF Markdown!HalfWritten
  <2>2. Keeps(doc, o)
    BY <1>4, <2>1 DEF MarkdownInv, FileKeeps
  <2> QED
    BY <2>2 DEF Keeps
<1>8. FilesKeep'
  <2> SUFFICES ASSUME level = 2, ~ torn', NEW o \in Markdown!Ops, Returned(o)',
                      ~ Markdown!Replaced(o)'
               PROVE  \E k \in DOMAIN doc : /\ doc[k].uid = place[o] /\ doc[k].id = key[o]
                                            /\ doc[k].at >= at[o] \/ Truncates(key[o])'
    BY <1>1 DEF FilesKeep
  <2>1. ~ Markdown!Replaced(o)
    BY DEF Markdown!Replaced, Markdown!Ops
  <2>2. Truncates(key[o]) => Truncates(key[o])'
    BY <1>1 DEF Truncates
  <2> QED
    BY <1>4, <2>1, <2>2 DEF MarkdownInv, FilesKeep
<1>9. EmptyIsThere'
  BY <1>1 DEF MarkdownInv, EmptyIsThere
<1> QED
  BY <1>2, <1>3, <1>6, <1>7, <1>8, <1>9 DEF MarkdownInv

(* The steps of an operation that neither write nor truncate.              *)
LEMMA MarkdownChecks ==
    ASSUME MarkdownInv, NEW o \in Markdown!Ops, NEW to \in {"read", "failed", "unknown"},
           UNCHANGED <<level, key, headed, text, doc, place, at, clock>>,
           Markdown!Ends(o, to), torn' \in BOOLEAN, torn => torn',
           mdPc[o] = "truncated" => torn', mdPc[o] # "done",
           to = "read" => level = 2 /\ key[o] \in Names
                          /\ (o \in Updates["markdown"] => Markdown!Named(doc, key[o]) # {}),
           \/ overlapped' = overlapped \cup Markdown!Overlaps(o)
           \/ overlapped' = overlapped /\ to # "read"
    PROVE  MarkdownInv'
<1>1. Markdown!Ops' = Markdown!Ops
  BY DEF Markdown!Ops
<1>2. mdPc \in [Markdown!Ops -> {"idle", "read", "truncated", "done", "failed", "unknown", "ended"}]
  BY DEF MarkdownInv, Markdown!TypeOK
<1>3. /\ mdPc' \in [Markdown!Ops -> {"idle", "read", "truncated", "done", "failed", "unknown",
                                      "ended"}]
      /\ \A p \in Markdown!Ops : mdPc'[p] = IF p = o THEN to ELSE mdPc[p]
  BY <1>2 DEF Markdown!Ends
<1>4. \A p \in Markdown!Ops :
         p \in Markdown!UnderWay' =>
             \/ p \in Markdown!UnderWay /\ p # o
             \/ p = o /\ to = "read"
  BY <1>1, <1>3 DEF Markdown!UnderWay
<1>5. Overlapping'
  <2>1. CASE overlapped' = overlapped \cup Markdown!Overlaps(o)
    BY <1>4, <2>1, Overlap DEF MarkdownInv
  <2>2. CASE overlapped' = overlapped /\ to # "read"
    <3>1. Markdown!UnderWay' \subseteq Markdown!UnderWay
      BY <1>1, <1>4, <2>2 DEF Markdown!UnderWay
    <3> QED
      BY <2>2, <3>1 DEF MarkdownInv, Overlapping
  <2> QED
    BY <2>1, <2>2
<1>6. MarkdownSteps'
  <2> SUFFICES ASSUME NEW p \in Markdown!UnderWay'
               PROVE  /\ level = 1 => p \in Updates["markdown"] /\ Markdown!Named(text[p], key[p]) # {}
                      /\ level = 2 => key[p] \in Names
                      /\ level = 2 /\ p \in Updates["markdown"] /\ mdPc'[p] = "read" =>
                            Markdown!Named(doc, key[p]) # {}
    BY DEF MarkdownSteps, Markdown!Named
  <2>1. p \in Markdown!Ops
    BY <1>1 DEF Markdown!UnderWay
  <2>2. CASE p = o
    BY <1>4, <2>1, <2>2
  <2>3. CASE p # o
    <3>1. p \in Markdown!UnderWay /\ mdPc'[p] = mdPc[p]
      BY <1>3, <1>4, <2>1, <2>3
    <3> QED
      BY <3>1 DEF MarkdownInv, MarkdownSteps
  <2> QED
    BY <2>2, <2>3
<1>7. overlapped \subseteq overlapped'
  OBVIOUS
<1>8. level = 1 => Markdown!UnderWay' \subseteq Markdown!UnderWay
  BY <1>1, <1>4 DEF Markdown!UnderWay
<1>9. \A p \in Markdown!Ops :
         /\ mdPc'[p] = "done" => mdPc[p] = "done"
         /\ mdPc'[p] = "truncated" => mdPc[p] = "truncated"
         /\ mdPc[p] # "idle" => mdPc'[p] # "idle"
         /\ mdPc[p] = "truncated" /\ mdPc'[p] # "truncated" => torn'
  BY <1>3
<1> QED
  BY <1>3, <1>5, <1>6, <1>7, <1>8, <1>9, MarkdownMoves

(* A process that ends takes what is under way with it.                    *)
LEMMA MarkdownCrashes == ASSUME MarkdownInv, Markdown!Crash PROVE MarkdownInv'
<1>1. /\ UNCHANGED <<level, key, headed, text, doc, place, at, clock>> /\ overlapped' = overlapped
      /\ torn' = (torn \/ Markdown!HalfWritten)
      /\ mdPc' = [o \in Markdown!Ops |-> IF o \in Markdown!UnderWay THEN "ended" ELSE mdPc[o]]
  BY DEF Markdown!Crash, Markdown!inputs
<1>2. mdPc \in [Markdown!Ops -> {"idle", "read", "truncated", "done", "failed", "unknown", "ended"}]
  BY DEF MarkdownInv, Markdown!TypeOK
<1>3. torn' \in BOOLEAN /\ (torn => torn')
  BY <1>1 DEF MarkdownInv, MarkdownTyped
<1>4. mdPc' \in [Markdown!Ops -> {"idle", "read", "truncated", "done", "failed", "unknown", "ended"}]
  BY <1>1, <1>2
<1>5. Markdown!UnderWay' = {}
  BY <1>1 DEF Markdown!UnderWay, Markdown!Ops
<1>6. \A p \in Markdown!Ops : /\ mdPc'[p] = "done" => mdPc[p] = "done"
                              /\ mdPc'[p] = "truncated" => mdPc[p] = "truncated"
                              /\ mdPc[p] # "idle" => mdPc'[p] # "idle"
  BY <1>1
<1>7. \A p \in Markdown!Ops : mdPc[p] = "truncated" => torn'
  BY <1>1 DEF Markdown!HalfWritten
<1>8. MarkdownSteps' /\ Overlapping'
  BY <1>5 DEF MarkdownSteps, Overlapping
<1> QED
  BY <1>1, <1>3, <1>4, <1>5, <1>6, <1>7, <1>8, MarkdownMoves

(* An operation that reads the file has all that is in it; if it is half   *)
(* written, nothing is promised any more.                                  *)
LEMMA MarkdownReads ==
    ASSUME MarkdownInv, NEW o \in Markdown!Ops, Markdown!Read1(o), mdPc'[o] = "read"
    PROVE  MarkdownInv'
<1>1. /\ UNCHANGED <<level, key, headed, doc, place, at, clock>>
      /\ level = 1 /\ o \in Updates["markdown"] /\ mdPc[o] = "idle"
      /\ overlapped' = overlapped \cup Markdown!Overlaps(o)
      /\ torn' = (torn \/ Markdown!HalfWritten)
      /\ text' = [text EXCEPT ![o] = doc] /\ Markdown!Ends(o, "read")
      /\ Markdown!Named(doc, key[o]) # {}
  <2>1. mdPc \in [Markdown!Ops -> {"idle", "read", "truncated", "done", "failed", "unknown", "ended"}]
    BY DEF MarkdownInv, Markdown!TypeOK
  <2>2. ~ Markdown!Ends(o, "unknown")
    BY <2>1 DEF Markdown!Ends
  <2> QED
    BY <2>2 DEF Markdown!Read1, Markdown!inputs
<1>2. Markdown!Ops' = Markdown!Ops /\ Markdown!Section' = Markdown!Section
  BY <1>1 DEF Markdown!Ops, Markdown!Section
<1>3. /\ mdPc \in [Markdown!Ops -> {"idle", "read", "truncated", "done", "failed", "unknown", "ended"}]
      /\ text \in [Markdown!Ops -> Seq(Markdown!Section)] /\ doc \in Seq(Markdown!Section)
      /\ torn \in BOOLEAN
  BY DEF MarkdownInv, Markdown!TypeOK, MarkdownTyped
<1>4. /\ mdPc' \in [Markdown!Ops -> {"idle", "read", "truncated", "done", "failed", "unknown",
                                      "ended"}]
      /\ \A p \in Markdown!Ops : mdPc'[p] = IF p = o THEN "read" ELSE mdPc[p]
      /\ text' \in [Markdown!Ops -> Seq(Markdown!Section)]
      /\ \A p \in Markdown!Ops : text'[p] = IF p = o THEN doc ELSE text[p]
      /\ torn' \in BOOLEAN
  BY <1>1, <1>3 DEF Markdown!Ends
<1>5. \A p \in Markdown!Ops : p \in Markdown!UnderWay' => p \in Markdown!UnderWay \/ p = o
  BY <1>2, <1>4 DEF Markdown!UnderWay
<1>6. Overlapping'
  BY <1>1, <1>5, Overlap DEF MarkdownInv
<1>7. Markdown!TypeOK'
  BY <1>1, <1>2, <1>4 DEF MarkdownInv, Markdown!TypeOK, Markdown!ToSet
<1>8. MarkdownTyped'
  BY <1>1, <1>2, <1>4 DEF MarkdownInv, MarkdownTyped
<1>9. MarkdownSteps'
  BY <1>1, <1>2, <1>4, <1>5 DEF MarkdownInv, MarkdownSteps, Markdown!Named, Markdown!UnderWay
<1>10. \A p \in Markdown!Ops : Returned(p)' => Returned(p)
  BY <1>1, <1>4 DEF Returned
<1>11. TextsKeep'
  <2> SUFFICES ASSUME ~ torn', NEW u \in Markdown!UnderWay', NEW p \in Markdown!Ops, Returned(p)'
               PROVE  Keeps(text[u], p)'
    BY <1>2 DEF TextsKeep
  <2>1. ~ torn /\ ~ Markdown!HalfWritten /\ u \in Markdown!Ops
    BY <1>1, <1>2 DEF Markdown!UnderWay
  <2>2. CASE u = o
    <3>1. Keeps(doc, p)
      BY <1>1, <1>10, <2>1 DEF MarkdownInv, FileKeeps
    <3> QED
      BY <1>1, <1>4, <2>1, <2>2, <3>1 DEF Keeps
  <2>3. CASE u # o
    <3>1. Keeps(text[u], p)
      BY <1>1, <1>5, <1>10, <2>1, <2>3 DEF MarkdownInv, TextsKeep
    <3> QED
      BY <1>1, <1>4, <2>1, <2>3, <3>1 DEF Keeps
  <2> QED
    BY <2>2, <2>3
<1>12. FileKeeps'
  <2> SUFFICES ASSUME ~ torn', NEW p \in Markdown!Ops, Returned(p)' PROVE Keeps(doc, p)'
    BY <1>2 DEF FileKeeps
  <2>1. Keeps(doc, p)
    BY <1>1, <1>10 DEF MarkdownInv, FileKeeps
  <2> QED
    BY <1>1, <2>1 DEF Keeps
<1>13. FilesKeep' /\ EmptyIsThere'
  BY <1>1 DEF FilesKeep, EmptyIsThere
<1> QED
  BY <1>6, <1>7, <1>8, <1>9, <1>11, <1>12, <1>13 DEF MarkdownInv

(* Two sequences joined, and a part of one, item by item.                  *)
LEMMA Joined ==
    ASSUME NEW S, NEW a \in Seq(S), NEW b \in Seq(S)
    PROVE  /\ a \o b \in Seq(S) /\ Len(a \o b) = Len(a) + Len(b)
           /\ \A i \in 1..Len(a) : (a \o b)[i] = a[i]
           /\ \A i \in 1..Len(b) : (a \o b)[Len(a) + i] = b[i]
<1>1. Len(a) \in Nat /\ Len(b) \in Nat
  OBVIOUS
<1>2. /\ a \o b \in Seq(S) /\ Len(a \o b) = Len(a) + Len(b)
      /\ \A i \in 1..(Len(a) + Len(b)) : (a \o b)[i] = IF i <= Len(a) THEN a[i] ELSE b[i - Len(a)]
  BY ConcatProperties
<1>3. ASSUME NEW i \in 1..Len(a) PROVE (a \o b)[i] = a[i]
  <2>1. i \in 1..(Len(a) + Len(b)) /\ i <= Len(a)
    BY <1>1
  <2> QED
    BY <1>2, <2>1
<1>4. ASSUME NEW i \in 1..Len(b) PROVE (a \o b)[Len(a) + i] = b[i]
  <2>1. Len(a) + i \in 1..(Len(a) + Len(b)) /\ ~ (Len(a) + i <= Len(a)) /\ Len(a) + i - Len(a) = i
    BY <1>1
  <2> QED
    BY <1>2, <2>1
<1> QED
  BY <1>2, <1>3, <1>4

LEMMA Part ==
    ASSUME NEW S, NEW s \in Seq(S), NEW m \in Nat, NEW n \in Nat, 1 <= m, m <= n + 1, n <= Len(s)
    PROVE  /\ SubSeq(s, m, n) \in Seq(S) /\ Len(SubSeq(s, m, n)) = n + 1 - m
           /\ \A i \in 1..(n + 1 - m) : SubSeq(s, m, n)[i] = s[m + i - 1]
<1>1. Len(s) \in Nat /\ DOMAIN s = 1..Len(s) /\ m \in Int /\ n \in Int
  OBVIOUS
<1>2. \A i \in m..n : s[i] \in S
  BY <1>1
<1>3. /\ SubSeq(s, m, n) \in Seq(S) /\ Len(SubSeq(s, m, n)) = IF m <= n THEN n - m + 1 ELSE 0
      /\ \A i \in 1..(n - m + 1) : SubSeq(s, m, n)[i] = s[m + i - 1]
  BY <1>1, <1>2, SubSeqProperties
<1>4. n - m + 1 = n + 1 - m /\ (IF m <= n THEN n - m + 1 ELSE 0) = n + 1 - m
  OBVIOUS
<1> QED
  BY <1>3, <1>4

(* What is put in the place of an item of a sequence, and what stays.      *)
Splice(s, k, b) == SubSeq(s, 1, k - 1) \o b \o SubSeq(s, k + 1, Len(s))

(* Where the items of a sequence are once m items stand for the k-th.      *)
SpliceMoves(n, m, k) ==
    \A j \in 1..n : k < j =>
        /\ j - k \in 1..(n + 1 - (k + 1)) /\ j - k \in 1..(n - k)
        /\ k - 1 + m + (j - k) \in 1..(k - 1 + m + (n - k)) /\ k + 1 + (j - k) - 1 = j

LEMMA SplicePlaces ==
    ASSUME NEW n \in Nat, NEW m \in Nat, m >= 1, NEW k \in 1..n
    PROVE  /\ k - 1 + 1 \in 1..(k - 1 + m) /\ k - 1 + 1 \in 1..(k - 1 + m + (n - k)) /\ 1 \in 1..m
           /\ SpliceMoves(n, m, k)
BY DEF SpliceMoves

LEMMA Spliced ==
    ASSUME NEW S, NEW s \in Seq(S), NEW k \in DOMAIN s, NEW b \in Seq(S), b # <<>>
    PROVE  /\ Splice(s, k, b) \in Seq(S)
           /\ \A j \in DOMAIN s : j # k =>
                 \E i \in DOMAIN Splice(s, k, b) : Splice(s, k, b)[i] = s[j]
           /\ \E i \in DOMAIN Splice(s, k, b) : Splice(s, k, b)[i] = b[1]
<1> DEFINE n == Len(s)
           m == Len(b)
           p == SubSeq(s, 1, k - 1)
           q == SubSeq(s, k + 1, n)
           r == p \o b
           d == r \o q
<1>1. n \in Nat /\ m \in Nat /\ m # 0 /\ DOMAIN s = 1..n
  BY EmptySeq
<1>2. k \in Nat /\ 1 <= k /\ k <= n /\ k - 1 \in Nat /\ k + 1 \in Nat
  OBVIOUS
<1>3. /\ p \in Seq(S) /\ Len(p) = k - 1 + 1 - 1
      /\ \A i \in 1..(k - 1 + 1 - 1) : p[i] = s[1 + i - 1]
  <2>1. 1 <= 1 /\ 1 <= k - 1 + 1 /\ k - 1 <= Len(s) /\ 1 \in Nat
    BY <1>2
  <2> QED
    BY <1>2, <2>1, Part
<1>4. /\ q \in Seq(S) /\ Len(q) = n + 1 - (k + 1)
      /\ \A i \in 1..(n + 1 - (k + 1)) : q[i] = s[k + 1 + i - 1]
  <2>1. 1 <= k + 1 /\ k + 1 <= n + 1 /\ n <= Len(s) /\ n \in Nat /\ k + 1 \in Nat
    BY <1>1, <1>2
  <2>2. s \in Seq(S)
    OBVIOUS
  <2> HIDE DEF n
  <2> QED
    BY <2>1, <2>2, Part DEF q
<1> HIDE DEF p, q
<1>5. /\ r \in Seq(S) /\ Len(r) = Len(p) + m
      /\ \A i \in 1..Len(p) : r[i] = p[i]
      /\ \A i \in 1..m : r[Len(p) + i] = b[i]
  <2>1. p \in Seq(S)
    BY <1>3
  <2> HIDE DEF n
  <2> QED
    BY <2>1, Joined
<1> HIDE DEF r
<1>6. /\ d \in Seq(S) /\ Len(d) = Len(r) + Len(q)
      /\ \A i \in 1..Len(r) : d[i] = r[i]
      /\ \A i \in 1..Len(q) : d[Len(r) + i] = q[i]
  <2>1. q \in Seq(S) /\ r \in Seq(S)
    BY <1>4, <1>5
  <2> QED
    BY <2>1, Joined
<1> HIDE DEF d, n, m
<1>7. Len(p) = k - 1 /\ Len(q) = n - k /\ Len(r) = k - 1 + m /\ Len(d) = k - 1 + m + (n - k)
  <2>1. Len(p) = k - 1 + 1 - 1
    BY <1>3
  <2>2. Len(q) = n + 1 - (k + 1)
    BY <1>4
  <2>3. Len(r) = Len(p) + m
    BY <1>5
  <2>4. Len(d) = Len(r) + Len(q)
    BY <1>6
  <2>5. k - 1 + 1 - 1 = k - 1 /\ n + 1 - (k + 1) = n - k
    BY <1>1, <1>2
  <2> QED
    BY <2>1, <2>2, <2>3, <2>4, <2>5
<1>8. DOMAIN d = 1..(k - 1 + m + (n - k))
  BY <1>6, <1>7
<1>9. ASSUME NEW j \in 1..n, j < k PROVE j \in DOMAIN d /\ d[j] = s[j]
  <2>1. /\ j \in 1..(k - 1 + 1 - 1) /\ j \in 1..(k - 1) /\ j \in 1..(k - 1 + m)
        /\ j \in 1..(k - 1 + m + (n - k)) /\ 1 + j - 1 = j
    BY <1>1, <1>2, <1>9
  <2>2. d[j] = r[j]
    BY <1>6, <1>7, <2>1
  <2>3. r[j] = p[j]
    BY <1>5, <1>7, <2>1
  <2>4. p[j] = s[j]
    BY <1>3, <2>1
  <2> QED
    BY <1>8, <2>1, <2>2, <2>3, <2>4
<1>10. ASSUME NEW j \in 1..n, k < j PROVE \E i \in DOMAIN d : d[i] = s[j]
  <2>1. /\ j - k \in 1..(n + 1 - (k + 1)) /\ j - k \in 1..(n - k)
        /\ k - 1 + m + (j - k) \in 1..(k - 1 + m + (n - k)) /\ k + 1 + (j - k) - 1 = j
    <3>1. n \in Nat /\ m \in Nat /\ m >= 1 /\ k \in 1..n
      BY <1>1, <1>2
    <3>2. /\ SpliceMoves(n, m, k) /\ j \in 1..n /\ k < j
      BY <1>10, <3>1, SplicePlaces
    <3> QED
      BY <3>2 DEF SpliceMoves
  <2>2. d[k - 1 + m + (j - k)] = q[j - k]
    BY <1>6, <1>7, <2>1
  <2>3. q[j - k] = s[j]
    BY <1>4, <2>1
  <2> QED
    BY <1>8, <2>1, <2>2, <2>3
<1>11. \E i \in DOMAIN d : d[i] = b[1]
  <2>1. /\ k - 1 + 1 \in 1..(k - 1 + m) /\ k - 1 + 1 \in 1..(k - 1 + m + (n - k)) /\ 1 \in 1..m
    <3>1. n \in Nat /\ m \in Nat /\ m >= 1 /\ k \in 1..n
      BY <1>1, <1>2
    <3> QED
      BY <3>1, SplicePlaces
  <2>2. d[k - 1 + 1] = r[k - 1 + 1]
    BY <1>6, <1>7, <2>1
  <2>3. r[k - 1 + 1] = b[1]
    BY <1>5, <1>7, <2>1
  <2> QED
    BY <1>8, <2>1, <2>2, <2>3
<1>12. ASSUME NEW j \in DOMAIN s, j # k PROVE \E i \in DOMAIN d : d[i] = s[j]
  <2>1. j \in 1..n /\ (j < k \/ k < j)
    BY <1>1, <1>2, <1>12
  <2> QED
    BY <1>9, <1>10, <2>1
<1> QED
  <2>1. d = Splice(s, k, b)
    BY DEF Splice, d, r, p, q, n
  <2> QED
    BY <1>6, <1>11, <1>12, <2>1

LEMMA MarkdownBlock ==
    ASSUME NEW o \in Markdown!Ops, NEW uid \in Markdown!Ops \X {1, 2},
           NEW id \in Names \cup {Stamp}, clock \in Nat, clock' = clock + 1
    PROVE  /\ Markdown!Block(o, uid, id) \in Seq(Markdown!Section') \ {<<>>}
           /\ Markdown!Block(o, uid, id)[1] = [uid |-> uid, id |-> id, at |-> clock + 1]
<1> DEFINE x == [uid |-> uid, id |-> id, at |-> clock + 1]
           y == [uid |-> <<o, 2>>, id |-> Markdown!Heading, at |-> clock + 1]
<1>1. Markdown!Heading \in Names
  BY ServiceAssumption DEF Markdown!Heading
<1>2. x \in Markdown!Section' /\ y \in Markdown!Section'
  BY <1>1 DEF Markdown!Section, Markdown!Ops
<1> HIDE DEF x, y
<1>3. CASE o \in headed
  <2>1. Markdown!Block(o, uid, id) = <<x>> \o <<y>>
    BY <1>3 DEF Markdown!Block, x, y
  <2> QED
    BY <1>2, <2>1 DEF x
<1>4. CASE o \notin headed
  <2>1. Markdown!Block(o, uid, id) = <<x>> \o <<>>
    BY <1>4 DEF Markdown!Block, x
  <2> QED
    BY <1>2, <2>1 DEF x
<1> QED
  BY <1>3, <1>4

(* Where operation o has written, and when: all but that stays.            *)
LEMMA MarkdownWrote ==
    ASSUME MarkdownInv, NEW o \in Markdown!Ops, NEW uid \in Markdown!Ops \X {1, 2},
           Markdown!Wrote(o, uid), UNCHANGED <<level, key, headed, text, torn>>
    PROVE  /\ Markdown!Ops' = Markdown!Ops /\ clock \in Nat /\ clock' = clock + 1
           /\ at' \in [Markdown!Ops -> 0..clock'] /\ at'[o] = clock'
           /\ place' \in [Markdown!Ops -> Markdown!Ops \X {1, 2}] /\ place'[o] = uid
           /\ mdPc' \in [Markdown!Ops -> {"idle", "read", "truncated", "done", "failed", "unknown",
                                          "ended"}]
           /\ mdPc'[o] = "done"
           /\ \A p \in Markdown!Ops : at[p] \in 0..clock
           /\ \A p \in Markdown!Ops : p # o => /\ at'[p] = at[p] /\ place'[p] = place[p]
                                               /\ mdPc'[p] = mdPc[p]
           /\ Markdown!Section \subseteq Markdown!Section'
           /\ text \in [Markdown!Ops -> Seq(Markdown!Section')]
           /\ level \in {1, 2} /\ torn \in BOOLEAN /\ doc \in Seq(Markdown!Section)
<1>1. /\ clock \in Nat /\ clock' = clock + 1 /\ Markdown!Ops' = Markdown!Ops
  BY DEF MarkdownInv, MarkdownTyped, Markdown!Wrote, Markdown!Ops
<1>2. /\ at \in [Markdown!Ops -> 0..clock]
      /\ mdPc \in [Markdown!Ops -> {"idle", "read", "truncated", "done", "failed", "unknown",
                                     "ended"}]
      /\ place \in [Markdown!Ops -> Markdown!Ops \X {1, 2}]
      /\ level \in {1, 2} /\ torn \in BOOLEAN /\ doc \in Seq(Markdown!Section)
  BY DEF MarkdownInv, MarkdownTyped, Markdown!TypeOK
<1>3. /\ place' = [place EXCEPT ![o] = uid] /\ at' = [at EXCEPT ![o] = clock + 1]
      /\ mdPc' = [mdPc EXCEPT ![o] = "done"]
  BY DEF Markdown!Wrote, Markdown!Ends
<1>4. /\ at' \in [Markdown!Ops -> 0..clock'] /\ at'[o] = clock'
      /\ \A p \in Markdown!Ops : p # o => at'[p] = at[p]
  BY <1>1, <1>2, <1>3
<1>5. /\ place' \in [Markdown!Ops -> Markdown!Ops \X {1, 2}] /\ place'[o] = uid
      /\ \A p \in Markdown!Ops : p # o => place'[p] = place[p]
  BY <1>2, <1>3
<1>6. /\ mdPc' \in [Markdown!Ops -> {"idle", "read", "truncated", "done", "failed", "unknown",
                                      "ended"}]
      /\ mdPc'[o] = "done" /\ \A p \in Markdown!Ops : p # o => mdPc'[p] = mdPc[p]
  BY <1>2, <1>3
<1>7. Markdown!Section \subseteq Markdown!Section'
  BY <1>1 DEF Markdown!Section, Markdown!Ops
<1>8. text \in [Markdown!Ops -> Seq(Markdown!Section')]
  <2>1. text \in [Markdown!Ops -> Seq(Markdown!Section)]
    BY DEF MarkdownInv, MarkdownTyped
  <2>2. \A p \in Markdown!Ops : text[p] \in Seq(Markdown!Section')
    <3> DEFINE A == Markdown!Section
               B == Markdown!Section'
    <3>1. A \subseteq B /\ text \in [Markdown!Ops -> Seq(A)]
      BY <1>7, <2>1
    <3> HIDE DEF A, B
    <3>2. \A p \in Markdown!Ops : text[p] \in Seq(B)
      BY <3>1
    <3> QED
      BY <3>2 DEF B
  <2> QED
    BY <2>1, <2>2
<1> QED
  BY <1>1, <1>2, <1>4, <1>5, <1>6, <1>7, <1>8

(* MarkdownWrote, for the invariant: what a write must show of the file.   *)
LEMMA MarkdownWrites ==
    ASSUME MarkdownInv, NEW o \in Markdown!Ops, NEW uid \in Markdown!Ops \X {1, 2},
           Markdown!Wrote(o, uid), UNCHANGED <<level, key, headed, text, torn>>,
           doc' \in Seq(Markdown!Section'),
           level = 2 => \A j, k \in DOMAIN doc' : doc'[j].id = doc'[k].id => j = k,
           level = 2 => \A id : Markdown!Named(doc, id) # {} => Markdown!Named(doc, id)' # {},
           overlapped' = overlapped \cup Markdown!Overlaps(o) \/ overlapped' = overlapped,
           level = 1 /\ o \notin overlapped' => Markdown!UnderWay \subseteq {o},
           FileKeeps', FilesKeep', EmptyIsThere'
    PROVE  MarkdownInv'
<1> USE MarkdownWrote
<1>1. /\ Markdown!Ops' = Markdown!Ops /\ clock' \in Nat /\ at' \in [Markdown!Ops -> 0..clock']
      /\ place' \in [Markdown!Ops -> Markdown!Ops \X {1, 2}]
      /\ mdPc' \in [Markdown!Ops -> {"idle", "read", "truncated", "done", "failed", "unknown",
                                     "ended"}]
      /\ text \in [Markdown!Ops -> Seq(Markdown!Section')] /\ level \in {1, 2} /\ torn \in BOOLEAN
  OBVIOUS
<1>2. /\ mdPc'[o] = "done"
      /\ \A p \in Markdown!Ops : p # o => /\ at'[p] = at[p] /\ place'[p] = place[p]
                                          /\ mdPc'[p] = mdPc[p]
  OBVIOUS
<1>3. Markdown!UnderWay' \subseteq Markdown!UnderWay /\ o \notin Markdown!UnderWay'
      /\ Markdown!UnderWay' \subseteq Markdown!Ops
  BY <1>1, <1>2 DEF Markdown!UnderWay
<1>4. Markdown!TypeOK'
  <2>1. Markdown!ToSet(doc)' \subseteq Markdown!Section'
    BY DEF Markdown!ToSet
  <2> QED
    BY <1>1, <2>1 DEF Markdown!TypeOK
<1>5. MarkdownTyped'
  BY <1>1 DEF MarkdownInv, MarkdownTyped
<1>6. MarkdownSteps'
  <2> SUFFICES ASSUME NEW p \in Markdown!UnderWay'
               PROVE  /\ level = 1 => p \in Updates["markdown"] /\ Markdown!Named(text[p], key[p]) # {}
                      /\ level = 2 => key[p] \in Names
                      /\ level = 2 /\ p \in Updates["markdown"] /\ mdPc'[p] = "read" =>
                            Markdown!Named(doc, key[p])' # {}
    BY DEF MarkdownSteps, Markdown!Named
  <2>1. p \in Markdown!UnderWay /\ mdPc'[p] = mdPc[p]
    BY <1>2, <1>3
  <2>2. /\ level = 1 => p \in Updates["markdown"] /\ Markdown!Named(text[p], key[p]) # {}
        /\ level = 2 => key[p] \in Names
        /\ level = 2 /\ p \in Updates["markdown"] /\ mdPc[p] = "read" => Markdown!Named(doc, key[p]) # {}
    BY <2>1 DEF MarkdownInv, MarkdownSteps
  <2>3. Markdown!Named(doc, key[p])' = {k \in DOMAIN doc' : doc'[k].id = key[p]}
    BY DEF Markdown!Named
  <2>4. \A id : Markdown!Named(doc, id)' = {k \in DOMAIN doc' : doc'[k].id = id}
    BY DEF Markdown!Named
  <2> QED
    BY <2>1, <2>2, <2>3, <2>4
<1>7. Overlapping'
  BY <1>3 DEF MarkdownInv, Overlapping
<1>8. TextsKeep'
  <2> SUFFICES ASSUME level = 1, ~ torn, NEW u \in Markdown!UnderWay', NEW p \in Markdown!Ops,
                      Returned(p)'
               PROVE  Keeps(text[u], p)'
    BY <1>1 DEF TextsKeep
  <2>1. CASE p = o
    <3>1. o \notin overlapped'
      BY <2>1 DEF Returned
    <3> QED
      BY <1>3, <3>1
  <2>2. CASE p # o
    <3>1. Returned(p)
      BY <1>2, <2>2 DEF Returned
    <3>2. Keeps(text[u], p)
      BY <1>3, <3>1 DEF MarkdownInv, TextsKeep
    <3> QED
      BY <1>2, <2>2, <3>2 DEF Keeps
  <2> QED
    BY <2>1, <2>2
<1> QED
  BY <1>4, <1>5, <1>6, <1>7, <1>8 DEF MarkdownInv

(* A section is appended to whatever the file holds.                       *)
LEMMA MarkdownAppends ==
    ASSUME MarkdownInv, NEW o \in Markdown!Ops, Markdown!Append1(o), mdPc'[o] = "done"
    PROVE  MarkdownInv'
<1> DEFINE b == Markdown!Block(o, <<o, 1>>, Markdown!MemoryId(o))
<1>1. /\ UNCHANGED <<level, key, headed, text, torn>>
      /\ level = 1 /\ mdPc[o] = "idle" /\ overlapped' = overlapped \cup Markdown!Overlaps(o)
      /\ Markdown!Wrote(o, <<o, 1>>) /\ doc' = doc \o b
  <2>1. mdPc \in [Markdown!Ops -> {"idle", "read", "truncated", "done", "failed", "unknown", "ended"}]
    BY DEF MarkdownInv, Markdown!TypeOK
  <2>2. ~ Markdown!Ends(o, "failed")
    BY <2>1 DEF Markdown!Ends
  <2> QED
    BY <2>2 DEF Markdown!Append1, Markdown!inputs
<1>2. <<o, 1>> \in Markdown!Ops \X {1, 2}
  OBVIOUS
<1>3. /\ Markdown!Ops' = Markdown!Ops /\ clock \in Nat /\ clock' = clock + 1
      /\ at'[o] = clock' /\ place'[o] = <<o, 1>> /\ mdPc'[o] = "done"
      /\ \A p \in Markdown!Ops : p # o => /\ at'[p] = at[p] /\ place'[p] = place[p]
                                          /\ mdPc'[p] = mdPc[p]
      /\ Markdown!Section \subseteq Markdown!Section' /\ doc \in Seq(Markdown!Section)
  BY <1>1, <1>2, MarkdownWrote
<1>4. /\ b \in Seq(Markdown!Section') \ {<<>>}
      /\ b[1] = [uid |-> <<o, 1>>, id |-> Markdown!MemoryId(o), at |-> clock + 1]
  <2>1. Markdown!MemoryId(o) \in Names \cup {Stamp}
    BY DEF MarkdownInv, MarkdownTyped, Markdown!MemoryId
  <2>2. clock' = clock + 1 /\ clock \in Nat
    BY <1>3
  <2> QED
    BY <1>2, <2>1, <2>2, MarkdownBlock
<1>5. /\ doc' \in Seq(Markdown!Section')
      /\ \A k \in DOMAIN doc : k \in DOMAIN doc' /\ doc'[k] = doc[k]
      /\ \E k \in DOMAIN doc' : doc'[k] = b[1]
  <2> DEFINE S == Markdown!Section'
  <2>1. doc \in Seq(S)
    <3> DEFINE R == Markdown!Section
    <3>1. R \subseteq S /\ doc \in Seq(R)
      BY <1>3
    <3> HIDE DEF R, S
    <3> QED
      BY <3>1
  <2>2. b \in Seq(S) /\ Len(b) \in Nat /\ 1 \in 1..Len(b)
    BY <1>4, EmptySeq
  <2> HIDE DEF S, b
  <2>3. /\ doc' \in Seq(S) /\ Len(doc') = Len(doc) + Len(b)
        /\ \A i \in 1..Len(doc) : doc'[i] = doc[i]
        /\ \A i \in 1..Len(b) : doc'[Len(doc) + i] = b[i]
    <3>1. doc' = doc \o b
      BY <1>1 DEF b
    <3> QED
      BY <2>1, <2>2, <3>1, Joined
  <2>4. DOMAIN doc' = 1..(Len(doc) + Len(b)) /\ DOMAIN doc = 1..Len(doc) /\ Len(doc) \in Nat
    BY <2>1, <2>3
  <2>5. Len(doc) + 1 \in DOMAIN doc' /\ doc'[Len(doc) + 1] = b[1]
    BY <2>2, <2>3, <2>4
  <2>6. \A k \in DOMAIN doc : k \in DOMAIN doc' /\ doc'[k] = doc[k]
    BY <2>2, <2>3, <2>4
  <2> QED
    BY <2>3, <2>5, <2>6 DEF S
<1>6. o \notin overlapped' => Markdown!UnderWay \subseteq {o}
  BY <1>1 DEF Markdown!Overlaps
<1>7. FileKeeps'
  <2> SUFFICES ASSUME ~ torn, ~ Markdown!HalfWritten', NEW p \in Markdown!Ops, Returned(p)'
               PROVE  Keeps(doc, p)'
    BY <1>1, <1>3 DEF FileKeeps
  <2>1. CASE p = o
    <3>1. PICK k \in DOMAIN doc' : doc'[k] = b[1]
      BY <1>5
    <3>2. doc'[k] = [uid |-> <<o, 1>>, id |-> Markdown!MemoryId(o), at |-> clock + 1]
      BY <1>4, <3>1
    <3>3. place'[p] = <<o, 1>> /\ at'[p] = clock + 1 /\ clock + 1 \in Nat
      BY <1>3, <2>1
    <3>4. doc'[k].uid = place'[p] /\ doc'[k].at >= at'[p]
      BY <3>2, <3>3
    <3> QED
      BY <3>4 DEF Keeps
  <2>2. CASE p # o
    <3>1. Returned(p) /\ ~ Markdown!HalfWritten
      BY <1>1, <1>3, <2>2 DEF Returned, Markdown!HalfWritten
    <3>2. Keeps(doc, p)
      BY <1>1, <3>1 DEF MarkdownInv, FileKeeps
    <3>3. PICK k \in DOMAIN doc : doc[k].uid = place[p] /\ doc[k].at >= at[p]
      BY <3>2 DEF Keeps
    <3> QED
      BY <1>3, <1>5, <2>2, <3>3 DEF Keeps
  <2> QED
    BY <2>1, <2>2
<1>8. FilesKeep' /\ EmptyIsThere'
  BY <1>1 DEF FilesKeep, EmptyIsThere
<1> HIDE DEF b
<1> QED
  BY <1>1, <1>2, <1>5, <1>6, <1>7, <1>8, MarkdownWrites

(* The file is emptied: until it is written, nothing is said of it.        *)
LEMMA MarkdownEmpties ==
    ASSUME MarkdownInv, NEW o \in Markdown!Ops, Markdown!Truncate1(o), mdPc'[o] = "truncated"
    PROVE  MarkdownInv'
<1>1. /\ UNCHANGED <<level, key, headed, text, place, at, clock, overlapped, torn>>
      /\ level = 1 /\ mdPc[o] = "read" /\ doc' = <<>> /\ Markdown!Ends(o, "truncated")
  <2>1. mdPc \in [Markdown!Ops -> {"idle", "read", "truncated", "done", "failed", "unknown", "ended"}]
    BY DEF MarkdownInv, Markdown!TypeOK
  <2>2. ~ Markdown!Ends(o, "failed")
    BY <2>1 DEF Markdown!Ends
  <2> QED
    BY <2>2 DEF Markdown!Truncate1, Markdown!inputs
<1>2. Markdown!Ops' = Markdown!Ops /\ Markdown!Section' = Markdown!Section
  BY <1>1 DEF Markdown!Ops, Markdown!Section
<1>3. mdPc \in [Markdown!Ops -> {"idle", "read", "truncated", "done", "failed", "unknown", "ended"}]
  BY DEF MarkdownInv, Markdown!TypeOK
<1>4. /\ mdPc' \in [Markdown!Ops -> {"idle", "read", "truncated", "done", "failed", "unknown",
                                      "ended"}]
      /\ \A p \in Markdown!Ops : mdPc'[p] = IF p = o THEN "truncated" ELSE mdPc[p]
  BY <1>1, <1>3 DEF Markdown!Ends
<1>5. Markdown!UnderWay' = Markdown!UnderWay
  BY <1>1, <1>2, <1>4 DEF Markdown!UnderWay
<1>6. Markdown!TypeOK' /\ MarkdownTyped'
  <2>1. Markdown!ToSet(doc)' = {} /\ doc' \in Seq(Markdown!Section)
    BY <1>1 DEF Markdown!ToSet
  <2> QED
    BY <1>1, <1>2, <1>4, <2>1 DEF MarkdownInv, Markdown!TypeOK, MarkdownTyped
<1>7. MarkdownSteps' /\ Overlapping'
  BY <1>1, <1>5 DEF MarkdownInv, MarkdownSteps, Overlapping, Markdown!Named
<1>8. \A p \in Markdown!Ops : Returned(p)' => Returned(p)
  BY <1>1, <1>4 DEF Returned
<1>9. TextsKeep'
  BY <1>1, <1>2, <1>5, <1>8 DEF MarkdownInv, TextsKeep, Keeps
<1>10. Markdown!HalfWritten'
  BY <1>2, <1>4 DEF Markdown!HalfWritten
<1> QED
  BY <1>1, <1>6, <1>7, <1>9, <1>10 DEF MarkdownInv, FileKeeps, FilesKeep, EmptyIsThere

(* The file becomes the text an update has read, but for its own section.  *)
LEMMA MarkdownRewrites ==
    ASSUME MarkdownInv, NEW o \in Markdown!Ops, Markdown!Rewrite1(o)
    PROVE  MarkdownInv'
<1> DEFINE k == Markdown!Position(text[o], key[o])
           s == text[o][k]
           b == Markdown!Block(o, s.uid, s.id)
<1>1. /\ UNCHANGED <<level, key, headed, text, overlapped, torn>>
      /\ level = 1 /\ mdPc[o] = "truncated" /\ Markdown!Wrote(o, s.uid)
      /\ doc' = SubSeq(text[o], 1, k - 1) \o b \o SubSeq(text[o], k + 1, Len(text[o]))
  BY DEF Markdown!Rewrite1, Markdown!inputs
<1>2. o \in Markdown!UnderWay
  BY <1>1 DEF Markdown!UnderWay
<1>3. text[o] \in Seq(Markdown!Section) /\ k \in DOMAIN text[o]
  <2>1. text[o] \in Seq(Markdown!Section)
    BY DEF MarkdownInv, MarkdownTyped
  <2>2. Markdown!Named(text[o], key[o]) # {}
    BY <1>1, <1>2 DEF MarkdownInv, MarkdownSteps
  <2> QED
    BY <2>1, <2>2, FirstNamed
<1>4. s \in Markdown!Section
  <2> HIDE DEF k
  <2> QED
    BY <1>3
<1>5. s.uid \in Markdown!Ops \X {1, 2} /\ s.id \in Names \cup {Stamp}
  <2> HIDE DEF s
  <2> QED
    BY <1>4 DEF Markdown!Section
<1> HIDE DEF k, s
<1>6. /\ Markdown!Ops' = Markdown!Ops /\ clock \in Nat /\ clock' = clock + 1
      /\ at'[o] = clock' /\ place'[o] = s.uid /\ mdPc'[o] = "done"
      /\ \A p \in Markdown!Ops : at[p] \in 0..clock
      /\ \A p \in Markdown!Ops : p # o => /\ at'[p] = at[p] /\ place'[p] = place[p]
                                          /\ mdPc'[p] = mdPc[p]
      /\ text \in [Markdown!Ops -> Seq(Markdown!Section')]
  BY <1>1, <1>5, MarkdownWrote
<1>7. /\ b \in Seq(Markdown!Section') \ {<<>>}
      /\ b[1] = [uid |-> s.uid, id |-> s.id, at |-> clock + 1]
  BY <1>5, <1>6, MarkdownBlock
<1> HIDE DEF b
<1>8. /\ doc' \in Seq(Markdown!Section')
      /\ \A j \in DOMAIN text[o] : j # k => \E i \in DOMAIN doc' : doc'[i] = text[o][j]
      /\ \E i \in DOMAIN doc' : doc'[i] = b[1]
  <2> DEFINE S == Markdown!Section'
             t == text[o]
  <2>1. b \in Seq(S) /\ b # <<>> /\ t \in Seq(S) /\ k \in DOMAIN t
    BY <1>3, <1>6, <1>7
  <2> DEFINE d == Splice(t, k, b)
  <2>2. doc' = d
    BY <1>1 DEF Splice
  <2> HIDE DEF S, t
  <2>3. /\ d \in Seq(S)
        /\ \A j \in DOMAIN t : j # k => \E i \in DOMAIN d : d[i] = t[j]
        /\ \E i \in DOMAIN d : d[i] = b[1]
    <3>1. b \in Seq(S)
      BY <2>1
    <3>2. t \in Seq(S)
      BY <2>1
    <3>3. b # <<>>
      BY <2>1
    <3>4. k \in DOMAIN t
      BY <2>1
    <3>5. d \in Seq(S)
      BY <3>1, <3>2, <3>3, <3>4, Spliced
    <3>6. \A j \in DOMAIN t : j # k => \E i \in DOMAIN d : d[i] = t[j]
      BY <3>1, <3>2, <3>3, <3>4, Spliced
    <3>7. \E i \in DOMAIN d : d[i] = b[1]
      BY <3>1, <3>2, <3>3, <3>4, Spliced
    <3> QED
      BY <3>5, <3>6, <3>7
  <2> HIDE DEF d
  <2> QED
    BY <2>2, <2>3 DEF S, t
<1>9. o \notin overlapped' => Markdown!UnderWay \subseteq {o}
  BY <1>1, <1>2 DEF MarkdownInv, Overlapping
<1>10. PICK i \in DOMAIN doc' : /\ doc'[i].uid = s.uid /\ doc'[i].at = clock + 1
  <2>1. PICK i \in DOMAIN doc' : doc'[i] = [uid |-> s.uid, id |-> s.id, at |-> clock + 1]
    BY <1>7, <1>8
  <2> QED
    BY <2>1
<1>11. FileKeeps'
  <2> SUFFICES ASSUME ~ torn, NEW p \in Markdown!Ops, Returned(p)' PROVE Keeps(doc, p)'
    BY <1>1, <1>6 DEF FileKeeps
  <2>1. CASE p = o
    <3>1. doc'[i].uid = place'[p] /\ doc'[i].at >= at'[p]
      BY <1>6, <1>10, <2>1
    <3> QED
      BY <3>1 DEF Keeps
  <2>2. CASE p # o
    <3>1. Returned(p)
      BY <1>1, <1>6, <2>2 DEF Returned
    <3>2. Keeps(text[o], p)
      BY <1>1, <1>2, <3>1 DEF MarkdownInv, TextsKeep
    <3>3. PICK j \in DOMAIN text[o] : text[o][j].uid = place[p] /\ text[o][j].at >= at[p]
      BY <3>2 DEF Keeps
    <3>4. at'[p] = at[p] /\ place'[p] = place[p] /\ at[p] \in 0..clock
      BY <1>6, <2>2
    <3>5. CASE j = k
      <4>1. doc'[i].uid = place'[p]
        BY <1>10, <3>3, <3>4, <3>5 DEF s
      <4>2. doc'[i].at >= at'[p]
        BY <1>6, <1>10, <3>4
      <4> QED
        BY <4>1, <4>2 DEF Keeps
    <3>6. CASE j # k
      BY <1>8, <3>3, <3>4, <3>6 DEF Keeps
    <3> QED
      BY <3>5, <3>6
  <2> QED
    BY <2>1, <2>2
<1>12. FilesKeep' /\ EmptyIsThere'
  BY <1>1 DEF FilesKeep, EmptyIsThere
<1>13. level # 2 /\ doc' \in Seq(Markdown!Section') /\ s.uid \in Markdown!Ops \X {1, 2}
  <2>1. level # 2
    BY <1>1
  <2>2. doc' \in Seq(Markdown!Section')
    BY <1>8
  <2>3. s.uid \in Markdown!Ops \X {1, 2}
    BY <1>5
  <2> QED
    BY <2>1, <2>2, <2>3
<1> QED
  BY <1>1, <1>9, <1>11, <1>12, <1>13, MarkdownWrites

(* At level 2 the file of a name is emptied, or made.                      *)
LEMMA MarkdownOpens ==
    ASSUME MarkdownInv, NEW o \in Markdown!Ops, Markdown!Truncate2(o), mdPc'[o] = "truncated"
    PROVE  MarkdownInv'
<1> DEFINE name == key[o]
           K == Markdown!Position(doc, name)
           uid == IF o \in Updates["markdown"] THEN doc[K].uid ELSE <<o, 1>>
           empty == [uid |-> uid, id |-> name, at |-> 0]
<1>1. /\ UNCHANGED <<level, key, headed, text, at, clock, overlapped, torn>>
      /\ level = 2 /\ mdPc[o] = "read" /\ Markdown!Ends(o, "truncated")
      /\ place' = [place EXCEPT ![o] = uid]
      /\ doc' = IF Markdown!Named(doc, name) = {} THEN Append(doc, empty) ELSE [doc EXCEPT ![K] = empty]
  <2>1. mdPc \in [Markdown!Ops -> {"idle", "read", "truncated", "done", "failed", "unknown", "ended"}]
    BY DEF MarkdownInv, Markdown!TypeOK
  <2>2. ~ Markdown!Ends(o, "failed")
    BY <2>1 DEF Markdown!Ends
  <2> QED
    BY <2>2 DEF Markdown!Truncate2, Markdown!inputs
<1>2. /\ Markdown!Ops' = Markdown!Ops /\ Markdown!Section' = Markdown!Section
      /\ o \in Markdown!UnderWay
  BY <1>1 DEF Markdown!Ops, Markdown!Section, Markdown!UnderWay
<1>3. /\ mdPc \in [Markdown!Ops -> {"idle", "read", "truncated", "done", "failed", "unknown", "ended"}]
      /\ place \in [Markdown!Ops -> Markdown!Ops \X {1, 2}]
      /\ doc \in Seq(Markdown!Section) /\ clock \in Nat
      /\ \A j, k \in DOMAIN doc : doc[j].id = doc[k].id => j = k
      /\ name \in Names
      /\ o \in Updates["markdown"] => Markdown!Named(doc, name) # {}
  BY <1>1, <1>2 DEF MarkdownInv, MarkdownTyped, MarkdownSteps, Markdown!TypeOK
<1>4. Markdown!Named(doc, name) # {} => K \in DOMAIN doc /\ doc[K].id = name
  BY <1>3, FirstNamed
<1>5. uid \in Markdown!Ops \X {1, 2} /\ empty \in Markdown!Section
  <2>1. CASE o \in Updates["markdown"]
    <3>1. K \in DOMAIN doc /\ uid = doc[K].uid
      BY <1>3, <1>4, <2>1
    <3> HIDE DEF K
    <3>2. doc[K] \in Markdown!Section
      BY <1>3, <3>1
    <3> HIDE DEF uid
    <3>3. uid \in Markdown!Ops \X {1, 2}
      BY <3>1, <3>2 DEF Markdown!Section
    <3> QED
      BY <1>3, <3>3 DEF Markdown!Section
  <2>2. CASE o \notin Updates["markdown"]
    <3>1. uid = <<o, 1>>
      BY <2>2
    <3> HIDE DEF uid
    <3> QED
      BY <1>3, <3>1 DEF Markdown!Section
  <2> QED
    BY <2>1, <2>2
<1>6. /\ empty.uid = uid /\ empty.id = name
      /\ o \in Updates["markdown"] => \A k \in DOMAIN doc : doc[k].id = name => doc[k].uid = uid
  BY <1>3, <1>4
<1> HIDE DEF empty, uid, K, name
<1>7. /\ doc' \in Seq(Markdown!Section)
      /\ \A k \in DOMAIN doc : doc[k].id # name => k \in DOMAIN doc' /\ doc'[k] = doc[k]
      /\ \E k \in DOMAIN doc' : doc'[k] = empty
      /\ \A j, k \in DOMAIN doc' : doc'[j].id = doc'[k].id => j = k
  <2>1. CASE Markdown!Named(doc, name) = {}
    <3>1. doc' = Append(doc, empty) /\ \A k \in DOMAIN doc : doc[k].id # name
      BY <1>1, <2>1 DEF Markdown!Named
    <3>2. /\ doc' \in Seq(Markdown!Section) /\ Len(doc') = Len(doc) + 1 /\ Len(doc) \in Nat
          /\ \A k \in 1..Len(doc) : doc'[k] = doc[k]
          /\ doc'[Len(doc) + 1] = empty
      BY <1>3, <1>5, <3>1
    <3>3. DOMAIN doc = 1..Len(doc) /\ DOMAIN doc' = 1..(Len(doc) + 1)
      BY <1>3, <3>2
    <3>4. \A k \in DOMAIN doc' : (k \in DOMAIN doc /\ doc'[k] = doc[k]) \/ k = Len(doc) + 1
      BY <3>2, <3>3
    <3>5. Len(doc) + 1 \in DOMAIN doc' /\ \A k \in DOMAIN doc : k \in DOMAIN doc'
      BY <3>2, <3>3
    <3>6. ASSUME NEW j \in DOMAIN doc', NEW k \in DOMAIN doc', doc'[j].id = doc'[k].id PROVE j = k
      BY <1>3, <1>6, <3>1, <3>2, <3>4, <3>6
    <3> QED
      BY <3>2, <3>3, <3>5, <3>6
  <2>2. CASE Markdown!Named(doc, name) # {}
    <3>1. doc' = [doc EXCEPT ![K] = empty] /\ K \in DOMAIN doc /\ doc[K].id = name
      BY <1>1, <1>4, <2>2
    <3>2. /\ DOMAIN doc' = DOMAIN doc /\ doc'[K] = empty
          /\ \A k \in DOMAIN doc : k # K => doc'[k] = doc[k]
      BY <1>3, <3>1
    <3>3. doc' \in Seq(Markdown!Section)
      BY <1>3, <1>5, <3>1
    <3>4. \A k \in DOMAIN doc : doc'[k].id = doc[k].id
      BY <1>6, <3>1, <3>2
    <3> QED
      BY <1>3, <3>1, <3>2, <3>3, <3>4
  <2> QED
    BY <2>1, <2>2
<1>8. /\ mdPc' \in [Markdown!Ops -> {"idle", "read", "truncated", "done", "failed", "unknown",
                                      "ended"}]
      /\ \A p \in Markdown!Ops : mdPc'[p] = IF p = o THEN "truncated" ELSE mdPc[p]
  BY <1>1, <1>3 DEF Markdown!Ends
<1>9. /\ place' \in [Markdown!Ops -> Markdown!Ops \X {1, 2}] /\ place'[o] = uid
      /\ \A p \in Markdown!Ops : p # o => place'[p] = place[p]
  BY <1>1, <1>3, <1>5
<1>10. Markdown!UnderWay' = Markdown!UnderWay /\ Markdown!UnderWay \subseteq Markdown!Ops
  BY <1>2, <1>8 DEF Markdown!UnderWay
<1>11. PICK e \in DOMAIN doc' : doc'[e] = empty
  BY <1>7
<1>12. Markdown!TypeOK'
  <2>1. Markdown!ToSet(doc)' \subseteq Markdown!Section
    BY <1>7 DEF Markdown!ToSet
  <2> QED
    BY <1>1, <1>2, <1>7, <1>8, <2>1 DEF MarkdownInv, Markdown!TypeOK
<1>13. MarkdownTyped'
  BY <1>1, <1>2, <1>7, <1>9 DEF MarkdownInv, MarkdownTyped
<1>14. \A id : Markdown!Named(doc, id) # {} => Markdown!Named(doc, id)' # {}
  <2> SUFFICES ASSUME NEW id, NEW k \in DOMAIN doc, doc[k].id = id
               PROVE  \E j \in DOMAIN doc' : doc'[j].id = id
    BY DEF Markdown!Named
  <2> QED
    BY <1>6, <1>7, <1>11
<1>15. MarkdownSteps'
  <2> SUFFICES ASSUME NEW p \in Markdown!UnderWay'
               PROVE  /\ level' = 1 => p \in Updates["markdown"] /\ Markdown!Named(text[p], key[p])' # {}
                      /\ level' = 2 => key'[p] \in Names
                      /\ level' = 2 /\ p \in Updates["markdown"] /\ mdPc'[p] = "read" =>
                            Markdown!Named(doc, key[p])' # {}
    BY DEF MarkdownSteps
  <2>1. p \in Markdown!Ops /\ (mdPc'[p] = "read" => mdPc[p] = "read")
    BY <1>8, <1>10
  <2>2. p \in Markdown!UnderWay
    BY <1>10
  <2>3. key[p] \in Names /\ (p \in Updates["markdown"] /\ mdPc[p] = "read" => Markdown!Named(doc, key[p]) # {})
    BY <1>1, <2>2 DEF MarkdownInv, MarkdownSteps
  <2>4. Markdown!Named(doc, key[p]) # {} => {k \in DOMAIN doc' : doc'[k].id = key[p]} # {}
    BY <1>14 DEF Markdown!Named
  <2> QED
    BY <1>1, <2>1, <2>3, <2>4 DEF Markdown!Named
<1>16. Overlapping'
  BY <1>1, <1>10 DEF MarkdownInv, Overlapping
<1>17. TextsKeep' /\ FileKeeps'
  BY <1>1 DEF TextsKeep, FileKeeps
<1>18. FilesKeep'
  <2> SUFFICES ASSUME ~ torn, NEW p \in Markdown!Ops, Returned(p)', ~ Markdown!Replaced(p)'
               PROVE  \E k \in DOMAIN doc' : /\ doc'[k].uid = place'[p] /\ doc'[k].id = key[p]
                                             /\ doc'[k].at >= at[p] \/ Truncates(key[p])'
    BY <1>1, <1>2 DEF FilesKeep
  <2>1. p # o /\ mdPc[p] = "done" /\ p \notin overlapped /\ Returned(p)
    BY <1>1, <1>8 DEF Returned
  <2>2. ~ Markdown!Replaced(p) /\ (o \in Writes["markdown"] => key[o] # key[p])
    BY <1>1, <1>8, <2>1 DEF Markdown!Replaced, Markdown!Ops
  <2>3. PICK k \in DOMAIN doc : /\ doc[k].uid = place[p] /\ doc[k].id = key[p]
                               /\ (doc[k].at >= at[p] \/ Truncates(key[p]))
    BY <1>1, <2>1, <2>2 DEF MarkdownInv, FilesKeep
  <2>4. Truncates(key[p]) \/ key[p] = name => Truncates(key[p])'
    BY <1>1, <1>2, <1>8 DEF Truncates, name
  <2>5. CASE key[p] = name
    <3>1. o \in Updates["markdown"]
      BY <2>2, <2>5 DEF Markdown!Ops, name
    <3>2. doc'[e].uid = uid /\ doc'[e].id = key[p]
      BY <1>6, <1>11, <2>5
    <3>3. doc[k].id = name /\ doc[k].uid = place[p]
      BY <2>3, <2>5
    <3>4. doc[k].uid = uid
      BY <1>6, <3>1, <3>3
    <3>5. doc'[e].uid = place'[p]
      BY <1>9, <2>1, <3>2, <3>3, <3>4
    <3>6. Truncates(key[p])'
      BY <2>4, <2>5
    <3> QED
      BY <3>2, <3>5, <3>6
  <2>6. CASE key[p] # name
    <3>1. k \in DOMAIN doc' /\ doc'[k] = doc[k]
      BY <1>7, <2>3, <2>6
    <3>2. place'[p] = place[p]
      BY <1>9, <2>1
    <3> QED
      BY <2>3, <2>4, <3>1, <3>2
  <2> QED
    BY <2>5, <2>6
<1>19. EmptyIsThere'
  <2> SUFFICES ASSUME NEW u \in Markdown!Ops, u \notin overlapped, mdPc'[u] = "truncated"
               PROVE  \E k \in DOMAIN doc' : doc'[k].uid = place'[u] /\ doc'[k].id = key[u]
    BY <1>1, <1>2 DEF EmptyIsThere
  <2>1. u = o
    <3>1. u # o => u \in Markdown!UnderWay
      BY <1>8 DEF Markdown!UnderWay
    <3> QED
      BY <1>2, <3>1 DEF MarkdownInv, Overlapping
  <2> QED
    BY <1>6, <1>9, <1>11, <2>1 DEF name
<1> QED
  BY <1>12, <1>13, <1>15, <1>16, <1>17, <1>18, <1>19 DEF MarkdownInv

(* At level 2 the file of a name gets its body.                            *)
LEMMA MarkdownFills ==
    ASSUME MarkdownInv, NEW o \in Markdown!Ops, Markdown!Rewrite2(o)
    PROVE  MarkdownInv'
<1>1. /\ UNCHANGED <<level, key, headed, text, overlapped, torn>>
      /\ level = 2 /\ mdPc[o] = "truncated" /\ Markdown!Wrote(o, place[o])
      /\ doc' = [k \in DOMAIN doc |->
                    IF doc[k].id = key[o] THEN [doc[k] EXCEPT !.at = clock + 1] ELSE doc[k]]
  BY DEF Markdown!Rewrite2, Markdown!inputs
<1>2. place[o] \in Markdown!Ops \X {1, 2} /\ o \in Markdown!UnderWay
  BY <1>1 DEF MarkdownInv, MarkdownTyped, Markdown!UnderWay
<1>3. /\ Markdown!Ops' = Markdown!Ops /\ clock \in Nat /\ clock' = clock + 1
      /\ at'[o] = clock' /\ place'[o] = place[o] /\ mdPc'[o] = "done"
      /\ \A p \in Markdown!Ops : at[p] \in 0..clock
      /\ \A p \in Markdown!Ops : p # o => /\ at'[p] = at[p] /\ place'[p] = place[p]
                                          /\ mdPc'[p] = mdPc[p]
      /\ Markdown!Section \subseteq Markdown!Section' /\ doc \in Seq(Markdown!Section)
  BY <1>1, <1>2, MarkdownWrote
<1>4. DOMAIN doc' = DOMAIN doc
  BY <1>1
<1>5. ASSUME NEW k \in DOMAIN doc
      PROVE  /\ doc'[k] \in Markdown!Section' /\ doc'[k].uid = doc[k].uid /\ doc'[k].id = doc[k].id
             /\ doc'[k].at = IF doc[k].id = key[o] THEN clock + 1 ELSE doc[k].at
  <2>1. doc[k] \in Markdown!Section
    BY <1>3
  <2>2. CASE doc[k].id = key[o]
    <3>1. doc'[k] = [doc[k] EXCEPT !.at = clock + 1]
      BY <1>1, <2>2
    <3>2. clock + 1 \in 0..clock'
      BY <1>3
    <3> QED
      BY <1>3, <2>1, <2>2, <3>1, <3>2 DEF Markdown!Section
  <2>3. CASE doc[k].id # key[o]
    <3>1. doc'[k] = doc[k]
      BY <1>1, <2>3
    <3> QED
      BY <1>3, <2>1, <2>3, <3>1
  <2> QED
    BY <2>2, <2>3
<1>6. doc' \in Seq(Markdown!Section')
  <2>1. DOMAIN doc' = 1..Len(doc) /\ Len(doc) \in Nat
    BY <1>3, <1>4
  <2>2. doc' \in [1..Len(doc) -> Markdown!Section']
    BY <1>1, <1>4, <1>5, <2>1
  <2> DEFINE S == Markdown!Section'
  <2> HIDE DEF S
  <2>3. doc' \in [1..Len(doc) -> S]
    BY <2>2 DEF S
  <2>4. doc' \in Seq(S)
    BY <2>1, <2>3
  <2> QED
    BY <2>4 DEF S
<1>7. \A j, k \in DOMAIN doc' : doc'[j].id = doc'[k].id => j = k
  <2>1. \A j, k \in DOMAIN doc : doc[j].id = doc[k].id => j = k
    BY <1>1 DEF MarkdownInv, Markdown!TypeOK
  <2> QED
    BY <1>4, <1>5, <2>1
<1>8. \A id : Markdown!Named(doc, id) # {} => Markdown!Named(doc, id)' # {}
  <2> SUFFICES ASSUME NEW id, NEW k \in DOMAIN doc, doc[k].id = id
               PROVE  \E j \in DOMAIN doc' : doc'[j].id = id
    BY DEF Markdown!Named
  <2> QED
    BY <1>4, <1>5
<1>9. FileKeeps'
  BY <1>1 DEF FileKeeps
<1>10. FilesKeep'
  <2> SUFFICES ASSUME ~ torn, NEW p \in Markdown!Ops, Returned(p)', ~ Markdown!Replaced(p)'
               PROVE  \E k \in DOMAIN doc' : /\ doc'[k].uid = place'[p] /\ doc'[k].id = key[p]
                                             /\ doc'[k].at >= at'[p] \/ Truncates(key[p])'
    BY <1>1, <1>3 DEF FilesKeep
  <2>1. CASE p = o
    <3>1. o \notin overlapped
      BY <1>1, <2>1 DEF Returned
    <3>2. PICK k \in DOMAIN doc : doc[k].uid = place[o] /\ doc[k].id = key[o]
      BY <1>1, <3>1 DEF MarkdownInv, EmptyIsThere
    <3>3. doc'[k].uid = place'[p] /\ doc'[k].id = key[p] /\ doc'[k].at = clock + 1
      BY <1>3, <1>5, <2>1, <3>2
    <3>4. clock + 1 >= at'[p]
      BY <1>3, <2>1
    <3> QED
      BY <1>4, <3>3, <3>4
  <2>2. CASE p # o
    <3>1. Returned(p) /\ ~ Markdown!Replaced(p)
      BY <1>1, <1>3, <2>2 DEF Returned, Markdown!Replaced, Markdown!Ops
    <3>2. PICK k \in DOMAIN doc : /\ doc[k].uid = place[p] /\ doc[k].id = key[p]
                                 /\ (doc[k].at >= at[p] \/ Truncates(key[p]))
      BY <1>1, <3>1 DEF MarkdownInv, FilesKeep
    <3>3. /\ doc'[k].uid = place'[p] /\ doc'[k].id = key[p]
          /\ at'[p] = at[p] /\ at[p] \in 0..clock
      BY <1>3, <1>5, <2>2, <3>2
    <3>4. CASE key[p] = key[o]
      <4>1. doc'[k].at = clock + 1
        BY <1>5, <3>2, <3>4
      <4>2. doc'[k].at >= at'[p]
        BY <1>3, <3>3, <4>1
      <4> QED
        BY <1>4, <3>3, <4>2
    <3>5. CASE key[p] # key[o]
      <4>1. doc'[k].at = doc[k].at
        BY <1>5, <3>2, <3>5
      <4>2. Truncates(key[p]) => Truncates(key[p])'
        BY <1>1, <1>3, <3>5 DEF Truncates
      <4> QED
        BY <1>4, <3>2, <3>3, <4>1, <4>2
    <3> QED
      BY <3>4, <3>5
  <2> QED
    BY <2>1, <2>2
<1>11. EmptyIsThere'
  <2> SUFFICES ASSUME NEW u \in Markdown!Ops, u \notin overlapped, mdPc'[u] = "truncated"
               PROVE  FALSE
    BY <1>1, <1>3 DEF EmptyIsThere
  <2>1. u # o /\ mdPc[u] = "truncated"
    BY <1>3
  <2>2. u \in Markdown!UnderWay
    BY <2>1 DEF Markdown!UnderWay
  <2> QED
    BY <1>2, <2>1, <2>2 DEF MarkdownInv, Overlapping
<1>12. level # 1
  BY <1>1
<1> QED
  BY <1>1, <1>2, <1>6, <1>7, <1>8, <1>9, <1>10, <1>11, <1>12, MarkdownWrites

LEMMA MarkdownStep == ASSUME MarkdownInv, Markdown!Next PROVE MarkdownInv'
<1>1. CASE Markdown!Crash
  BY <1>1, MarkdownCrashes
<1>2. CASE ~ Markdown!Crash
  <2>1. PICK o \in Markdown!Ops :
           \/ Markdown!Append1(o) \/ Markdown!Read1(o) \/ Markdown!Truncate1(o) \/ Markdown!Rewrite1(o)
           \/ Markdown!Check2(o) \/ Markdown!Truncate2(o) \/ Markdown!Rewrite2(o)
           \/ Markdown!FailToWrite(o)
    BY <1>2 DEF Markdown!Next
  <2>2. /\ mdPc \in [Markdown!Ops -> {"idle", "read", "truncated", "done", "failed", "unknown",
                                       "ended"}]
        /\ torn \in BOOLEAN
    BY DEF MarkdownInv, Markdown!TypeOK, MarkdownTyped
  <2>3. \A end : Markdown!Ends(o, end) => mdPc'[o] = end
    BY <2>2 DEF Markdown!Ends
  <2>4. CASE Markdown!Append1(o)
    <3>1. CASE mdPc'[o] = "done"
      BY <2>4, <3>1, MarkdownAppends
    <3>2. CASE mdPc'[o] # "done"
      <4>1. /\ UNCHANGED <<level, key, headed, text, doc, place, at, clock>> /\ torn' = torn
            /\ Markdown!Ends(o, "failed") /\ mdPc[o] = "idle"
            /\ overlapped' = overlapped \cup Markdown!Overlaps(o)
        BY <2>3, <2>4, <3>2 DEF Markdown!Append1, Markdown!inputs, Markdown!Wrote
      <4> QED
        BY <2>2, <4>1, MarkdownChecks
    <3> QED
      BY <3>1, <3>2
  <2>5. CASE Markdown!Read1(o)
    <3>1. CASE mdPc'[o] = "read"
      BY <2>5, <3>1, MarkdownReads
    <3>2. CASE mdPc'[o] # "read"
      <4>1. /\ UNCHANGED <<level, key, headed, text, doc, place, at, clock>>
            /\ torn' = (torn \/ Markdown!HalfWritten)
            /\ Markdown!Ends(o, "unknown") /\ mdPc[o] = "idle"
            /\ overlapped' = overlapped \cup Markdown!Overlaps(o)
        BY <2>3, <2>5, <3>2 DEF Markdown!Read1, Markdown!inputs
      <4>2. torn' \in BOOLEAN /\ (torn => torn')
        BY <2>2, <4>1
      <4> QED
        BY <4>1, <4>2, MarkdownChecks
    <3> QED
      BY <3>1, <3>2
  <2>6. CASE Markdown!Truncate1(o)
    <3>1. CASE mdPc'[o] = "truncated"
      BY <2>6, <3>1, MarkdownEmpties
    <3>2. CASE mdPc'[o] # "truncated"
      <4>1. /\ UNCHANGED <<level, key, headed, text, doc, place, at, clock>> /\ torn' = torn
            /\ Markdown!Ends(o, "failed") /\ mdPc[o] = "read" /\ overlapped' = overlapped
        BY <2>3, <2>6, <3>2 DEF Markdown!Truncate1, Markdown!inputs
      <4> QED
        BY <2>2, <4>1, MarkdownChecks
    <3> QED
      BY <3>1, <3>2
  <2>7. CASE Markdown!Check2(o)
    <3>1. /\ UNCHANGED <<level, key, headed, text, doc, place, at, clock>> /\ torn' = torn
          /\ level = 2 /\ mdPc[o] = "idle" /\ overlapped' = overlapped \cup Markdown!Overlaps(o)
      BY <2>7 DEF Markdown!Check2, Markdown!inputs
    <3>2. \/ Markdown!Ends(o, "failed") \/ Markdown!Ends(o, "unknown")
          \/ /\ Markdown!Ends(o, "read") /\ Markdown!SafeFilename(Markdown!MemoryId(o))
             /\ (o \in Updates["markdown"] => Markdown!Named(doc, key[o]) # {})
      BY <2>7 DEF Markdown!Check2
    <3>3. Markdown!SafeFilename(Markdown!MemoryId(o)) => key[o] \in Names
      BY ServiceAssumption DEF MarkdownInv, MarkdownTyped, Markdown!SafeFilename, Markdown!MemoryId
    <3>4. CASE Markdown!Ends(o, "failed") \/ Markdown!Ends(o, "unknown")
      BY <2>2, <3>1, <3>4, MarkdownChecks
    <3>5. CASE /\ Markdown!Ends(o, "read") /\ Markdown!SafeFilename(Markdown!MemoryId(o))
               /\ (o \in Updates["markdown"] => Markdown!Named(doc, key[o]) # {})
      BY <2>2, <3>1, <3>3, <3>5, MarkdownChecks
    <3> QED
      BY <3>2, <3>4, <3>5
  <2>8. CASE Markdown!Truncate2(o)
    <3>1. CASE mdPc'[o] = "truncated"
      BY <2>8, <3>1, MarkdownOpens
    <3>2. CASE mdPc'[o] # "truncated"
      <4>1. /\ UNCHANGED <<level, key, headed, text, doc, place, at, clock>> /\ torn' = torn
            /\ Markdown!Ends(o, "failed") /\ mdPc[o] = "read" /\ overlapped' = overlapped
        BY <2>3, <2>8, <3>2 DEF Markdown!Truncate2, Markdown!inputs
      <4> QED
        BY <2>2, <4>1, MarkdownChecks
    <3> QED
      BY <3>1, <3>2
  <2>9. CASE Markdown!FailToWrite(o)
    <3>1. /\ UNCHANGED <<level, key, headed, text, doc, place, at, clock>> /\ torn' = TRUE
          /\ Markdown!Ends(o, "failed") /\ mdPc[o] = "truncated" /\ overlapped' = overlapped
      BY <2>9 DEF Markdown!FailToWrite, Markdown!inputs
    <3> QED
      BY <3>1, MarkdownChecks
  <2> QED
    BY <2>1, <2>4, <2>5, <2>6, <2>7, <2>8, <2>9, MarkdownRewrites, MarkdownFills
<1> QED
  BY <1>1, <1>2

LEMMA MarkdownStays == ASSUME MarkdownInv, UNCHANGED markdownVars PROVE MarkdownInv'
<1>1. /\ UNCHANGED <<level, key, headed, text, doc, place, at, clock>> /\ overlapped' = overlapped
      /\ torn' = torn /\ mdPc' = mdPc
  BY DEF markdownVars
<1>2. /\ mdPc \in [Markdown!Ops -> {"idle", "read", "truncated", "done", "failed", "unknown", "ended"}]
      /\ torn \in BOOLEAN
  BY DEF MarkdownInv, Markdown!TypeOK, MarkdownTyped
<1>3. Markdown!UnderWay' = Markdown!UnderWay
  BY <1>1 DEF Markdown!UnderWay, Markdown!Ops
<1>4. MarkdownSteps' /\ Overlapping'
  BY <1>1, <1>3 DEF MarkdownInv, MarkdownSteps, Overlapping, Markdown!Named
<1> QED
  BY <1>1, <1>2, <1>3, <1>4, MarkdownMoves

(* MarkdownSound for any operations that overlap in any way: what was      *)
(* returned stays, unless its operation overlapped another one, was        *)
(* replaced, or a rewriting broke off or was read half-way.                *)
THEOREM MarkdownAlwaysSound == Spec => []MarkdownSound
<1>1. Init => MarkdownInv
  BY MarkdownBegins DEF Init
<1>2. MarkdownInv /\ [Next]_vars => MarkdownInv'
  <2> SUFFICES ASSUME MarkdownInv, [Next]_vars PROVE MarkdownInv'
    OBVIOUS
  <2>1. Markdown!Next \/ UNCHANGED markdownVars
    BY DEF Next, vars
  <2> QED
    BY <2>1, MarkdownStep, MarkdownStays
<1>3. MarkdownInv => MarkdownSound
  <2> SUFFICES ASSUME MarkdownInv PROVE Markdown!TypeOK /\ Markdown!ReturnedStays
    BY DEF MarkdownSound
  <2>1. Markdown!TypeOK
    BY DEF MarkdownInv
  <2>2. Markdown!ReturnedStays
    <3> SUFFICES ASSUME ~ torn, ~ Markdown!HalfWritten, NEW o \in Markdown!Ops, o \notin overlapped,
                        mdPc[o] = "done", ~ Markdown!Replaced(o)
                 PROVE  \E k \in DOMAIN doc : doc[k].uid = place[o] /\ doc[k].at >= at[o]
      BY DEF Markdown!ReturnedStays, Markdown!Found, Markdown!ToSet
    <3>1. Returned(o) /\ level \in {1, 2}
      BY <2>1 DEF Returned, Markdown!TypeOK
    <3>2. ~ Truncates(key[o])
      BY DEF Truncates, Markdown!HalfWritten
    <3>3. CASE level = 1
      BY <3>1, <3>3 DEF MarkdownInv, FileKeeps, Keeps
    <3>4. CASE level = 2
      BY <3>1, <3>2, <3>4 DEF MarkdownInv, FilesKeep
    <3> QED
      BY <3>1, <3>3, <3>4
  <2> QED
    BY <2>1, <2>2
<1> QED
  BY <1>1, <1>2, <1>3, PTL DEF Spec
=============================================================================
