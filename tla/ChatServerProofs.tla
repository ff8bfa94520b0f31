-------------------------- MODULE ChatServerProofs --------------------------
(* Theorems about the chat server and its lock, for any number of requests. *)
EXTENDS ChatServer, FiniteSetTheorems, SequenceTheorems, TLAPS

-----------------------------------------------------------------------------
(* The queue of waiters. *)

Holds(queue, r) == \E i \in DOMAIN queue : queue[i] = r
Distinct(queue) == \A i, j \in DOMAIN queue : queue[i] = queue[j] => i = j

LEMMA RemoveAtElements ==
    ASSUME NEW S, NEW s \in Seq(S), NEW i \in DOMAIN s
    PROVE  /\ RemoveAt(s, i) \in Seq(S)
           /\ Len(RemoveAt(s, i)) = Len(s) - 1
           /\ DOMAIN RemoveAt(s, i) = 1 .. Len(s) - 1
           /\ \A k \in 1 .. Len(s) - 1 :
                 RemoveAt(s, i)[k] = IF k < i THEN s[k] ELSE s[k + 1]
<1> DEFINE front == SubSeq(s, 1, i - 1)
           back == SubSeq(s, i + 1, Len(s))
<1>1. i \in 1 .. Len(s) /\ Len(s) \in Nat
  OBVIOUS
<1>2. /\ front \in Seq(S)
      /\ Len(front) = i - 1
      /\ \A k \in 1 .. i - 1 : front[k] = s[k]
  BY <1>1
<1>3. /\ back \in Seq(S)
      /\ Len(back) = Len(s) - i
      /\ \A k \in 1 .. Len(s) - i : back[k] = s[i + k]
  BY <1>1
<1>4. RemoveAt(s, i) = front \o back
  BY DEF RemoveAt
<1> HIDE DEF front, back
<1>5. front \o back \in Seq(S) /\ Len(front \o back) = Len(front) + Len(back)
  BY <1>2, <1>3, ConcatProperties
<1>6. ASSUME NEW k \in 1 .. Len(s) - 1
      PROVE  (front \o back)[k] = IF k < i THEN s[k] ELSE s[k + 1]
  <2>1. k \in 1 .. Len(front) + Len(back) /\ k \in Nat
    BY <1>1, <1>2, <1>3
  <2>2. (front \o back)[k] = IF k <= Len(front) THEN front[k] ELSE back[k - Len(front)]
    <3>1. front \in Seq(S) /\ back \in Seq(S)
      BY <1>2, <1>3
    <3> HIDE DEF front, back
    <3> QED
      BY <2>1, <3>1, ConcatProperties
  <2>3. CASE k < i
    <3>1. k \in 1 .. i - 1 /\ k <= Len(front)
      BY <2>1, <2>3, <1>1, <1>2
    <3>2. front[k] = s[k]
      BY <3>1, <1>2
    <3> QED
      BY <2>2, <2>3, <3>1, <3>2, Zenon
  <2>4. CASE ~ (k < i)
    <3>1. k - Len(front) \in 1 .. Len(s) - i /\ i + (k - Len(front)) = k + 1
      <4>1. Len(front) = i - 1
        BY <1>2
      <4>2. k \in Nat /\ i \in Nat /\ Len(s) \in Nat /\ k <= Len(s) - 1 /\ k >= i
        BY <2>1, <2>4, <1>1
      <4> QED
        BY <4>1, <4>2
    <3>2. ~ (k <= Len(front))
      BY <2>1, <2>4, <1>1, <1>2
    <3>3. back[k - Len(front)] = s[k + 1]
      BY <3>1, <1>3
    <3> QED
      BY <2>2, <2>4, <3>2, <3>3, Zenon
  <2> QED
    BY <2>3, <2>4
<1>7. Len(front \o back) = Len(s) - 1
  BY <1>1, <1>2, <1>3, <1>5
<1>8. DOMAIN (front \o back) = 1 .. Len(s) - 1
  BY <1>5, <1>7
<1> QED
  BY <1>4, <1>5, <1>6, <1>7, <1>8

(* Taking a waiter out leaves the others, in their order. *)
LEMMA LeavesQueue ==
    ASSUME waiters \in Seq(Req), Distinct(waiters),
           NEW r, NEW queue, Leaves(r, queue)
    PROVE  /\ queue \in Seq(Req)
           /\ Distinct(queue)
           /\ \A q : Holds(queue, q) <=> Holds(waiters, q) /\ q # r
           /\ waiters # <<>>
           /\ Head(waiters) # r => queue # <<>> /\ Head(queue) = Head(waiters)
<1>1. PICK i \in DOMAIN waiters : waiters[i] = r /\ queue = RemoveAt(waiters, i)
  BY DEF Leaves
<1>2. /\ queue \in Seq(Req)
      /\ Len(queue) = Len(waiters) - 1
      /\ DOMAIN queue = 1 .. Len(waiters) - 1
      /\ \A k \in 1 .. Len(waiters) - 1 :
            queue[k] = IF k < i THEN waiters[k] ELSE waiters[k + 1]
  BY <1>1, RemoveAtElements
<1>3. i \in 1 .. Len(waiters) /\ DOMAIN waiters = 1 .. Len(waiters) /\ Len(waiters) \in Nat
  BY <1>1
<1>4. Distinct(queue)
  <2> SUFFICES ASSUME NEW k \in 1 .. Len(waiters) - 1, NEW l \in 1 .. Len(waiters) - 1,
                      queue[k] = queue[l]
               PROVE  k = l
    BY <1>2 DEF Distinct
  <2> DEFINE n(m) == IF m < i THEN m ELSE m + 1
  <2>1. /\ n(k) \in DOMAIN waiters /\ n(l) \in DOMAIN waiters
        /\ queue[k] = waiters[n(k)] /\ queue[l] = waiters[n(l)]
    BY <1>2, <1>3
  <2>2. n(k) = n(l)
    BY <2>1 DEF Distinct
  <2> QED
    BY <2>2, <1>3
<1>5. ASSUME NEW q, Holds(queue, q)
      PROVE  Holds(waiters, q) /\ q # r
  <2>1. PICK k \in 1 .. Len(waiters) - 1 : queue[k] = q
    BY <1>2, <1>5 DEF Holds
  <2> DEFINE n == IF k < i THEN k ELSE k + 1
  <2>2. n \in DOMAIN waiters /\ waiters[n] = q /\ n # i
    BY <2>1, <1>2, <1>3
  <2> QED
    BY <2>2, <1>1 DEF Holds, Distinct
<1>6. ASSUME NEW q, Holds(waiters, q), q # r
      PROVE  Holds(queue, q)
  <2>1. PICK n \in DOMAIN waiters : waiters[n] = q
    BY <1>6 DEF Holds
  <2>2. n # i
    BY <2>1, <1>1, <1>6
  <2> DEFINE k == IF n < i THEN n ELSE n - 1
  <2>3. k \in 1 .. Len(waiters) - 1 /\ queue[k] = q
    BY <2>1, <2>2, <1>2, <1>3
  <2> QED
    BY <2>3, <1>2 DEF Holds
<1>7. waiters # <<>>
  BY <1>1
<1>8. ASSUME Head(waiters) # r
      PROVE  queue # <<>> /\ Head(queue) = Head(waiters)
  <2>1. Head(waiters) = waiters[1]
    BY <1>7
  <2>2. 1 < i
    BY <2>1, <1>1, <1>3, <1>8
  <2>3. 1 \in 1 .. Len(waiters) - 1 /\ queue[1] = waiters[1]
    BY <2>2, <1>2, <1>3
  <2> QED
    BY <2>1, <2>3, <1>2
<1> QED
  BY <1>2, <1>4, <1>5, <1>6, <1>7, <1>8

(* A newcomer goes behind those who wait. *)
LEMMA JoinsQueue ==
    ASSUME waiters \in Seq(Req), Distinct(waiters),
           NEW r \in Req, ~ Holds(waiters, r)
    PROVE  LET queue == Append(waiters, r)
           IN  /\ queue \in Seq(Req)
               /\ Distinct(queue)
               /\ \A q : Holds(queue, q) <=> Holds(waiters, q) \/ q = r
               /\ queue # <<>>
               /\ waiters # <<>> => Head(queue) = Head(waiters)
<1> DEFINE queue == Append(waiters, r)
           n == Len(waiters) + 1
<1>1. /\ queue \in Seq(Req)
      /\ DOMAIN queue = DOMAIN waiters \cup {n}
      /\ n \notin DOMAIN waiters
      /\ queue[n] = r
      /\ \A k \in DOMAIN waiters : queue[k] = waiters[k]
  OBVIOUS
<1>2. /\ queue # <<>>
      /\ waiters # <<>> => Head(queue) = Head(waiters)
  BY AppendProperties
<1> HIDE DEF queue, n
<1>3. Distinct(queue)
  BY <1>1 DEF Distinct, Holds
<1>4. ASSUME NEW q
      PROVE  Holds(queue, q) <=> Holds(waiters, q) \/ q = r
  BY <1>1 DEF Holds
<1>5. /\ queue \in Seq(Req)
      /\ Distinct(queue)
      /\ \A q : Holds(queue, q) <=> Holds(waiters, q) \/ q = r
      /\ queue # <<>>
      /\ waiters # <<>> => Head(queue) = Head(waiters)
  BY <1>1, <1>2, <1>3, <1>4
<1> QED
  BY <1>5 DEF queue

-----------------------------------------------------------------------------
(* Types. *)

LEMMA IncomingType ==
    ASSUME NEW r \in Req
    PROVE  Incoming[r] \in Seq(Message)
<1>1. Msg(r, "system") \in Message /\ Msg(r, "user") \in Message
  BY DEF Msg, Message
<1>2. Incoming[r] = IF r \in SendsSystem THEN <<Msg(r, "system"), Msg(r, "user")>>
                    ELSE <<Msg(r, "user")>>
  BY DEF Incoming
<1> HIDE DEF Msg
<1> QED
  BY <1>1, <1>2

LEMMA MsgType ==
    ASSUME NEW r \in Req, NEW role \in {"system", "user", "assistant", "tool"}
    PROVE  Msg(r, role) \in Message
BY DEF Msg, Message

LEMMA KindPhases ==
    ASSUME NEW r \in Req
    PROVE  /\ Kind[r] \in {"stream", "sync", "responses"}
           /\ Kind[r] = "stream"
                => Phases(Kind[r]) = AllPhases \ {"proxying"}
           /\ Kind[r] = "sync"
                => Phases(Kind[r]) = {"idle", "queued", "running", "tool", "done", "failed"}
           /\ Kind[r] = "responses"
                => Phases(Kind[r]) = {"idle", "proxying", "done", "failed", "gone"}
BY ServerAssumption DEF Phases, AllPhases, Inside, Final

(* A handler that moves to a phase of its kind. *)
LEMMA MoveType ==
    ASSUME TypeOK, NEW r \in Req, NEW p \in Phases(Kind[r]), Move(r, p)
    PROVE  /\ phase' \in [Req -> AllPhases]
           /\ \A q \in Req : phase'[q] \in Phases(Kind[q])
           /\ phase'[r] = p
           /\ \A q \in Req : q # r => phase'[q] = phase[q]
<1>1. p \in AllPhases
  BY KindPhases DEF AllPhases, Inside, Final
<1> QED
  BY <1>1 DEF Move, TypeOK

(* The queue and what the lock makes of it. *)
LEMMA LeavesType ==
    ASSUME TypeOK, NEW r, NEW queue, Leaves(r, queue)
    PROVE  queue \in Seq(Req)
BY RemoveAtElements DEF Leaves, TypeOK

LEMMA WokenType ==
    ASSUME NEW queue \in Seq(Req), NEW set \in SUBSET Req
    PROVE  WokenFirst(queue, set) \in SUBSET Req
<1>1. queue # <<>> => Head(queue) \in Req
  BY HeadTailProperties
<1> QED
  BY <1>1 DEF WokenFirst

LEMMA ReleaseType ==
    ASSUME TypeOK, Release
    PROVE  locked' \in BOOLEAN /\ waiters' \in Seq(Req) /\ woken' \in SUBSET Req
<1>1. locked' \in BOOLEAN
  BY Zenon DEF Release
<1>2. woken' = WokenFirst(waiters, woken) /\ waiters' = waiters
  BY DEF Release
<1> QED
  BY <1>1, <1>2, WokenType DEF TypeOK

(* Every variable of the server keeps its type, and every request goes     *)
(* only through the phases of its kind.                                    *)
THEOREM TypeCorrect == Spec => []TypeOK
<1>1. Init => TypeOK
  <2>1. SetupMessages \in Seq(Message)
    BY DEF SetupMessages, Msg, Message
  <2>2. \A r \in Req : "idle" \in Phases(Kind[r])
    BY KindPhases DEF AllPhases
  <2>3. Init => locked \in BOOLEAN
    BY Zenon DEF Init
  <2> QED
    BY <2>1, <2>2, <2>3 DEF Init, TypeOK, AllPhases
<1>2. TypeOK /\ [Next]_vars => TypeOK'
  <2> SUFFICES ASSUME TypeOK, [Next]_vars
               PROVE  TypeOK'
    OBVIOUS
  <2>1. ASSUME NEW r \in Req, Arrive(r)
        PROVE  TypeOK'
    <3>1. CASE LockFree
      <4>1. Move(r, "running") /\ "running" \in Phases(Kind[r])
        BY <2>1, <3>1, KindPhases DEF Arrive, AllPhases, Inside
      <4>2. locked' \in BOOLEAN
        BY <2>1, <3>1, Zenon DEF Arrive
      <4> QED
        BY <2>1, <3>1, <4>1, <4>2, MoveType, IncomingType DEF Arrive, TypeOK
    <3>2. CASE ~ LockFree
      <4>1. Move(r, "queued") /\ "queued" \in Phases(Kind[r])
        BY <2>1, <3>2, KindPhases DEF Arrive, AllPhases
      <4>2. waiters' \in Seq(Req)
        <5>1. waiters' = Append(waiters, r)
          BY <2>1, <3>2 DEF Arrive
        <5>2. waiters \in Seq(Req)
          BY DEF TypeOK
        <5> QED
          BY <5>1, <5>2
      <4>3. UNCHANGED <<locked, woken, messages, threads, work>>
        BY <2>1, <3>2 DEF Arrive
      <4>4. /\ phase' \in [Req -> AllPhases]
            /\ \A q \in Req : phase'[q] \in Phases(Kind[q])
        BY <4>1, MoveType
      <4> QED
        BY <4>2, <4>3, <4>4 DEF TypeOK
    <3> QED
      BY <3>1, <3>2
  <2>2. ASSUME NEW r \in Req, Granted(r)
        PROVE  TypeOK'
    <3>1. "running" \in Phases(Kind[r])
      <4>1. Kind[r] # "responses"
        BY <2>2, KindPhases DEF Granted, TypeOK
      <4> QED
        BY <4>1, KindPhases DEF AllPhases, Inside
    <3>2. locked' \in BOOLEAN
      BY <2>2, Zenon DEF Granted
    <3>3. waiters' \in Seq(Req)
      BY <2>2, LeavesType DEF Granted
    <3> QED
      BY <2>2, <3>1, <3>2, <3>3, MoveType, IncomingType DEF Granted, TypeOK
  <2>3. ASSUME NEW r \in Req, NEW p \in {"running", "sending", "tool"},
               p = "sending" => Kind[r] = "stream",
               phase[r] \in Inside,
               phase' = [phase EXCEPT ![r] = p],
               NEW m \in {"assistant", "tool"},
               messages' = messages \/ messages' = Append(messages, Msg(r, m)),
               work' = work \/ Work(r),
               threads' \in SUBSET Req,
               UNCHANGED lockVars
        PROVE  TypeOK'
    <3>1. p \in Phases(Kind[r])
      <4>1. Kind[r] # "responses"
        BY <2>3, KindPhases DEF TypeOK, Inside
      <4> QED
        BY <2>3, <4>1, KindPhases DEF AllPhases, Inside
    <3>2. Msg(r, m) \in Message
      BY MsgType
    <3>3. messages' \in Seq(Message)
      <4>1. messages \in Seq(Message)
        BY DEF TypeOK
      <4>2. Append(messages, Msg(r, m)) \in Seq(Message)
        BY <3>2, <4>1, AppendProperties
      <4> QED
        BY <2>3, <4>1, <4>2
    <3>4. work' \in [Req -> Nat]
      BY <2>3 DEF Work, TypeOK
    <3> QED
      BY <2>3, <3>1, <3>3, <3>4, MoveType DEF Move, TypeOK, lockVars
  <2>4. ASSUME NEW r \in Req, Reply(r) \/ BeginTool(r) \/ EndTool(r)
        PROVE  TypeOK'
    <3>1. CASE Reply(r)
      <4>1. phase' = [phase EXCEPT ![r] = "running"]
        BY <3>1 DEF Reply, TypeOK
      <4> QED
        BY <3>1, <4>1, <2>3 DEF Reply, Inside, TypeOK
    <3>2. CASE BeginTool(r)
      BY <3>2, <2>3 DEF BeginTool, Move, Inside, TypeOK
    <3>3. CASE EndTool(r)
      BY <3>3, <2>3 DEF EndTool, Move, Inside, TypeOK
    <3> QED
      BY <2>4, <3>1, <3>2, <3>3
  <2>5. ASSUME NEW r \in Req, Yield(r) \/ Sent(r)
        PROVE  TypeOK'
    BY <2>5, <2>3 DEF Yield, Sent, Move, Inside, TypeOK
  <2>6. ASSUME NEW r \in Req, NEW p \in Phases(Kind[r]), Move(r, p),
               locked' \in BOOLEAN, waiters' \in Seq(Req), woken' \in SUBSET Req,
               UNCHANGED <<messages, threads, work>>
        PROVE  TypeOK'
    BY <2>6, MoveType DEF TypeOK
  <2>7. ASSUME NEW r \in Req, Finish(r)
        PROVE  TypeOK'
    <3>1. PICK p \in {"done", "failed"} : Move(r, p)
      BY <2>7 DEF Finish
    <3>2. p \in Phases(Kind[r])
      BY KindPhases DEF AllPhases, Final
    <3> QED
      BY <2>7, <3>1, <3>2, <2>6, ReleaseType DEF Finish
  <2>8. ASSUME NEW r \in Req, LeaveQueued(r)
        PROVE  TypeOK'
    <3>1. "gone" \in Phases(Kind[r])
      BY <2>8, KindPhases DEF LeaveQueued, AllPhases, Final
    <3>2. waiters' \in Seq(Req)
      BY <2>8, LeavesType DEF LeaveQueued, LeaveQueue
    <3>3. woken' \in SUBSET Req
      BY <2>8, <3>2, WokenType DEF LeaveQueued, LeaveQueue, TypeOK
    <3> QED
      BY <2>8, <3>1, <3>2, <3>3, <2>6 DEF LeaveQueued, LeaveQueue, TypeOK
  <2>9. ASSUME NEW r \in Req, CancelRunning(r) \/ CloseAbandoned(r)
        PROVE  TypeOK'
    <3>1. "gone" \in Phases(Kind[r])
      <4>1. Kind[r] = "stream"
        BY <2>9, KindPhases DEF CancelRunning, CloseAbandoned, TypeOK
      <4> QED
        BY <4>1, KindPhases DEF AllPhases, Final
    <3> QED
      BY <2>9, <3>1, <2>6, ReleaseType DEF CancelRunning, CloseAbandoned
  <2>10. ASSUME NEW r \in Req, AbandonSending(r)
         PROVE  TypeOK'
    <3>1. "abandoned" \in Phases(Kind[r])
      <4>1. Kind[r] = "stream"
        BY <2>10, KindPhases DEF AbandonSending, TypeOK
      <4> QED
        BY <4>1, KindPhases DEF AllPhases, Inside
    <3> QED
      BY <2>10, <3>1, <2>6 DEF AbandonSending, lockVars, TypeOK
  <2>11. ASSUME NEW r \in Req, OrphanEnds(r)
         PROVE  TypeOK'
    BY <2>11 DEF OrphanEnds, lockVars, TypeOK
  <2>12. ASSUME NEW r \in Req, Proxy(r) \/ ProxyEnds(r)
         PROVE  TypeOK'
    <3>1. PICK p \in {"proxying"} \cup Final : Move(r, p) /\ Kind[r] = "responses"
      BY <2>12, KindPhases DEF Proxy, ProxyEnds, TypeOK, AllPhases, Inside, Final
    <3>2. p \in Phases(Kind[r])
      BY <3>1, KindPhases DEF Final
    <3> QED
      BY <2>12, <3>1, <3>2, <2>6 DEF Proxy, ProxyEnds, lockVars, TypeOK
  <2>13. CASE UNCHANGED vars
    BY <2>13 DEF vars, TypeOK
  <2> QED
    BY <2>1, <2>2, <2>4, <2>5, <2>7, <2>8, <2>9, <2>10, <2>11, <2>12, <2>13
       DEF Next, Serve, Depart
<1>3. QED
  BY <1>1, <1>2, PTL DEF Spec

-----------------------------------------------------------------------------
(* The lock.  LockHeldInside and QueueSound need each other: a woken       *)
(* waiter may claim the lock because woken is empty while it is held, and  *)
(* woken is what the queue says because only the handler inside releases.  *)

LockInv == LockHeldInside /\ QueueSound

LEMMA QueueFacts ==
    ASSUME QueueSound
    PROVE  /\ Distinct(waiters)
           /\ \A r \in Req : phase[r] = "queued" <=> Holds(waiters, r)
           /\ woken = IF locked \/ waiters = <<>> THEN {} ELSE {Head(waiters)}
BY DEF QueueSound, Distinct, Holds

LEMMA QueueFrom ==
    ASSUME Distinct(waiters'),
           \A r \in Req : phase'[r] = "queued" <=> Holds(waiters', r),
           woken' = IF locked' \/ waiters' = <<>> THEN {} ELSE {Head(waiters')}
    PROVE  QueueSound'
BY DEF QueueSound, Distinct, Holds

(* One handler moves and the lock is left alone: it stays inside, or       *)
(* outside and out of the queue.                                           *)
LEMMA LockUntouched ==
    ASSUME TypeOK, LockInv, NEW r \in Req, NEW p,
           phase' = [phase EXCEPT ![r] = p],
           p # "queued", phase[r] # "queued",
           p \in Inside <=> phase[r] \in Inside,
           UNCHANGED lockVars
    PROVE  LockInv'
<1>1. /\ phase'[r] = p
      /\ \A q \in Req : q # r => phase'[q] = phase[q]
      /\ UNCHANGED <<locked, waiters, woken>>
  BY DEF TypeOK, lockVars
<1>2. LockHeldInside'
  BY <1>1 DEF LockInv, LockHeldInside
<1>3. QueueSound'
  BY <1>1 DEF LockInv, QueueSound
<1> QED
  BY <1>2, <1>3 DEF LockInv

(* A handler claims a free lock: a newcomer that finds nobody waiting, or  *)
(* the waiter that was woken.                                              *)
LEMMA LockTaken ==
    ASSUME TypeOK, LockInv, NEW r \in Req,
           ~ locked, phase' = [phase EXCEPT ![r] = "running"],
           locked' = TRUE, woken' = {},
           \/ phase[r] # "queued" /\ waiters' = waiters
           \/ Leaves(r, waiters')
    PROVE  LockInv'
<1>1. /\ phase'[r] = "running"
      /\ \A q \in Req : q # r => phase'[q] = phase[q]
  BY DEF TypeOK
<1>2. \A q \in Req : phase[q] \notin Inside
  BY DEF LockInv, LockHeldInside
<1>3. LockHeldInside'
  BY <1>1, <1>2 DEF LockHeldInside, Inside
<1>4. /\ Distinct(waiters) /\ waiters \in Seq(Req)
      /\ \A q \in Req : phase[q] = "queued" <=> Holds(waiters, q)
  BY QueueFacts DEF LockInv, TypeOK
<1>5. /\ Distinct(waiters')
      /\ \A q \in Req : phase'[q] = "queued" <=> Holds(waiters', q)
  <2>1. CASE phase[r] # "queued" /\ waiters' = waiters
    BY <2>1, <1>1, <1>4
  <2>2. CASE Leaves(r, waiters')
    BY <2>2, <1>1, <1>4, LeavesQueue
  <2> QED
    BY <2>1, <2>2
<1>6. QueueSound'
  BY <1>5, QueueFrom
<1> QED
  BY <1>3, <1>6 DEF LockInv

(* The handler inside releases the lock and ends. *)
LEMMA LockReleased ==
    ASSUME TypeOK, LockInv, NEW r \in Req, NEW p \in Final,
           phase[r] \in Inside, phase' = [phase EXCEPT ![r] = p], Release
    PROVE  LockInv'
<1>1. /\ phase'[r] = p
      /\ \A q \in Req : q # r => phase'[q] = phase[q]
  BY DEF TypeOK
<1>2. /\ locked
      /\ \A q \in Req : q # r => phase[q] \notin Inside
  BY DEF LockInv, LockHeldInside
<1>3. p \notin Inside /\ p # "queued" /\ phase[r] # "queued"
  BY DEF Inside, Final
<1>4. locked' = FALSE /\ waiters' = waiters /\ woken' = WokenFirst(waiters, woken)
  BY DEF Release
<1>5. LockHeldInside'
  BY <1>1, <1>2, <1>3, <1>4 DEF LockHeldInside
<1>6. /\ Distinct(waiters)
      /\ \A q \in Req : phase[q] = "queued" <=> Holds(waiters, q)
      /\ woken = {}
  BY <1>2, QueueFacts DEF LockInv
<1>7. \A q \in Req : phase'[q] = "queued" <=> Holds(waiters', q)
  BY <1>1, <1>3, <1>4, <1>6
<1>8. woken' = IF locked' \/ waiters' = <<>> THEN {} ELSE {Head(waiters')}
  BY <1>4, <1>6 DEF WokenFirst
<1>9. QueueSound'
  BY <1>4, <1>6, <1>7, <1>8, QueueFrom
<1> QED
  BY <1>5, <1>9 DEF LockInv

(* A newcomer joins the queue: the lock is held, or a waiter is woken. *)
LEMMA LockAwaited ==
    ASSUME TypeOK, LockInv, NEW r \in Req,
           ~ LockFree, phase[r] = "idle",
           phase' = [phase EXCEPT ![r] = "queued"],
           waiters' = Append(waiters, r), UNCHANGED <<locked, woken>>
    PROVE  LockInv'
<1>1. /\ phase'[r] = "queued"
      /\ \A q \in Req : q # r => phase'[q] = phase[q]
  BY DEF TypeOK
<1>2. LockHeldInside'
  BY <1>1 DEF LockInv, LockHeldInside, Inside
<1>3. /\ Distinct(waiters) /\ waiters \in Seq(Req)
      /\ \A q \in Req : phase[q] = "queued" <=> Holds(waiters, q)
      /\ woken = IF locked \/ waiters = <<>> THEN {} ELSE {Head(waiters)}
  BY QueueFacts DEF LockInv, TypeOK
<1>4. ~ Holds(waiters, r)
  BY <1>3
<1>5. /\ Distinct(waiters')
      /\ \A q : Holds(waiters', q) <=> Holds(waiters, q) \/ q = r
      /\ waiters' # <<>>
      /\ waiters # <<>> => Head(waiters') = Head(waiters)
  BY <1>3, <1>4, JoinsQueue
<1>6. \A q \in Req : phase'[q] = "queued" <=> Holds(waiters', q)
  BY <1>1, <1>3, <1>5
<1>7. woken' = IF locked' \/ waiters' = <<>> THEN {} ELSE {Head(waiters')}
  BY <1>3, <1>5 DEF LockFree
<1>8. QueueSound'
  BY <1>5, <1>6, <1>7, QueueFrom
<1> QED
  BY <1>2, <1>8 DEF LockInv

(* A waiter is cancelled: the wake-up it had goes to the next one. *)
LEMMA LockGivenUp ==
    ASSUME TypeOK, LockInv, NEW r \in Req,
           phase[r] = "queued", phase' = [phase EXCEPT ![r] = "gone"],
           LeaveQueue(r)
    PROVE  LockInv'
<1>1. /\ phase'[r] = "gone"
      /\ \A q \in Req : q # r => phase'[q] = phase[q]
  BY DEF TypeOK
<1>2. /\ Leaves(r, waiters')
      /\ woken' = IF locked THEN woken \ {r} ELSE WokenFirst(waiters', woken \ {r})
      /\ locked' = locked
  BY DEF LeaveQueue
<1>3. LockHeldInside'
  BY <1>1, <1>2 DEF LockInv, LockHeldInside, Inside
<1>4. /\ Distinct(waiters) /\ waiters \in Seq(Req)
      /\ \A q \in Req : phase[q] = "queued" <=> Holds(waiters, q)
      /\ woken = IF locked \/ waiters = <<>> THEN {} ELSE {Head(waiters)}
  BY QueueFacts DEF LockInv, TypeOK
<1>5. /\ Distinct(waiters')
      /\ \A q : Holds(waiters', q) <=> Holds(waiters, q) /\ q # r
      /\ waiters # <<>>
      /\ Head(waiters) # r => waiters' # <<>> /\ Head(waiters') = Head(waiters)
  BY <1>2, <1>4, LeavesQueue
<1>6. \A q \in Req : phase'[q] = "queued" <=> Holds(waiters', q)
  BY <1>1, <1>4, <1>5
<1>7. woken' = IF locked' \/ waiters' = <<>> THEN {} ELSE {Head(waiters')}
  <2>1. CASE locked
    BY <2>1, <1>2, <1>4
  <2>2. CASE ~ locked /\ Head(waiters) = r
    BY <2>2, <1>2, <1>4, <1>5 DEF WokenFirst
  <2>3. CASE ~ locked /\ Head(waiters) # r
    BY <2>3, <1>2, <1>4, <1>5 DEF WokenFirst
  <2> QED
    BY <2>1, <2>2, <2>3
<1>8. QueueSound'
  BY <1>5, <1>6, <1>7, QueueFrom
<1> QED
  BY <1>3, <1>8 DEF LockInv

(* A woken waiter finds the lock free and is the first of the queue. *)
LEMMA GrantedFacts ==
    ASSUME TypeOK, LockInv, NEW r \in Req, Granted(r)
    PROVE  /\ ~ locked /\ waiters # <<>> /\ Head(waiters) = r
           /\ woken' = {}
<1>1. woken = IF locked \/ waiters = <<>> THEN {} ELSE {Head(waiters)}
  BY QueueFacts DEF LockInv
<1> QED
  BY <1>1 DEF Granted

LEMMA LockInvKept ==
    ASSUME TypeOK, LockInv, [Next]_vars
    PROVE  LockInv'
<1>1. ASSUME NEW r \in Req, Arrive(r)
      PROVE  LockInv'
  <2>1. CASE LockFree
    <3>1. ~ locked /\ waiters = <<>> /\ woken = {}
      BY <2>1, QueueFacts DEF LockFree, LockInv
    <3> QED
      BY <1>1, <2>1, <3>1, LockTaken DEF Arrive, Move
  <2>2. CASE ~ LockFree
    BY <1>1, <2>2, LockAwaited DEF Arrive, Move
  <2> QED
    BY <2>1, <2>2
<1>2. ASSUME NEW r \in Req, Granted(r)
      PROVE  LockInv'
  BY <1>2, GrantedFacts, LockTaken DEF Granted, Move
<1>3. ASSUME NEW r \in Req, Reply(r) \/ OrphanEnds(r)
      PROVE  LockInv'
  BY <1>3 DEF Reply, OrphanEnds, lockVars, LockInv, LockHeldInside, QueueSound
<1>4. ASSUME NEW r \in Req,
             BeginTool(r) \/ EndTool(r) \/ Yield(r) \/ Sent(r) \/ AbandonSending(r)
      PROVE  LockInv'
  <2>1. PICK p \in Inside : phase' = [phase EXCEPT ![r] = p]
    BY <1>4 DEF BeginTool, EndTool, Yield, Sent, AbandonSending, Move, Inside
  <2>2. phase[r] \in Inside /\ UNCHANGED lockVars
    BY <1>4 DEF BeginTool, EndTool, Yield, Sent, AbandonSending, Inside
  <2>3. p # "queued" /\ phase[r] # "queued"
    BY <2>1, <2>2 DEF Inside
  <2> QED
    BY <2>1, <2>2, <2>3, LockUntouched
<1>5. ASSUME NEW r \in Req, Finish(r) \/ CancelRunning(r) \/ CloseAbandoned(r)
      PROVE  LockInv'
  <2>1. PICK p \in Final : phase' = [phase EXCEPT ![r] = p]
    BY <1>5 DEF Finish, CancelRunning, CloseAbandoned, Move, Final
  <2>2. phase[r] \in Inside /\ Release
    BY <1>5 DEF Finish, CancelRunning, CloseAbandoned, Inside
  <2> QED
    BY <2>1, <2>2, LockReleased
<1>6. ASSUME NEW r \in Req, LeaveQueued(r)
      PROVE  LockInv'
  BY <1>6, LockGivenUp DEF LeaveQueued, Move
<1>7. ASSUME NEW r \in Req, Proxy(r) \/ ProxyEnds(r)
      PROVE  LockInv'
  <2>1. PICK p \in {"proxying"} \cup Final : phase' = [phase EXCEPT ![r] = p]
    BY <1>7 DEF Proxy, ProxyEnds, Move
  <2>2. phase[r] \in {"idle", "proxying"} /\ UNCHANGED lockVars
    BY <1>7 DEF Proxy, ProxyEnds
  <2>3. /\ p # "queued" /\ phase[r] # "queued"
        /\ p \notin Inside /\ phase[r] \notin Inside
    BY <2>1, <2>2 DEF Inside, Final
  <2> QED
    BY <2>1, <2>2, <2>3, LockUntouched
<1>8. CASE UNCHANGED vars
  BY <1>8 DEF vars, LockInv, LockHeldInside, QueueSound
<1> QED
  BY <1>1, <1>2, <1>3, <1>4, <1>5, <1>6, <1>7, <1>8 DEF Next, Serve, Depart

LEMMA LockInvInitially == Init => LockInv
BY DEF Init, LockInv, LockHeldInside, QueueSound, Inside

LEMMA LockInvAlways == Spec => []LockInv
<1>1. TypeOK /\ LockInv /\ [Next]_vars => LockInv'
  BY LockInvKept
<1> QED
  BY <1>1, LockInvInitially, TypeCorrect, PTL DEF Spec

(* The lock is held exactly while one handler is inside it. *)
THEOREM LockHeld == Spec => []LockHeldInside
<1>1. LockInv => LockHeldInside
  BY DEF LockInv
<1> QED
  BY <1>1, LockInvAlways, PTL

(* No cancellation loses a wake-up: a free lock with waiters has always    *)
(* woken the oldest of them.                                               *)
THEOREM QueueIsSound == Spec => []QueueSound
<1>1. LockInv => QueueSound
  BY DEF LockInv
<1> QED
  BY <1>1, LockInvAlways, PTL

(* Nobody gets inside the lock past an older waiter. *)
THEOREM FirstCome == Spec => FirstComeFirstServed
<1>1. ASSUME TypeOK, LockInv, [Next]_vars,
             NEW r \in Req, phase[r] \notin Inside, phase'[r] \in Inside
      PROVE  waiters = <<>> \/ Head(waiters) = r
  <2>1. ASSUME NEW q \in Req, NEW p, phase' = [phase EXCEPT ![q] = p],
               phase[q] \in Inside \/ p \notin Inside
        PROVE  FALSE
    BY <1>1, <2>1 DEF TypeOK
  <2>2. ASSUME NEW q \in Req, Arrive(q)
        PROVE  waiters = <<>>
    <3>1. CASE LockFree
      BY <3>1 DEF LockFree
    <3>2. CASE ~ LockFree
      BY <2>1, <2>2, <3>2 DEF Arrive, Move, Inside
    <3> QED
      BY <3>1, <3>2
  <2>3. ASSUME NEW q \in Req, Granted(q)
        PROVE  Head(waiters) = r
    <3>1. q = r
      BY <1>1, <2>3 DEF Granted, Move, TypeOK
    <3> QED
      BY <2>3, <3>1, <1>1, GrantedFacts
  <2>4. ASSUME NEW q \in Req, Serve(q) \/ Sent(q) \/ Depart(q) \/ CloseAbandoned(q)
        PROVE  FALSE
    <3>1. CASE Reply(q)
      BY <3>1, <1>1 DEF Reply
    <3>2. CASE LeaveQueued(q)
      BY <3>2, <2>1 DEF LeaveQueued, Move, Inside
    <3>3. CASE \/ BeginTool(q) \/ EndTool(q) \/ Yield(q) \/ Finish(q) \/ Sent(q)
               \/ CancelRunning(q) \/ AbandonSending(q) \/ CloseAbandoned(q)
      <4>1. phase[q] \in Inside
        BY <3>3 DEF BeginTool, EndTool, Yield, Finish, Sent, CancelRunning,
                    AbandonSending, CloseAbandoned, Inside
      <4>2. \E p : phase' = [phase EXCEPT ![q] = p]
        BY <3>3 DEF BeginTool, EndTool, Yield, Finish, Sent, CancelRunning,
                    AbandonSending, CloseAbandoned, Move
      <4> QED
        BY <4>1, <4>2, <2>1
    <3> QED
      BY <2>4, <3>1, <3>2, <3>3 DEF Serve, Depart
  <2>5. ASSUME NEW q \in Req, Proxy(q) \/ ProxyEnds(q)
        PROVE  FALSE
    BY <2>1, <2>5 DEF Proxy, ProxyEnds, Move, Inside, Final
  <2>6. ASSUME NEW q \in Req, OrphanEnds(q)
        PROVE  FALSE
    BY <2>6, <1>1 DEF OrphanEnds
  <2>7. CASE UNCHANGED vars
    BY <2>7, <1>1 DEF vars
  <2> QED
    BY <1>1, <2>2, <2>3, <2>4, <2>5, <2>6, <2>7 DEF Next
<1>2. TypeOK /\ LockInv /\ [Next]_vars
        => [\A r \in Req : phase[r] \notin Inside /\ phase'[r] \in Inside
              => waiters = <<>> \/ Head(waiters) = r]_vars
  BY <1>1
<1> QED
  BY <1>2, TypeCorrect, LockInvAlways, PTL DEF Spec, FirstComeFirstServed

-----------------------------------------------------------------------------
(* The abstract agent.  Owner is the handler inside, of which LockInv says *)
(* that there is at most one.                                              *)

LEMMA OwnerIs ==
    ASSUME LockHeldInside
    PROVE  /\ \A r \in Req : phase[r] \in Inside => Owner = r
           /\ (\A r \in Req : phase[r] \notin Inside) => Owner = NoOne
BY DEF LockHeldInside, Owner

(* A step that leaves agent.messages alone and lets nobody inside is a     *)
(* stutter of the abstract agent, or the end of a conversation.            *)
LEMMA AgentAlone ==
    ASSUME LockInv, LockInv', NEW r \in Req,
           phase \in [Req -> AllPhases], phase' \in [Req -> AllPhases],
           \A q \in Req : q # r => phase'[q] = phase[q],
           phase'[r] \in Inside => phase[r] \in Inside,
           messages' = messages
    PROVE  [Serial!SerialNext]_<<Owner, messages>>
<1>1. CASE phase[r] \in Inside /\ phase'[r] \notin Inside
  <2>1. Owner = r
    BY <1>1, OwnerIs DEF LockInv
  <2>2. \A q \in Req : phase'[q] \notin Inside
    BY <1>1 DEF LockInv, LockHeldInside
  <2>3. Owner' = NoOne
    BY <2>2 DEF Owner
  <2> QED
    BY <2>1, <2>3 DEF Serial!SerialNext, Serial!End
<1>2. CASE phase[r] \in Inside <=> phase'[r] \in Inside
  <2>1. Owner' = Owner
    <3>1. CASE \E q \in Req : phase[q] \in Inside
      <4>1. PICK q \in Req : phase[q] \in Inside
        BY <3>1
      <4>2. phase'[q] \in Inside
        BY <4>1, <1>2
      <4>3. Owner = q
        BY <4>1, OwnerIs DEF LockInv
      <4>4. \A t \in Req : phase'[t] \in Inside => t = q
        BY <4>2 DEF LockInv, LockHeldInside
      <4>5. Owner' = q
        BY <4>2, <4>4 DEF Owner
      <4> QED
        BY <4>3, <4>5
    <3>2. CASE \A q \in Req : phase[q] \notin Inside
      <4>1. \A q \in Req : phase'[q] \notin Inside
        BY <3>2, <1>2
      <4> QED
        BY <3>2, <4>1 DEF Owner
    <3> QED
      BY <3>1, <3>2
  <2> QED
    BY <2>1
<1> QED
  BY <1>1, <1>2

(* A handler that gets inside begins its conversation. *)
LEMMA AgentBegins ==
    ASSUME LockInv, LockInv', NEW r \in Req,
           ~ locked, phase'[r] \in Inside, messages' = Incoming[r]
    PROVE  Serial!SerialNext
<1>1. Owner = NoOne
  BY OwnerIs DEF LockInv, LockHeldInside
<1>2. \A q \in Req : phase'[q] \in Inside => q = r
  BY DEF LockInv, LockHeldInside
<1>3. Owner' = r
  BY <1>2 DEF Owner
<1> QED
  BY <1>1, <1>3 DEF Serial!SerialNext, Serial!Begin

(* The handler inside adds to it. *)
LEMMA AgentExtends ==
    ASSUME LockInv, LockInv', NEW r \in Req, NEW role \in {"assistant", "tool"},
           phase[r] \in Inside, phase'[r] \in Inside,
           messages' = Append(messages, Msg(r, role))
    PROVE  Serial!SerialNext
<1>1. Owner = r
  BY OwnerIs DEF LockInv
<1>2. \A q \in Req : phase'[q] \in Inside => q = r
  BY DEF LockInv, LockHeldInside
<1>3. Owner' = r
  BY <1>2 DEF Owner
<1> QED
  BY <1>1, <1>3 DEF Serial!SerialNext, Serial!Extend, Serial!Msg, Msg

(* What every step does to the agent, in three cases. *)
LEMMA StepKinds ==
    ASSUME TypeOK, TypeOK', LockInv, [Next]_vars
    PROVE  \/ UNCHANGED <<phase, messages>>
           \/ \E r \in Req :
                 /\ \A q \in Req : q # r => phase'[q] = phase[q]
                 /\ \/ /\ phase'[r] \in Inside => phase[r] \in Inside
                       /\ messages' = messages
                    \/ /\ ~ locked
                       /\ phase'[r] \in Inside
                       /\ messages' = Incoming[r]
                    \/ /\ phase[r] \in Inside /\ phase'[r] \in Inside
                       /\ \E role \in {"assistant", "tool"} :
                             messages' = Append(messages, Msg(r, role))
<1> DEFINE Kinds(r) ==
              /\ \A q \in Req : q # r => phase'[q] = phase[q]
              /\ \/ /\ phase'[r] \in Inside => phase[r] \in Inside
                    /\ messages' = messages
                 \/ /\ ~ locked
                    /\ phase'[r] \in Inside
                    /\ messages' = Incoming[r]
                 \/ /\ phase[r] \in Inside /\ phase'[r] \in Inside
                    /\ \E role \in {"assistant", "tool"} :
                          messages' = Append(messages, Msg(r, role))
<1>1. ASSUME NEW r \in Req, NEW p, Move(r, p)
      PROVE  phase'[r] = p /\ \A q \in Req : q # r => phase'[q] = phase[q]
  BY <1>1 DEF Move, TypeOK
<1>2. ASSUME NEW r \in Req, Arrive(r) \/ Granted(r)
      PROVE  Kinds(r)
  <2>1. CASE Granted(r)
    BY <2>1, <1>1, GrantedFacts DEF Granted, Inside
  <2>2. CASE Arrive(r) /\ LockFree
    BY <2>2, <1>1 DEF Arrive, LockFree, Inside
  <2>3. CASE Arrive(r) /\ ~ LockFree
    BY <2>3, <1>1 DEF Arrive, Inside
  <2> QED
    BY <1>2, <2>1, <2>2, <2>3
<1>3. ASSUME NEW r \in Req, Reply(r) \/ EndTool(r)
      PROVE  Kinds(r)
  <2>1. CASE Reply(r)
    BY <2>1 DEF Reply, Inside
  <2>2. CASE EndTool(r)
    BY <2>2, <1>1 DEF EndTool, Inside
  <2> QED
    BY <1>3, <2>1, <2>2
<1>4. ASSUME NEW r \in Req,
             \/ BeginTool(r) \/ Yield(r) \/ Sent(r) \/ AbandonSending(r)
             \/ Finish(r) \/ LeaveQueued(r) \/ CancelRunning(r) \/ CloseAbandoned(r)
             \/ Proxy(r) \/ ProxyEnds(r)
      PROVE  Kinds(r)
  <2>1. \E p : Move(r, p) /\ (p \in Inside => phase[r] \in Inside)
    BY <1>4 DEF BeginTool, Yield, Sent, AbandonSending, Finish, LeaveQueued,
                CancelRunning, CloseAbandoned, Proxy, ProxyEnds, Inside, Final
  <2>2. messages' = messages
    BY <1>4 DEF BeginTool, Yield, Sent, AbandonSending, Finish, LeaveQueued,
                CancelRunning, CloseAbandoned, Proxy, ProxyEnds
  <2> QED
    BY <2>1, <2>2, <1>1
<1>5. ASSUME NEW r \in Req, OrphanEnds(r)
      PROVE  UNCHANGED <<phase, messages>>
  BY <1>5 DEF OrphanEnds
<1>6. ASSUME UNCHANGED vars
      PROVE  UNCHANGED <<phase, messages>>
  BY <1>6 DEF vars
<1> HIDE DEF Kinds
<1>7. ASSUME Next
      PROVE  UNCHANGED <<phase, messages>> \/ \E r \in Req : Kinds(r)
  <2>1. PICK r \in Req :
           \/ Arrive(r) \/ Granted(r) \/ Reply(r) \/ EndTool(r)
           \/ BeginTool(r) \/ Yield(r) \/ Finish(r) \/ Sent(r)
           \/ LeaveQueued(r) \/ CancelRunning(r) \/ AbandonSending(r)
           \/ CloseAbandoned(r) \/ OrphanEnds(r) \/ Proxy(r) \/ ProxyEnds(r)
    BY <1>7 DEF Next, Serve, Depart
  <2>2. CASE OrphanEnds(r)
    BY <2>2, <1>5
  <2>3. CASE ~ OrphanEnds(r)
    <3>1. Kinds(r)
      BY <2>1, <2>3, <1>2, <1>3, <1>4
    <3> QED
      BY <3>1
  <2> QED
    BY <2>2, <2>3
<1>8. UNCHANGED <<phase, messages>> \/ \E r \in Req : Kinds(r)
  BY <1>6, <1>7
<1> QED
  BY <1>8 DEF Kinds

(* Seen through the lock, the shared agent serves one conversation at a    *)
(* time: the server implements SerialAgent.                                *)
THEOREM Refines == Spec => ServesOneConversation
<1>1. Init => Serial!SerialInit
  BY DEF Init, Inside, Owner, Serial!SerialInit
<1>2. TypeOK /\ TypeOK' /\ LockInv /\ LockInv' /\ [Next]_vars
        => [Serial!SerialNext]_<<Owner, messages>>
  <2> SUFFICES ASSUME TypeOK, TypeOK', LockInv, LockInv', [Next]_vars
               PROVE  [Serial!SerialNext]_<<Owner, messages>>
    OBVIOUS
  <2>1. CASE UNCHANGED <<phase, messages>>
    BY <2>1 DEF Owner
  <2>2. phase \in [Req -> AllPhases] /\ phase' \in [Req -> AllPhases]
    BY DEF TypeOK
  <2> QED
    BY <2>1, <2>2, StepKinds, AgentAlone, AgentBegins, AgentExtends
<1> QED
  BY <1>1, <1>2, TypeCorrect, LockInvAlways, PTL
     DEF Spec, ServesOneConversation, Serial!SerialSpec

(* While a handler is inside, agent.messages holds its own conversation.   *)
THEOREM Isolation == Spec => []OwnConversation
<1>1. Init => OwnConversation
  BY DEF Init, OwnConversation, Inside
<1>2. TypeOK /\ TypeOK' /\ LockInv /\ LockInv' /\ OwnConversation /\ [Next]_vars
        => OwnConversation'
  <2> SUFFICES ASSUME TypeOK, TypeOK', LockInv, LockInv', OwnConversation, [Next]_vars,
                      NEW t \in Req, phase'[t] \in Inside
               PROVE  /\ \A k \in DOMAIN messages' : messages'[k].from = t
                      /\ Len(messages') >= Len(Incoming[t])
    BY DEF OwnConversation
  <2>1. \A q \in Req : phase'[q] \in Inside => q = t
    BY DEF LockInv, LockHeldInside
  <2>2. ASSUME messages' = messages, phase[t] \in Inside
        PROVE  /\ \A k \in DOMAIN messages' : messages'[k].from = t
               /\ Len(messages') >= Len(Incoming[t])
    BY <2>2 DEF OwnConversation
  <2>3. ASSUME messages' = Incoming[t]
        PROVE  /\ \A k \in DOMAIN messages' : messages'[k].from = t
               /\ Len(messages') >= Len(Incoming[t])
    <3>1. Incoming[t] = IF t \in SendsSystem THEN <<Msg(t, "system"), Msg(t, "user")>>
                        ELSE <<Msg(t, "user")>>
      BY DEF Incoming
    <3>2. Msg(t, "system").from = t /\ Msg(t, "user").from = t
      BY DEF Msg
    <3> HIDE DEF Msg
    <3> QED
      BY <2>3, <3>1, <3>2
  <2>4. ASSUME NEW role \in {"assistant", "tool"}, phase[t] \in Inside,
               messages' = Append(messages, Msg(t, role))
        PROVE  /\ \A k \in DOMAIN messages' : messages'[k].from = t
               /\ Len(messages') >= Len(Incoming[t])
    <3>1. Msg(t, role) \in Message /\ Msg(t, role).from = t
      BY MsgType DEF Msg
    <3>2. messages \in Seq(Message) /\ Len(Incoming[t]) \in Nat
      BY IncomingType DEF TypeOK
    <3>3. /\ \A k \in DOMAIN messages : messages[k].from = t
          /\ Len(messages) >= Len(Incoming[t])
      BY <2>4 DEF OwnConversation
    <3>4. /\ Len(messages') = Len(messages) + 1
          /\ DOMAIN messages' = DOMAIN messages \cup {Len(messages) + 1}
          /\ messages'[Len(messages) + 1] = Msg(t, role)
          /\ \A k \in DOMAIN messages : messages'[k] = messages[k]
      BY <2>4, <3>1, <3>2, AppendProperties
    <3>5. Len(messages') >= Len(Incoming[t])
      BY <3>2, <3>3, <3>4
    <3> QED
      BY <3>1, <3>3, <3>4, <3>5
  <2>5. CASE UNCHANGED <<phase, messages>>
    BY <2>5, <2>2
  <2> QED
    BY <2>1, <2>2, <2>3, <2>4, <2>5, StepKinds
<1> QED
  BY <1>1, <1>2, TypeCorrect, LockInvAlways, PTL DEF Spec
=============================================================================
