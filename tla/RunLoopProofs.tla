--------------------------- MODULE RunLoopProofs ---------------------------
(* What BaseAgent.run does for any number of steps, any cap and any        *)
(* configuration of its backoff.                                           *)
EXTENDS RunLoop, FiniteSetTheorems, WellFoundedInduction, TLAPS

LEMMA Bounds ==
    /\ MaxIterations \in Nat /\ RoundCap \in Nat /\ Ceiling \in Nat /\ Initial \in Nat
    /\ Multiplier \in Nat /\ Calls \subseteq Nat
    /\ Initial >= 1 /\ Multiplier >= 2 /\ Ceiling >= 1
BY LoopConfigAssumption

-----------------------------------------------------------------------------
(* Induction over the naturals for a set, which the provers can use where  *)
(* a theorem about an operator cannot be instantiated.                     *)
LEMMA InductiveSet ==
    ASSUME NEW S, 0 \in S, \A n \in Nat : n \in S => n + 1 \in S
    PROVE  Nat \subseteq S
<1> SUFFICES ASSUME Nat \ S # {} PROVE FALSE
  OBVIOUS
<1> DEFINE Less == OpToRel(<, Nat)
<1>1. IsWellFoundedOn(Less, Nat)
  BY NatLessThanWellFounded
<1>2. Nat \ S \subseteq Nat
  OBVIOUS
<1>3. \E x \in Nat \ S : \A y \in Nat \ S : ~ (<<y, x>> \in Less)
  <2> HIDE DEF Less
  <2> QED
    BY <1>1, <1>2, WFMin
<1>4. PICK x \in Nat \ S : \A y \in Nat \ S : ~ (<<y, x>> \in Less)
  BY <1>3
<1>5. x # 0 /\ x - 1 \in Nat
  OBVIOUS
<1>6. x - 1 \notin S
  BY <1>5
<1>7. <<x - 1, x>> \in Less
  BY <1>5 DEF OpToRel
<1> QED
  BY <1>4, <1>5, <1>6, <1>7

(* A function that computes the powers of Multiplier up to n. *)
PowersTo(f, n) == f = [i \in 0..n |-> IF i = 0 THEN 1 ELSE Multiplier * f[i - 1]]

(* The recursion has a solution, so Power is one. *)
LEMMA PowerEquation == Power = [n \in Nat |-> IF n = 0 THEN 1 ELSE Multiplier * Power[n - 1]]
<1> DEFINE D == {n \in Nat : \E f \in [0..n -> Int] : PowersTo(f, n)}
<1>1. 0 \in D
  <2> DEFINE f == [i \in 0..0 |-> 1]
  <2>1. f \in [0..0 -> Int] /\ PowersTo(f, 0)
    BY DEF PowersTo
  <2> QED
    BY <2>1
<1>2. ASSUME NEW n \in Nat, NEW f \in [0..n -> Int], PowersTo(f, n)
      PROVE  \E g \in [0..(n + 1) -> Int] : PowersTo(g, n + 1)
  <2> DEFINE g == [i \in 0..(n + 1) |-> IF i <= n THEN f[i] ELSE Multiplier * f[n]]
  <2>1. Multiplier * f[n] \in Int
    BY Bounds
  <2>2. g \in [0..(n + 1) -> Int]
    BY <2>1
  <2>3. ASSUME NEW i \in 0..(n + 1)
        PROVE  g[i] = IF i = 0 THEN 1 ELSE Multiplier * g[i - 1]
    <3>1. CASE i = n + 1
      <4>1. i # 0 /\ i - 1 = n /\ ~ (i <= n) /\ n \in 0..(n + 1)
        BY <3>1
      <4>2. g[i] = Multiplier * f[n] /\ g[n] = f[n]
        BY <4>1
      <4> QED
        BY <4>1, <4>2
    <3>2. CASE i \in 0..n
      <4>1. g[i] = f[i] /\ (i # 0 => g[i - 1] = f[i - 1])
        BY <3>2
      <4>2. f[i] = IF i = 0 THEN 1 ELSE Multiplier * f[i - 1]
        BY <1>2, <3>2 DEF PowersTo
      <4> QED
        BY <4>1, <4>2
    <3> QED
      BY <3>1, <3>2
  <2> HIDE DEF g
  <2>4. PowersTo(g, n + 1)
    BY <2>2, <2>3 DEF PowersTo
  <2> QED
    BY <2>2, <2>4
<1>3. \A n \in Nat : n \in D => n + 1 \in D
  BY <1>2
<1>4. Nat \subseteq D
  <2> HIDE DEF D
  <2> QED
    BY <1>1, <1>3, InductiveSet
<1>5. \A n \in Nat : \E f \in [0..n -> Int] : PowersTo(f, n)
  BY <1>4
<1>6. ASSUME NEW m \in Nat, NEW n \in Nat, NEW f, NEW g, PowersTo(f, m), PowersTo(g, n)
      PROVE  \A i \in Nat : i <= m /\ i <= n => f[i] = g[i]
  <2> DEFINE E == {i \in Nat : i <= m /\ i <= n => f[i] = g[i]}
  <2>1. 0 \in E
    BY <1>6 DEF PowersTo
  <2>2. ASSUME NEW i \in Nat, i \in E PROVE i + 1 \in E
    <3> SUFFICES ASSUME i + 1 <= m, i + 1 <= n PROVE f[i + 1] = g[i + 1]
      OBVIOUS
    <3>1. f[i] = g[i]
      BY <2>2
    <3>2. i + 1 \in 0..m /\ i + 1 \in 0..n /\ i + 1 # 0 /\ (i + 1) - 1 = i
      OBVIOUS
    <3>3. f[i + 1] = Multiplier * f[i]
      BY <1>6, <3>2 DEF PowersTo
    <3>4. g[i + 1] = Multiplier * g[i]
      BY <1>6, <3>2 DEF PowersTo
    <3> QED
      BY <3>1, <3>3, <3>4
  <2>3. Nat \subseteq E
    <3> HIDE DEF E
    <3> QED
      BY <2>1, <2>2, InductiveSet
  <2> QED
    BY <2>3
<1> DEFINE F(n) == CHOOSE f : PowersTo(f, n)
           P == [n \in Nat |-> F(n)[n]]
<1>7. \A n \in Nat : PowersTo(F(n), n)
  BY <1>5
<1>8. ASSUME NEW n \in Nat PROVE P[n] = IF n = 0 THEN 1 ELSE Multiplier * P[n - 1]
  <2>1. F(n)[n] = IF n = 0 THEN 1 ELSE Multiplier * F(n)[n - 1]
    <3>1. n \in 0..n
      OBVIOUS
    <3> HIDE DEF F
    <3> QED
      BY <1>7, <3>1 DEF PowersTo
  <2>2. n # 0 => F(n)[n - 1] = F(n - 1)[n - 1]
    <3> HIDE DEF F
    <3> SUFFICES ASSUME n # 0 PROVE F(n)[n - 1] = F(n - 1)[n - 1]
      OBVIOUS
    <3>1. n - 1 \in Nat /\ n - 1 <= n
      OBVIOUS
    <3> QED
      BY <1>6, <1>7, <3>1
  <2>3. n # 0 => P[n - 1] = F(n - 1)[n - 1]
    OBVIOUS
  <2> QED
    BY <2>1, <2>2, <2>3
<1>9. P = [n \in Nat |-> IF n = 0 THEN 1 ELSE Multiplier * P[n - 1]]
  <2> DEFINE Q == [n \in Nat |-> IF n = 0 THEN 1 ELSE Multiplier * P[n - 1]]
  <2>1. \A n \in Nat : P[n] = Q[n]
    <3> HIDE DEF P
    <3> QED
      BY <1>8
  <2>2. P = Q
    <3>1. P = [n \in Nat |-> P[n]] /\ Q = [n \in Nat |-> Q[n]]
      OBVIOUS
    <3> HIDE DEF P, Q
    <3> QED
      BY <2>1, <3>1
  <2> QED
    BY <2>2
<1> HIDE DEF P
<1> QED
  BY <1>9 DEF Power

LEMMA PowerPositive == \A n \in Nat : Power[n] \in Nat /\ Power[n] >= 1
<1> DEFINE D == {n \in Nat : Power[n] \in Nat /\ Power[n] >= 1}
<1>1. \A n \in Nat : Power[n] = IF n = 0 THEN 1 ELSE Multiplier * Power[n - 1]
  BY PowerEquation
<1>2. 0 \in D
  BY <1>1
<1>3. ASSUME NEW n \in Nat, n \in D PROVE n + 1 \in D
  <2>1. Power[n + 1] = Multiplier * Power[n]
    BY <1>1
  <2>2. \A a, b \in Nat : a >= 1 /\ b >= 1 => a * b \in Nat /\ a * b >= 1
    OBVIOUS
  <2>3. Multiplier \in Nat /\ Multiplier >= 1
    BY Bounds
  <2> QED
    BY <1>3, <2>1, <2>2, <2>3
<1>4. Nat \subseteq D
  <2> HIDE DEF D
  <2> QED
    BY <1>2, <1>3, InductiveSet
<1> QED
  BY <1>4

(* A delay is at least a second and at most the ceiling. *)
LEMMA BackoffBounded == \A n \in Nat \ {0} : Backoff(n) \in 1..Ceiling
<1> SUFFICES ASSUME NEW n \in Nat \ {0} PROVE Backoff(n) \in 1..Ceiling
  OBVIOUS
<1>1. n - 1 \in Nat
  OBVIOUS
<1>2. Power[n - 1] \in Nat /\ Power[n - 1] >= 1
  BY <1>1, PowerPositive
<1>3. \A a, b \in Nat : a >= 1 /\ b >= 1 => a * b \in Nat /\ a * b >= 1
  OBVIOUS
<1>4. Initial * Power[n - 1] \in Nat /\ Initial * Power[n - 1] >= 1
  BY <1>2, <1>3, Bounds
<1> QED
  BY <1>4, Bounds DEF Backoff, Lesser

-----------------------------------------------------------------------------
Outcome == {"done", "continue", "error"}

(* The last steps that failed; how many a step of the run leaves.          *)
LastErrors == {k \in DOMAIN outcomes : \A l \in DOMAIN outcomes : l >= k => outcomes[l] = "error"}

LEMMA LastErrorsGrow ==
    ASSUME outcomes \in Seq(Outcome), NEW outcome \in Outcome, outcomes' = Append(outcomes, outcome)
    PROVE  /\ IsFiniteSet(LastErrors) /\ IsFiniteSet(LastErrors')
           /\ outcome = "error" => Cardinality(LastErrors') = Cardinality(LastErrors) + 1
           /\ outcome # "error" => Cardinality(LastErrors') = 0
<1> DEFINE n == Len(outcomes)
<1>1. /\ n \in Nat /\ DOMAIN outcomes = 1..n /\ DOMAIN outcomes' = 1..(n + 1)
      /\ outcomes'[n + 1] = outcome /\ \A k \in 1..n : outcomes'[k] = outcomes[k]
  OBVIOUS
<1> HIDE DEF n
<1>2. IsFiniteSet(1..n) /\ IsFiniteSet(1..(n + 1))
  BY <1>1, FS_Interval
<1>3. IsFiniteSet(LastErrors) /\ IsFiniteSet(LastErrors')
  <2>1. LastErrors \subseteq 1..n /\ LastErrors' \subseteq 1..(n + 1)
    BY <1>1 DEF LastErrors
  <2> QED
    BY <1>2, <2>1, FS_Subset
<1>4. ASSUME outcome = "error" PROVE Cardinality(LastErrors') = Cardinality(LastErrors) + 1
  <2>1. LastErrors' = LastErrors \cup {n + 1} /\ n + 1 \notin LastErrors
    <3>1. ASSUME NEW k \in 1..(n + 1), k \in LastErrors' PROVE k \in LastErrors \cup {n + 1}
      BY <1>1, <3>1 DEF LastErrors
    <3>2. ASSUME NEW k \in LastErrors \cup {n + 1} PROVE k \in LastErrors'
      <4> SUFFICES ASSUME NEW l \in 1..(n + 1), l >= k PROVE k \in 1..(n + 1) /\ outcomes'[l] = "error"
        BY <1>1 DEF LastErrors
      <4>1. CASE l = n + 1
        BY <1>1, <1>4, <3>2, <4>1 DEF LastErrors
      <4>2. CASE l \in 1..n
        BY <1>1, <3>2, <4>2 DEF LastErrors
      <4> QED
        BY <1>1, <4>1, <4>2
    <3>3. n + 1 \notin LastErrors /\ LastErrors' \subseteq 1..(n + 1)
      BY <1>1 DEF LastErrors
    <3> QED
      BY <3>1, <3>2, <3>3
  <2> QED
    BY <1>3, <2>1, FS_AddElement
<1>5. ASSUME outcome # "error" PROVE Cardinality(LastErrors') = 0
  <2>1. LastErrors' = {}
    BY <1>1, <1>5 DEF LastErrors
  <2> QED
    BY <2>1, FS_EmptySet
<1> QED
  BY <1>3, <1>4, <1>5

(* One outcome for each step that is over, and no more errors than steps.  *)
Progress ==
    /\ pc \in {"calling", "tools"} => Len(outcomes) = iteration - 1
    /\ pc \notin {"calling", "tools"} => Len(outcomes) = iteration
    /\ errors = Cardinality(LastErrors) /\ errors <= Len(outcomes)
    /\ pc = "sleeping" => errors >= 1 /\ delay = Backoff(errors)

(* A DONE step is the last. *)
Finished ==
    /\ result # "" => pc = "returned"
    /\ ReturnsWhatSteppedTo

LoopInv == TypeOK /\ Progress /\ Finished /\ OpenOnlyByFailure

(* What the types say of the numbers and of the outcomes. *)
LEMMA Types ==
    ASSUME TypeOK
    PROVE  /\ iteration \in Nat /\ iteration <= MaxIterations /\ MaxIterations \in Nat
           /\ errors \in Nat /\ outcomes \in Seq(Outcome) /\ Len(outcomes) \in Nat
           /\ DOMAIN outcomes = 1..Len(outcomes)
<1>1. MaxIterations \in Nat
  BY Bounds
<1>2. iteration \in 0..MaxIterations /\ errors \in 0..MaxIterations
  BY DEF TypeOK
<1>3. outcomes \in Seq(Outcome)
  BY DEF TypeOK, Outcome
<1>4. Len(outcomes) \in Nat /\ DOMAIN outcomes = 1..Len(outcomes)
  BY <1>3
<1> QED
  BY <1>1, <1>2, <1>3, <1>4

LEMMA LoopInit == Init => LoopInv
<1> SUFFICES ASSUME Init PROVE LoopInv
  OBVIOUS
<1>1. LastErrors = {} /\ Cardinality(LastErrors) = 0
  <2>1. outcomes = <<>>
    BY DEF Init
  <2>2. LastErrors = {}
    BY <2>1 DEF LastErrors
  <2> QED
    BY <2>2, FS_EmptySet
<1>2. TypeOK
  <2>1. 0 \in 0..MaxIterations /\ 0 \in 0..RoundCap /\ 0 \in 0..Ceiling
    BY Bounds
  <2>2. <<>> \in Seq({"done", "continue", "error"})
    OBVIOUS
  <2> QED
    BY <2>1, <2>2 DEF Init, TypeOK
<1>3. outcomes = <<>> /\ Len(<<>>) = 0
  BY DEF Init
<1>4. Progress
  <2>1. Len(outcomes) = 0 /\ errors = 0 /\ iteration = 0 /\ pc = "loop"
    BY <1>3 DEF Init
  <2> QED
    BY <1>1, <2>1 DEF Progress
<1>5. Finished
  <2>1. \A k : k \notin DOMAIN outcomes
    BY <1>3
  <2> QED
    BY <2>1 DEF Init, Finished, ReturnsWhatSteppedTo
<1>6. OpenOnlyByFailure
  BY DEF Init, OpenOnlyByFailure
<1> QED
  BY <1>2, <1>4, <1>5, <1>6 DEF LoopInv

(* The steps that end no step of the run. *)
LEMMA QuietSteps ==
    ASSUME LoopInv, BeginStep \/ Exhausted \/ ModelAsks \/ ExecuteTool \/ Wake
    PROVE  LoopInv'
<1>0. outcomes' = outcomes /\ errors' = errors /\ delay' = delay
  BY DEF BeginStep, Exhausted, ModelAsks, ExecuteTool, Wake
<1>1. LastErrors' = LastErrors
  BY <1>0 DEF LastErrors
<1>t. /\ iteration \in Nat /\ iteration <= MaxIterations /\ MaxIterations \in Nat
      /\ errors \in Nat /\ Len(outcomes) \in Nat
  BY Types DEF LoopInv
<1>c. RoundCap \in Nat /\ rounds \in 0..RoundCap
  BY Bounds DEF LoopInv, TypeOK
<1>2. CASE BeginStep
  <2>1. /\ pc = "loop" /\ pc' = "calling" /\ iteration < MaxIterations
        /\ iteration' = iteration + 1 /\ rounds' = 0
        /\ UNCHANGED <<capped, pending, unanswered, errors, delay, outcomes, result>>
    BY <1>2 DEF BeginStep
  <2>2. iteration' \in 0..MaxIterations /\ rounds' \in 0..RoundCap
    BY <1>t, <1>c, <2>1
  <2>3. TypeOK'
    BY <2>1, <2>2 DEF LoopInv, TypeOK
  <2>4. Progress'
    BY <1>1, <1>t, <2>1 DEF LoopInv, Progress
  <2>5. Finished' /\ OpenOnlyByFailure'
    BY <2>1 DEF LoopInv, Finished, ReturnsWhatSteppedTo, OpenOnlyByFailure
  <2> QED
    BY <2>3, <2>4, <2>5 DEF LoopInv
<1>3. CASE Exhausted
  <2>1. /\ pc = "loop" /\ pc' = "returned" /\ iteration = MaxIterations /\ result' = "none"
        /\ UNCHANGED <<capped, iteration, rounds, pending, unanswered, errors, delay, outcomes>>
    BY <1>3 DEF Exhausted
  <2>2. TypeOK'
    BY <2>1 DEF LoopInv, TypeOK
  <2>3. Progress' /\ OpenOnlyByFailure'
    BY <1>1, <2>1 DEF LoopInv, Progress, OpenOnlyByFailure
  <2>4. \A k \in DOMAIN outcomes : outcomes[k] # "done"
    BY <2>1 DEF LoopInv, Finished, ReturnsWhatSteppedTo
  <2>5. Finished'
    BY <2>1, <2>4 DEF LoopInv, Progress, Finished, ReturnsWhatSteppedTo
  <2> QED
    BY <2>2, <2>3, <2>5 DEF LoopInv
<1>4. CASE ModelAsks
  <2>1. PICK asked \in SUBSET Calls : pending' = asked /\ unanswered' = asked
    BY <1>4 DEF ModelAsks
  <2>2. /\ pc = "calling" /\ pc' = "tools" /\ (capped => rounds < RoundCap)
        /\ rounds' = (IF capped THEN rounds + 1 ELSE rounds)
        /\ UNCHANGED <<capped, iteration, errors, delay, outcomes, result>>
    BY <1>4 DEF ModelAsks
  <2>3. rounds' \in 0..RoundCap
    BY <1>c, <2>2
  <2>4. TypeOK'
    BY <2>1, <2>2, <2>3 DEF LoopInv, TypeOK
  <2>5. Progress' /\ Finished' /\ OpenOnlyByFailure'
    BY <1>1, <2>1, <2>2
       DEF LoopInv, Progress, Finished, ReturnsWhatSteppedTo, OpenOnlyByFailure
  <2> QED
    BY <2>4, <2>5 DEF LoopInv
<1>5. CASE ExecuteTool
  <2>1. PICK i \in pending : pending' = pending \ {i} /\ unanswered' = unanswered \ {i}
    BY <1>5 DEF ExecuteTool
  <2>2. /\ pc = "tools" /\ pc' = (IF pending' = {} THEN "calling" ELSE "tools")
        /\ UNCHANGED <<capped, iteration, rounds, errors, delay, outcomes, result>>
    BY <1>5 DEF ExecuteTool
  <2>3. TypeOK'
    BY <2>1, <2>2 DEF LoopInv, TypeOK
  <2>4. Progress' /\ Finished'
    BY <1>1, <2>2 DEF LoopInv, Progress, Finished, ReturnsWhatSteppedTo
  <2>5. OpenOnlyByFailure'
    BY <2>1, <2>2 DEF LoopInv, OpenOnlyByFailure
  <2> QED
    BY <2>3, <2>4, <2>5 DEF LoopInv
<1>6. CASE Wake
  <2>1. /\ pc = "sleeping" /\ pc' = "loop"
        /\ UNCHANGED <<capped, iteration, rounds, pending, unanswered, errors, delay, outcomes, result>>
    BY <1>6 DEF Wake
  <2>2. TypeOK'
    BY <2>1 DEF LoopInv, TypeOK
  <2> QED
    BY <1>1, <2>1, <2>2
       DEF LoopInv, Progress, Finished, ReturnsWhatSteppedTo, OpenOnlyByFailure
<1> QED
  BY <1>2, <1>3, <1>4, <1>5, <1>6

(* What was there stays, and the new outcome is the last. *)
LEMMA Appended ==
    ASSUME NEW S, NEW s \in Seq(S), NEW e \in S
    PROVE  /\ Append(s, e) \in Seq(S) /\ Len(Append(s, e)) = Len(s) + 1
           /\ DOMAIN Append(s, e) = DOMAIN s \cup {Len(s) + 1}
           /\ Append(s, e)[Len(s) + 1] = e
           /\ \A k \in DOMAIN s : Append(s, e)[k] = s[k]
OBVIOUS

LEMMA StepReturnsKeeps == ASSUME LoopInv, StepReturns PROVE LoopInv'
<1>1. PICK outcome \in {"done", "continue"} : StepOver(outcome)
  BY DEF StepReturns
<1>2. /\ pc = "calling" /\ errors' = 0 /\ outcomes' = Append(outcomes, outcome)
      /\ UNCHANGED <<capped, iteration, rounds, pending, unanswered, delay>>
      /\ IF outcome = "done" THEN pc' = "returned" /\ result' = "done"
                             ELSE pc' = "loop" /\ result' = result
  BY <1>1 DEF StepReturns, StepOver
<1>t. /\ iteration \in Nat /\ iteration <= MaxIterations /\ MaxIterations \in Nat
      /\ errors \in Nat /\ outcomes \in Seq(Outcome) /\ Len(outcomes) \in Nat
  BY Types DEF LoopInv
<1>3. Len(outcomes) = iteration - 1 /\ result = ""
  BY <1>2 DEF LoopInv, Progress, Finished
<1>o. outcome \in Outcome
  BY DEF Outcome
<1>4. /\ outcomes' \in Seq(Outcome) /\ Len(outcomes') = Len(outcomes) + 1
      /\ DOMAIN outcomes' = DOMAIN outcomes \cup {Len(outcomes) + 1}
      /\ outcomes'[Len(outcomes) + 1] = outcome
      /\ \A k \in DOMAIN outcomes : outcomes'[k] = outcomes[k]
  BY <1>2, <1>t, <1>o, Appended
<1>5. Cardinality(LastErrors') = 0
  <2>1. outcome # "error"
    OBVIOUS
  <2> QED
    BY <1>2, <1>t, <1>o, <2>1, LastErrorsGrow
<1>6. TypeOK'
  <2>1. errors' \in 0..MaxIterations
    BY <1>2, <1>t
  <2> QED
    BY <1>2, <1>4, <2>1 DEF LoopInv, TypeOK, Outcome
<1>7. Progress'
  <2>a. iteration' = iteration /\ Len(outcomes') = Len(outcomes) + 1 /\ errors' = 0
    BY <1>2, <1>4
  <2>b. Len(outcomes) = iteration - 1 /\ iteration \in Nat /\ Len(outcomes) \in Nat
    BY <1>3, <1>t
  <2>c. pc' \notin {"calling", "tools"} /\ pc' # "sleeping"
    BY <1>2
  <2>1. /\ Len(outcomes') = iteration' /\ errors' <= Len(outcomes')
        /\ pc' \notin {"calling", "tools"} /\ pc' # "sleeping"
    BY <2>a, <2>b, <2>c
  <2> QED
    BY <1>2, <1>5, <2>1 DEF Progress
<1>8. Finished'
  <2>1. \A k \in DOMAIN outcomes : outcomes[k] # "done"
    BY <1>3 DEF LoopInv, Finished, ReturnsWhatSteppedTo
  <2> QED
    BY <1>2, <1>3, <1>4, <2>1 DEF Finished, ReturnsWhatSteppedTo
<1>9. OpenOnlyByFailure'
  BY <1>2, <1>4 DEF LoopInv, OpenOnlyByFailure
<1> QED
  BY <1>6, <1>7, <1>8, <1>9 DEF LoopInv

LEMMA StepRaisesKeeps == ASSUME LoopInv, StepRaises PROVE LoopInv'
<1>1. /\ pc \in {"calling", "tools"} /\ pc' = "sleeping" /\ errors' = errors + 1
      /\ delay' = Backoff(errors + 1) /\ outcomes' = Append(outcomes, "error")
      /\ pending' = {} /\ UNCHANGED <<capped, iteration, rounds, unanswered, result>>
  BY DEF StepRaises
<1>t. /\ iteration \in Nat /\ iteration <= MaxIterations /\ MaxIterations \in Nat
      /\ errors \in Nat /\ outcomes \in Seq(Outcome) /\ Len(outcomes) \in Nat
  BY Types DEF LoopInv
<1>2. /\ Len(outcomes) = iteration - 1 /\ result = ""
      /\ errors <= Len(outcomes) /\ errors = Cardinality(LastErrors)
  BY <1>1 DEF LoopInv, Progress, Finished
<1>o. "error" \in Outcome
  BY DEF Outcome
<1>3. /\ outcomes' \in Seq(Outcome) /\ Len(outcomes') = Len(outcomes) + 1
      /\ DOMAIN outcomes' = DOMAIN outcomes \cup {Len(outcomes) + 1}
      /\ outcomes'[Len(outcomes) + 1] = "error"
      /\ \A k \in DOMAIN outcomes : outcomes'[k] = outcomes[k]
  BY <1>1, <1>t, <1>o, Appended
<1>4. Cardinality(LastErrors') = errors + 1
  BY <1>1, <1>2, <1>t, <1>o, LastErrorsGrow
<1>5. delay' \in 0..Ceiling
  <2>1. errors + 1 \in Nat \ {0}
    BY <1>t
  <2>2. Backoff(errors + 1) \in 1..Ceiling
    BY <2>1, BackoffBounded
  <2> QED
    BY <1>1, <2>2
<1>6. TypeOK'
  <2>a. errors' = errors + 1 /\ errors <= iteration - 1
    BY <1>1, <1>2
  <2>b. errors \in Nat /\ iteration \in Nat /\ iteration <= MaxIterations /\ MaxIterations \in Nat
    BY <1>t
  <2>1. errors' \in 0..MaxIterations
    BY <2>a, <2>b
  <2> QED
    BY <1>1, <1>3, <1>5, <2>1 DEF LoopInv, TypeOK, Outcome
<1>7. Progress'
  <2>a. /\ iteration' = iteration /\ Len(outcomes') = Len(outcomes) + 1
        /\ errors' = errors + 1 /\ pc' = "sleeping"
    BY <1>1, <1>3
  <2>b. /\ Len(outcomes) = iteration - 1 /\ iteration \in Nat /\ Len(outcomes) \in Nat
        /\ errors \in Nat /\ errors <= Len(outcomes)
    BY <1>2, <1>t
  <2>1. /\ Len(outcomes') = iteration' /\ errors' <= Len(outcomes') /\ errors' >= 1
        /\ pc' \notin {"calling", "tools"}
    BY <2>a, <2>b
  <2>2. delay' = Backoff(errors')
    BY <1>1 DEF Backoff
  <2> QED
    BY <1>1, <1>4, <2>1, <2>2 DEF Progress
<1>8. Finished'
  BY <1>1, <1>2, <1>3 DEF LoopInv, Finished, ReturnsWhatSteppedTo
<1>9. OpenOnlyByFailure'
  BY <1>1, <1>3 DEF OpenOnlyByFailure
<1> QED
  BY <1>6, <1>7, <1>8, <1>9 DEF LoopInv

LEMMA LoopStays == ASSUME LoopInv, UNCHANGED vars PROVE LoopInv'
<1>1. UNCHANGED <<capped, pc, iteration, rounds, pending, unanswered, errors, delay, outcomes, result>>
  BY DEF vars
<1>2. LastErrors' = LastErrors
  BY <1>1 DEF LastErrors
<1> QED
  BY <1>1, <1>2 DEF LoopInv, TypeOK, Progress, Finished, ReturnsWhatSteppedTo, OpenOnlyByFailure

LEMMA LoopKeeps == LoopInv /\ [Next]_vars => LoopInv'
BY QuietSteps, StepReturnsKeeps, StepRaisesKeeps, LoopStays DEF Next

(* run() sleeps for the backoff of the failures since the last step that   *)
(* succeeded, returns what its steps say, and leaves calls unanswered only *)
(* where a step raised; for any configuration and any number of steps.     *)
THEOREM LoopAlwaysSound == Spec => []LoopSound
<1>1. LoopInv => LoopSound
  <2> SUFFICES ASSUME LoopInv PROVE LoopSound
    OBVIOUS
  <2>1. Streak = errors
    BY DEF LoopInv, Progress, Streak, LastErrors
  <2>2. BackoffFollowsStreak
    <3>1. errors \in Nat
      BY Types DEF LoopInv
    <3> QED
      BY <2>1, <3>1 DEF LoopInv, Progress, BackoffFollowsStreak
  <2> QED
    BY <2>2 DEF LoopInv, Finished, LoopSound
<1> QED
  BY <1>1, LoopInit, LoopKeeps, PTL DEF Spec
=============================================================================
