--------------------------- MODULE GatewayProofs ---------------------------
(* What Gateway does for any script, any long lines and any heartbeats,    *)
(* and ChatPath for any pages and requests.                                *)
EXTENDS Gateway, ChatPath, FiniteSetTheorems, SequenceTheorems, WellFoundedInduction, TLAPS

(* A body is open from the response of the backend to the deferred Close,  *)
(* and the status the client got tells whether there was one.              *)
BodyFollowsHandler ==
    /\ handler = "start" => body = "none"
    /\ handler \in {"relaying", "copying", "closing"} =>
          body = "open" /\ status \in {200, 500}
    /\ BodyClosed

RelayInv == TypeOK /\ BodyFollowsHandler

LEMMA InitInv == Init => RelayInv
<1> SUFFICES ASSUME Init PROVE RelayInv
  OBVIOUS
<1>1. TypeOK
  <2>1. held \in Lines /\ out \in Seq(Lines \cup Beating) /\ beats \in Nat
    BY DEF Init, Lines, Blank
  <2>2. sent \in 0..Len(Script) /\ scanned \in 0..Len(Script)
    BY GatewayAssumption DEF Init
  <2> QED
    BY <2>1, <2>2 DEF Init, TypeOK
<1>2. BodyFollowsHandler
  BY DEF Init, BodyFollowsHandler, BodyClosed
<1> QED
  BY <1>1, <1>2 DEF RelayInv

-----------------------------------------------------------------------------
(* What is written to the client are lines and heartbeats. *)
LEMMA WriteKeeps ==
    ASSUME out \in Seq(Lines \cup Beating), NEW lines \in Seq(Lines \cup Beating), Write(lines)
    PROVE  out' \in Seq(Lines \cup Beating)
BY DEF Write

LEMMA HandlerKeeps ==
    ASSUME RelayInv, Start \/ Handler
    PROVE  RelayInv'
<1> USE DEF RelayInv
<1>1. CASE Reject
  BY <1>1 DEF Reject, peerVars, relayVars, TypeOK, BodyFollowsHandler, BodyClosed
<1>2. CASE BackendFails
  BY <1>2 DEF BackendFails, peerVars, relayVars, TypeOK, BodyFollowsHandler, BodyClosed
<1>3. CASE StartCopy
  BY <1>3 DEF StartCopy, peerVars, relayVars, TypeOK, BodyFollowsHandler, BodyClosed
<1>4. CASE StartRelay
  BY <1>4 DEF StartRelay, TypeOK, BodyFollowsHandler, BodyClosed
<1>5. CASE CopyEnds
  BY <1>5 DEF CopyEnds, peerVars, relayVars, TypeOK, BodyFollowsHandler, BodyClosed
<1>6. CASE CloseBody
  BY <1>6 DEF CloseBody, peerVars, relayVars, TypeOK, BodyFollowsHandler, BodyClosed
<1>7. CASE TakeLine
  <2>1. <<held>> \in Seq(Lines \cup Beating)
    BY DEF TypeOK
  <2>2. out' \in Seq(Lines \cup Beating)
    BY <1>7, <2>1, WriteKeeps DEF TakeLine, TypeOK
  <2>3. /\ handler = "relaying" /\ scanner' = "scan"
        /\ UNCHANGED <<status, body, backend, sent, client, scanned, held, beats>>
    BY <1>7 DEF TakeLine, peerVars
  <2>4. handler' \in {"relaying", "closing"}
    BY <1>7 DEF TakeLine
  <2>5. done' \in BOOLEAN
    BY <1>7 DEF TakeLine, TypeOK
  <2> QED
    BY <2>2, <2>3, <2>4, <2>5 DEF TypeOK, BodyFollowsHandler, BodyClosed
<1>8. CASE LinesClosed
  BY <1>8 DEF LinesClosed, peerVars, TypeOK, BodyFollowsHandler, BodyClosed
<1> QED
  BY <1>1, <1>2, <1>3, <1>4, <1>5, <1>6, <1>7, <1>8 DEF Start, Handler

(* The scanner goroutine leaves handler, status and body alone, and counts *)
(* the rest of a line only where the script has a line.                    *)
LEMMA ScannerKeeps ==
    ASSUME RelayInv, Scanner
    PROVE  RelayInv'
<1> USE DEF RelayInv
<1>1. UNCHANGED <<handler, status, body, backend, sent, client, done, out, beats>>
  BY DEF Scanner, ScanLine, ScanCut, ScanEnds, GiveUp, ScannerStep, peerVars
<1>2. scanner' \in {"scan", "offer", "exited"}
  BY DEF Scanner, ScanLine, ScanCut, ScanEnds, GiveUp, ScannerStep
<1>3. scanned' \in 0..Len(Script) /\ held' \in Lines
  <2> USE GatewayAssumption
  <2>0. Len(Script) \in Nat /\ scanned \in 0..Len(Script) /\ sent \in 0..Len(Script)
        /\ held \in Lines
    BY DEF TypeOK
  <2>1. CASE ScanLine
    <3>1. scanned < sent /\ Script[scanned + 1] \in Lines
      BY <2>0, <2>1 DEF ScanLine
    <3> QED
      BY <2>0, <2>1, <3>1 DEF ScanLine, ScannerStep
  <2>2. CASE ScanCut
    <3>1. Cut \in Lines
      BY DEF Lines
    <3> QED
      BY <2>0, <2>2, <3>1 DEF ScanCut, ScannerStep
  <2>3. CASE ScanEnds
    BY <2>0, <2>3 DEF ScanEnds, ScannerStep
  <2>4. CASE GiveUp
    BY <2>0, <2>4 DEF GiveUp, ScannerStep
  <2> QED
    BY <2>1, <2>2, <2>3, <2>4 DEF Scanner
<1> QED
  BY <1>1, <1>2, <1>3 DEF TypeOK, BodyFollowsHandler, BodyClosed

LEMMA StepInv == RelayInv /\ [Next]_vars => RelayInv'
<1> SUFFICES ASSUME RelayInv, [Next]_vars PROVE RelayInv'
  OBVIOUS
<1> USE DEF RelayInv
<1>1. CASE Start \/ Handler
  BY <1>1, HandlerKeeps
<1>2. CASE Scanner
  BY <1>2, ScannerKeeps
<1>3. CASE Heartbeat
  <2>1. Beat \in Seq(Lines \cup Beating)
    BY DEF Beat, Beating
  <2>2. out' \in Seq(Lines \cup Beating)
    BY <1>3, <2>1, WriteKeeps DEF Heartbeat, TypeOK
  <2>3. beats' \in Nat
        /\ UNCHANGED <<handler, status, body, backend, sent, client, scanner, scanned, held, done>>
    BY <1>3 DEF Heartbeat, TypeOK, peerVars
  <2> QED
    BY <2>2, <2>3 DEF TypeOK, BodyFollowsHandler, BodyClosed
<1>4. CASE BackendSends
  BY <1>4, GatewayAssumption DEF BackendSends, relayVars, TypeOK, BodyFollowsHandler, BodyClosed
<1>5. CASE BackendEnds
  BY <1>5 DEF BackendEnds, relayVars, TypeOK, BodyFollowsHandler, BodyClosed
<1>6. CASE BackendBreaks
  BY <1>6 DEF BackendBreaks, relayVars, TypeOK, BodyFollowsHandler, BodyClosed
<1>7. CASE ClientStalls \/ ClientReads \/ ClientLeaves
  BY <1>7 DEF ClientStalls, ClientReads, ClientLeaves, relayVars, TypeOK, BodyFollowsHandler, BodyClosed
<1>8. CASE UNCHANGED vars
  BY <1>8 DEF vars, TypeOK, BodyFollowsHandler, BodyClosed
<1> QED
  BY <1>1, <1>2, <1>3, <1>4, <1>5, <1>6, <1>7, <1>8 DEF Next

(* RelaySound for every script: whatever the backend, the client and the   *)
(* two goroutines do, ServeHTTP has given a status when it returns, and a  *)
(* response of the backend, had there been one, is closed.                 *)
THEOREM RelayAlwaysSound == Spec => []RelaySound
<1>1. Spec => []RelayInv
  BY InitInv, StepInv, PTL DEF Spec
<1>2. RelayInv => RelaySound
  BY DEF RelayInv, BodyFollowsHandler, RelaySound
<1> QED
  BY <1>1, <1>2, PTL

-----------------------------------------------------------------------------
(* Induction over the naturals for a set, which the provers can use where  *)
(* a theorem about an operator cannot be instantiated.                     *)
LEMMA InductiveSet ==
    ASSUME NEW S, 0 \in S, \A n \in Nat : n \in S => n + 1 \in S
    PROVE  Nat \subseteq S
<1> SUFFICES ASSUME Nat \ S # {} PROVE FALSE
  OBVIOUS
<1> DEFINE Less == OpToRel(<, Nat)
<1>1. IsWellFoundedOn(Less, Nat)
  BY NatLessThanWellFounded
<1>2. Nat \ S \subseteq Nat
  OBVIOUS
<1>3. \E x \in Nat \ S : \A y \in Nat \ S : ~ (<<y, x>> \in Less)
  <2> HIDE DEF Less
  <2> QED
    BY <1>1, <1>2, WFMin
<1>4. PICK x \in Nat \ S : \A y \in Nat \ S : ~ (<<y, x>> \in Less)
  BY <1>3
<1>5. x # 0 /\ x - 1 \in Nat
  OBVIOUS
<1>6. x - 1 \notin S
  BY <1>5
<1>7. <<x - 1, x>> \in Less
  BY <1>5 DEF OpToRel
<1> QED
  BY <1>4, <1>5, <1>6, <1>7

(* The lines kept of each prefix of s: what WithoutBeats recurs on.        *)
Kept(f, s) ==
    f = [n \in 0..Len(s) |->
            IF n = 0 THEN <<>>
            ELSE IF s[n] \in Beating THEN f[n - 1] ELSE Append(f[n - 1], s[n])]

LEMMA KeptExists ==
    ASSUME NEW S, NEW s \in Seq(S)
    PROVE  \E f \in [0..Len(s) -> Seq(S)] : Kept(f, s)
<1> DEFINE Sized(n) == \A t \in Seq(S) : Len(t) = n => \E f \in [0..n -> Seq(S)] : Kept(f, t)
           D == {n \in Nat : Sized(n)}
<1>1. Sized(0)
  <2> SUFFICES ASSUME NEW t \in Seq(S), Len(t) = 0
               PROVE  \E f \in [0..0 -> Seq(S)] : Kept(f, t)
    OBVIOUS
  <2> DEFINE f == [n \in 0..0 |-> <<>>]
  <2>1. f \in [0..0 -> Seq(S)]
    OBVIOUS
  <2>2. Kept(f, t)
    BY DEF Kept
  <2> QED
    BY <2>1, <2>2
<1>2. ASSUME NEW n \in Nat, Sized(n) PROVE Sized(n + 1)
  <2> SUFFICES ASSUME NEW t \in Seq(S), Len(t) = n + 1
               PROVE  \E f \in [0..(n + 1) -> Seq(S)] : Kept(f, t)
    OBVIOUS
  <2> DEFINE u == [i \in 1..n |-> t[i]]
  <2>1. u \in Seq(S) /\ Len(u) = n /\ \A i \in 1..n : u[i] = t[i]
    OBVIOUS
  <2> HIDE DEF u
  <2>2. PICK f \in [0..n -> Seq(S)] : Kept(f, u)
    BY <1>2, <2>1
  <2>3. ASSUME NEW i \in 0..n
        PROVE  f[i] = IF i = 0 THEN <<>>
                      ELSE IF t[i] \in Beating THEN f[i - 1] ELSE Append(f[i - 1], t[i])
    <3>1. f[i] = IF i = 0 THEN <<>>
                 ELSE IF u[i] \in Beating THEN f[i - 1] ELSE Append(f[i - 1], u[i])
      BY <2>1, <2>2 DEF Kept
    <3>2. i = 0 \/ i \in 1..n
      OBVIOUS
    <3>3. i = 0 \/ u[i] = t[i]
      BY <2>1, <3>2
    <3> QED
      BY <3>1, <3>3
  <2> DEFINE last == IF t[n + 1] \in Beating THEN f[n] ELSE Append(f[n], t[n + 1])
             g == [i \in 0..(n + 1) |-> IF i <= n THEN f[i] ELSE last]
  <2>4. t[n + 1] \in S /\ last \in Seq(S)
    OBVIOUS
  <2>5. g \in [0..(n + 1) -> Seq(S)]
    BY <2>4
  <2>6. Kept(g, t)
    <3> DEFINE h == [i \in 0..(n + 1) |->
                        IF i = 0 THEN <<>>
                        ELSE IF t[i] \in Beating THEN g[i - 1] ELSE Append(g[i - 1], t[i])]
    <3>1. ASSUME NEW i \in 0..(n + 1) PROVE g[i] = h[i]
      <4>1. CASE i = n + 1
        <5>1. i # 0 /\ i - 1 = n /\ ~ (i <= n) /\ n <= n /\ n \in 0..(n + 1)
          BY <4>1
        <5>2. g[i] = last /\ g[n] = f[n]
          BY <5>1
        <5> QED
          BY <4>1, <5>1, <5>2
      <4>2. CASE i \in 0..n
        <5>1. g[i] = f[i] /\ (i # 0 => g[i - 1] = f[i - 1])
          BY <4>2
        <5> QED
          BY <2>3, <4>2, <5>1
      <4> QED
        BY <4>1, <4>2
    <3>2. g = h
      BY <3>1
    <3> QED
      BY <3>2 DEF Kept
  <2> QED
    BY <2>5, <2>6
<1>3. 0 \in D /\ \A n \in Nat : n \in D => n + 1 \in D
  <2>1. 0 \in D
    BY <1>1
  <2>2. ASSUME NEW n \in Nat, n \in D PROVE n + 1 \in D
    <3>1. Sized(n)
      BY <2>2
    <3>2. Sized(n + 1)
      BY <1>2, <3>1
    <3> QED
      BY <3>2
  <2> HIDE DEF D
  <2> QED
    BY <2>1, <2>2
<1>4. Nat \subseteq D
  <2> HIDE DEF D
  <2> QED
    BY <1>3, InductiveSet
<1>5. Sized(Len(s))
  BY <1>4
<1> QED
  BY <1>5

(* Sequences that begin alike keep the same of what is alike. *)
LEMMA KeptAlike ==
    ASSUME NEW S, NEW s \in Seq(S), NEW t \in Seq(S), NEW f, NEW g, Kept(f, s), Kept(g, t),
           NEW m \in Nat, m <= Len(s), m <= Len(t), \A n \in 1..m : s[n] = t[n]
    PROVE  f[m] = g[m]
<1> DEFINE D == {n \in Nat : n <= m => f[n] = g[n]}
<1>1. 0 \in D
  BY DEF Kept
<1>2. \A n \in Nat : n \in D => n + 1 \in D
  <2> SUFFICES ASSUME NEW n \in Nat, n \in D, n + 1 <= m PROVE f[n + 1] = g[n + 1]
    OBVIOUS
  <2>1. f[n] = g[n] /\ s[n + 1] = t[n + 1]
    OBVIOUS
  <2>2. n + 1 \in 0..Len(s) /\ n + 1 \in 0..Len(t) /\ n + 1 # 0 /\ (n + 1) - 1 = n
    OBVIOUS
  <2>3. f[n + 1] = IF s[n + 1] \in Beating THEN f[n] ELSE Append(f[n], s[n + 1])
    BY <2>2 DEF Kept
  <2>4. g[n + 1] = IF t[n + 1] \in Beating THEN g[n] ELSE Append(g[n], t[n + 1])
    BY <2>2 DEF Kept
  <2> QED
    BY <2>1, <2>3, <2>4
<1>3. Nat \subseteq D
  <2> HIDE DEF D
  <2> QED
    BY <1>1, <1>2, InductiveSet
<1> QED
  BY <1>3

LEMMA WithoutBeatsIsKept ==
    ASSUME NEW S, NEW s \in Seq(S)
    PROVE  \E f : Kept(f, s) /\ WithoutBeats(s) = f[Len(s)]
<1> DEFINE f == CHOOSE f : Kept(f, s)
<1>1. Kept(f, s)
  BY KeptExists
<1>2. WithoutBeats(s) = f[Len(s)]
  BY DEF WithoutBeats, Kept
<1> QED
  BY <1>1, <1>2

(* What is left without the heartbeats, line by line. *)
LEMMA WithoutBeatsAppends ==
    ASSUME NEW S, NEW s \in Seq(S), NEW line \in S
    PROVE  WithoutBeats(Append(s, line)) =
             IF line \in Beating THEN WithoutBeats(s) ELSE Append(WithoutBeats(s), line)
<1> DEFINE t == Append(s, line)
           n == Len(s)
<1>1. t \in Seq(S) /\ Len(t) = n + 1 /\ t[n + 1] = line /\ n \in Nat
      /\ \A i \in 1..n : t[i] = s[i]
  OBVIOUS
<1>2. PICK f : Kept(f, s) /\ WithoutBeats(s) = f[n]
  BY WithoutBeatsIsKept
<1>3. PICK g : Kept(g, t) /\ WithoutBeats(t) = g[n + 1]
  BY <1>1, WithoutBeatsIsKept
<1> HIDE DEF t, n
<1>4. f[n] = g[n]
  BY <1>1, <1>2, <1>3, KeptAlike DEF n
<1>5. g[n + 1] = IF line \in Beating THEN g[n] ELSE Append(g[n], line)
  <2>1. n + 1 \in 0..Len(t) /\ n + 1 # 0 /\ (n + 1) - 1 = n
    BY <1>1
  <2> QED
    BY <1>1, <1>3, <2>1 DEF Kept
<1> QED
  BY <1>2, <1>3, <1>4, <1>5 DEF t

LEMMA WithoutBeatsType ==
    /\ WithoutBeats(<<>>) = <<>>
    /\ \A S : \A s \in Seq(S) : WithoutBeats(s) \in Seq(S)
<1>1. WithoutBeats(<<>>) = <<>>
  <2>1. <<>> \in Seq({}) /\ Len(<<>>) = 0
    OBVIOUS
  <2>2. PICK f : Kept(f, <<>>) /\ WithoutBeats(<<>>) = f[0]
    BY <2>1, WithoutBeatsIsKept
  <2> QED
    BY <2>1, <2>2 DEF Kept
<1>2. ASSUME NEW S, NEW s \in Seq(S) PROVE WithoutBeats(s) \in Seq(S)
  <2>1. PICK f : Kept(f, s) /\ WithoutBeats(s) = f[Len(s)]
    BY WithoutBeatsIsKept
  <2>2. PICK g \in [0..Len(s) -> Seq(S)] : Kept(g, s)
    BY KeptExists
  <2>3. f[Len(s)] = g[Len(s)]
    BY <2>1, <2>2, KeptAlike
  <2> QED
    BY <2>1, <2>2, <2>3
<1> QED
  BY <1>1, <1>2
-----------------------------------------------------------------------------
(* What the scanner offers is the next line of the script, or the rest of  *)
(* one after which nothing arrives any more.                               *)
OfferInv ==
    /\ handler = "start" => scanner = "none" /\ scanned = 0 /\ out = <<>> /\ client = "here"
    /\ handler = "relaying" => scanner # "none"
    /\ done => handler \in {"closing", "returned"}
    /\ scanned <= sent \/ backend = "broken"
    /\ scanner = "offer" =>
          /\ scanned >= 1
          /\ \/ scanned <= sent /\ held = Script[scanned]
             \/ scanned > sent /\ held = Cut

(* While the relay has a client, the client has exactly the lines that     *)
(* went through the channel, and a cut one only as the last of all.        *)
Relaying == handler \in {"start", "relaying"} /\ client # "gone"

RelayedInv ==
    Relaying =>
        /\ Len(Relayed) = IF scanner = "offer" THEN scanned - 1 ELSE scanned
        /\ Relayed # <<>> /\ Relayed[Len(Relayed)] = Cut => scanned > sent /\ scanner # "offer"


LEMMA OfferStep == ASSUME TypeOK, OfferInv, [Next]_vars PROVE OfferInv'
<1> USE DEF OfferInv
<1>0. sent \in Nat /\ scanned \in Nat
  BY GatewayAssumption DEF TypeOK
<1>1. CASE Reject \/ BackendFails \/ StartCopy
  <2>1. /\ handler = "start" /\ handler' \in {"returned", "copying"}
        /\ UNCHANGED <<backend, sent, client, scanner, scanned, held, done, out>>
    BY <1>1 DEF Reject, BackendFails, StartCopy, peerVars, relayVars
  <2>2. ~ done'
    BY <2>1
  <2> QED
    BY <2>1, <2>2
<1>2. CASE StartRelay
  <2>1. ~ done'
    BY <1>2 DEF StartRelay
  <2> QED
    BY <1>0, <1>2, <2>1 DEF StartRelay
<1>3. CASE CopyEnds \/ CloseBody \/ TakeLine \/ LinesClosed
  <2>1. /\ handler \in {"copying", "closing", "relaying"}
        /\ handler' \in {"closing", "returned"} \/ (handler' = handler /\ done' = done)
        /\ (scanner' = scanner \/ scanner' = "scan")
        /\ UNCHANGED <<backend, sent, client, scanned, held>>
    BY <1>3 DEF CopyEnds, CloseBody, TakeLine, LinesClosed, peerVars, relayVars
  <2> QED
    BY <2>1
<1>4. CASE ScanLine
  <2>1. /\ scanner = "scan" /\ scanned < sent
        /\ UNCHANGED <<handler, backend, sent, client, done, out>>
        /\ \/ scanner' = "exited" /\ scanned' = scanned + 0
           \/ scanner' = "offer" /\ scanned' = scanned + 1 /\ held' = Script[scanned + 1]
    BY <1>4 DEF ScanLine, ScannerStep, peerVars
  <2>2. scanned' <= sent' /\ (scanner' = "offer" => scanned' >= 1 /\ held' = Script[scanned'])
    BY <1>0, <2>1, GatewayAssumption DEF TypeOK
  <2>3. done' => handler' \in {"closing", "returned"}
    BY <2>1
  <2> QED
    BY <2>1, <2>2, <2>3
<1>5. CASE ScanCut
  <2>1. /\ scanner = "scan" /\ scanned = sent /\ backend = "broken"
        /\ scanner' = "offer" /\ held' = Cut /\ scanned' = scanned + 1
        /\ UNCHANGED <<handler, backend, sent, client, done, out>>
    BY <1>5 DEF ScanCut, ScannerStep, peerVars
  <2>2. done' => handler' \in {"closing", "returned"}
    BY <2>1
  <2> QED
    BY <1>0, <2>1, <2>2
<1>6. CASE ScanEnds \/ GiveUp
  BY <1>0, <1>6 DEF ScanEnds, GiveUp, ScannerStep, peerVars
<1>7. CASE Heartbeat
  BY <1>7 DEF Heartbeat, peerVars
<1>8. CASE BackendSends
  BY <1>0, <1>8 DEF BackendSends, relayVars
<1>9. CASE BackendEnds \/ BackendBreaks
  BY <1>0, <1>9 DEF BackendEnds, BackendBreaks, relayVars
<1>10. CASE ClientStalls \/ ClientReads \/ ClientLeaves
  BY <1>10 DEF ClientStalls, ClientReads, ClientLeaves, relayVars
<1>11. CASE UNCHANGED vars
  BY <1>11 DEF vars
<1> QED
  BY <1>1, <1>2, <1>3, <1>4, <1>5, <1>6, <1>7, <1>8, <1>9, <1>10, <1>11
     DEF Next, Start, Handler, Scanner

(* No line is taken for a heartbeat. *)
LEMMA BeatsAreNoLines ==
    /\ Lines \cap Beating = {}
    /\ Beat \in Seq(Lines \cup Beating) /\ Beat = <<Beat[1], Beat[2]>>
    /\ Beat[1] \in Beating /\ Beat[2] \in Beating
BY DEF Lines, Beating, Beat

LEMMA TakeLineRelays ==
    ASSUME TypeOK, TakeLine
    PROVE  /\ out' = IF client = "here" THEN Append(out, held) ELSE out
           /\ Relayed' = IF client = "here" THEN Append(Relayed, held) ELSE Relayed
<1>1. out' = IF client = "here" THEN out \o <<held>> ELSE out
  BY DEF TakeLine, Write
<1>2. out \in Seq(Lines \cup Beating) /\ held \in Lines \cup Beating /\ held \notin Beating
  BY BeatsAreNoLines DEF TypeOK
<1>3. out \o <<held>> = Append(out, held)
  BY <1>2
<1>4. WithoutBeats(Append(out, held)) = Append(WithoutBeats(out), held)
  BY <1>2, WithoutBeatsAppends
<1> QED
  BY <1>1, <1>3, <1>4 DEF Relayed

LEMMA HeartbeatRelays ==
    ASSUME TypeOK, Heartbeat
    PROVE  /\ out' = IF client = "here" THEN Append(Append(out, Beat[1]), Beat[2]) ELSE out
           /\ Relayed' = Relayed
<1>1. out' = IF client = "here" THEN out \o Beat ELSE out
  BY DEF Heartbeat, Write
<1>2. out \in Seq(Lines \cup Beating)
  BY DEF TypeOK
<1> DEFINE b == Beat[1]
           c == Beat[2]
<1>3. /\ Beat = <<b, c>> /\ b \in Beating /\ c \in Beating
      /\ b \in Lines \cup Beating /\ c \in Lines \cup Beating
  BY BeatsAreNoLines
<1> HIDE DEF b, c
<1>4. out \o <<b, c>> = Append(Append(out, b), c) /\ Append(out, b) \in Seq(Lines \cup Beating)
  BY <1>2, <1>3
<1>5. WithoutBeats(Append(Append(out, b), c)) = WithoutBeats(Append(out, b))
  BY <1>3, <1>4, WithoutBeatsAppends
<1>6. WithoutBeats(Append(out, b)) = WithoutBeats(out)
  BY <1>2, <1>3, WithoutBeatsAppends
<1> QED
  BY <1>1, <1>3, <1>4, <1>5, <1>6 DEF Relayed, b, c

LEMMA RelayedStep ==
    ASSUME TypeOK, OfferInv, RelayedInv, [Next]_vars
    PROVE  RelayedInv'
<1>0. /\ sent \in Int /\ scanned \in Int /\ held \in Lines
      /\ Relayed \in Seq(Lines \cup Beating)
  BY GatewayAssumption, WithoutBeatsType DEF TypeOK, Relayed
<1>1. CASE /\ UNCHANGED <<scanner, scanned, sent, out>>
           /\ Relaying' => Relaying
  BY <1>1 DEF RelayedInv, Relayed
<1>2. CASE StartRelay
  <2>1. Relayed' = Relayed /\ handler = "start" /\ client' = client
        /\ scanned' = scanned /\ sent' = sent /\ scanner' = "scan"
    BY <1>2 DEF StartRelay, Relayed
  <2> QED
    BY <2>1 DEF RelayedInv, Relaying, OfferInv
<1>3. CASE TakeLine
  <2>1. CASE client = "here"
    <3>1. Relayed' = Append(Relayed, held)
      BY <1>3, <2>1, TakeLineRelays
    <3>2. /\ handler = "relaying" /\ scanner = "offer" /\ scanner' = "scan"
          /\ UNCHANGED <<scanned, sent, client>>
      BY <1>3 DEF TakeLine, peerVars
    <3>3. Len(Relayed) = scanned - 1
      BY <2>1, <3>2 DEF RelayedInv, Relaying
    <3>4. /\ Len(Relayed') = scanned /\ Relayed' # <<>> 
          /\ Relayed'[Len(Relayed')] = held
      BY <1>0, <3>1, <3>3
    <3>5. held = Cut => scanned > sent
      BY <1>0, <3>2, GatewayAssumption DEF OfferInv, TypeOK
    <3> QED
      BY <3>2, <3>4, <3>5 DEF RelayedInv
  <2>2. CASE client # "here"
    <3>1. client' = "gone"
      BY <1>3, <2>2 DEF TakeLine, Writable, peerVars, TypeOK
    <3> QED
      BY <3>1 DEF RelayedInv, Relaying
  <2> QED
    BY <2>1, <2>2
<1>4. CASE Scanner
  <2>1. UNCHANGED <<handler, sent, client, out>> /\ Relayed' = Relayed
    BY <1>4 DEF Scanner, ScanLine, ScanCut, ScanEnds, GiveUp, ScannerStep, peerVars, Relayed
  <2>2. CASE ScanLine
    BY <1>0, <2>1, <2>2 DEF ScanLine, ScannerStep, RelayedInv, Relaying
  <2>3. CASE ScanCut
    BY <1>0, <2>1, <2>3 DEF ScanCut, ScannerStep, RelayedInv, Relaying
  <2>4. CASE ScanEnds
    BY <1>0, <2>1, <2>4 DEF ScanEnds, ScannerStep, RelayedInv, Relaying
  <2>5. CASE GiveUp
    <3>1. ~ Relaying
      BY <2>5 DEF GiveUp, OfferInv, Relaying
    <3> QED
      BY <2>1, <3>1 DEF RelayedInv, Relaying
  <2> QED
    BY <1>4, <2>2, <2>3, <2>4, <2>5 DEF Scanner
<1>5. CASE Heartbeat
  <2>1. Relayed' = Relayed /\ UNCHANGED <<handler, client, scanner, scanned, sent>>
    BY <1>5, HeartbeatRelays DEF Heartbeat, peerVars
  <2> QED
    BY <2>1 DEF RelayedInv, Relaying
<1>6. CASE BackendSends
  <2>1. /\ Relayed' = Relayed /\ UNCHANGED <<handler, client, scanner, scanned>>
        /\ backend = "sending"
    BY <1>6 DEF BackendSends, relayVars, Relayed
  <2>2. scanned <= sent
    BY <2>1 DEF OfferInv
  <2> QED
    BY <1>0, <2>1, <2>2 DEF RelayedInv, Relaying
<1> QED
  BY <1>1, <1>2, <1>3, <1>4, <1>5, <1>6
     DEF Next, Start, Reject, BackendFails, StartCopy, Handler, CopyEnds, CloseBody, LinesClosed,
         BackendEnds, BackendBreaks, ClientStalls, ClientReads, ClientLeaves, peerVars, relayVars, vars, Relaying

(* The relay delivers the backend's lines to the client in order, without  *)
(* a gap or a duplicate, for any script: what the heartbeats leave of its  *)
(* output behaves as SseDelivery says, and nothing follows a cut line.     *)
THEOREM RelayDelivers == Spec => DeliversInOrder
<1>1. Init => Delivery!DeliveryInit
  <2> SUFFICES ASSUME Init PROVE Delivery!DeliveryInit
    OBVIOUS
  <2>1. Relayed = <<>>
    BY WithoutBeatsType DEF Init, Relayed
  <2> QED
    BY <2>1 DEF Init, Delivery!DeliveryInit
<1>2. Init => RelayInv /\ OfferInv /\ RelayedInv
  <2> SUFFICES ASSUME Init PROVE RelayInv /\ OfferInv /\ RelayedInv
    OBVIOUS
  <2>1. Relayed = <<>>
    BY WithoutBeatsType DEF Init, Relayed
  <2>2. OfferInv /\ RelayedInv
    BY <2>1 DEF Init, OfferInv, RelayedInv
  <2> QED
    BY <2>2, InitInv
<1>3. RelayInv /\ OfferInv /\ RelayedInv /\ [Next]_vars =>
         [Delivery!Deliver \/ Delivery!Stop]_<<Relayed, handler \in {"closing", "returned"} \/ client = "gone">>
  <2> SUFFICES ASSUME RelayInv, OfferInv, RelayedInv, [Next]_vars
               PROVE  [Delivery!Deliver \/ Delivery!Stop]_<<Relayed, handler \in {"closing", "returned"} \/ client = "gone">>
    OBVIOUS
  <2> DEFINE over == handler \in {"closing", "returned"} \/ client = "gone"
             over1 == handler' \in {"closing", "returned"} \/ client' = "gone"
  <2> USE DEF RelayInv
  <2>1. CASE TakeLine /\ client = "here"
    <3>1. /\ handler = "relaying" /\ scanner = "offer"
      BY <2>1 DEF TakeLine
    <3>2. ~ over
      BY <2>1, <3>1
    <3>3. Relayed' = Append(Relayed, held)
      BY <2>1, TakeLineRelays
    <3>4. /\ Len(Relayed) = scanned - 1
          /\ Relayed = <<>> \/ Relayed[Len(Relayed)] # Cut
      BY <2>1, <3>1 DEF RelayedInv, Relaying
    <3>5. scanned \in 0..Len(Script) /\ Len(Script) \in Nat /\ sent \in Int
      BY GatewayAssumption DEF TypeOK
    <3>6. Len(Relayed) < Len(Script) /\ held \in {Script[Len(Relayed) + 1], Cut}
      BY <3>1, <3>4, <3>5 DEF OfferInv
    <3>7. Delivery!Deliver
      BY <3>2, <3>3, <3>4, <3>6 DEF Delivery!Deliver, Delivery!Whole
    <3> QED
      BY <3>7
  <2>2. CASE ~ (TakeLine /\ client = "here")
    <3>1. Relayed' = Relayed
      BY <2>2, TakeLineRelays, HeartbeatRelays
         DEF Relayed, Next, Start, Reject, BackendFails, StartCopy, StartRelay, Handler, CopyEnds,
             CloseBody, LinesClosed, Scanner, ScanLine, ScanCut, ScanEnds, GiveUp, ScannerStep,
             BackendSends, BackendEnds, BackendBreaks, ClientStalls, ClientReads, ClientLeaves, peerVars, relayVars, vars, TypeOK
    <3>2. over => over1
      BY DEF Next, Start, Reject, BackendFails, StartCopy, StartRelay, Handler, CopyEnds, TakeLine,
             CloseBody, LinesClosed, Scanner, ScanLine, ScanCut, ScanEnds, GiveUp, ScannerStep,
             Heartbeat, BackendSends, BackendEnds, BackendBreaks, ClientStalls, ClientReads, ClientLeaves, peerVars, relayVars,
             vars, OfferInv
    <3>3. CASE over <=> over1
      BY <3>1, <3>3
    <3>4. CASE ~ over /\ over1
      BY <3>1, <3>4 DEF Delivery!Stop
    <3> QED
      BY <3>2, <3>3, <3>4
  <2> QED
    BY <2>1, <2>2
<1>4. RelayInv /\ OfferInv /\ RelayedInv /\ [Next]_vars => OfferInv' /\ RelayedInv'
  BY OfferStep, RelayedStep DEF RelayInv
<1> QED
  BY <1>1, <1>2, <1>3, <1>4, StepInv, PTL
     DEF Spec, DeliversInOrder, Delivery!DeliverySpec
-----------------------------------------------------------------------------
(* The stream of events as the agent server writes it: a data line is      *)
(* always followed by a blank one.                                         *)
EventScript ==
    \A k \in DOMAIN Script :
        /\ Script[k].kind # "cut"
        /\ Script[k].kind = "data" /\ k < Len(Script) => Script[k + 1] = Blank

Carries(line) == line.kind \in {"data", "cut"}
Ends(line) == line.kind \in {"blank", "beatblank"}

Separated(lines) ==
    \A k, l \in DOMAIN lines :
        k < l /\ Carries(lines[k]) /\ Carries(lines[l])
            => \E j \in DOMAIN lines : k < j /\ j < l /\ Ends(lines[j])

(* An event whose blank line has not been written. *)
Unended(lines) ==
    \E k \in DOMAIN lines :
        Carries(lines[k]) /\ \A j \in DOMAIN lines : j > k => ~ Ends(lines[j])

(* What ends it is what the scanner offers next, or nothing comes. *)
UnendedInv ==
    Relaying /\ Unended(out) =>
        \/ scanner = "exited"
        \/ scanner = "offer" /\ held = Blank
        \/ scanner = "scan" /\ scanned > sent
        \/ scanner = "scan" /\ scanned >= 1 /\ scanned <= sent /\ Script[scanned].kind = "data"

EventInv == Separated(out) /\ UnendedInv

(* Another line at the end of the output. *)
LEMMA OneMore ==
    ASSUME NEW S, NEW s \in Seq(S), NEW e \in S
    PROVE  /\ DOMAIN Append(s, e) = DOMAIN s \cup {Len(s) + 1}
           /\ Append(s, e)[Len(s) + 1] = e
           /\ Len(s) + 1 \in Int
           /\ \A k \in DOMAIN s : Append(s, e)[k] = s[k] /\ k < Len(s) + 1 /\ k \in Int
OBVIOUS

(* One that carries nothing leaves the events apart, and one that ends an  *)
(* event leaves none open.                                                 *)
LEMMA EndingLine ==
    ASSUME NEW S, NEW s \in Seq(S), NEW line \in S, ~ Carries(line), Separated(s)
    PROVE  /\ Separated(Append(s, line))
           /\ Unended(Append(s, line)) => Unended(s) /\ ~ Ends(line)
<1> DEFINE t == Append(s, line)
<1>1. /\ DOMAIN t = DOMAIN s \cup {Len(s) + 1} /\ t[Len(s) + 1] = line
      /\ \A k \in DOMAIN s : t[k] = s[k] /\ k < Len(s) + 1 /\ k \in Int
      /\ Len(s) + 1 \in Int
  BY OneMore
<1> HIDE DEF t
<1>2. Separated(t)
  <2> SUFFICES ASSUME NEW k \in DOMAIN t, NEW l \in DOMAIN t, k < l,
                      Carries(t[k]), Carries(t[l])
               PROVE  \E j \in DOMAIN t : k < j /\ j < l /\ Ends(t[j])
    BY DEF Separated
  <2>1. k \in DOMAIN s /\ l \in DOMAIN s
    BY <1>1
  <2>2. PICK j \in DOMAIN s : k < j /\ j < l /\ Ends(s[j])
    BY <1>1, <2>1 DEF Separated
  <2> QED
    BY <1>1, <2>2
<1>3. ASSUME Unended(t) PROVE Unended(s) /\ ~ Ends(line)
  <2>1. PICK k \in DOMAIN t : Carries(t[k]) /\ \A j \in DOMAIN t : j > k => ~ Ends(t[j])
    BY <1>3 DEF Unended
  <2>2. k \in DOMAIN s /\ k < Len(s) + 1
    BY <1>1, <2>1
  <2>3. ~ Ends(line)
    BY <1>1, <2>1, <2>2
  <2>4. \A j \in DOMAIN s : j > k => ~ Ends(s[j])
    BY <1>1, <2>1
  <2> QED
    BY <1>1, <2>1, <2>2, <2>3, <2>4 DEF Unended
<1> QED
  BY <1>2, <1>3 DEF t

(* A data line that comes when no event is open stands apart from all.     *)
LEMMA CarryingLine ==
    ASSUME NEW S, NEW s \in Seq(S), NEW line \in S, ~ Unended(s), Separated(s)
    PROVE  Separated(Append(s, line))
<1> DEFINE t == Append(s, line)
<1>1. /\ DOMAIN t = DOMAIN s \cup {Len(s) + 1} /\ t[Len(s) + 1] = line
      /\ \A k \in DOMAIN s : t[k] = s[k] /\ k < Len(s) + 1 /\ k \in Int
      /\ Len(s) + 1 \in Int
  BY OneMore
<1> HIDE DEF t
<1> SUFFICES ASSUME NEW k \in DOMAIN t, NEW l \in DOMAIN t, k < l,
                    Carries(t[k]), Carries(t[l])
             PROVE  \E j \in DOMAIN t : k < j /\ j < l /\ Ends(t[j])
  BY DEF Separated, t
<1>2. k \in DOMAIN s
  BY <1>1
<1>3. CASE l \in DOMAIN s
  <2>1. PICK j \in DOMAIN s : k < j /\ j < l /\ Ends(s[j])
    BY <1>1, <1>2, <1>3 DEF Separated
  <2> QED
    BY <1>1, <2>1
<1>4. CASE l = Len(s) + 1
  <2>1. PICK j \in DOMAIN s : j > k /\ Ends(s[j])
    BY <1>1, <1>2 DEF Unended
  <2> QED
    BY <1>1, <1>4, <2>1
<1> QED
  BY <1>1, <1>3, <1>4

LEMMA EventStep ==
    ASSUME EventScript, RelayInv, OfferInv, EventInv, [Next]_vars
    PROVE  EventInv'
<1>0. /\ sent \in Nat /\ scanned \in Nat /\ held \in Lines /\ out \in Seq(Lines \cup Beating)
      /\ sent \in 0..Len(Script) /\ scanned \in 0..Len(Script) /\ Len(Script) \in Nat
  BY GatewayAssumption DEF RelayInv, TypeOK
<1>1. CASE /\ UNCHANGED <<scanner, scanned, sent, held, out>>
           /\ Relaying' => Relaying
  BY <1>1 DEF EventInv, Separated, UnendedInv, Unended
<1>2. CASE StartRelay
  <2>1. out' = out /\ out = <<>>
    BY <1>2 DEF StartRelay, OfferInv
  <2> QED
    BY <2>1 DEF EventInv, Separated, UnendedInv, Unended
<1>3. CASE TakeLine
  <2>1. /\ handler = "relaying" /\ scanner = "offer" /\ scanner' = "scan"
        /\ UNCHANGED <<scanned, sent, client>>
    BY <1>3 DEF TakeLine, peerVars
  <2>2. CASE client = "here"
    <3>1. out' = Append(out, held) /\ held \in Lines \cup Beating
      BY <1>0, <1>3, <2>2, TakeLineRelays DEF RelayInv
    <3>2. CASE Carries(held)
      <4>1. ~ Unended(out)
        BY <2>1, <2>2, <3>2 DEF EventInv, UnendedInv, Relaying, Carries, Blank
      <4>2. Separated(out)'
        BY <1>0, <3>1, <4>1, CarryingLine DEF EventInv
      <4>3. scanned > sent \/ (scanned >= 1 /\ scanned <= sent /\ Script[scanned].kind = "data")
        <5>1. CASE scanned <= sent
          <6>1. held = Script[scanned] /\ scanned >= 1 /\ scanned \in DOMAIN Script
            BY <1>0, <2>1, <5>1, GatewayAssumption DEF OfferInv
          <6>2. held.kind # "cut"
            BY <6>1 DEF EventScript
          <6> QED
            BY <3>2, <5>1, <6>1, <6>2 DEF Carries
        <5> QED
          BY <1>0, <5>1
      <4> QED
        BY <2>1, <4>2, <4>3 DEF EventInv, UnendedInv
    <3>3. CASE ~ Carries(held)
      <4>1. Separated(out)' /\ (Unended(out)' => Unended(out) /\ ~ Ends(held))
        BY <1>0, <3>1, <3>3, EndingLine DEF EventInv
      <4>2. Unended(out) => held = Blank
        BY <2>1, <2>2 DEF EventInv, UnendedInv, Relaying
      <4>3. ~ Unended(out)'
        BY <4>1, <4>2 DEF Ends, Blank
      <4> QED
        BY <4>1, <4>3 DEF EventInv, UnendedInv
    <3> QED
      BY <3>2, <3>3
  <2>3. CASE client # "here"
    <3>1. out' = out
      BY <1>3, <2>3, TakeLineRelays DEF RelayInv
    <3>2. client' = "gone"
      BY <1>3, <2>3 DEF TakeLine, Writable, peerVars, RelayInv, TypeOK
    <3> QED
      BY <3>1, <3>2 DEF EventInv, Separated, UnendedInv, Relaying
  <2> QED
    BY <2>2, <2>3
<1>4. CASE Scanner
  <2>1. UNCHANGED <<handler, sent, client, out>>
    BY <1>4 DEF Scanner, ScanLine, ScanCut, ScanEnds, GiveUp, ScannerStep, peerVars
  <2>2. Separated(out)' /\ (Unended(out)' => Unended(out)) /\ (Relaying' => Relaying)
    BY <2>1 DEF EventInv, Separated, Unended, Relaying
  <2>3. CASE scanner' = "exited"
    BY <2>2, <2>3 DEF EventInv, UnendedInv
  <2>4. CASE ScanLine /\ scanner' = "offer"
    <3>1. /\ scanner = "scan" /\ scanned < sent /\ held' = Script[scanned + 1]
      BY <2>4 DEF ScanLine, ScannerStep
    <3>2. ASSUME Relaying, Unended(out) PROVE held' = Blank
      <4>1. scanned >= 1 /\ Script[scanned].kind = "data"
        BY <1>0, <3>1, <3>2 DEF EventInv, UnendedInv
      <4>2. scanned \in DOMAIN Script /\ scanned < Len(Script)
        BY <1>0, <3>1, <4>1, GatewayAssumption
      <4> QED
        BY <3>1, <4>1, <4>2 DEF EventScript
    <3> QED
      BY <2>2, <2>4, <3>2 DEF EventInv, UnendedInv
  <2>5. CASE ScanCut
    <3>1. scanner = "scan" /\ scanned = sent /\ sent < Len(Script) /\ Script[sent + 1] # Blank
      BY <2>5 DEF ScanCut
    <3>2. ASSUME Relaying, Unended(out) PROVE FALSE
      <4>1. scanned >= 1 /\ Script[scanned].kind = "data"
        BY <1>0, <3>1, <3>2 DEF EventInv, UnendedInv
      <4>2. scanned \in DOMAIN Script
        BY <1>0, <4>1, GatewayAssumption
      <4> QED
        BY <3>1, <4>1, <4>2 DEF EventScript
    <3> QED
      BY <2>2, <3>2 DEF EventInv, UnendedInv
  <2>6. scanner' = "exited" \/ (ScanLine /\ scanner' = "offer") \/ ScanCut
    BY <1>4 DEF Scanner, ScanLine, ScanEnds, GiveUp, ScannerStep
  <2> QED
    BY <2>3, <2>4, <2>5, <2>6
<1>5. CASE Heartbeat
  <2>1. UNCHANGED <<handler, client, scanner, scanned, sent, held>>
    BY <1>5 DEF Heartbeat, peerVars
  <2>2. CASE client = "here"
    <3> DEFINE b == Beat[1]
               c == Beat[2]
    <3>1. /\ out' = Append(Append(out, b), c)
          /\ b \in Lines \cup Beating /\ c \in Lines \cup Beating
          /\ b.kind = "comment" /\ c.kind = "beatblank"
      BY <1>5, <2>2, HeartbeatRelays, BeatsAreNoLines DEF RelayInv, Beat
    <3> HIDE DEF b, c
    <3>2. ~ Carries(b) /\ ~ Carries(c) /\ Ends(c)
      BY <3>1 DEF Carries, Ends
    <3>3. Append(out, b) \in Seq(Lines \cup Beating)
      BY <1>0, <3>1
    <3>4. Separated(Append(out, b))
      BY <1>0, <3>1, <3>2, EndingLine DEF EventInv
    <3>5. /\ Separated(Append(Append(out, b), c))
          /\ ~ Unended(Append(Append(out, b), c))
      BY <3>1, <3>2, <3>3, <3>4, EndingLine
    <3> QED
      BY <3>1, <3>5 DEF EventInv, UnendedInv
  <2>3. CASE client # "here"
    <3>1. out' = out
      BY <1>5, <2>3, HeartbeatRelays DEF RelayInv
    <3>2. client' = "gone"
      BY <1>5, <2>3 DEF Heartbeat, Writable, peerVars, RelayInv, TypeOK
    <3> QED
      BY <3>1, <3>2 DEF EventInv, Separated, UnendedInv, Relaying
  <2> QED
    BY <2>2, <2>3
<1>6. CASE BackendSends
  <2>1. /\ UNCHANGED <<handler, client, scanner, scanned, held, out>>
        /\ backend = "sending" /\ sent' = sent + 1
    BY <1>6 DEF BackendSends, relayVars
  <2>2. scanned <= sent
    BY <2>1 DEF OfferInv
  <2>3. Separated(out)' /\ (Unended(out)' => Unended(out)) /\ (Relaying' => Relaying)
    BY <2>1 DEF EventInv, Separated, Unended, Relaying
  <2> QED
    BY <1>0, <2>1, <2>2, <2>3 DEF EventInv, UnendedInv
<1> QED
  BY <1>1, <1>2, <1>3, <1>4, <1>5, <1>6
     DEF Next, Start, Reject, BackendFails, StartCopy, Handler, CopyEnds, CloseBody, LinesClosed,
         BackendEnds, BackendBreaks, ClientStalls, ClientReads, ClientLeaves, peerVars, relayVars, vars, Relaying

(* The rest of a line the backend broke off in is the last line written:   *)
(* after it come heartbeats.                                               *)
CutInv ==
    \A k \in DOMAIN out : out[k] = Cut =>
        /\ backend = "broken"
        /\ scanned > sent /\ scanner # "offer"
        /\ \A l \in DOMAIN out : k < l => out[l] \in Beating

NoCut == \A k \in DOMAIN out : out[k] # Cut

LEMMA CutStep ==
    ASSUME RelayInv, OfferInv, CutInv, [Next]_vars
    PROVE  CutInv'
<1>0. /\ sent \in Nat /\ scanned \in Nat /\ held \in Lines /\ out \in Seq(Lines \cup Beating)
      /\ scanned \in 0..Len(Script) /\ Len(Script) \in Nat
  BY GatewayAssumption DEF RelayInv, TypeOK
<1>1. CASE UNCHANGED <<scanner, scanned, sent, backend, out>>
  BY <1>1 DEF CutInv
<1>2. CASE StartRelay
  <2>1. out' = out /\ out = <<>>
    BY <1>2 DEF StartRelay, OfferInv
  <2> QED
    BY <2>1 DEF CutInv
<1>3. CASE TakeLine
  <2>1. /\ scanner = "offer" /\ scanner' = "scan"
        /\ UNCHANGED <<scanned, sent, backend>>
    BY <1>3 DEF TakeLine, peerVars
  <2>2. NoCut
    BY <2>1 DEF CutInv, NoCut
  <2>3. CASE client = "here"
    <3>1. out' = Append(out, held) /\ held \in Lines \cup Beating
      BY <1>0, <1>3, <2>3, TakeLineRelays DEF RelayInv
    <3>2. /\ DOMAIN out' = DOMAIN out \cup {Len(out) + 1} /\ out'[Len(out) + 1] = held
          /\ Len(out) + 1 \in Int
          /\ \A k \in DOMAIN out : out'[k] = out[k] /\ k < Len(out) + 1 /\ k \in Int
      BY <1>0, <3>1, OneMore
    <3>3. held = Cut => scanned > sent /\ backend = "broken"
      <4>1. CASE scanned <= sent
        <5>1. held = Script[scanned] /\ scanned \in DOMAIN Script
          BY <1>0, <2>1, <4>1, GatewayAssumption DEF OfferInv
        <5> QED
          BY <5>1, GatewayAssumption
      <4>2. CASE ~ (scanned <= sent)
        <5>1. scanned > sent
          BY <1>0, <4>2
        <5> QED
          BY <4>2, <5>1 DEF OfferInv
      <4> QED
        BY <4>1, <4>2
    <3>4. ASSUME NEW k \in DOMAIN out', out'[k] = Cut
          PROVE  k = Len(out) + 1 /\ held = Cut
      BY <2>2, <3>2, <3>4 DEF NoCut
    <3>5. \A l \in DOMAIN out' : ~ (Len(out) + 1 < l)
      BY <3>2
    <3> QED
      BY <2>1, <3>3, <3>4, <3>5 DEF CutInv
  <2>4. CASE client # "here"
    <3>1. out' = out
      BY <1>3, <2>4, TakeLineRelays DEF RelayInv
    <3> QED
      BY <2>2, <3>1 DEF CutInv, NoCut
  <2> QED
    BY <2>3, <2>4
<1>4. CASE Scanner
  <2>1. UNCHANGED <<sent, backend, out>>
    BY <1>4 DEF Scanner, ScanLine, ScanCut, ScanEnds, GiveUp, ScannerStep, peerVars
  <2>2. CASE NoCut
    BY <2>1, <2>2 DEF CutInv, NoCut
  <2>3. CASE scanned > sent
    <3>1. ~ ScanLine /\ ~ ScanCut
      BY <1>0, <2>3 DEF ScanLine, ScanCut
    <3>2. scanner' # "offer" /\ scanned' = scanned
      BY <1>0, <1>4, <3>1 DEF Scanner, ScanEnds, GiveUp, ScannerStep
    <3> QED
      BY <2>1, <3>2 DEF CutInv
  <2> QED
    BY <2>2, <2>3 DEF CutInv, NoCut
<1>5. CASE Heartbeat
  <2>1. UNCHANGED <<scanner, scanned, sent, backend>>
    BY <1>5 DEF Heartbeat, peerVars
  <2>2. CASE client = "here"
    <3> DEFINE b == Beat[1]
               c == Beat[2]
               mid == Append(out, b)
    <3>1. /\ out' = Append(mid, c)
          /\ b \in Lines \cup Beating /\ c \in Lines \cup Beating
          /\ b \in Beating /\ c \in Beating
      BY <1>5, <2>2, HeartbeatRelays, BeatsAreNoLines DEF RelayInv
    <3>2. Cut \notin Beating
      BY BeatsAreNoLines, GatewayAssumption DEF Lines
    <3> HIDE DEF b, c
    <3>3. /\ DOMAIN mid = DOMAIN out \cup {Len(out) + 1} /\ mid[Len(out) + 1] = b
          /\ \A k \in DOMAIN out : mid[k] = out[k]
          /\ mid \in Seq(Lines \cup Beating)
      BY <1>0, <3>1, OneMore
    <3> HIDE DEF mid
    <3>4. /\ DOMAIN out' = DOMAIN mid \cup {Len(mid) + 1} /\ out'[Len(mid) + 1] = c
          /\ \A k \in DOMAIN mid : out'[k] = mid[k]
      BY <3>1, <3>3, OneMore
    <3>5. \A k \in DOMAIN out' : (k \in DOMAIN out /\ out'[k] = out[k]) \/ out'[k] \in Beating
      BY <3>1, <3>3, <3>4
    <3> QED
      BY <2>1, <3>2, <3>5 DEF CutInv
  <2>3. CASE client # "here"
    <3>1. out' = out
      BY <1>5, <2>3, HeartbeatRelays DEF RelayInv
    <3> QED
      BY <2>1, <3>1 DEF CutInv
  <2> QED
    BY <2>2, <2>3
<1>6. CASE BackendSends \/ BackendEnds \/ BackendBreaks
  <2>1. out' = out /\ backend = "sending"
    BY <1>6 DEF BackendSends, BackendEnds, BackendBreaks, relayVars
  <2> QED
    BY <2>1 DEF CutInv
<1> QED
  BY <1>1, <1>2, <1>3, <1>4, <1>5, <1>6
     DEF Next, Start, Reject, BackendFails, StartCopy, Handler, CopyEnds, CloseBody, LinesClosed,
         ClientStalls, ClientReads, ClientLeaves, peerVars, relayVars, vars

(* A client that dispatches on blank lines gets each data line in an event *)
(* of its own, wherever heartbeats fall, and the rest of a line in which   *)
(* the backend broke off only as the last event of all; for every script   *)
(* in which a blank line follows each data line.                           *)
THEOREM EventsStayWhole == EventScript => (Spec => []OneDataLinePerEvent)
<1> SUFFICES ASSUME EventScript PROVE Spec => []OneDataLinePerEvent
  OBVIOUS
<1>1. Init => EventInv /\ OfferInv /\ CutInv
  BY DEF Init, EventInv, Separated, Unended, UnendedInv, OfferInv, CutInv
<1>2. RelayInv /\ OfferInv /\ EventInv /\ CutInv /\ [Next]_vars => EventInv' /\ OfferInv' /\ CutInv'
  BY EventStep, OfferStep, CutStep DEF RelayInv
<1>3. RelayInv /\ EventInv /\ CutInv => OneDataLinePerEvent
  BY DEF RelayInv, EventInv, CutInv, Separated, Carries, Ends, OneDataLinePerEvent, Dispatched
<1> QED
  BY <1>1, <1>2, <1>3, InitInv, StepInv, PTL DEF Spec

-----------------------------------------------------------------------------
(* The path of a message from the page to the chat server, ChatPath, for   *)
(* any number of pages and requests and any bounds of the pipes.           *)

LEMMA PathNumbers ==
    MaxRequests \in Nat /\ MaxChunks \in Nat /\ PagePipe \in Nat /\ AgentPipe \in Nat
BY PathAssumption

(* A request leaves the queue from any place in it. *)
LEMMA RemoveAtElements ==
    ASSUME NEW S, NEW s \in Seq(S), NEW i \in DOMAIN s
    PROVE  /\ RemoveAt(s, i) \in Seq(S)
           /\ Len(RemoveAt(s, i)) = Len(s) - 1
           /\ DOMAIN RemoveAt(s, i) = 1 .. Len(s) - 1
           /\ \A k \in 1 .. Len(s) - 1 :
                 RemoveAt(s, i)[k] = IF k < i THEN s[k] ELSE s[k + 1]
<1> DEFINE front == SubSeq(s, 1, i - 1)
           back == SubSeq(s, i + 1, Len(s))
<1>1. i \in 1 .. Len(s) /\ Len(s) \in Nat
  OBVIOUS
<1>2. /\ front \in Seq(S)
      /\ Len(front) = i - 1
      /\ \A k \in 1 .. i - 1 : front[k] = s[k]
  BY <1>1
<1>3. /\ back \in Seq(S)
      /\ Len(back) = Len(s) - i
      /\ \A k \in 1 .. Len(s) - i : back[k] = s[i + k]
  BY <1>1
<1>4. RemoveAt(s, i) = front \o back
  BY DEF RemoveAt
<1> HIDE DEF front, back
<1>5. front \o back \in Seq(S) /\ Len(front \o back) = Len(front) + Len(back)
  BY <1>2, <1>3, ConcatProperties
<1>6. ASSUME NEW k \in 1 .. Len(s) - 1
      PROVE  (front \o back)[k] = IF k < i THEN s[k] ELSE s[k + 1]
  <2>1. k \in 1 .. Len(front) + Len(back) /\ k \in Nat
    BY <1>1, <1>2, <1>3
  <2>2. (front \o back)[k] = IF k <= Len(front) THEN front[k] ELSE back[k - Len(front)]
    <3>1. front \in Seq(S) /\ back \in Seq(S)
      BY <1>2, <1>3
    <3> HIDE DEF front, back
    <3> QED
      BY <2>1, <3>1, ConcatProperties
  <2>3. CASE k < i
    <3>1. k \in 1 .. i - 1 /\ k <= Len(front)
      BY <2>1, <2>3, <1>1, <1>2
    <3>2. front[k] = s[k]
      BY <3>1, <1>2
    <3> QED
      BY <2>2, <2>3, <3>1, <3>2, Zenon
  <2>4. CASE ~ (k < i)
    <3>1. k - Len(front) \in 1 .. Len(s) - i /\ i + (k - Len(front)) = k + 1
      <4>1. Len(front) = i - 1
        BY <1>2
      <4>2. k \in Nat /\ i \in Nat /\ Len(s) \in Nat /\ k <= Len(s) - 1 /\ k >= i
        BY <2>1, <2>4, <1>1
      <4> QED
        BY <4>1, <4>2
    <3>2. ~ (k <= Len(front))
      BY <2>1, <2>4, <1>1, <1>2
    <3>3. back[k - Len(front)] = s[k + 1]
      BY <3>1, <1>3
    <3> QED
      BY <2>2, <2>4, <3>2, <3>3, Zenon
  <2> QED
    BY <2>3, <2>4
<1>7. Len(front \o back) = Len(s) - 1
  BY <1>1, <1>2, <1>3, <1>5
<1>8. DOMAIN (front \o back) = 1 .. Len(s) - 1
  BY <1>5, <1>7
<1> QED
  BY <1>4, <1>5, <1>6, <1>7, <1>8

Handlers == {"none", "queued", "serving", "sending", "abandoned", "over"}

PathTyped ==
    /\ messages \in [Page -> Seq(Entry)]
    /\ reading \in [Page -> SUBSET Requests]
    /\ asked \in 0..MaxRequests
    /\ taken \in [Requests -> 0..MaxChunks]
    /\ relayed \in [Requests -> 0..MaxChunks]
    /\ emitted \in [Requests -> 0..MaxChunks]
    /\ relay \in [Requests -> {"none", "relaying", "refused", "returned"}]
    /\ link \in [Requests -> BOOLEAN]
    /\ stage \in [Requests -> Handlers]
    /\ queue \in Seq(Requests)

(* No one is ahead of the one before; and a handler that is not sending  *)
(* has room for a chunk, or the lock could come back to one that has none. *)
InOrder ==
    \A n \in Requests :
        /\ taken[n] <= relayed[n] /\ relayed[n] <= emitted[n]
        /\ link[n] => emitted[n] <= relayed[n] + AgentPipe + (IF stage[n] = "sending" THEN 1 ELSE 0)

(* Nothing happens at the agent for a request that has not reached it. *)
Begun ==
    /\ \A n \in Requests : relay[n] = "none" => stage[n] = "none" /\ emitted[n] = 0
    /\ \A i \in 1..Len(queue) : relay[queue[i]] # "none"

OneHolder ==
    \A m, n \in Requests :
        stage[m] \in {"serving", "sending", "abandoned"} /\ stage[n] \in {"serving", "sending", "abandoned"}
            => m = n

(* A page that reads, reads the answer to the last message in its          *)
(* conversation: without this an answer could go to another question.      *)
LastAsked ==
    \A p \in Page :
        /\ \A k \in 1..Len(messages[p]) : messages[p][k].request <= asked
        /\ \A n \in reading[p] :
              /\ reading[p] = {n} /\ n <= asked
              /\ Len(messages[p]) > 0
              /\ messages[p][Len(messages[p])] = User(n)

PathInv ==
    /\ PathTyped /\ InOrder /\ Begun /\ OneHolder
    /\ LastAsked /\ AnswersFollowQuestions

LEMMA PathBegins == ASSUME PathInit PROVE PathInv
<1> USE PathNumbers DEF PathInit, Requests
<1>1. PathTyped
  BY DEF PathTyped, Handlers
<1>2. InOrder /\ Begun /\ OneHolder
  BY DEF InOrder, Begun, OneHolder
<1>3. LastAsked /\ AnswersFollowQuestions
  BY DEF LastAsked, AnswersFollowQuestions
<1> QED
  BY <1>1, <1>2, <1>3 DEF PathInv

(* The part of the invariant that is about the pipes and the lock survives *)
(* what only pages do.                                                     *)
LEMMA PageStepsKeepPipes ==
    ASSUME PathInv, UNCHANGED gatewayVars, UNCHANGED agentVars,
           taken' \in [Requests -> 0..MaxChunks],
           \A n \in Requests : taken'[n] <= relayed[n]
    PROVE  InOrder' /\ Begun' /\ OneHolder'
<1>1. UNCHANGED <<relay, relayed, link, stage, emitted, whole, queue>>
  BY DEF gatewayVars, agentVars
<1>2. InOrder'
  BY <1>1 DEF PathInv, InOrder
<1>3. Begun'
  BY <1>1 DEF PathInv, Begun
<1>4. OneHolder'
  BY <1>1 DEF PathInv, OneHolder
<1> QED
  BY <1>2, <1>3, <1>4

(* What an entry of a conversation is. *)
LEMMA EntryOf ==
    ASSUME PathInv, NEW p \in Page, NEW k \in 1..Len(messages[p])
    PROVE  /\ messages[p] \in Seq(Entry)
           /\ messages[p][k] \in Entry
           /\ messages[p][k].request \in Requests
<1>1. messages[p] \in Seq(Entry)
  BY DEF PathInv, PathTyped
<1>2. messages[p][k] \in Entry
  BY <1>1
<1> QED
  BY <1>1, <1>2 DEF Entry

(* The properties of the conversation of a page, which its own steps       *)
(* change: what they leave of the other pages' holds on.                   *)
PageSound(p) ==
    /\ \A k \in 1..Len(messages[p]) : messages[p][k].request <= asked
    /\ \A n \in reading[p] :
          /\ reading[p] = {n} /\ n <= asked
          /\ Len(messages[p]) > 0
          /\ messages[p][Len(messages[p])] = User(n)
    /\ \A k \in 1..Len(messages[p]) :
          messages[p][k].role = "assistant" =>
              /\ k > 1 /\ messages[p][k - 1] = User(messages[p][k].request)
              /\ messages[p][k].chunks \in 1..emitted[messages[p][k].request]
              /\ messages[p][k].request \notin reading[p]

LEMMA PagesSound ==
    ASSUME messages \in [Page -> Seq(Entry)]
    PROVE  LastAsked /\ AnswersFollowQuestions <=> \A p \in Page : PageSound(p)
<1>1. \A p \in Page : DOMAIN messages[p] = 1..Len(messages[p])
  OBVIOUS
<1> QED
  BY <1>1 DEF LastAsked, AnswersFollowQuestions, PageSound

LEMMA PagesSoundAfter ==
    ASSUME messages' \in [Page -> Seq(Entry)], \A p \in Page : PageSound(p)'
    PROVE  LastAsked' /\ AnswersFollowQuestions'
<1>1. \A p \in Page : DOMAIN messages'[p] = 1..Len(messages'[p])
  OBVIOUS
<1> QED
  BY <1>1 DEF LastAsked, AnswersFollowQuestions, PageSound, User

(* What one page does to its conversation leaves those of the others, and  *)
(* what holds of it afterwards is all there is to show.                    *)
LEMMA OnePageMoves ==
    ASSUME PathInv, NEW p \in Page, NEW conversation \in Seq(Entry), NEW answers \in SUBSET Requests,
           messages' = [messages EXCEPT ![p] = conversation],
           reading' = [reading EXCEPT ![p] = answers],
           asked' \in 0..MaxRequests, asked <= asked',
           taken' \in [Requests -> 0..MaxChunks],
           \A n \in Requests : taken'[n] <= relayed[n],
           UNCHANGED gatewayVars, UNCHANGED agentVars,
           PageSound(p)'
    PROVE  PathInv'
<1>1. UNCHANGED <<relay, relayed, link, stage, emitted, whole, queue>>
  BY DEF gatewayVars, agentVars
<1>2. InOrder' /\ Begun' /\ OneHolder'
  BY PageStepsKeepPipes
<1>3. messages \in [Page -> Seq(Entry)] /\ reading \in [Page -> SUBSET Requests]
  BY DEF PathInv, PathTyped
<1>4. messages' \in [Page -> Seq(Entry)] /\ reading' \in [Page -> SUBSET Requests]
  BY <1>3
<1>5. PathTyped'
  <2>1. UNCHANGED <<Entry, Requests>>
    BY DEF Entry, Requests
  <2>2. messages' \in [Page -> Seq(Entry)] /\ reading' \in [Page -> SUBSET Requests]
    BY <1>4
  <2> QED
    BY <1>1, <2>1, <2>2 DEF PathInv, PathTyped
<1>6. ASSUME NEW q \in Page PROVE PageSound(q)'
  <2>1. CASE q = p
    BY <2>1
  <2>2. CASE q # p
    <3>1. messages'[q] = messages[q] /\ reading'[q] = reading[q] /\ emitted' = emitted
      BY <1>1, <1>3, <2>2
    <3>2. PageSound(q)
      BY <1>3, PagesSound DEF PathInv
    <3>3. \A k \in 1..Len(messages[q]) : messages[q][k].request \in Nat
      BY EntryOf DEF Requests
    <3>4. asked \in Nat /\ asked' \in Nat
      BY PathNumbers DEF PathInv, PathTyped
    <3>5. \A n \in reading[q] : n \in Nat
      BY <1>3 DEF Requests
    <3>6. \A k \in 1..Len(messages[q]) : messages[q][k].request <= asked'
      BY <3>2, <3>3, <3>4 DEF PageSound
    <3>7. \A n \in reading[q] : n <= asked'
      BY <3>2, <3>4, <3>5 DEF PageSound
    <3> QED
      BY <3>1, <3>2, <3>6, <3>7 DEF PageSound, User
  <2> QED
    BY <2>1, <2>2
<1>7. LastAsked' /\ AnswersFollowQuestions'
  BY <1>4, <1>6, PagesSoundAfter DEF Entry, Requests
<1> QED
  BY <1>2, <1>5, <1>7 DEF PathInv

(* A question is sent behind everything else, and only when no answer is   *)
(* read: its number is new.                                                *)
LEMMA SendKeeps ==
    ASSUME PathInv, NEW p \in Page, Send(p)
    PROVE  PathInv'
<1> DEFINE conversation == Append(messages[p], User(asked + 1))
<1>1. /\ reading[p] = {} /\ asked < MaxRequests /\ asked' = asked + 1
      /\ messages' = [messages EXCEPT ![p] = conversation]
      /\ reading' = [reading EXCEPT ![p] = @ \cup {asked + 1}]
      /\ taken' = taken
      /\ UNCHANGED gatewayVars /\ UNCHANGED agentVars
  BY DEF Send, Streaming, User
<1>2. asked \in Nat /\ asked' \in 0..MaxRequests /\ asked <= asked' /\ asked + 1 \in Requests
  BY <1>1, PathNumbers DEF PathInv, PathTyped, Requests
<1>3. /\ messages \in [Page -> Seq(Entry)] /\ reading \in [Page -> SUBSET Requests]
      /\ messages[p] \in Seq(Entry)
  BY DEF PathInv, PathTyped
<1>4. User(asked + 1) \in Entry
  BY <1>2, PathNumbers DEF User, Entry
<1>5. /\ conversation \in Seq(Entry) /\ Len(conversation) = Len(messages[p]) + 1
      /\ conversation[Len(messages[p]) + 1] = User(asked + 1)
      /\ \A k \in 1..Len(messages[p]) : conversation[k] = messages[p][k]
  BY <1>3, <1>4
<1>6. taken' \in [Requests -> 0..MaxChunks] /\ \A n \in Requests : taken'[n] <= relayed[n]
  BY <1>1 DEF PathInv, PathTyped, InOrder
<1> HIDE DEF conversation
<1>7. /\ messages'[p] = conversation /\ reading' = [reading EXCEPT ![p] = {asked + 1}]
      /\ reading'[p] = {asked + 1} /\ emitted' = emitted
  BY <1>1, <1>3 DEF agentVars
<1>8. PageSound(p)'
  <2>1. PageSound(p)
    BY <1>3, PagesSound DEF PathInv
  <2>2. \A k \in 1..Len(messages[p]) :
           messages[p][k].request \in Nat /\ messages[p][k].request <= asked
    BY <2>1, EntryOf DEF PageSound, Requests
  <2>3. ASSUME NEW k \in 1..Len(conversation) PROVE conversation[k].request <= asked + 1
    <3>1. CASE k = Len(messages[p]) + 1
      BY <3>1, <1>2, <1>5 DEF User
    <3>2. CASE k # Len(messages[p]) + 1
      <4>1. k \in 1..Len(messages[p])
        BY <3>2, <1>3, <1>5
      <4>2. conversation[k] = messages[p][k]
        BY <4>1, <1>5
      <4>3. messages[p][k].request \in Nat /\ messages[p][k].request <= asked
        BY <4>1, <2>2
      <4>4. \A r, a \in Nat : r <= a => r <= a + 1
        OBVIOUS
      <4>5. asked \in Nat
        BY <1>2
      <4> QED
        BY <4>2, <4>3, <4>4, <4>5
    <3> QED
      BY <3>1, <3>2
  <2>4. ASSUME NEW k \in 1..Len(conversation), conversation[k].role = "assistant"
        PROVE  /\ k > 1 /\ conversation[k - 1] = User(conversation[k].request)
               /\ conversation[k].chunks \in 1..emitted[conversation[k].request]
               /\ conversation[k].request # asked + 1
    <3>1. k # Len(messages[p]) + 1
      BY <2>4, <1>5 DEF User
    <3>2. k \in 1..Len(messages[p])
      BY <3>1, <1>3, <1>5
    <3>3. conversation[k] = messages[p][k]
      BY <3>2, <1>5
    <3>4. /\ k > 1 /\ messages[p][k - 1] = User(conversation[k].request)
          /\ conversation[k].chunks \in 1..emitted[conversation[k].request]
      BY <2>1, <2>4, <3>2, <3>3 DEF PageSound
    <3>5. conversation[k - 1] = messages[p][k - 1]
      <4>1. k - 1 \in 1..Len(messages[p])
        BY <1>3, <3>2, <3>4
      <4> QED
        BY <4>1, <1>5
    <3>6. conversation[k].request # asked + 1
      BY <1>2, <2>2, <3>2, <3>3
    <3> QED
      BY <3>4, <3>5, <3>6
  <2>5. Len(conversation) > 0 /\ conversation[Len(conversation)] = User(asked + 1)
    BY <1>3, <1>5
  <2>6. asked + 1 <= asked'
    BY <1>1, <1>2
  <2> QED
    BY <1>1, <1>7, <2>3, <2>4, <2>5, <2>6 DEF PageSound, User
<1> QED
  BY <1>1, <1>2, <1>5, <1>6, <1>7, <1>8, OnePageMoves

(* Whatever ends the reading of an answer puts it behind its question: the *)
(* page has sent nothing since.                                            *)
LEMMA UnlockKeeps ==
    ASSUME PathInv, NEW p \in Page, NEW n \in reading[p], Unlock(p, n),
           UNCHANGED gatewayVars, UNCHANGED agentVars
    PROVE  PathInv'
<1> DEFINE answer == [role |-> "assistant", request |-> n, chunks |-> taken[n]]
           conversation == IF taken[n] = 0 THEN messages[p] ELSE Append(messages[p], answer)
<1>1. /\ messages' = [messages EXCEPT ![p] = conversation]
      /\ reading' = [reading EXCEPT ![p] = @ \ {n}] /\ asked' = asked /\ taken' = taken
  BY DEF Unlock, Assistant
<1>2. /\ messages \in [Page -> Seq(Entry)] /\ reading \in [Page -> SUBSET Requests]
      /\ messages[p] \in Seq(Entry) /\ n \in Requests
      /\ asked \in 0..MaxRequests /\ asked \in Nat
  BY PathNumbers DEF PathInv, PathTyped
<1>3. taken[n] \in 0..MaxChunks /\ emitted[n] \in 0..MaxChunks /\ taken[n] <= emitted[n]
  <2>1. taken[n] \in 0..MaxChunks /\ relayed[n] \in 0..MaxChunks /\ emitted[n] \in 0..MaxChunks
    BY <1>2 DEF PathInv, PathTyped
  <2>2. taken[n] <= relayed[n] /\ relayed[n] <= emitted[n]
    BY <1>2 DEF PathInv, InOrder
  <2> QED
    BY <2>1, <2>2
<1>4. PageSound(p)
  BY <1>2, PagesSound DEF PathInv
<1>5. /\ reading[p] = {n} /\ n <= asked /\ Len(messages[p]) > 0
      /\ messages[p][Len(messages[p])] = User(n)
  BY <1>4 DEF PageSound
<1>6. answer \in Entry
  BY <1>2, <1>3 DEF Entry
<1>7. conversation \in Seq(Entry)
  BY <1>2, <1>6
<1>8. taken' \in [Requests -> 0..MaxChunks] /\ \A m \in Requests : taken'[m] <= relayed[m]
  BY <1>1 DEF PathInv, PathTyped, InOrder
<1>9. /\ messages'[p] = conversation /\ reading' = [reading EXCEPT ![p] = {}]
      /\ reading'[p] = {} /\ emitted' = emitted
  BY <1>1, <1>2, <1>5 DEF agentVars
<1>10. PageSound(p)'
  <2>1. CASE taken[n] = 0
    <3>1. conversation = messages[p]
      BY <2>1
    <3> HIDE DEF conversation
    <3>2. messages'[p] = messages[p] /\ asked' = asked /\ reading'[p] = {} /\ emitted' = emitted
      BY <1>1, <1>9, <3>1
    <3>3. \A k \in 1..Len(messages[p]) :
             /\ messages[p][k].request <= asked
             /\ messages[p][k].role = "assistant" =>
                   /\ k > 1 /\ messages[p][k - 1] = User(messages[p][k].request)
                   /\ messages[p][k].chunks \in 1..emitted[messages[p][k].request]
      BY <1>4 DEF PageSound
    <3> QED
      BY <3>2, <3>3 DEF PageSound, User
  <2>2. CASE taken[n] # 0
    <3> DEFINE last == Len(messages[p])
    <3>1. /\ Len(conversation) = last + 1 /\ conversation[last + 1] = answer
          /\ \A k \in 1..last : conversation[k] = messages[p][k]
      BY <1>2, <1>6, <2>2
    <3>2. last \in Nat /\ last > 0
      BY <1>2, <1>5
    <3>3. /\ answer.role = "assistant" /\ answer.request = n /\ answer.chunks = taken[n]
      OBVIOUS
    <3> HIDE DEF conversation, answer
    <3>4. ASSUME NEW k \in 1..Len(conversation)
          PROVE  /\ conversation[k].request <= asked
                 /\ conversation[k].role = "assistant" =>
                       /\ k > 1 /\ conversation[k - 1] = User(conversation[k].request)
                       /\ conversation[k].chunks \in 1..emitted[conversation[k].request]
      <4>1. CASE k = last + 1
        <5>1. k > 1 /\ k - 1 = last /\ last \in 1..last
          BY <4>1, <3>2
        <5>2. conversation[k - 1] = User(n)
          BY <5>1, <3>1, <1>5
        <5>3. taken[n] \in 1..emitted[n]
          BY <1>3, <2>2
        <5> QED
          BY <4>1, <5>1, <5>2, <5>3, <3>1, <3>3, <1>5
      <4>2. CASE k # last + 1
        <5>1. k \in 1..last
          BY <4>2, <3>1, <3>2
        <5>2. conversation[k] = messages[p][k]
          BY <5>1, <3>1
        <5>3. messages[p][k].request <= asked
          BY <5>1, <1>4 DEF PageSound
        <5>4. ASSUME conversation[k].role = "assistant"
              PROVE  /\ k > 1 /\ conversation[k - 1] = User(conversation[k].request)
                     /\ conversation[k].chunks \in 1..emitted[conversation[k].request]
          <6>1. /\ k > 1 /\ messages[p][k - 1] = User(conversation[k].request)
                /\ conversation[k].chunks \in 1..emitted[conversation[k].request]
            BY <5>1, <5>2, <5>4, <1>4 DEF PageSound
          <6>2. k - 1 \in 1..last
            BY <5>1, <6>1, <3>2
          <6> QED
            BY <6>1, <6>2, <3>1
        <5> QED
          BY <5>2, <5>3, <5>4
      <4> QED
        BY <4>1, <4>2
    <3> HIDE DEF last
    <3> QED
      BY <1>1, <1>9, <3>4 DEF PageSound, User
  <2> QED
    BY <2>1, <2>2
<1> HIDE DEF conversation
<1>11. messages' = [messages EXCEPT ![p] = conversation]
  BY <1>1
<1>12. reading' = [reading EXCEPT ![p] = {}] /\ {} \in SUBSET Requests
  BY <1>9
<1>13. asked' \in 0..MaxRequests /\ asked <= asked'
  <2>1. asked' = asked /\ asked \in Nat /\ asked \in 0..MaxRequests
    BY <1>1, <1>2
  <2> QED
    BY <2>1
<1> QED
  BY <1>7, <1>8, <1>10, <1>11, <1>12, <1>13, OnePageMoves

LEMMA ReadKeeps ==
    ASSUME PathInv, NEW p \in Page, Read(p)
    PROVE  PathInv'
<1>1. PICK n \in reading[p] : taken[n] < relayed[n] /\ taken' = [taken EXCEPT ![n] = @ + 1]
  BY DEF Read
<1>2. /\ UNCHANGED <<messages, reading, asked>>
      /\ UNCHANGED gatewayVars /\ UNCHANGED agentVars
  BY DEF Read
<1>3. /\ messages \in [Page -> Seq(Entry)] /\ reading \in [Page -> SUBSET Requests]
      /\ messages[p] \in Seq(Entry) /\ reading[p] \in SUBSET Requests
      /\ n \in Requests
  BY DEF PathInv, PathTyped
<1>4. /\ taken \in [Requests -> 0..MaxChunks] /\ relayed \in [Requests -> 0..MaxChunks]
      /\ \A m \in Requests : taken[m] <= relayed[m]
  BY DEF PathInv, PathTyped, InOrder
<1>5. taken[n] + 1 \in 0..MaxChunks /\ taken[n] + 1 <= relayed[n]
  <2>1. taken[n] \in 0..MaxChunks /\ relayed[n] \in 0..MaxChunks /\ taken[n] < relayed[n] /\ MaxChunks \in Nat
    BY <1>1, <1>3, <1>4, PathNumbers
  <2> QED
    BY <2>1
<1>6. taken' \in [Requests -> 0..MaxChunks] /\ \A m \in Requests : taken'[m] <= relayed[m]
  BY <1>1, <1>4, <1>5
<1>7. messages' = [messages EXCEPT ![p] = messages[p]]
  BY <1>2, <1>3
<1>8. reading' = [reading EXCEPT ![p] = reading[p]]
  BY <1>2, <1>3
<1>9. asked' \in 0..MaxRequests /\ asked <= asked'
  <2>1. asked \in 0..MaxRequests /\ asked' = asked
    BY <1>2 DEF PathInv, PathTyped
  <2> QED
    BY <2>1
<1>10. PageSound(p)'
  <2>1. PageSound(p)
    BY <1>3, PagesSound DEF PathInv
  <2>2. emitted' = emitted
    BY <1>2 DEF agentVars
  <2> QED
    BY <1>2, <2>1, <2>2 DEF PageSound, User
<1> QED
  BY <1>2, <1>3, <1>6, <1>7, <1>8, <1>9, <1>10, OnePageMoves

LEMMA LeaveKeeps ==
    ASSUME PathInv, NEW p \in Page, Leave(p)
    PROVE  PathInv'
<1>1. /\ messages' = [messages EXCEPT ![p] = <<>>]
      /\ reading' = [reading EXCEPT ![p] = {}]
      /\ asked' = asked /\ taken' = taken
      /\ UNCHANGED gatewayVars /\ UNCHANGED agentVars
  BY DEF Leave
<1>2. /\ messages \in [Page -> Seq(Entry)] /\ reading \in [Page -> SUBSET Requests]
      /\ taken \in [Requests -> 0..MaxChunks] /\ \A m \in Requests : taken[m] <= relayed[m]
  BY DEF PathInv, PathTyped, InOrder
<1>3. asked' \in 0..MaxRequests /\ asked <= asked'
  <2>1. asked \in 0..MaxRequests /\ asked' = asked
    BY <1>1 DEF PathInv, PathTyped
  <2> QED
    BY <2>1
<1>4. messages'[p] = <<>> /\ reading'[p] = {}
  BY <1>1, <1>2
<1>5. PageSound(p)'
  BY <1>4 DEF PageSound
<1>6. <<>> \in Seq(Entry) /\ {} \in SUBSET Requests
  OBVIOUS
<1>7. taken' \in [Requests -> 0..MaxChunks] /\ \A m \in Requests : taken'[m] <= relayed[m]
  BY <1>1, <1>2
<1> QED
  BY <1>1, <1>3, <1>5, <1>6, <1>7, OnePageMoves

(* What gateway and agent do leaves the messages sound: they only     *)
(* grow what has been emitted.                                             *)
LEMMA ConversationsKept ==
    ASSUME PathInv, UNCHANGED pageVars, PathTyped',
           \A n \in Requests : emitted[n] <= emitted'[n]
    PROVE  LastAsked' /\ AnswersFollowQuestions'
<1>1. UNCHANGED <<messages, reading, asked, taken>>
  BY DEF pageVars
<1>2. messages \in [Page -> Seq(Entry)] /\ messages' \in [Page -> Seq(Entry)]
  BY <1>1 DEF PathInv, PathTyped
<1>3. ASSUME NEW p \in Page PROVE PageSound(p)'
  <2>1. PageSound(p)
    BY <1>2, PagesSound DEF PathInv
  <2>2. ASSUME NEW k \in 1..Len(messages[p]), messages[p][k].role = "assistant"
        PROVE  messages[p][k].chunks \in 1..emitted'[messages[p][k].request]
    <3> DEFINE n == messages[p][k].request
               c == messages[p][k].chunks
    <3>1. n \in Requests /\ c \in 1..emitted[n]
      BY <2>1, <2>2, EntryOf DEF PageSound
    <3>2. emitted[n] \in Nat /\ emitted'[n] \in Nat /\ emitted[n] <= emitted'[n]
      <4>1. UNCHANGED Requests
        BY DEF Requests
      <4> QED
        BY <3>1, <4>1, PathNumbers DEF PathInv, PathTyped
    <3> HIDE DEF n, c
    <3>3. c \in 1..emitted'[n]
      BY <3>1, <3>2
    <3> QED
      BY <3>3 DEF n, c
  <2> QED
    BY <1>1, <2>1, <2>2 DEF PageSound, User
<1> QED
  BY <1>2, <1>3, PagesSoundAfter DEF Entry, Requests

(* What is known of the variables of gateway and agent. *)
LEMMA MiddleTypes ==
    ASSUME PathInv
    PROVE  /\ relayed \in [Requests -> 0..MaxChunks] /\ emitted \in [Requests -> 0..MaxChunks]
           /\ taken \in [Requests -> 0..MaxChunks]
           /\ relay \in [Requests -> {"none", "relaying", "refused", "returned"}]
           /\ link \in [Requests -> BOOLEAN] /\ stage \in [Requests -> Handlers]
           /\ queue \in Seq(Requests)
           /\ \A n \in Requests : taken[n] \in Nat /\ relayed[n] \in Nat /\ emitted[n] \in Nat
BY PathNumbers DEF PathInv, PathTyped

LEMMA MiddleMoves ==
    ASSUME PathInv, UNCHANGED pageVars,
           relayed' \in [Requests -> 0..MaxChunks], emitted' \in [Requests -> 0..MaxChunks],
           relay' \in [Requests -> {"none", "relaying", "refused", "returned"}],
           link' \in [Requests -> BOOLEAN], stage' \in [Requests -> Handlers],
           queue' \in Seq(Requests),
           \A n \in Requests : emitted[n] <= emitted'[n],
           InOrder', Begun', OneHolder'
    PROVE  PathInv'
<1>1. PathTyped'
  <2>1. UNCHANGED <<Entry, Requests>>
    BY DEF Entry, Requests
  <2>2. UNCHANGED <<messages, reading, asked, taken>>
    BY DEF pageVars
  <2> QED
    BY <2>1, <2>2 DEF PathInv, PathTyped
<1> QED
  BY <1>1, ConversationsKept DEF PathInv

(* A request reaches the agent, or is refused: nothing has been emitted    *)
(* for it, and only now it may wait for the lock.                          *)
LEMMA ConnectKeeps ==
    ASSUME PathInv, NEW n \in Requests, Connect(n) \/ Refuse(n)
    PROVE  PathInv'
<1>1. UNCHANGED pageVars /\ UNCHANGED <<relayed, emitted, taken>> /\ relay[n] = "none"
  BY DEF Connect, Refuse, agentVars, pageVars
<1>2. stage[n] = "none" /\ emitted[n] = 0 /\ relayed[n] = 0
  <2>1. stage[n] = "none" /\ emitted[n] = 0 /\ relayed[n] <= emitted[n]
    BY <1>1 DEF PathInv, Begun, InOrder
  <2> QED
    BY <2>1, MiddleTypes
<1>3. AgentPipe \in Nat
  BY PathNumbers
<1>4. UNCHANGED Requests
  BY DEF Requests
<1>5. CASE Connect(n)
  <2>1. /\ relay' = [relay EXCEPT ![n] = "relaying"] /\ link' = [link EXCEPT ![n] = TRUE]
        /\ stage' = [stage EXCEPT ![n] = "queued"] /\ queue' = Append(queue, n)
    BY <1>5 DEF Connect
  <2>2. InOrder'
    BY <1>1, <1>2, <1>3, <2>1, MiddleTypes DEF PathInv, InOrder, Requests
  <2>3. OneHolder'
    BY <1>4, <2>1, MiddleTypes DEF PathInv, OneHolder
  <2>4. Begun'
    <3>1. \A m \in Requests : relay'[m] = "none" => stage'[m] = "none" /\ emitted'[m] = 0
      BY <1>1, <2>1, MiddleTypes DEF PathInv, Begun
    <3>2. ASSUME NEW i \in 1..Len(queue') PROVE relay'[queue'[i]] # "none"
      <4>1. Len(queue') = Len(queue) + 1 /\ Len(queue) \in Nat /\ queue'[Len(queue) + 1] = n
        BY <2>1, MiddleTypes
      <4>2. CASE i = Len(queue) + 1
        BY <4>1, <4>2, <2>1, MiddleTypes
      <4>3. CASE i # Len(queue) + 1
        <5>1. i \in 1..Len(queue)
          BY <4>1, <4>3
        <5>2. queue'[i] = queue[i] /\ queue[i] \in Requests
          BY <5>1, <2>1, MiddleTypes
        <5>3. relay[queue[i]] # "none"
          BY <5>1 DEF PathInv, Begun
        <5> QED
          BY <5>2, <5>3, <2>1, MiddleTypes
      <4> QED
        BY <4>2, <4>3
    <3> QED
      BY <1>4, <3>1, <3>2 DEF Begun
  <2>5. /\ relay' \in [Requests -> {"none", "relaying", "refused", "returned"}]
        /\ link' \in [Requests -> BOOLEAN] /\ stage' \in [Requests -> Handlers]
    BY <2>1, MiddleTypes DEF Handlers
  <2>6. queue' \in Seq(Requests)
    BY <2>1, MiddleTypes
  <2>7. /\ relayed' \in [Requests -> 0..MaxChunks] /\ emitted' \in [Requests -> 0..MaxChunks]
        /\ \A m \in Requests : emitted[m] <= emitted'[m]
    BY <1>1, MiddleTypes
  <2> QED
    BY <1>1, <2>2, <2>3, <2>4, <2>5, <2>6, <2>7, MiddleMoves
<1>6. CASE Refuse(n)
  <2>1. /\ relay' = [relay EXCEPT ![n] = "refused"] /\ link' = link /\ stage' = stage /\ queue' = queue
    BY <1>6 DEF Refuse, agentVars
  <2>2. InOrder' /\ OneHolder'
    BY <1>1, <1>4, <2>1, MiddleTypes DEF PathInv, InOrder, OneHolder
  <2>3. Begun'
    BY <1>1, <1>4, <2>1, MiddleTypes DEF PathInv, Begun
  <2>4. /\ relay' \in [Requests -> {"none", "relaying", "refused", "returned"}]
        /\ link' \in [Requests -> BOOLEAN] /\ stage' \in [Requests -> Handlers]
        /\ queue' \in Seq(Requests)
    BY <2>1, MiddleTypes
  <2>5. /\ relayed' \in [Requests -> 0..MaxChunks] /\ emitted' \in [Requests -> 0..MaxChunks]
        /\ \A m \in Requests : emitted[m] <= emitted'[m]
    BY <1>1, MiddleTypes
  <2> QED
    BY <1>1, <2>2, <2>3, <2>4, <2>5, MiddleMoves
<1> QED
  BY <1>5, <1>6

(* The relay writes what was emitted, returns, or loses its connection. *)
LEMMA GatewayKeeps ==
    ASSUME PathInv, NEW n \in Requests,
           Relay(n) \/ Return(n) \/ Timeout(n)
    PROVE  PathInv'
<1>1. UNCHANGED pageVars /\ UNCHANGED <<stage, emitted, queue, taken>>
  BY DEF Relay, Return, Timeout, agentVars, pageVars
<1>2. UNCHANGED Requests
  BY DEF Requests
<1>3. /\ relay' \in [Requests -> {"none", "relaying", "refused", "returned"}]
      /\ \A m \in Requests : relay'[m] = "none" <=> relay[m] = "none"
  BY MiddleTypes DEF Relay, Return, Timeout
<1>4. /\ link' \in [Requests -> BOOLEAN]
      /\ \A m \in Requests : link'[m] => link[m]
  BY MiddleTypes DEF Relay, Return, Timeout
<1>5. /\ relayed' \in [Requests -> 0..MaxChunks]
      /\ \A m \in Requests : relayed[m] <= relayed'[m] /\ relayed'[m] <= emitted[m]
  <2>1. \A m \in Requests : relayed[m] <= emitted[m]
    BY DEF PathInv, InOrder
  <2>2. CASE relayed' = relayed
    BY <2>1, <2>2, MiddleTypes
  <2>3. CASE relayed' = [relayed EXCEPT ![n] = @ + 1] /\ relayed[n] < emitted[n]
    <3>1. relayed[n] + 1 \in 0..MaxChunks /\ relayed[n] + 1 <= emitted[n]
      <4>1. relayed[n] \in Nat /\ emitted[n] \in 0..MaxChunks /\ MaxChunks \in Nat
        BY MiddleTypes, PathNumbers
      <4> QED
        BY <2>3, <4>1
    <3> QED
      BY <2>1, <2>3, <3>1, MiddleTypes
  <2> QED
    BY <2>2, <2>3 DEF Relay, Return, Timeout
<1>6. InOrder'
  <2> SUFFICES ASSUME NEW m \in Requests
               PROVE  /\ taken[m] <= relayed'[m] /\ relayed'[m] <= emitted[m]
                      /\ link'[m] => emitted[m] <= relayed'[m] + AgentPipe + (IF stage[m] = "sending" THEN 1 ELSE 0)
    BY <1>1, <1>2 DEF InOrder
  <2>1. /\ taken[m] \in Nat /\ relayed[m] \in Nat /\ emitted[m] \in Nat /\ relayed'[m] \in Nat
    BY <1>5, MiddleTypes, PathNumbers
  <2>2. /\ taken[m] <= relayed[m]
        /\ link[m] => emitted[m] <= relayed[m] + AgentPipe + (IF stage[m] = "sending" THEN 1 ELSE 0)
    BY DEF PathInv, InOrder
  <2>3. relayed[m] <= relayed'[m] /\ relayed'[m] <= emitted[m] /\ (link'[m] => link[m])
    BY <1>4, <1>5
  <2>4. AgentPipe \in Nat
    BY PathNumbers
  <2> QED
    BY <2>1, <2>2, <2>3, <2>4
<1>7. Begun'
  <2>1. \A i \in 1..Len(queue) : queue[i] \in Requests
    BY MiddleTypes
  <2> QED
    BY <1>1, <1>2, <1>3, <2>1 DEF PathInv, Begun
<1>8. OneHolder'
  BY <1>1, <1>2 DEF PathInv, OneHolder
<1>9. /\ stage' \in [Requests -> Handlers] /\ queue' \in Seq(Requests)
      /\ emitted' \in [Requests -> 0..MaxChunks]
      /\ \A m \in Requests : emitted[m] <= emitted'[m]
  BY <1>1, MiddleTypes
<1> QED
  BY <1>1, <1>3, <1>4, <1>5, <1>6, <1>7, <1>8, <1>9, MiddleMoves

(* The lock is given to the head of the queue, and only while no one has   *)
(* it.                                                                     *)
LEMMA GrantKeeps == ASSUME PathInv, Grant PROVE PathInv'
<1> DEFINE n == Head(queue)
<1>1. /\ Holder = {} /\ queue # <<>>
      /\ stage' = [stage EXCEPT ![n] = "serving"] /\ queue' = Tail(queue)
      /\ UNCHANGED pageVars /\ UNCHANGED <<relay, relayed, link, emitted, taken>>
  BY DEF Grant, gatewayVars, pageVars
<1>2. \A m \in Requests : stage[m] \notin {"serving", "sending", "abandoned"}
  BY <1>1 DEF Holder
<1>3. /\ n \in Requests /\ n = queue[1] /\ 1 \in 1..Len(queue)
      /\ queue' \in Seq(Requests) /\ Len(queue') = Len(queue) - 1 /\ Len(queue) \in Nat
      /\ \A i \in 1..Len(queue') : i + 1 \in 1..Len(queue) /\ queue'[i] = queue[i + 1]
  BY <1>1, MiddleTypes
<1>4. UNCHANGED Requests
  BY DEF Requests
<1> HIDE DEF n
<1>5. InOrder'
  BY <1>1, <1>2, <1>3, <1>4, MiddleTypes DEF PathInv, InOrder
<1>6. Begun'
  <2>1. relay[n] # "none"
    BY <1>3 DEF PathInv, Begun
  <2>2. \A m \in Requests : relay[m] = "none" => stage'[m] = "none" /\ emitted[m] = 0
    BY <1>1, <1>3, <2>1, MiddleTypes DEF PathInv, Begun
  <2>3. \A i \in 1..Len(queue') : relay[queue'[i]] # "none"
    BY <1>3 DEF PathInv, Begun
  <2> QED
    BY <1>1, <1>4, <2>2, <2>3 DEF Begun
<1>7. OneHolder'
  BY <1>1, <1>2, <1>3, <1>4, MiddleTypes DEF OneHolder
<1>8. /\ stage' \in [Requests -> Handlers]
      /\ relay' \in [Requests -> {"none", "relaying", "refused", "returned"}]
      /\ link' \in [Requests -> BOOLEAN]
      /\ relayed' \in [Requests -> 0..MaxChunks] /\ emitted' \in [Requests -> 0..MaxChunks]
      /\ \A m \in Requests : emitted[m] <= emitted'[m]
  BY <1>1, <1>3, MiddleTypes DEF Handlers
<1> QED
  BY <1>1, <1>3, <1>5, <1>6, <1>7, <1>8, MiddleMoves

(* A handler that holds the lock yields, sends, finishes, is lost or is    *)
(* closed: none takes the lock, and a chunk is yielded with room for it.   *)
LEMMA AgentKeeps ==
    ASSUME PathInv, NEW n \in Requests,
           Emit(n) \/ Sent(n) \/ Finish(n) \/ Close(n)
    PROVE  PathInv'
<1>1. /\ UNCHANGED pageVars /\ UNCHANGED <<relay, relayed, link, queue, taken>>
      /\ stage[n] \in {"serving", "sending", "abandoned"}
      /\ \E phase1 \in {"serving", "sending", "over"} : stage' = [stage EXCEPT ![n] = phase1]
  BY DEF Emit, Sent, Finish, Close, gatewayVars, pageVars
<1>2. UNCHANGED Requests
  BY DEF Requests
<1>3. relay[n] # "none"
  BY <1>1 DEF PathInv, Begun
<1>4. \/ Emit(n) /\ emitted' = [emitted EXCEPT ![n] = @ + 1] /\ emitted[n] < MaxChunks
      \/ ~ Emit(n) /\ emitted' = emitted
  BY DEF Emit, Sent, Finish, Close
<1>5. /\ emitted' \in [Requests -> 0..MaxChunks]
      /\ \A m \in Requests : emitted[m] <= emitted'[m]
      /\ \A m \in Requests : m # n => emitted'[m] = emitted[m]
  <2>1. emitted[n] \in 0..MaxChunks /\ MaxChunks \in Nat
    BY MiddleTypes, PathNumbers
  <2>2. emitted[n] < MaxChunks => emitted[n] + 1 \in 0..MaxChunks /\ emitted[n] <= emitted[n] + 1
    BY <2>1
  <2>3. emitted \in [Requests -> 0..MaxChunks] /\ \A m \in Requests : emitted[m] <= emitted[m]
    BY MiddleTypes
  <2>4. CASE emitted' = [emitted EXCEPT ![n] = @ + 1] /\ emitted[n] < MaxChunks
    BY <2>2, <2>3, <2>4
  <2>5. CASE emitted' = emitted
    BY <2>3, <2>5
  <2> QED
    BY <1>4, <2>4, <2>5
<1>6. InOrder'
  <2> SUFFICES ASSUME NEW m \in Requests
               PROVE  /\ taken[m] <= relayed[m] /\ relayed[m] <= emitted'[m]
                      /\ link[m] => emitted'[m] <= relayed[m] + AgentPipe + (IF stage'[m] = "sending" THEN 1 ELSE 0)
    BY <1>1, <1>2 DEF InOrder
  <2>1. /\ taken[m] \in Nat /\ relayed[m] \in Nat /\ emitted[m] \in Nat /\ emitted'[m] \in Nat
        /\ AgentPipe \in Nat /\ emitted[m] <= emitted'[m]
    BY <1>5, MiddleTypes, PathNumbers
  <2>2. /\ taken[m] <= relayed[m] /\ relayed[m] <= emitted[m]
        /\ link[m] => emitted[m] <= relayed[m] + AgentPipe + (IF stage[m] = "sending" THEN 1 ELSE 0)
    BY DEF PathInv, InOrder
  <2>3. CASE m # n
    <3>1. stage'[m] = stage[m] /\ emitted'[m] = emitted[m]
      BY <1>1, <1>5, <2>3, MiddleTypes
    <3> QED
      BY <2>2, <3>1
  <2>4. CASE m = n /\ Emit(n)
    <3>1. stage[m] = "serving" /\ stage'[m] = "sending" /\ emitted'[m] = emitted[m] + 1
      BY <2>4, MiddleTypes DEF Emit
    <3> QED
      BY <2>1, <2>2, <3>1
  <2>5. CASE m = n /\ Sent(n)
    <3>1. /\ stage'[m] = "serving" /\ emitted'[m] = emitted[m]
          /\ link[m] => emitted[m] - relayed[m] <= AgentPipe
      BY <2>5, MiddleTypes DEF Sent
    <3> QED
      BY <2>1, <2>2, <3>1
  <2>6. CASE m = n /\ (Finish(n) \/ Close(n))
    <3>1. stage[m] # "sending" /\ stage'[m] # "sending" /\ emitted'[m] = emitted[m]
      BY <2>6, MiddleTypes DEF Finish, Close
    <3> QED
      BY <2>1, <2>2, <3>1
  <2> QED
    BY <2>3, <2>4, <2>5, <2>6
<1>7. Begun'
  <2>1. \A m \in Requests : relay[m] = "none" => stage'[m] = "none" /\ emitted'[m] = 0
    BY <1>1, <1>3, <1>5, MiddleTypes DEF PathInv, Begun
  <2>2. \A i \in 1..Len(queue) : relay[queue[i]] # "none"
    BY DEF PathInv, Begun
  <2> QED
    BY <1>1, <1>2, <2>1, <2>2 DEF Begun
<1>8. OneHolder'
  <2> SUFFICES ASSUME NEW k \in Requests, NEW m \in Requests,
                      stage'[k] \in {"serving", "sending", "abandoned"},
                      stage'[m] \in {"serving", "sending", "abandoned"}
               PROVE  k = m
    BY <1>2 DEF OneHolder
  <2>1. \A j \in Requests : j # n => stage'[j] = stage[j]
    BY <1>1, MiddleTypes
  <2> QED
    BY <1>1, <2>1 DEF PathInv, OneHolder
<1>9. /\ stage' \in [Requests -> Handlers] /\ queue' \in Seq(Requests)
      /\ relay' \in [Requests -> {"none", "relaying", "refused", "returned"}]
      /\ link' \in [Requests -> BOOLEAN] /\ relayed' \in [Requests -> 0..MaxChunks]
  BY <1>1, MiddleTypes DEF Handlers
<1> QED
  BY <1>1, <1>5, <1>6, <1>7, <1>8, <1>9, MiddleMoves

(* The request of a broken connection leaves the queue, or the lock, or    *)
(* keeps it as it was.                                                     *)
LEMMA DisconnectedKeeps ==
    ASSUME PathInv, NEW n \in Requests, Disconnected(n)
    PROVE  PathInv'
<1>1. /\ ~ link[n] /\ stage[n] \in {"queued", "serving", "sending"}
      /\ stage' = [stage EXCEPT ![n] = IF @ = "sending" THEN "abandoned" ELSE "over"]
      /\ UNCHANGED pageVars /\ UNCHANGED <<relay, relayed, link, emitted, taken>>
  BY DEF Disconnected, gatewayVars, pageVars
<1>2. UNCHANGED Requests
  BY DEF Requests
<1>3. /\ queue' \in Seq(Requests)
      /\ \A i \in 1..Len(queue') : \E j \in 1..Len(queue) : queue'[i] = queue[j]
  <2>1. CASE queue' = queue
    BY <2>1, MiddleTypes
  <2>2. CASE \E i \in DOMAIN queue : queue' = RemoveAt(queue, i)
    <3>1. PICK i \in DOMAIN queue : queue' = RemoveAt(queue, i)
      BY <2>2
    <3>2. queue \in Seq(Requests) /\ Len(queue) \in Nat
      BY MiddleTypes
    <3>3. /\ RemoveAt(queue, i) \in Seq(Requests)
          /\ Len(RemoveAt(queue, i)) = Len(queue) - 1
          /\ \A k \in 1..Len(queue) - 1 :
                RemoveAt(queue, i)[k] = IF k < i THEN queue[k] ELSE queue[k + 1]
      BY <3>2, RemoveAtElements
    <3>4. ASSUME NEW k \in 1..Len(queue') PROVE \E j \in 1..Len(queue) : queue'[k] = queue[j]
      <4>1. k \in 1..Len(queue) - 1
        BY <3>1, <3>3
      <4>2. k \in 1..Len(queue) /\ k + 1 \in 1..Len(queue)
        BY <3>2, <4>1
      <4>3. queue'[k] = queue[k] \/ queue'[k] = queue[k + 1]
        BY <3>1, <3>3, <4>1
      <4> QED
        BY <4>2, <4>3
    <3> QED
      BY <3>1, <3>3, <3>4
  <2>3. queue' = queue \/ \E i \in DOMAIN queue : queue' = RemoveAt(queue, i)
    BY DEF Disconnected, LeavesQueue
  <2> QED
    BY <2>1, <2>2, <2>3
<1>4. InOrder'
  BY <1>1, <1>2, MiddleTypes DEF PathInv, InOrder
<1>5. Begun'
  <2>1. relay[n] # "none"
    BY <1>1 DEF PathInv, Begun
  <2>2. \A m \in Requests : relay[m] = "none" => stage'[m] = "none" /\ emitted[m] = 0
    BY <1>1, <2>1, MiddleTypes DEF PathInv, Begun
  <2>3. \A i \in 1..Len(queue') : relay[queue'[i]] # "none"
    BY <1>3 DEF PathInv, Begun
  <2> QED
    BY <1>1, <1>2, <2>2, <2>3 DEF Begun
<1>6. OneHolder'
  <2> SUFFICES ASSUME NEW k \in Requests, NEW m \in Requests,
                      stage'[k] \in {"serving", "sending", "abandoned"},
                      stage'[m] \in {"serving", "sending", "abandoned"}
               PROVE  k = m
    BY <1>2 DEF OneHolder
  <2>1. \A j \in Requests : stage'[j] \in {"serving", "sending", "abandoned"}
                                    => stage[j] \in {"serving", "sending", "abandoned"}
    BY <1>1, MiddleTypes
  <2> QED
    BY <2>1 DEF PathInv, OneHolder
<1>7. /\ stage' \in [Requests -> Handlers]
      /\ relay' \in [Requests -> {"none", "relaying", "refused", "returned"}]
      /\ link' \in [Requests -> BOOLEAN]
      /\ relayed' \in [Requests -> 0..MaxChunks] /\ emitted' \in [Requests -> 0..MaxChunks]
      /\ \A m \in Requests : emitted[m] <= emitted'[m]
  BY <1>1, MiddleTypes DEF Handlers
<1> QED
  BY <1>1, <1>3, <1>4, <1>5, <1>6, <1>7, MiddleMoves

-----------------------------------------------------------------------------
LEMMA PathGoesOn ==
    ASSUME PathInv, [PathNext]_pathVars
    PROVE  PathInv'
<1>1. CASE \E p \in Page : Send(p) \/ PageReads(p) \/ BreakOff(p) \/ Leave(p)
  <2>1. PICK p \in Page : Send(p) \/ PageReads(p) \/ BreakOff(p) \/ Leave(p)
    BY <1>1
  <2>2. CASE Send(p)
    BY <2>2, SendKeeps
  <2>3. CASE Read(p)
    BY <2>3, ReadKeeps
  <2>4. CASE Leave(p)
    BY <2>4, LeaveKeeps
  <2>5. CASE Finalize(p) \/ BreakOff(p)
    <3>1. PICK n \in reading[p] : Unlock(p, n)
      BY <2>5 DEF Finalize, BreakOff
    <3>2. UNCHANGED gatewayVars /\ UNCHANGED agentVars
      BY <2>5 DEF Finalize, BreakOff
    <3> QED
      BY <3>1, <3>2, UnlockKeeps
  <2> QED
    BY <2>1, <2>2, <2>3, <2>4, <2>5 DEF PageReads
<1>2. CASE Grant
  BY <1>2, GrantKeeps
<1>3. CASE \E n \in Requests :
              \/ Connect(n) \/ Refuse(n) \/ Relay(n) \/ Return(n) \/ Timeout(n)
              \/ Emit(n) \/ Sent(n) \/ Finish(n) \/ Disconnected(n) \/ Close(n)
  BY <1>3, ConnectKeeps, GatewayKeeps, AgentKeeps, DisconnectedKeeps
<1>4. CASE UNCHANGED pathVars
  <2>1. UNCHANGED <<messages, reading, asked, reader, taken, relay, relayed, link,
                    stage, emitted, whole, queue>>
    BY <1>4 DEF pathVars
  <2>2. UNCHANGED pageVars
    BY <2>1 DEF pageVars
  <2>3. InOrder' /\ Begun' /\ OneHolder'
    <3>1. UNCHANGED Requests
      BY DEF Requests
    <3> QED
      BY <2>1, <3>1 DEF PathInv, InOrder, Begun, OneHolder
  <2>4. /\ relayed' \in [Requests -> 0..MaxChunks] /\ emitted' \in [Requests -> 0..MaxChunks]
        /\ relay' \in [Requests -> {"none", "relaying", "refused", "returned"}]
        /\ link' \in [Requests -> BOOLEAN] /\ stage' \in [Requests -> Handlers]
        /\ queue' \in Seq(Requests)
        /\ \A n \in Requests : emitted[n] <= emitted'[n]
    BY <2>1, MiddleTypes
  <2> QED
    BY <2>2, <2>3, <2>4, MiddleMoves
<1> QED
  BY <1>1, <1>2, <1>3, <1>4 DEF PathNext

(* The operators that ChatPath takes from the library are the library's. *)
LEMMA PathInvSound == ASSUME PathInv PROVE PathSound
<1>1. Cardinality(Holder) <= 1
  <2>1. Holder = {} \/ \E n \in Requests : Holder = {n}
    BY DEF PathInv, OneHolder, Holder
  <2>2. Cardinality(Holder) \in {0, 1}
    BY <2>1, FS_EmptySet, FS_Singleton
  <2> QED
    BY <2>2
<1>2. ASSUME NEW n \in Requests
      PROVE  /\ taken[n] <= relayed[n] /\ relayed[n] <= emitted[n]
             /\ link[n] => emitted[n] - relayed[n] <= AgentPipe + 1
  <2>1. /\ taken[n] <= relayed[n] /\ relayed[n] <= emitted[n]
        /\ link[n] => emitted[n] <= relayed[n] + AgentPipe + (IF stage[n] = "sending" THEN 1 ELSE 0)
    BY DEF PathInv, InOrder
  <2>2. relayed[n] \in Nat /\ emitted[n] \in Nat /\ AgentPipe \in Nat
    BY MiddleTypes, PathNumbers
  <2> QED
    BY <2>1, <2>2
<1>3. PathTypeOK
  BY <1>1, <1>2 DEF PathInv, PathTyped, PathTypeOK
<1> QED
  BY <1>3 DEF PathInv, PathSound

(* PathSound for any number of pages and requests, and pipes of any size:  *)
(* the page, the gateway and the agent never get ahead of each other, one  *)
(* handler at most holds the lock, and every answer a page keeps stands    *)
(* directly behind its own question.                                       *)
THEOREM PathAlwaysSound == PathSpec => []PathSound
<1>1. PathInit => PathInv
  BY PathBegins
<1>2. PathInv /\ [PathNext]_pathVars => PathInv'
  BY PathGoesOn
<1>3. PathInv => PathSound
  BY PathInvSound
<1> QED
  BY <1>1, <1>2, <1>3, PTL DEF PathSpec
=============================================================================
