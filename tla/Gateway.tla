------------------------------- MODULE Gateway -------------------------------
(***************************************************************************)
(* One chat request in the gateway: ChatHandler.ServeHTTP and, for a       *)
(* streamed one, RelaySSE.  Two goroutines share an unbuffered channel of  *)
(* lines: the scanner reads the backend's body, the relay loop writes to   *)
(* the client and puts heartbeats in between.                              *)
(*                                                                         *)
(* The environment is the backend, whose stream may break off or stall     *)
(* until the http.Client's timeout ends it, and the client, who may leave, *)
(* or stay and not read: the server sets no WriteTimeout, so a write waits *)
(* for as long as the client's buffers are full.                           *)
(*                                                                         *)
(* That the ResponseWriter can flush is so for every writer the server     *)
(* makes, the logging middleware's included; the branch for one that       *)
(* cannot is left out.                                                     *)
(***************************************************************************)
EXTENDS Naturals, Sequences, FiniteSets

CONSTANTS
    Script,       \* the lines of the backend's stream, if nothing goes wrong
    TooLong,      \* lines of the script beyond bufio.Scanner's 64 KiB
    Cut,          \* the rest of a line the backend broke off in
    MaxBeats      \* bound: heartbeats in one stream

Data(n) == [kind |-> "data", n |-> n]
Blank == [kind |-> "blank", n |-> 0]
Done == [kind |-> "done", n |-> 0]
Lines == [kind : {"data", "blank", "done", "cut"}, n : Nat]

ASSUME GatewayAssumption ==
    /\ Script \in Seq(Lines)
    /\ TooLong \subseteq Lines \ {Done}
    /\ Cut = [kind |-> "cut", n |-> 0]
    /\ \A k \in DOMAIN Script : Script[k] # Cut
    /\ MaxBeats \in Nat

VARIABLES
    handler,     \* where ServeHTTP stands
    status,      \* the status the client gets, 0 before
    body,        \* resp.Body: "none", "open", "closed"
    backend,     \* the backend's end: "quiet", "sending", "eof", "broken"
    sent,        \* lines of the script that have arrived
    scanner,     \* the scanner goroutine: "none", "scan", "offer", "exited"
    scanned,     \* lines it has taken from the body, the cut one included
    held,        \* the line it offers on the channel
    done,        \* the channel `done` is closed
    out,         \* lines written to the client
    beats,       \* heartbeats written
    client       \* the client: "here", "stalled" (it reads no more) or "gone"

vars == <<handler, status, body, backend, sent, scanner, scanned, held, done,
          out, beats, client>>
peerVars == <<backend, sent, client>>
relayVars == <<scanner, scanned, held, done, out, beats>>

Beat == <<[kind |-> "comment", n |-> 0], [kind |-> "beatblank", n |-> 0]>>
Beating == {Beat[1], Beat[2]}

Init ==
    /\ handler = "start"
    /\ status = 0
    /\ body = "none"
    /\ backend = "quiet"
    /\ sent = 0
    /\ scanner = "none"
    /\ scanned = 0
    /\ held = Blank
    /\ done = FALSE
    /\ out = <<>>
    /\ beats = 0
    /\ client = "here"

-----------------------------------------------------------------------------
(* A write returns, with an error if the client has left, unless the       *)
(* client's buffers are full.                                              *)
Writable == client # "stalled"

(* ServeHTTP *)

(* Wrong method, unreadable body, or not JSON. *)
Reject ==
    /\ handler = "start"
    /\ handler' = "returned"
    /\ status' \in {400, 405}
    /\ UNCHANGED <<body, peerVars, relayVars>>

(* doBackendRequest fails: no response, so no body. *)
BackendFails ==
    /\ handler = "start"
    /\ handler' = "returned"
    /\ status' = 502
    /\ UNCHANGED <<body, peerVars, relayVars>>

(* A synchronous request, or a streamed one that the backend refuses: its  *)
(* answer is copied with its status.                                       *)
StartCopy ==
    /\ handler = "start"
    /\ handler' = "copying"
    /\ status' \in {200, 500}
    /\ body' = "open"
    /\ UNCHANGED <<peerVars, relayVars>>

StartRelay ==
    /\ handler = "start"
    /\ handler' = "relaying"
    /\ status' = 200
    /\ body' = "open"
    /\ backend' = "sending"
    /\ scanner' = "scan"
    /\ UNCHANGED <<sent, client, scanned, held, done, out, beats>>

(* Slip: a copied answer is not followed by a Close. *)
CopyEnds_NoClose ==
    /\ handler = "copying"
    /\ Writable
    /\ handler' = "returned"
    /\ UNCHANGED <<status, body, peerVars, relayVars>>

(* io.Copy has come to an end, of the answer or of the client. *)
CopyEnds ==
    /\ handler = "copying"
    /\ Writable
    /\ handler' = "closing"
    /\ UNCHANGED <<status, body, peerVars, relayVars>>

(* defer resp.Body.Close() *)
CloseBody ==
    /\ handler = "closing"
    /\ handler' = "returned"
    /\ body' = "closed"
    /\ UNCHANGED <<status, peerVars, relayVars>>

-----------------------------------------------------------------------------
(* The scanner goroutine. *)

ScannerStep(state, line, taken) ==
    /\ scanner' = state
    /\ held' = line
    /\ scanned' = scanned + taken
    /\ UNCHANGED <<handler, status, body, peerVars, done, out, beats>>

(* A line has arrived: it is offered, or it is too long and ends the scan. *)
ScanLine ==
    /\ scanner = "scan"
    /\ scanned < sent
    /\ LET line == Script[scanned + 1]
       IN  IF line \in TooLong THEN ScannerStep("exited", held, 0)
                               ELSE ScannerStep("offer", line, 1)

(* A read error ends the input: what has come of a line is still a token,  *)
(* unless it is nothing, as with a blank line.                             *)
ScanCut ==
    /\ scanner = "scan"
    /\ scanned = sent
    /\ backend = "broken"
    /\ sent < Len(Script)
    /\ Script[sent + 1] # Blank
    /\ ScannerStep("offer", Cut, 1)

(* EOF, a read error, or the body was closed under it. *)
ScanEnds ==
    /\ scanner = "scan"
    /\ \/ scanned >= sent /\ backend \in {"eof", "broken"}
       \/ body = "closed"
    /\ ScannerStep("exited", held, 0)

(* Slip: `lines <- scanner.Text()` without the case for done. *)
GiveUp_NoDoneCase == FALSE /\ ScannerStep("exited", held, 0)

(* The select takes the case of the closed channel `done`. *)
GiveUp ==
    /\ scanner = "offer"
    /\ done
    /\ ScannerStep("exited", held, 0)

-----------------------------------------------------------------------------
(* The relay loop.  Errors of w.Write are dropped.  A line is taken and    *)
(* written in one step, at the end of the write: what the scanner does     *)
(* during a write that waits it can as well do after it.                   *)

Write(lines) == out' = IF client = "here" THEN out \o lines ELSE out

(* Slip: empty lines are skipped. *)
TakeLine_SkipsBlank ==
    /\ handler = "relaying"
    /\ scanner = "offer"
    /\ Writable
    /\ scanner' = "scan"
    /\ IF held = Blank THEN UNCHANGED out ELSE Write(<<held>>)
    /\ IF held = Done THEN handler' = "closing" /\ done' = TRUE
                      ELSE UNCHANGED <<handler, done>>
    /\ UNCHANGED <<status, body, peerVars, scanned, held, beats>>

(* A line passes from the scanner to the loop and to the client; after the *)
(* terminator RelaySSE returns, which closes `done`.                       *)
TakeLine ==
    /\ handler = "relaying"
    /\ scanner = "offer"
    /\ Writable
    /\ scanner' = "scan"
    /\ Write(<<held>>)
    /\ IF held = Done THEN handler' = "closing" /\ done' = TRUE
                      ELSE UNCHANGED <<handler, done>>
    /\ UNCHANGED <<status, body, peerVars, scanned, held, beats>>

(* The channel `lines` is closed. *)
LinesClosed ==
    /\ handler = "relaying"
    /\ scanner = "exited"
    /\ handler' = "closing"
    /\ done' = TRUE
    /\ UNCHANGED <<status, body, peerVars, scanner, scanned, held, out, beats>>

(* Slip: the heartbeat replaces the line at hand. *)
Heartbeat_DropsLine ==
    /\ handler = "relaying"
    /\ beats < MaxBeats
    /\ Writable
    /\ beats' = beats + 1
    /\ Write(Beat)
    /\ scanner' = IF scanner = "offer" THEN "scan" ELSE scanner
    /\ UNCHANGED <<handler, status, body, peerVars, scanned, held, done>>

Heartbeat ==
    /\ handler = "relaying"
    /\ beats < MaxBeats
    /\ Writable
    /\ beats' = beats + 1
    /\ Write(Beat)
    /\ UNCHANGED <<handler, status, body, peerVars, scanner, scanned, held, done>>

-----------------------------------------------------------------------------
(* The environment. *)

BackendSends ==
    /\ backend = "sending"
    /\ sent < Len(Script)
    /\ sent' = sent + 1
    /\ UNCHANGED <<handler, status, body, backend, client, relayVars>>

BackendEnds ==
    /\ backend = "sending"
    /\ sent = Len(Script)
    /\ backend' = "eof"
    /\ UNCHANGED <<handler, status, body, sent, client, relayVars>>

(* The connection breaks, or the client's Timeout of 120 s runs out. *)
BackendBreaks ==
    /\ backend = "sending"
    /\ backend' = "broken"
    /\ UNCHANGED <<handler, status, body, sent, client, relayVars>>

(* The client stops reading, and what it has not read fills the buffers;   *)
(* it reads again; it leaves.                                              *)
ClientStalls ==
    /\ client = "here"
    /\ handler \in {"relaying", "copying"}
    /\ client' = "stalled"
    /\ UNCHANGED <<handler, status, body, backend, sent, relayVars>>

ClientReads ==
    /\ client = "stalled"
    /\ client' = "here"
    /\ UNCHANGED <<handler, status, body, backend, sent, relayVars>>

ClientLeaves ==
    /\ client \in {"here", "stalled"}
    /\ handler \in {"relaying", "copying"}
    /\ client' = "gone"
    /\ UNCHANGED <<handler, status, body, backend, sent, relayVars>>

-----------------------------------------------------------------------------
Handler == CopyEnds \/ CloseBody \/ TakeLine \/ LinesClosed
Scanner == ScanLine \/ ScanCut \/ ScanEnds \/ GiveUp
Start == Reject \/ BackendFails \/ StartCopy \/ StartRelay

Next ==
    \/ Start
    \/ Handler
    \/ Heartbeat
    \/ Scanner
    \/ BackendSends
    \/ BackendEnds
    \/ BackendBreaks
    \/ ClientStalls
    \/ ClientReads
    \/ ClientLeaves

Spec == Init /\ [][Next]_vars

(* Both goroutines run when they can, doBackendRequest returns, and the    *)
(* timeout of the http.Client ends a stream that does not end by itself.   *)
(* The handler's fairness is strong for its writes: a client that reads    *)
(* again makes room for the line that waits, however often it stops.  No   *)
(* fairness makes it read.                                                 *)
Fairness ==
    /\ WF_vars(Start)
    /\ SF_vars(Handler)
    /\ WF_vars(Scanner)
    /\ WF_vars(BackendEnds \/ BackendBreaks)

FairSpec == Spec /\ Fairness

-----------------------------------------------------------------------------
TypeOK ==
    /\ handler \in {"start", "relaying", "copying", "closing", "returned"}
    /\ status \in {0, 200, 400, 405, 500, 502}
    /\ body \in {"none", "open", "closed"}
    /\ backend \in {"quiet", "sending", "eof", "broken"}
    /\ sent \in 0..Len(Script)
    /\ scanner \in {"none", "scan", "offer", "exited"}
    /\ scanned \in 0..Len(Script)
    /\ held \in Lines
    /\ done \in BOOLEAN
    /\ out \in Seq(Lines \cup Beating)
    /\ beats \in Nat
    /\ client \in {"here", "stalled", "gone"}

(* When ServeHTTP returns the client has a status, and a response that was *)
(* obtained is closed on every path.                                       *)
BodyClosed ==
    handler = "returned" =>
        /\ status # 0
        /\ body = IF status \in {400, 405, 502} THEN "none" ELSE "closed"

(* A response is closed on every path, and the types are as declared. *)
RelaySound == TypeOK /\ BodyClosed

(* Heartbeats never come between a client and its lines: without them, the *)
(* client gets the backend's lines in order, without gap or duplicate.     *)
WithoutBeats(lines) ==
    LET kept[n \in 0..Len(lines)] ==
            IF n = 0 THEN <<>>
            ELSE IF lines[n] \in Beating THEN kept[n - 1] ELSE Append(kept[n - 1], lines[n])
    IN  kept[Len(lines)]

Relayed == WithoutBeats(out)

Delivery == INSTANCE SseDelivery
              WITH delivered <- Relayed,
                   over <- handler \in {"closing", "returned"} \/ client = "gone"

DeliversInOrder == Delivery!DeliverySpec

(* A client that dispatches on blank lines, as the event-stream format     *)
(* says, gets one data line per event, whatever heartbeats fall in         *)
(* between.  The lines are whole but for one case: when the backend breaks *)
(* off inside a line, the scanner delivers what has come of it, and the    *)
(* blank line of a heartbeat dispatches it.  Such an event is the last of  *)
(* its stream, and no terminator follows it.                               *)
Dispatched ==
    {k \in DOMAIN out : out[k].kind \in {"data", "cut"}
                        /\ \E j \in DOMAIN out : j > k /\ out[j].kind \in {"blank", "beatblank"}}

OneDataLinePerEvent ==
    /\ \A k, l \in Dispatched :
          k < l => \E j \in DOMAIN out :
                      k < j /\ j < l /\ out[j].kind \in {"blank", "beatblank"}
    /\ \A k \in Dispatched : out[k] = Cut =>
          /\ backend = "broken"
          /\ \A l \in DOMAIN out : k < l => out[l] \in Beating

(* Neither goroutine outlives the request, nor does the connection to the  *)
(* backend, whatever the backend does and whether the client stays, stalls *)
(* for a while or leaves.  Only one that stays and never reads again holds *)
(* them: nothing in the gateway ends a write.                              *)
NothingLeaks ==
    \/ <>[](client = "stalled")
    \/ <>[](/\ handler = "returned"
            /\ scanner \in {"none", "exited"}
            /\ body # "open")

(* The comment on RelaySSE: it "reads an SSE stream from backendResp and   *)
(* writes each event to the client".  Once the backend has sent all and    *)
(* closed, a client that stayed has every data line.                       *)
WritesEachEvent ==
    handler = "returned" /\ status = 200 /\ backend = "eof" /\ client = "here"
        => \A k \in DOMAIN Script : Script[k].kind = "data"
              => \E j \in DOMAIN out : out[j] = Script[k]
=============================================================================
