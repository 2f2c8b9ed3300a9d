-------------------------------- MODULE Session --------------------------------
(***************************************************************************)
(* The connection lifecycle of internal/session/session.go: Runner.Run,    *)
(* runOnce, pump and handle, with the goroutines they start.               *)
(*                                                                         *)
(*   main       Run -> runOnce -> pump, one goroutine (runPc)              *)
(*   heartbeat  the ticker goroutine of pump (hb)                          *)
(*   reader     the read loop of pump (rd), which admits each command      *)
(*              through the semaphore and starts its handler               *)
(*   handlers   one goroutine per command (h[f])                           *)
(*                                                                         *)
(* They share the pump's context, errCh, sem and wg, the Runner's seen and *)
(* sessionID (under mu), the audit log, and the connection.                *)
(*                                                                         *)
(* What is abstracted.  A frame on the wire is an atom; a command's id and *)
(* whether vocab.Resolve admits it are constants of the frame.  A tool     *)
(* call takes one step whose result is any of those the code tells apart.  *)
(* A WebSocket close frame, a TCP reset and a dead peer all make the       *)
(* connection "broken": each ends in an error of ReadMessage.  The writes  *)
(* of a heartbeat that succeed change nothing here.  A process crash is    *)
(* not modelled here (Dedupe has the restart).                             *)
(***************************************************************************)
EXTENDS ClaimTable, Sequences

CONSTANTS
    Commands,       \* the command frames the broker may send, each once
    Others,         \* other frames: malformed, or of a type that is ignored
    Ids,            \* command ids
    NoId,           \* the missing (empty) id
    IdOf,           \* IdOf[f]: the id command f carries
    Refused,        \* the commands that vocab.Resolve denies
    NoFrame,        \* "no frame held"
    NoLine,         \* "no audit line"
    MaxConcurrent,  \* cfg.MaxConcurrent
    MaxAttempt,     \* attempt is counted up to this bound
    MaxConns,       \* bound on the connections that come up
    MaxNow          \* bound on the clock

Frames == Commands \cup Others
Conns  == 1..MaxConns

(* The statuses, and for a denial the reason, of a Result. *)
ToolOutcomes == {"ok", "tool_error", "timeout"}
Outcomes == ToolOutcomes \cup
            {"malformed_args", "duplicate_command_id", "not_permitted"}

ASSUME SessionAssumption ==
    /\ NoId \notin Ids
    /\ IdOf \in [Commands -> Ids \cup {NoId}]
    /\ Refused \subseteq Commands
    /\ NoFrame \notin Frames
    /\ NoLine \notin [status : Outcomes, session : Conns]
    /\ Commands \cap Others = {}
    /\ MaxConcurrent \in Nat \ {0}
    /\ MaxAttempt \in Nat \ {0}
    /\ MaxConns \in Nat
    /\ MaxNow \in Nat

VARIABLES
    \* the main goroutine
    ctxDone,    \* the context passed to Run is cancelled (SIGTERM)
    runPc,      \* where Run / runOnce / pump stands
    attempt,    \* Run's failure count
    \* the connections
    conn,       \* the number of connections dialled so far; the last is in use
    sock,       \* sock[c]: state of connection c
    wire,       \* frames the broker has written to it, not yet read
    issued,     \* frames the broker has sent
    \* the pump
    cancelled,  \* cancel() has been called
    errCh,      \* errCh holds an error
    sem,        \* len(sem)
    wg,         \* the WaitGroup's counter
    hb,         \* the heartbeat goroutine
    rd,         \* the reader goroutine
    held,       \* the command the reader has read and not yet handed over
    \* the handlers
    h,          \* h[f]: where the handler of command f stands
    via,        \* via[f]: the connection f was read from, 0 before
    name,       \* name[f]: the session id its handler has read
    reading,    \* reading[f]: the clock reading its claim took
    outcome,    \* outcome[f]: the status or reason it has arrived at
    line,       \* line[f]: its audit line
    sent,       \* sent[f]: the outcome written to the connection
    \* the Runner and the clock
    sessionID,  \* Runner.sessionID; the broker names session c by c
    seen,       \* Runner.seen
    now         \* the monotonic clock

mainVars    == <<ctxDone, runPc, attempt>>
connVars    == <<conn, sock, wire, issued>>
pumpVars    == <<cancelled, errCh, sem, wg, hb, rd, held>>
handlerVars == <<h, via, name, reading, outcome, line, sent>>
runnerVars  == <<sessionID, seen, now>>
vars == <<mainVars, connVars, pumpVars, handlerVars, runnerVars>>

--------------------------------------------------------------------------------
(* Vocabulary *)

RunPcs == {"top", "dial", "upgrade", "hello", "welcome", "pump", "close", "drain",
           "backoff", "exited"}

(* A connection is up and the session is not: within Dial, then in runOnce. *)
HandshakePcs == {"upgrade", "hello", "welcome"}

(* The main goroutine is inside pump. *)
PumpPcs == {"pump", "close", "drain"}

(* Handler steps, in program order, between "none" (no such handler) and
   "done"; "abandoned" is a command that was read and never handed over. *)
HoldingSem == {"enter", "clock", "claim", "tool", "audit", "reply", "release"}
LivePcs    == HoldingSem \cup {"exit"}
HandlerPcs == LivePcs \cup {"none", "done", "abandoned"}

(* ctx.Done() of the context pump derives from Run's. *)
PumpDone == ctxDone \/ cancelled

SockOpen == conn > 0 /\ sock[conn] = "open"

Counted(n) == IF n < MaxAttempt THEN n ELSE MaxAttempt

Init ==
    /\ ctxDone = FALSE /\ runPc = "top" /\ attempt = 0
    /\ conn = 0 /\ sock = [c \in Conns |-> "unused"] /\ wire = <<>> /\ issued = {}
    /\ cancelled = FALSE /\ errCh = FALSE /\ sem = 0 /\ wg = 0
    /\ hb = "off" /\ rd = "off" /\ held = NoFrame
    /\ h       = [f \in Commands |-> "none"]
    /\ via     = [f \in Commands |-> 0]
    /\ name    = [f \in Commands |-> 0]
    /\ reading = [f \in Commands |-> 0]
    /\ outcome = [f \in Commands |-> "none"]
    /\ line    = [f \in Commands |-> NoLine]
    /\ sent    = [f \in Commands |-> "none"]
    /\ sessionID = 0 /\ seen = EmptyTable /\ now = 0

--------------------------------------------------------------------------------
(* Run: the reconnect loop *)

(* if ctx.Err() != nil { return nil } at the head of the loop *)
RunTop ==
    /\ runPc = "top"
    /\ runPc' = IF ctxDone THEN "exited" ELSE "dial"
    /\ UNCHANGED <<ctxDone, attempt, connVars, pumpVars, handlerVars, runnerVars>>

(* Fault: the count is not reset by a session that came up. *)
CountsEveryEnd(connected) ==
    /\ runPc' = IF ctxDone THEN "exited" ELSE "backoff"
    /\ attempt' = IF ctxDone THEN attempt ELSE Counted(attempt + 1)
    /\ UNCHANGED ctxDone

(* The rest of the loop's body after runOnce has returned `connected`. *)
AfterRunOnce(connected) ==
    /\ runPc' = IF ctxDone THEN "exited" ELSE "backoff"
    /\ attempt' = IF ctxDone THEN attempt
                  ELSE IF connected THEN 1 ELSE Counted(attempt + 1)
    /\ UNCHANGED ctxDone

(* select { case <-ctx.Done(): case <-time.After(d): } *)
BackoffElapsed ==
    /\ runPc = "backoff"
    /\ runPc' = "top"
    /\ UNCHANGED <<ctxDone, attempt, connVars, pumpVars, handlerVars, runnerVars>>

BackoffCancelled ==
    /\ runPc = "backoff"
    /\ ctxDone
    /\ runPc' = "exited"
    /\ UNCHANGED <<ctxDone, attempt, connVars, pumpVars, handlerVars, runnerVars>>

--------------------------------------------------------------------------------
(* runOnce: dial and handshake *)

(* Dial: the TLS connection is up; the upgrade request is next. *)
DialSucceeds ==
    /\ runPc = "dial"
    /\ conn < MaxConns
    /\ conn' = conn + 1
    /\ sock' = [sock EXCEPT ![conn + 1] = "open"]
    /\ wire' = <<>>
    /\ runPc' = "upgrade"
    /\ UNCHANGED <<ctxDone, attempt, issued, pumpVars, handlerVars, runnerVars>>

(* An endpoint that is not a bare wss URL, a bad CA file, no connection. *)
DialFails ==
    /\ runPc = "dial"
    /\ AfterRunOnce(FALSE)
    /\ UNCHANGED <<connVars, pumpVars, handlerVars, runnerVars>>

(* Dial: the broker has answered 101 with the right accept key. *)
Upgraded ==
    /\ runPc = "upgrade"
    /\ SockOpen
    /\ runPc' = "hello"
    /\ UNCHANGED <<ctxDone, attempt, connVars, pumpVars, handlerVars, runnerVars>>

(* Fault: a refused upgrade returns without raw.Close. *)
UpgradeLeaks ==
    /\ runPc = "upgrade"
    /\ AfterRunOnce(FALSE)
    /\ UNCHANGED <<connVars, pumpVars, handlerVars, runnerVars>>

(* Dial: the request cannot be written, the token is refused, or the answer
   is not that of a WebSocket server: raw.Close on each of these paths. *)
UpgradeFails ==
    /\ runPc = "upgrade"
    /\ sock' = [sock EXCEPT ![conn] = "closed"]
    /\ AfterRunOnce(FALSE)
    /\ UNCHANGED <<conn, wire, issued, pumpVars, handlerVars, runnerVars>>

SayHello ==
    /\ runPc = "hello"
    /\ SockOpen
    /\ runPc' = "welcome"
    /\ UNCHANGED <<ctxDone, attempt, connVars, pumpVars, handlerVars, runnerVars>>

(* Fault: every session starts with an empty table of ids. *)
WelcomedAfresh ==
    /\ runPc = "welcome"
    /\ SockOpen
    /\ sessionID' = conn
    /\ seen' = EmptyTable
    /\ runPc' = "pump"
    /\ cancelled' = FALSE /\ errCh' = FALSE /\ sem' = 0 /\ wg' = 2
    /\ hb' = "on" /\ rd' = "read" /\ held' = NoFrame
    /\ UNCHANGED <<ctxDone, attempt, connVars, handlerVars, now>>

(* welcome: remember the session id and enter pump, which makes its channels
   and starts the heartbeat and the reader. *)
Welcomed ==
    /\ runPc = "welcome"
    /\ SockOpen
    /\ sessionID' = conn
    /\ runPc' = "pump"
    /\ cancelled' = FALSE /\ errCh' = FALSE /\ sem' = 0 /\ wg' = 2
    /\ hb' = "on" /\ rd' = "read" /\ held' = NoFrame
    /\ UNCHANGED <<ctxDone, attempt, connVars, handlerVars, seen, now>>

(* Fault: a rejected connection is not closed. *)
HandshakeLeaks ==
    /\ runPc \in {"hello", "welcome"}
    /\ AfterRunOnce(FALSE)
    /\ UNCHANGED <<connVars, pumpVars, handlerVars, runnerVars>>

(* A failed write or read, a reject, or any other first frame: the deferred
   conn.Close runs and runOnce returns false. *)
HandshakeFails ==
    /\ runPc \in {"hello", "welcome"}
    /\ sock' = [sock EXCEPT ![conn] = "closed"]
    /\ AfterRunOnce(FALSE)
    /\ UNCHANGED <<conn, wire, issued, pumpVars, handlerVars, runnerVars>>

--------------------------------------------------------------------------------
(* pump: the select of the main goroutine, Close, wg.Wait *)

PumpFails ==
    /\ runPc = "pump"
    /\ errCh
    /\ errCh' = FALSE
    /\ cancelled' = TRUE
    /\ runPc' = "close"
    /\ UNCHANGED <<ctxDone, attempt, connVars, sem, wg, hb, rd, held, handlerVars, runnerVars>>

PumpCancelled ==
    /\ runPc = "pump"
    /\ PumpDone
    /\ runPc' = "close"
    /\ UNCHANGED <<ctxDone, attempt, connVars, pumpVars, handlerVars, runnerVars>>

(* Fault: pump waits for its goroutines without closing the connection. *)
PumpDoesNotClose ==
    /\ runPc = "close"
    /\ runPc' = "drain"
    /\ UNCHANGED <<ctxDone, attempt, connVars, pumpVars, handlerVars, runnerVars>>

PumpCloses ==
    /\ runPc = "close"
    /\ sock' = [sock EXCEPT ![conn] = "closed"]
    /\ runPc' = "drain"
    /\ UNCHANGED <<ctxDone, attempt, conn, wire, issued, pumpVars, handlerVars, runnerVars>>

(* Fault: pump does not wait for its goroutines. *)
PumpReturnsAtOnce ==
    /\ runPc = "drain"
    /\ cancelled' = TRUE
    /\ AfterRunOnce(TRUE)
    /\ UNCHANGED <<connVars, errCh, sem, wg, hb, rd, held, handlerVars, runnerVars>>

(* wg.Wait returns; the deferred cancel runs; runOnce returns true. *)
PumpReturns ==
    /\ runPc = "drain"
    /\ wg = 0
    /\ cancelled' = TRUE
    /\ AfterRunOnce(TRUE)
    /\ UNCHANGED <<connVars, errCh, sem, wg, hb, rd, held, handlerVars, runnerVars>>

--------------------------------------------------------------------------------
(* The heartbeat goroutine.  Its writes may fail at any time: a connection
   that is not open, or one that does not drain before the write deadline. *)

HeartbeatFails ==
    /\ hb = "on"
    /\ errCh' = TRUE
    /\ hb' = "done"
    /\ wg' = wg - 1
    /\ UNCHANGED <<mainVars, connVars, cancelled, sem, rd, held, handlerVars, runnerVars>>

HeartbeatStops ==
    /\ hb = "on"
    /\ PumpDone
    /\ hb' = "done"
    /\ wg' = wg - 1
    /\ UNCHANGED <<mainVars, connVars, cancelled, errCh, sem, rd, held, handlerVars, runnerVars>>

--------------------------------------------------------------------------------
(* The reader goroutine *)

(* What was received before a connection broke may still be read; after our
   own Close every read fails. *)
Readable == rd = "read" /\ wire # <<>> /\ sock[conn] # "closed"

ReadCommand ==
    /\ Readable
    /\ Head(wire) \in Commands
    /\ held' = Head(wire)
    /\ via' = [via EXCEPT ![Head(wire)] = conn]
    /\ wire' = Tail(wire)
    /\ rd' = "sem"
    /\ UNCHANGED <<mainVars, conn, sock, issued, cancelled, errCh, sem, wg, hb,
                   h, name, reading, outcome, line, sent, runnerVars>>

(* frame_dropped, frame_ignored: an audit line of no command, and read on. *)
ReadOther ==
    /\ Readable
    /\ Head(wire) \in Others
    /\ wire' = Tail(wire)
    /\ UNCHANGED <<mainVars, conn, sock, issued, pumpVars, handlerVars, runnerVars>>

(* Fault: the reader returns without reporting why. *)
ReaderFailsSilently ==
    /\ rd' = "done"
    /\ wg' = wg - 1
    /\ UNCHANGED <<mainVars, connVars, cancelled, errCh, sem, hb, held, handlerVars, runnerVars>>

(* fail(err); return *)
ReaderFails ==
    /\ errCh' = TRUE
    /\ rd' = "done"
    /\ wg' = wg - 1
    /\ UNCHANGED <<mainVars, connVars, cancelled, sem, hb, held, handlerVars, runnerVars>>

ReadFails == rd = "read" /\ sock[conn] # "open" /\ ReaderFails

(* The read deadline passed with no frame of any kind in that time. *)
IdleTimeout == rd = "read" /\ sock[conn] = "open" /\ ReaderFails

(* Fault: the semaphore has one slot too many. *)
StartHandlerOver ==
    /\ rd = "sem"
    /\ sem <= MaxConcurrent
    /\ sem' = sem + 1
    /\ wg' = wg + 1
    /\ h' = [h EXCEPT ![held] = "enter"]
    /\ held' = NoFrame
    /\ rd' = "read"
    /\ UNCHANGED <<mainVars, connVars, cancelled, errCh, hb,
                   via, name, reading, outcome, line, sent, runnerVars>>

(* case sem <- struct{}{}: wg.Add(1); go ... *)
StartHandler ==
    /\ rd = "sem"
    /\ sem < MaxConcurrent
    /\ sem' = sem + 1
    /\ wg' = wg + 1
    /\ h' = [h EXCEPT ![held] = "enter"]
    /\ held' = NoFrame
    /\ rd' = "read"
    /\ UNCHANGED <<mainVars, connVars, cancelled, errCh, hb,
                   via, name, reading, outcome, line, sent, runnerVars>>

(* case <-ctx.Done(): return.  The command in hand is dropped. *)
AbandonCommand ==
    /\ rd = "sem"
    /\ PumpDone
    /\ h' = [h EXCEPT ![held] = "abandoned"]
    /\ held' = NoFrame
    /\ rd' = "done"
    /\ wg' = wg - 1
    /\ UNCHANGED <<mainVars, connVars, cancelled, errCh, sem, hb,
                   via, name, reading, outcome, line, sent, runnerVars>>

--------------------------------------------------------------------------------
(* handle, and the goroutine around it *)

(* Read r.sessionID under mu; a command without an id is denied at once. *)
Enter(f) ==
    /\ h[f] = "enter"
    /\ name' = [name EXCEPT ![f] = sessionID]
    /\ IF IdOf[f] = NoId
       THEN /\ h' = [h EXCEPT ![f] = "audit"]
            /\ outcome' = [outcome EXCEPT ![f] = "malformed_args"]
       ELSE /\ h' = [h EXCEPT ![f] = "clock"]
            /\ UNCHANGED outcome
    /\ UNCHANGED <<mainVars, connVars, pumpVars, via, reading, line, sent, runnerVars>>

(* claim: now := time.Now() *)
ReadClock(f) ==
    /\ h[f] = "clock"
    /\ reading' = [reading EXCEPT ![f] = now]
    /\ h' = [h EXCEPT ![f] = "claim"]
    /\ UNCHANGED <<mainVars, connVars, pumpVars, via, name, outcome, line, sent, runnerVars>>

(* claim under mu, then vocab.Resolve, which touches nothing shared *)
Claim(f) ==
    LET table == Pruned(seen, reading[f])
        dup   == IsDuplicate(table, IdOf[f], reading[f])
        runs  == ~dup /\ f \notin Refused
    IN  /\ h[f] = "claim"
        /\ seen' = IF dup THEN table ELSE Recorded(table, IdOf[f], reading[f])
        /\ h' = [h EXCEPT ![f] = IF runs THEN "tool" ELSE "audit"]
        /\ outcome' = [outcome EXCEPT ![f] =
                          CASE dup -> "duplicate_command_id"
                            [] ~dup /\ f \in Refused -> "not_permitted"
                            [] OTHER -> "none"]
        /\ UNCHANGED <<mainVars, connVars, pumpVars, via, name, reading, line, sent,
                       sessionID, now>>

(* execute returns: it succeeded, it failed, or its deadline has passed. *)
ToolReturns(f) ==
    /\ h[f] = "tool"
    /\ \E o \in ToolOutcomes : outcome' = [outcome EXCEPT ![f] = o]
    /\ h' = [h EXCEPT ![f] = "audit"]
    /\ UNCHANGED <<mainVars, connVars, pumpVars, via, name, reading, line, sent, runnerVars>>

(* Fault: no line is written once the session is over. *)
FinishUnlessDone(f) ==
    /\ h[f] = "audit"
    /\ line' = IF PumpDone THEN line
               ELSE [line EXCEPT ![f] = [status |-> outcome[f], session |-> name[f]]]
    /\ h' = [h EXCEPT ![f] = "reply"]
    /\ UNCHANGED <<mainVars, connVars, pumpVars, via, name, reading, outcome, sent, runnerVars>>

(* finish: one audit line, under the session id read at the start *)
Finish(f) ==
    /\ h[f] = "audit"
    /\ line' = [line EXCEPT ![f] = [status |-> outcome[f], session |-> name[f]]]
    /\ h' = [h EXCEPT ![f] = "reply"]
    /\ UNCHANGED <<mainVars, connVars, pumpVars, via, name, reading, outcome, sent, runnerVars>>

(* writeJSON(conn, res) on the connection the command came from *)
ReplySent(f) ==
    /\ h[f] = "reply"
    /\ sock[via[f]] # "closed"
    /\ sent' = [sent EXCEPT ![f] = outcome[f]]
    /\ h' = [h EXCEPT ![f] = "release"]
    /\ UNCHANGED <<mainVars, connVars, pumpVars, via, name, reading, outcome, line, runnerVars>>

ReplyFails(f) ==
    /\ h[f] = "reply"
    /\ errCh' = TRUE
    /\ h' = [h EXCEPT ![f] = "release"]
    /\ UNCHANGED <<mainVars, connVars, cancelled, sem, wg, hb, rd, held,
                   via, name, reading, outcome, line, sent, runnerVars>>

(* Fault: the slot is not given back. *)
KeepsSlot(f) ==
    /\ h[f] = "release"
    /\ h' = [h EXCEPT ![f] = "exit"]
    /\ UNCHANGED <<mainVars, connVars, pumpVars,
                   via, name, reading, outcome, line, sent, runnerVars>>

(* The deferred calls run last first: <-sem, then wg.Done. *)
Release(f) ==
    /\ h[f] = "release"
    /\ sem' = sem - 1
    /\ h' = [h EXCEPT ![f] = "exit"]
    /\ UNCHANGED <<mainVars, connVars, cancelled, errCh, wg, hb, rd, held,
                   via, name, reading, outcome, line, sent, runnerVars>>

(* Fault: wg.Done is not called. *)
ExitUncounted(f) ==
    /\ h[f] = "exit"
    /\ h' = [h EXCEPT ![f] = "done"]
    /\ UNCHANGED <<mainVars, connVars, pumpVars,
                   via, name, reading, outcome, line, sent, runnerVars>>

Exit(f) ==
    /\ h[f] = "exit"
    /\ wg' = wg - 1
    /\ h' = [h EXCEPT ![f] = "done"]
    /\ UNCHANGED <<mainVars, connVars, cancelled, errCh, sem, hb, rd, held,
                   via, name, reading, outcome, line, sent, runnerVars>>

--------------------------------------------------------------------------------
(* The environment: the operator, the broker, the network, time *)

Cancel ==
    /\ ~ctxDone
    /\ ctxDone' = TRUE
    /\ UNCHANGED <<runPc, attempt, connVars, pumpVars, handlerVars, runnerVars>>

(* The broker sends commands only within a session it has welcomed; the
   welcome itself may still be unread. *)
BrokerSends(f) ==
    /\ SockOpen
    /\ runPc \in {"welcome"} \cup PumpPcs
    /\ f \notin issued
    /\ issued' = issued \cup {f}
    /\ wire' = Append(wire, f)
    /\ UNCHANGED <<mainVars, conn, sock, pumpVars, handlerVars, runnerVars>>

ConnectionBreaks ==
    /\ SockOpen
    /\ runPc \in PumpPcs
    /\ sock' = [sock EXCEPT ![conn] = "broken"]
    /\ UNCHANGED <<mainVars, conn, wire, issued, pumpVars, handlerVars, runnerVars>>

Tick ==
    /\ now < MaxNow
    /\ now' = now + 1
    /\ UNCHANGED <<mainVars, connVars, pumpVars, handlerVars, sessionID, seen>>

(* Run has returned; the process is about to exit. *)
Exited == runPc = "exited" /\ UNCHANGED vars

Main == \/ RunTop \/ BackoffElapsed \/ BackoffCancelled
        \/ DialSucceeds \/ DialFails \/ Upgraded \/ UpgradeFails \/ SayHello \/ Welcomed \/ HandshakeFails
        \/ PumpFails \/ PumpCancelled \/ PumpCloses \/ PumpReturns

Heartbeat == HeartbeatFails \/ HeartbeatStops

Reader == \/ ReadCommand \/ ReadOther \/ ReadFails \/ IdleTimeout
          \/ StartHandler \/ AbandonCommand

Handler(f) == \/ Enter(f) \/ ReadClock(f) \/ Claim(f) \/ ToolReturns(f) \/ Finish(f)
              \/ ReplySent(f) \/ ReplyFails(f) \/ Release(f) \/ Exit(f)

Environment == \/ Cancel \/ ConnectionBreaks \/ Tick
               \/ \E f \in Frames : BrokerSends(f)

Next == \/ Main \/ Heartbeat \/ Reader
        \/ \E f \in Commands : Handler(f)
        \/ Environment
        \/ Exited

Spec == Init /\ [][Next]_vars

--------------------------------------------------------------------------------
(* Fairness: what Go's scheduler and the code's deadlines guarantee. *)

(* Dial and the handshake are bounded by timeouts, a backoff by its timer. *)
MainFairness == WF_vars(Main)

(* A reader or a heartbeat whose connection is gone gets an error: at once if
   it was closed or reset, at its deadline if the peer went silent. *)
ReaderFairness ==
    /\ WF_vars(ReadCommand \/ ReadOther \/ ReadFails)
    /\ WF_vars(StartHandler \/ AbandonCommand)

HeartbeatFairness == WF_vars(HeartbeatStops)

(* Every handler step is taken: a tool call is bounded by its deadline, a
   write by the write deadline. *)
HandlerFairness == \A f \in Commands : WF_vars(Handler(f))

FairSpec == Spec /\ MainFairness /\ ReaderFairness /\ HeartbeatFairness /\ HandlerFairness

--------------------------------------------------------------------------------
(* Type invariant *)

MainTypeOK ==
    /\ ctxDone \in BOOLEAN
    /\ runPc \in RunPcs
    /\ attempt \in 0..MaxAttempt

ConnTypeOK ==
    /\ conn \in 0..MaxConns
    /\ sock \in [Conns -> {"unused", "open", "broken", "closed"}]
    /\ wire \in Seq(Frames)
    /\ issued \subseteq Frames

PumpTypeOK ==
    /\ cancelled \in BOOLEAN
    /\ errCh \in BOOLEAN
    /\ sem \in 0..MaxConcurrent
    /\ wg \in Nat
    /\ hb \in {"off", "on", "done"}
    /\ rd \in {"off", "read", "sem", "done"}
    /\ held \in Commands \cup {NoFrame}

HandlerTypeOK ==
    /\ h \in [Commands -> HandlerPcs]
    /\ via \in [Commands -> 0..MaxConns]
    /\ name \in [Commands -> 0..MaxConns]
    /\ reading \in [Commands -> 0..MaxNow]
    /\ outcome \in [Commands -> Outcomes \cup {"none"}]
    /\ line \in [Commands -> [status : Outcomes, session : Conns] \cup {NoLine}]
    /\ sent \in [Commands -> Outcomes \cup {"none"}]

RunnerTypeOK ==
    /\ sessionID \in 0..MaxConns
    /\ DOMAIN seen \subseteq Ids
    /\ seen \in [DOMAIN seen -> 0..MaxNow]
    /\ now \in 0..MaxNow

TypeOK == MainTypeOK /\ ConnTypeOK /\ PumpTypeOK /\ HandlerTypeOK /\ RunnerTypeOK

--------------------------------------------------------------------------------
(* Safety *)

Live    == {f \in Commands : h[f] \in LivePcs}
Holding == {f \in Commands : h[f] \in HoldingSem}
One(b)  == IF b THEN 1 ELSE 0

(***************************************************************************)
(* pump: len(sem) and the WaitGroup count exactly the goroutines that hold *)
(* a slot and the ones that have not exited.  wg.Wait therefore returns    *)
(* when, and only when, none is left.                                      *)
(***************************************************************************)
CountersExact ==
    /\ sem = Cardinality(Holding)
    /\ wg = Cardinality(Live) + One(hb = "on") + One(rd \in {"read", "sem"})

(***************************************************************************)
(* cfg.MaxConcurrent bounds the commands in progress in the whole process, *)
(* those in a tool and those on their way to it or to the reply, although  *)
(* every session makes a semaphore of its own.                             *)
(***************************************************************************)
BoundedTools == Cardinality(Holding) <= MaxConcurrent

(***************************************************************************)
(* pump returns only when nothing it started is left: outside pump there   *)
(* is no reader, no heartbeat, no handler, and no command in hand.         *)
(***************************************************************************)
QuiescentBetweenSessions ==
    runPc \notin PumpPcs =>
        /\ hb # "on" /\ rd \notin {"read", "sem"} /\ held = NoFrame
        /\ Live = {}

(***************************************************************************)
(* runOnce, Close: at most one connection is not closed, the one in use,   *)
(* and none while the connector backs off or has returned.                 *)
(***************************************************************************)
NoConnectionLeak ==
    \A c \in Conns :
        sock[c] \in {"open", "broken"} =>
            c = conn /\ runPc \in HandshakePcs \cup PumpPcs

(***************************************************************************)
(* fail: errCh has room for one error and a goroutine never waits to       *)
(* report, yet no failure is lost: while pump waits and is not cancelled,  *)
(* a reader or a heartbeat that has stopped has left an error to end the   *)
(* session with.  A session is never half dead.                            *)
(***************************************************************************)
NoHalfDeadSession ==
    runPc = "pump" /\ ~PumpDone /\ (hb = "done" \/ rd = "done") => errCh

(***************************************************************************)
(* handle: the audit line of a command names the session it was received   *)
(* in.  The handler reads the Runner's CURRENT session id, so this rests   *)
(* on no handler outliving its session.                                    *)
(***************************************************************************)
AuditNamesSession ==
    \A f \in Commands : line[f] # NoLine => line[f].session = via[f]

(***************************************************************************)
(* handle: a result that reached the broker has its audit line, with the   *)
(* same status; and when pump has returned every command that was handed   *)
(* to a handler has one, also when the session broke under it.             *)
(***************************************************************************)
AuditTrail ==
    \A f \in Commands :
        /\ sent[f] # "none" => line[f] # NoLine /\ line[f].status = sent[f]
        /\ h[f] \notin {"none", "abandoned"} /\ runPc \notin PumpPcs => line[f] # NoLine

(* A command the reader has taken off the connection. *)
Received(f) == via[f] # 0

(***************************************************************************)
(* PROTOCOL.md:368: "One local audit line per command, whatever the        *)
(* outcome".  A command the reader holds while it waits for a slot is      *)
(* dropped without one when the session ends.                              *)
(***************************************************************************)
EveryCommandAudited ==
    \A f \in Commands :
        Received(f) /\ runPc \notin PumpPcs => line[f] # NoLine

--------------------------------------------------------------------------------
(* The inductive invariant behind the safety properties *)

HasOutcome == {"audit", "reply", "release", "exit", "done"}
HasLine    == HasOutcome \ {"audit"}
HasReplied == HasLine \ {"reply"}

(* What the main goroutine's position says of the rest. *)
MainInv ==
    /\ runPc \in PumpPcs =>
         conn \in Conns /\ sessionID = conn /\ hb # "off" /\ rd # "off"
    /\ runPc \in HandshakePcs => conn \in Conns /\ sock[conn] = "open"
    /\ runPc = "drain" => sock[conn] = "closed"

(* A frame is read at most once: what is on the wire, or has not been sent
   yet, has no handler and is not held. *)
Untouched(f) == h[f] = "none" /\ f # held

ReaderInv ==
    /\ rd = "sem" <=> held # NoFrame
    /\ held # NoFrame => held \in issued /\ h[held] = "none" /\ via[held] = conn
    /\ \A f \in Commands \ issued : Untouched(f)
    /\ \A i \in 1..Len(wire) :
         wire[i] \in issued /\ (wire[i] \in Commands => Untouched(wire[i]))
    /\ \A i, j \in 1..Len(wire) : wire[i] = wire[j] => i = j

(* A handler belongs to the session in progress, and how far it has got says
   what it has recorded. *)
HandlerInv ==
    \A f \in Commands :
        /\ h[f] \in LivePcs \cup {"done"} => via[f] \in Conns
        /\ h[f] \in LivePcs => via[f] = conn
        /\ h[f] \in LivePcs \ {"enter"} => name[f] = conn
        /\ h[f] \in {"clock", "claim", "tool"} => IdOf[f] # NoId
        /\ h[f] \in HasOutcome => outcome[f] \in Outcomes
        /\ h[f] \notin HasOutcome => outcome[f] = "none"
        /\ h[f] \in HasLine => line[f] = [status |-> outcome[f], session |-> via[f]]
        /\ h[f] \notin HasLine => line[f] = NoLine
        /\ h[f] \in HasReplied => sent[f] \in {"none", outcome[f]}
        /\ h[f] \notin HasReplied => sent[f] = "none"

(* Only the connection in use may be other than closed. *)
ConnInv ==
    \A c \in Conns :
        /\ c > conn => sock[c] = "unused"
        /\ c < conn => sock[c] = "closed"
        /\ c = conn /\ runPc \notin HandshakePcs \cup PumpPcs => sock[c] = "closed"

IInv ==
    /\ TypeOK /\ MainInv /\ ReaderInv /\ HandlerInv /\ ConnInv
    /\ IsFiniteSet(Live) /\ CountersExact
    /\ QuiescentBetweenSessions /\ NoHalfDeadSession

--------------------------------------------------------------------------------
(* Refinement *)

Claiming == {f \in Commands : IdOf[f] # NoId}

ClaimState(f) ==
    CASE h[f] \in {"none", "abandoned", "enter", "clock"} -> "new"
      [] h[f] = "claim" -> "clock"
      [] h[f] = "tool" -> "admitted"
      [] OTHER -> IF outcome[f] = "duplicate_command_id" THEN "denied" ELSE "admitted"

D == INSTANCE Dedupe WITH
        Frames  <- Claiming,
        IdOf    <- [f \in Claiming |-> IdOf[f]],
        st      <- [f \in Claiming |-> ClaimState(f)],
        at      <- [f \in Claiming |-> reading[f]],
        earlier <- {}

(***************************************************************************)
(* The handlers of all sessions of a process are claims of one table that  *)
(* a reconnect does not clear: the session implements Dedupe, so an id is  *)
(* admitted at most once per window across reconnects.                     *)
(***************************************************************************)
ImplementsDedupe == D!Spec

Phase ==
    CASE runPc \in {"top", "dial"} \cup HandshakePcs -> "connecting"
      [] runPc \in PumpPcs -> "up"
      [] runPc = "backoff" -> "waiting"
      [] runPc = "exited"  -> "stopped"

R == INSTANCE Reconnect WITH
        phase <- Phase, stopping <- ctxDone

(***************************************************************************)
(* Run: the failure count that sets the backoff restarts from one after a  *)
(* session that came up, and only then; and Run returns only when its      *)
(* context was cancelled.                                                  *)
(***************************************************************************)
ImplementsReconnect == R!Spec

(* A status of Session in terms of a Result's own. *)
Status(o) ==
    CASE o \in {"malformed_args", "duplicate_command_id", "not_permitted"} -> "denied"
      [] o = "tool_error" -> "error"
      [] OTHER -> o

HandlingPhase(f) ==
    CASE h[f] \in {"none", "abandoned", "enter", "clock", "claim"} -> "waiting"
      [] h[f] = "tool" -> "running"
      [] OTHER -> "settled"

H == INSTANCE Handling WITH
        Claimed   <- FALSE,
        permitted <- [f \in Commands |-> f \notin Refused],
        phase     <- [f \in Commands |-> HandlingPhase(f)],
        result    <- [f \in Commands |-> Status(outcome[f])],
        logged    <- [f \in Commands |-> IF line[f] = NoLine THEN "none"
                                         ELSE Status(line[f].status)],
        told      <- [f \in Commands |-> Status(sent[f])]

(***************************************************************************)
(* handle: whatever happens to the session meanwhile, a command that was   *)
(* read is handled once, runs only if Resolve permits it, and its result   *)
(* is final: logged before it is written, written at most once.            *)
(***************************************************************************)
ImplementsHandling == H!Spec

--------------------------------------------------------------------------------
(* Liveness *)

(* Run returns after its context is cancelled, wherever it stood. *)
ShutdownCompletes == ctxDone ~> runPc = "exited"

(***************************************************************************)
(* A session that is over is replaced: once its connection has broken, an  *)
(* error is reported or the pump has left its select, every goroutine of   *)
(* it returns and Run dials again, or returns itself.                      *)
(***************************************************************************)
SessionOver == runPc \in PumpPcs /\ (runPc # "pump" \/ errCh \/ ~SockOpen)

SessionReplaced == SessionOver ~> runPc \in {"dial", "exited"}
================================================================================
