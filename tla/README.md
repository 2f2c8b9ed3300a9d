# A TLA+ model of butterstack-connector

butterstack-connector runs inside a studio's network, keeps one outgoing
WebSocket to a broker, and executes the few read-only commands the broker may
ask for (Perforce and TeamCity lookups), writing one local audit line per
command. This directory holds TLA+ modules translated from its Go source, the
TLC configurations that check them on small instances, and TLAPS proofs of the
properties that matter most for every value of the constants. Paths below are
relative to the repository; line numbers are those of the commit the model was
translated from.

- [1. The system](#1-the-system)
- [2. Modules](#2-modules)
- [3. From code to model](#3-from-code-to-model)
- [4. Runs](#4-runs)
- [5. Fairness](#5-fairness)
- [6. Proofs](#6-proofs)
- [7. Where code and documents differ](#7-where-code-and-documents-differ)
- [8. What is not modelled](#8-what-is-not-modelled)
- [9. Plan](#9-plan)

## 1. The system

### Components

| Component | Source | State | Operations |
|---|---|---|---|
| Session lifecycle | `internal/session/session.go` `Run`, `runOnce`, `pump` | failure count; per session: context, `errCh`, `sem`, `wg`; the goroutines themselves | connect, hello/welcome, back off, heartbeat, read loop, admit a command, shut down |
| Command handling | `session.go` `handle`, `claim`, `execute` | `Runner.sessionID`, `Runner.seen` (under `mu`) | deny, claim, resolve, execute, audit, reply |
| WebSocket client | `internal/wsclient` | socket, `writeMu`, `closed`, `lastActivity`; the message being assembled | `Dial`, `ReadMessage`, `writeFrame`, `Close` |
| Audit log | `internal/audit` | open file and its day (under `mu`) | `New`, `Write` (rotates by day), `Close`, `ArgsDigest` |
| Frame protocol | `internal/protocol` | none | encode, decode |
| Vocabulary | `internal/vocab` | constant tables | `Resolve`: which verbs exist, argument validation, depot scope |
| Perforce tool | `internal/tools/perforce.go` | none between calls | `p4` child process, byte budget, capped buffer |
| TeamCity tool | `internal/tools/teamcity.go` | none between calls | HTTP GET, allow-listed projections |
| Configuration | `internal/config` | read once | load, defaults, secret files, validate |
| Process entry | `cmd/butterstack-connector` | how far `run` has got | load, open the log, build the tools, catch signals, run, close, exit code |
| Broker | external; `test/mock_broker.rb` imitates it | the sessions it lists, the outstanding commands of each | welcome, reject, `issue`, `await`, `deliver` |

### How they interact

`main` loads `connector.yml`, opens the audit log, builds the Runner with an
executor for each enabled tool, and calls `Run`, which calls `runOnce` in a loop. A
`runOnce` that gets a welcome enters `pump`. `pump` starts a heartbeat goroutine
and a reader goroutine. The reader calls `ReadMessage`, takes a slot of `sem` for
each command and starts a handler goroutine, which runs `handle` and writes the
result to the connection. All of these share the pump's context, `errCh` (one
place, never blocking), `sem` and `wg`. They share `seen` and `sessionID` across
sessions, the connection's write side through `writeMu`, and the audit log
through its own mutex. `pump` ends when the first error arrives or the context
is cancelled: it cancels, closes the connection, waits for `wg`, and returns.
When `Run` returns, `main` writes a last line and closes the log. On the other
side the broker lists a session when it has read `hello`, issues commands on it
and matches each result with the commands of that session.

### What is hard

- Handlers, heartbeat and reader run concurrently with a shutdown that may come
  from a signal, a read error, a write error or an idle timeout; each has to be
  woken, counted and waited for.
- State outlives a session: the table of claimed ids and the session id belong
  to the Runner, while slots and the error channel belong to one `pump`.
- Time is read before a lock and used after it, twice: in `claim` and in
  `audit.Write`.
- The idle rule starts `ReadMessage` again after a timeout, so two timers (the
  read's deadline and the age of the last frame) and the state inside
  `ReadMessage` interact.
- A frame is written in several writes, each of which may stall and fail.
- A restart loses the table of ids but not the audit files, and comes up with
  whatever `connector.yml` says by then.
- A result may be lost with its connection; the caller then retries with the
  same id, on another session, and is told only "duplicate".
- A scope is compared as text, which is right only because the loader writes a
  slash to its end.
- Limits meet the values of a frame: a product that wraps around, a list cut by
  two bounds, an output cut at a ceiling, and a deadline that may pass between
  any two steps of a command.

`PROJECT.json` lists these one by one with their lines, and which property
covers each.

### What makes each component correct

- *Session*: nothing of a session is left when the next one starts; no failure
  of a goroutine goes unnoticed; connections do not leak; shutdown, and the end
  of a broken connection, always complete; the backoff counts failures since the
  last session that came up.
- *Command handling*: an id runs at most once per window and is never denied
  without cause, across reconnects; at most `max_concurrent` are in progress; each
  handled command has exactly the audit line of its outcome and of its session.
- *WebSocket client*: messages come out complete and in order; a dead broker is
  noticed and a quiet one is kept; frames of concurrent writers are not mixed;
  `Close` completes.
- *Connector and broker*: a caller is given a result of its own session and id,
  which the audit log knows of; behind a denied duplicate there is another delivery
  of its id, granted within the window; a command is answered as long as its session
  lasts.
- *Audit log*: a line is in the file of its day, and is missing only after a
  failure of the disk.
- *Configuration and process*: a path is in scope name by name; an end that is not
  a crash loses no line.
- *Vocabulary*: a command is admitted exactly when its verb is compiled in, its
  tool configured and its arguments valid; an unknown name learns nothing.
- *Command handling and tools*: the limits stay within their caps whatever the
  frame says; the files returned stay within the budget; a result says that it
  was cut exactly when it was (`p4.changes` excepted, section 7).

## 2. Modules

| Module | Models | Used by |
|---|---|---|
| `ClaimTable` | the pure part of `claim`: pruning, the duplicate test, recording | `Dedupe`, `Session` |
| `Dedupe` | `claim` under concurrent handlers, with restarts: what a claim promises | abstract specification of `Session` |
| `Reconnect` | the loop of `Run` with a session reduced to "up", and `backoff` | abstract specification of `Session` |
| `Handling` | `handle` with all between frame and result reduced to "running" | abstract specification of `Session` and `Command` |
| `Session` | every goroutine of `Run`, `runOnce`, `pump`, `handle`; the stages of `Dial` | `Exchange` |
| `Exchange` | `Session` with a broker as `test/mock_broker.rb` has it: sessions, outstanding commands, results | |
| `WsRead` | `ReadMessage`, `readFrame` and the idle rule, in time | |
| `Conn` | `writeFrame` and `Close` under concurrent writers | |
| `AuditLog` | `Logger.Write`, `rotate`, `Close`, restarts | `Process` |
| `Config` | `Load` with its checks, defaults and secret files; `literalPrefix`, `withinPrefixList`; as operators | `Process` |
| `Process` | `run` of `main.go` from start to exit, with signals, crashes and restarts; who writes audit lines below `Run`, and the WaitGroup of `pump` | |
| `Vocab` | `Resolve`, `validateArgs`, `Arg.validate` and the schemas, as operators | `Command` |
| `Command` | `handle` after the claim, `execute`, `Perforce.run` and `describe`, `cappedBuffer`, `TeamCity.get` | |
| `MC*` | the small instances TLC checks | |
| `DedupeProofs`, `SessionProofs`, `ExchangeProofs`, `WsReadProofs`, `ConnProofs`, `AuditLogProofs`, `ProcessProofs`, `CommandProofs` | theorems | |

`Session` EXTENDS `ClaimTable` and INSTANCEs `Dedupe`, `Reconnect` and
`Handling` with refinement mappings: `Session` implements all three
(`ImplementsDedupe`, `ImplementsReconnect`, `ImplementsHandling`). `Command`
implements `Handling` too, for one command whose claim was granted: `Session` has
the whole of `execute` as one step with any outcome and takes the verdict of
`Resolve` as a constant of the frame; `Command` has the inside of both, and shows
that seen from outside it is no more than that. `Exchange` EXTENDS `Session` and `Process` EXTENDS
`AuditLog`: a step of the composition is a step of the component, or leaves it
alone, restricted by what the other part does. That every behaviour of
`Exchange` is one of `Session`, and every behaviour of `Process` one of
`AuditLog`, is proved, so what holds of the parts holds of the whole.

An operator commented "Fault:" is a broken variant of the definition below it.
No specification uses it. Each property has one such variant that makes it fail
(`PROJECT.json`, "mutants"): that is how one sees that the property depends on
the code.

## 3. From code to model

**ClaimTable, Dedupe.** `seen` is a function from the ids present to clock
readings. `ReadClock` is `time.Now()` before the lock; `Claim` is everything
between `Lock` and `Unlock`: prune if the table has outgrown its limit, test,
record. A "frame" is one delivery of a command, so a repeated id is two frames
with the same `IdOf`. `Restart` empties the table. The clock is monotonic, as
Go's `time.Sub` is here.

**Reconnect.** `phase`, `attempt`, `stopping`. `BackoffDelays(n)` is the set of
delays `backoff(n)` can return, jitter included, in units of 100 ms; a retry may
come after any of them, so it is in no action.

**Handling.** `phase`, `result`, `logged` and `told` are what a handler has got to,
the status it arrived at, the one in the audit line and the one the connection
was given. `permitted` is what `Resolve` has to say. `Claimed` says whether the
claim came before: then nothing but `permitted` decides.

**Session.** `runPc` is where the main goroutine stands, `hb`, `rd` and `h[f]`
where the heartbeat, the reader and the handler of command `f` stand. Each
action is the code between two points at which another goroutine can be seen or
can interfere; the actions carry the code's names or quote the statement. `sem`,
`wg` and `errCh` are the counters and the one-place channel themselves, not
derived from the goroutines, so that `CountersExact` says something.
`cancelled` is `cancel()` of the pump's context, `ctxDone` that of `Run`'s.
`sock[c]` is "broken" when the peer closed, reset or died; what arrived before
may still be read. A frame is an atom; a command's id and whether `Resolve`
admits it are constants of the frame, since `Resolve` touches nothing shared.
The deferred calls of a handler run as in Go, last first: `Release`, then
`Exit`. A write may fail on an open connection too (its deadline). `Dial` is two
steps, the TLS connection and the answer to the upgrade, because from the first
on there is a socket to close.

**Exchange.** A call is one command frame; a retry is another call with the same
id. `listed[c]` is what the broker makes of connection `c`: "listed" when it has
read `hello` (`serve` puts the session into `@sessions` before it sends the
welcome), "welcomed" after, "spoiled" when a caller was quicker than the welcome
and its command is the first frame `runOnce` reads, "gone" when `serve` has
ended. `got` is `@outstanding`: `issue` resets the entry of an id, `deliver`
fills it if the session has one, `await` looks at it. `back` is what was written
to the connection and not read. `PumpNeedsWelcome` is the test of `runOnce` on
the kind of the first frame, which `Session` alone leaves open. A call that the
broker does not record is in `Unregistered`.

**WsRead.** The network delivers pieces: a control frame is one piece, a data
frame is one or two ("split"). `msg` is the local variable of `ReadMessage`,
`framing` says whether `readFrame` is between frames, inside one (it has
consumed a part of it), or out of step. Deadlines are the time left, recorded
times the time since, so the state space is finite without a bound on the
length of a run. `TimedOut` is the branch of the read loop on an error for
which `IsTimeout` holds: if a frame was seen within the window, `ReadMessage` is
called anew, with a new `msg`, and any bytes a frame had given are gone. The
timeout of the pong written inside `ReadMessage` takes the same branch
(`PongTimesOut`), because `IsTimeout` does not tell the two apart. The
ticker's pings are sent at every tick or blocked; how long a blocked one takes
is left open, and `stalled` remembers that it happened. A pong first waits for
`writeMu`: when a ping is read, `ahead` other writes (heartbeat, results, at most
`Writers`) have the lock or get it before the pong, and `writeBy`, the deadline of
the write in progress, starts anew with each (`NextWriter`), since `writeFrame` sets
it under the lock. A write ahead that times out does not concern the pong, except
that the stream may then be cut (`cut`). New pings of the broker are read only
after the pong is out. Frames that are
refused, for whatever reason, are the piece "bad".

**Conn.** A frame is put out in two or three parts (header, mask, payload if
there is one); between two parts any other goroutine may step. `WriteFails`
stands for every error return, including the deadline of a stalled write, with
or without some bytes written. `Close` writes its close frame under the same
lock. `closeMu` is left out because only one goroutine calls `Close`.

**AuditLog.** A line is one call of `Write`. `Stamp` is the code before the
lock, `Emit` the code under it. `file` is `Logger.file` together with
`Logger.day`, and whether the handle is still open: a rotation that fails has
closed the old handle and kept the fields. `lost[w]` remembers why a line is
not in a file.

**Config.** A document is a record of classes: how each file can be read (its
mode included), whether it decodes, what is wrong with the endpoint, whether a
secret has the form of one. The numbers are numbers. `Load` is a function, since
nothing it reads is shared. A depot path is a sequence of names up to the first
wildcard, and what follows the last of them; `Longer` says which names begin
others, so that `HasPrefix` is the comparison of texts and not of names.

**Process.** `proc` is how far `run` has got. The lines of `run` itself are
`MainLines` (one stands for all startup lines). The others are written below `Run`:
by its loop (`LoopStamps`), by the read loop of `pump` (`ReaderStamps`) and by
handlers (`HandlerStamps`). `pump`, `readers` and `wg` are where `pump` stands, the
read loop, and the WaitGroup: the read loop starts a handler with `wg.Add` before
it is itself done (`StartsHandler`, possible while `pump` already waits), a handler
is `Done` when its line is written, and `PumpReturns` needs `wg = 0`. `RunReturns`
only needs that `pump` is out and the loop has no line to write, so that no
handler is left is a fact about the counter. What else a session does (the socket,
`errCh`, `sem`) is in `Session`. A signal before `signal.NotifyContext` kills the
process, and is a `Crash`; after it, it cancels the context. The document may be
another one at each start.

**Vocab.** `Resolve` is the first denial of a list of checks in the code's
order; "none" is its nil. The value of an argument is one of ten classes of JSON
values, the ones `validate` tells apart. Whether a depot path is well formed
(`validateDepotPath`) and in scope is such a class; `Config` has how the latter
is decided.

**Command.** One command from `Resolve` to the status of its result; `stage` is
where `handle` stands. `Expire` is the context's deadline, at any step, so a
result made in time may still be a timeout, as `handle` tests the context last.
A duration is an integer of the width `2 * HalfRange`, and `Wrap` is what the
multiplication by `time.Millisecond` does to it. `P4Writes` is one `Write` of
the capped buffer, of any size; `total` is what the child has to say. One turn
of the loop of `describeFromRecord` is `ShapeFile`; a file is what
`approxJSONBytes` charges for it. `truncated` is the local of `describeFromRecord`
or of `get`. `Decode` is the end of `run`: `decoded` is what it took from the
output, all of it or, when a record is no JSON object, what came before it.
`changes` returns what there is; `describe` fails when there is no record and else
shapes the first, whatever follows it.

## 4. Runs

Each run ends within three minutes on two workers.

| Run | Instance | What it shows |
|---|---|---|
| `dedupe` | 5 deliveries (3 of one id), window 1, table limit 1, clock to 3 | `OncePerWindow`, `DenialJustified`, `TableBounded`, and the two invariants the proof uses, `RecordedUntilExpired` and `TableJustified` |
| `dedupe_restart` | the same | counterexample to `OncePerWindowAcrossRestarts` (section 7) |
| `session` | 2 commands with one id, one of them denied by `Resolve`, 1 frame that is no command, 2 slots, 2 connections, table limit 1, clock to 1 | `CountersExact`, `QuiescentBetweenSessions`, `NoConnectionLeak`, `NoHalfDeadSession`, `AuditNamesSession`, `AuditTrail`, the inductive invariant `IInv`, `ImplementsReconnect` and `ImplementsHandling` (2.5 million states) |
| `exchange` | 2 calls with one id, one of them denied by `Resolve`, 1 slot, 2 connections, table limit 1, clock to 1 | `AnswersAudited`, `DuplicateExplained`, `SessionsAgree`, `BoundedTools`, `ImplementsDedupe` (2.8 million states) |
| `exchange_liveness` | 2 calls, one of them not recorded and without an id, one frame that is no command, 1 slot, 1 connection | `ShutdownCompletes`, `SessionReplaced`, `CallsSettle` |
| `session_audit` | 2 commands, 1 slot | counterexample to `EveryCommandAudited` |
| `wsread` | 2 messages of 1 to 3 fragments, limit 2 fragments, heartbeat of 2 ticks, write timeout 3, up to 2 writes before a pong, 1 ping of the broker, 2 pieces in flight | `DeliveredInOrder`, `DeadBrokerNoticed`, `QuietBrokerKept` (16 million states) |
| `wsread_complete` | 2 messages of 2 fragments | counterexample to `MessagesComplete` |
| `conn` | 2 writers and the closer, any number of writes | `FramesContiguous`, `CloseCompletes`, `WritesReturn` |
| `process` | 4 lines of `run`, 2 of goroutines, 2 days, 4 documents on the disk, 22 depot paths | `FiledByDay`, `LostOnlyByFailure`, `ScopeBySegment`, `CleanExitLosesNothing` (1.1 million states) |
| `process_scope` | the same documents and paths, one day, one start | counterexample to `ScopeRespectsBoundary` |
| `command` | all compiled verbs, a reserved and an unknown one; up to 2 of 7 argument names with any of 10 values; any set of tools; durations of 64 values; output to 7 bytes, ceiling 6, changelists of up to 3 files | `UnknownRevealsNothing`, `AdmittedIsValid`, `LimitsKept`, `BudgetKept`, `TruncationReported`, `WholeOutputOnly`, `ImplementsHandling` |

### The properties

- `OncePerWindow`: when a claim is admitted, no other admitted claim of its id,
  by this process, has a reading less than a window old. `DenialJustified`: a
  denied claim has such a claim. `TableBounded`: pruning keeps the table at its
  limit plus one, unless all entries are still needed.
- `CountersExact`: `sem` and `wg` equal the number of goroutines they stand for,
  at every step. `BoundedTools` is about the commands in progress in the process,
  although each session makes a semaphore of its own. `QuiescentBetweenSessions`: outside `pump` there
  is no reader, heartbeat or handler. `NoHalfDeadSession`: if the reader or the
  heartbeat has stopped while `pump` waits, there is an error to wake it.
  `AuditNamesSession`: the line of a command names the session the command came
  from, though the handler reads the Runner's current id. `AuditTrail`: a reply
  that was sent has its audit line with the same status, and after `pump` every
  command that had a handler has a line.
- `AnswersAudited`: what a caller is given came over its own session for its own
  id, and the connector's audit log has that command's line, with the same status
  and session. It may be the result of another call with the same id: `await`
  goes by the id. `DuplicateExplained`: a caller that is told "duplicate" can
  conclude that another delivery of its id was granted within the last window, be it
  on a session that is gone, and that it is being handled or has a line of its own
  that says something other than "duplicate". It cannot conclude that anything ran:
  the claim comes before `Resolve`, and the delivery that was granted may have been
  denied for another reason. `SessionsAgree`: the connector is in `pump` only on a
  connection that was welcomed, under that session's id; a command that was sent
  before the welcome spoils the handshake and never runs.
- `ShutdownCompletes`: after the signal, `Run` returns. `SessionReplaced`: a
  session whose connection is lost ends, and the loop dials again or returns.
  `CallsSettle`: a command that was issued is answered, or its session ends.
- `ImplementsHandling`: a command runs only if it is permitted, once; its result is
  final; it is logged before it is written to the connection, with the same
  status, and both happen at most once, however sessions end meanwhile. In
  `command`, where the claim is granted, a denial means that the command is not
  permitted, and a deadline that passes anywhere leaves one result.
- `NoConnectionLeak` includes a connection whose upgrade or handshake was
  refused.
- `DeliveredInOrder`: unless a read was given up inside a message (`torn`), the
  messages returned are those sent, in order and complete, and what is gathered
  is the beginning of the next. `DeadBrokerNoticed`: the loop never waits two
  windows (four heartbeats) without a frame, or, if that is longer, for more than
  the write timeouts of a pong and of every write that gets the lock before it.
  With the shortest heartbeat (5 s) the 30 s of the pong alone are longer than two
  windows (20 s); with the default (25 s) it takes three slow writers before it. `QuietBrokerKept`: the idle rule never drops a live broker that answers
  pings before the next heartbeat, unless one of the connector's own writes
  stalled or a read was torn.
- `FramesContiguous`: a part that is not the first follows its predecessor, and
  as long as no frame was cut a frame starts where another has ended.
- `FiledByDay`, `LostOnlyByFailure`: see section 1. A line lost to a closed
  handle ("stale") has, as its cause, a line whose rotation could not open the
  file of another day.
- `CleanExitLosesNothing`: a process that ends by itself, with success or with an
  error, leaves no line begun and not written. `ScopeBySegment`: with the scopes a
  process has loaded, a path is admitted exactly if its whole names lie at or below
  one of those in the document, name by name, or it is the root of one with a
  wildcard right behind it. `ScopeRespectsBoundary` is the statement without the
  exception, and fails (section 7).
- `AdmittedIsValid`: a command is denied exactly when it is not valid, where
  valid is stated without an order (`Satisfies`). `UnknownRevealsNothing`: the
  answer to a verb that is not compiled in depends on neither tools nor
  arguments. `LimitsKept`: deadline and `max_bytes` are positive and within their
  caps. `BudgetKept`: the charges of the files returned add up to at most
  `max_bytes`. `TruncationReported`: a result says that it is truncated exactly when
  it leaves something out, except that `p4.changes` never says so, and the files
  returned are the first ones. `WholeOutputOnly`: for an "ok" result of a Perforce
  verb, `run` had all that `p4` wrote to decode; what it makes of an undecodable
  record is another matter.

### Why the bounds are enough

- `dedupe`: a replay inside the window, one after it and one with an outdated
  reading need three deliveries of one id; outgrowing a limit of one needs two
  other ids; the clock passes the window twice.
- `session`: with two slots both handlers exist side by side, and either may claim
  the id first; the one that `Resolve` denies records the id all the same. A
  command that waits for a slot, and a retry that runs when the window has passed,
  are in `exchange`; any number of either is in the proofs (section 6). Two
  connections let a handler, were it to survive, meet the next session. Within a
  session, breaks, idle timeouts, write failures and cancellation come at any step. Attempts and connections are capped by
  `MaxAttempt` (`Counted`) and `MaxConns` (`DialSucceeds`); `DialFails` is not
  bounded.
- `exchange`: two calls with one id are a call and its retry, in either order, on
  one session or on two; each may be lost, denied, answered late or sent before the
  welcome. `Resolve` denies one of them, so a duplicate may be told of a delivery
  that ran or of one that did not. The two calls share one slot, so one waits in the
  reader while the other runs. `exchange_liveness`: with one slot, a call that is not given back blocks the other; the broker's frames stop
  by themselves, so one connection shows every end of a session.
- `wsread`: a tick of half a heartbeat puts deadlines between pongs and on them.
  The window is four ticks; the write timeout of three is shorter than two
  windows, as 30 s is for the default heartbeat of 25 s. `WaitLimit` is defined
  for both cases; with two writers before a pong its limit is nine ticks, beyond two
  windows. The proof covers any number. Three fragments exceed the limit of
  two. `MaxWire`, `MaxMessages` and `MaxPings` bound the broker only; time is
  not bounded.
- `conn`: two writers suffice for one to hold the lock, one to wait, and Close to
  wait too. There is no bound on the number of frames.
- `process`: two days let the log be turned back to the first and forth again,
  and let a failed rotation close the file of the other day; `rotate` only tells
  equal days from others. Two goroutines and `run` can be inside `Write` around
  midnight. Four lines of `run` are two processes from start to exit, or more that
  end early. Two lines of goroutines let a handler write while another is started
  and `pump` waits. The documents on the disk write their scopes with a slash,
  without, and as the root; one enables a tool that cannot be built, one does not
  decode. `LoadAssumption` has TLC evaluate `Load` on 30 documents, which differ
  from a good one in one respect, or in two where `Load` looks at two together. The
  paths have a name that begins another one, the root, and each tail.
- `command`: the schemas have at most three arguments, of which one is required;
  two supplied ones give every pair of a good or bad, known or unknown, required
  or optional argument (the proof covers any number). With 4 units to the
  millisecond and 64 durations, 8 and 12 ms wrap to negative ones and 17 ms to a
  small positive one. A ceiling one below the longest output lets a chunk end at
  it and beyond it. The changelists have a file over the whole budget, one that
  fits after one that does not, and more files than `max_files`.

Symmetry is used in `dedupe` (deliveries of one id) and `process` (lines), runs
without liveness properties.

No run turns deadlock checking off: the specifications say explicitly where they
may stop (`Exited`, `Stop`) or always have a step.

## 5. Fairness

Safety runs use none. `exchange_liveness` uses `XFairSpec`:

- `WF(Main)`: `Dial` and the handshake have timeouts, a backoff has a timer, and
  `Close` returns (`CloseCompletes` of `Conn`).
- `WF` of the reader's steps: a read on a closed or broken connection returns;
  a select with a ready case is taken. `IdleTimeout` of a live connection is not
  fair: nothing forces it.
- `WF(HeartbeatStops)`: the heartbeat sees `ctx.Done()`.
- `WF` of each handler: a tool call ends by its deadline (`execute` runs under
  `context.WithTimeout`, which aborts the HTTP request or kills `p4`), a write by
  the 30 s write deadline (`WritesReturn`). This takes `p4` to have no child of
  its own that keeps its output open: `exec.Cmd` would wait for it without a
  limit, and then none of the three liveness properties would hold.
- `WF` of the broker's threads: the welcome follows the listing (`Welcomes`), a
  result that has arrived is read (`ReadsResult`), and `serve` ends when its
  connection is gone (`Drops`, fair only then: `read_message` fails or times out).
  That a broker lists a session, issues or closes is not fair.

`conn` assumes that a `Write` returns by its deadline (`WF(Write(g))`) and that
`sync.Mutex` does not starve a waiter (`SF(Lock(g))`), which its starvation mode
guarantees. Nothing is assumed of the network, of signals or of the disk.

## 6. Proofs

All proofs are checked by `tlapm`. They hold for every value of the constants
that satisfies the named assumptions (`ClaimTableAssumption`,
`DedupeAssumption`, `SessionAssumption`, `UnregisteredAssumption`,
`WsReadAssumption`, `ConnAssumption`, `AuditLogAssumption`,
`ProcessAssumption`, `CommandAssumption`): any number of commands, slots,
connections, writers, lines and days, any window, heartbeat and timeouts, any
documents and paths, any arguments, limits and changelists.

**DedupeProofs.** `OncePerWindow` is not inductive by itself. The invariant adds
`RecordedUntilExpired` (an admitted claim of this process is out of the window,
or is in the table with its own reading) and `TableJustified` (an entry is the
reading of an admitted claim), which are theorems of their own. The crux is that
pruning with an outdated reading deletes less, never more, because readings never
exceed the clock.

**SessionProofs.** `IInv` joins the type invariant with `MainInv` (what the main
goroutine's position says of the connection and of the other goroutines),
`ReaderInv` (a frame is read at most once, so a handler is started once),
`HandlerInv` (a live handler belongs to the session in progress; how far it has
got determines its outcome, line and reply), `ConnInv`, and the counting
properties. `QuiescentBetweenSessions` follows from `wg = 0` and
`CountersExact`; it is what makes the other facts survive a reconnect. Then the
safety properties follow, and the three refinements: every step of `Session` is
a step of `Dedupe` or a stutter under the mapping of handler positions to claim
states, and likewise for `Reconnect` and `Handling`. The last needs of
`HandlerInv` that a handler has no outcome before it settles, and that it has
neither line nor reply before it writes them: that makes each of them final.
`DelaysBounded` needs no state: it is the range of `backoff`.

**ExchangeProofs.** Every step of `Exchange` is a step of `Session` or leaves it
alone (`RefinesSession`), so `IInv` holds here too. `XIInv` adds what the broker
knows: frames travel only on a welcomed connection, each on the session it was
issued on (`FramesKnown`); a denied duplicate was preceded by a claim that was
granted, on a connection that is not a later one (`DenialsFollow`, for which
connections only count up, `ViaKnown`); a result in flight or kept was written by
the handler of a command of that session (`ResultsKnown`); and `Dedupe`'s own invariant on
the table, through the refinement (`ClaimsJustified`). The three properties follow
from both invariants.

**WsReadProofs.** `TimersInv`: while a call is reading, the time waited plus the
time left is less than two windows, unless the call's deadline has been used up
by a pong that was slow to be written. While a pong is out, the time waited plus
what the writes ahead of it, the one in progress and its own may still take is
within `PongLimit`, or the wait is one of the first kind (`Queue` is the arithmetic
of that: a write that ends leaves one less, with a full timeout).
`DeadBrokerNoticed` follows.

The other two properties need the whole of `IInv`. A *place* in the stream is a
message and a number of fragments of it: `SenderAt` is where the broker is,
`ReaderAt` where `msg` and `delivered` are. `StreamInv` says that, as long as no
read was torn, the pieces on the wire lead from the place of the reader to that of
the sender, each fitting where the one before it ends (`WireConnects`); a control
frame leaves the place alone and the second part of a split frame follows its
first. Reading takes the first piece and moves the reader after it, so
`DeliveredInOrder` is what the reader's place says. `QuietInv` is about a live
broker: `SignWithin` is the time within which it gives a sign of life, now if a
pong is on the wire, else when the pong is due, else after the next ping. The sign
comes before the silence is a window long, or before the read in progress times
out, whichever is later; so no read ends with a window of silence behind it, which
is `QuietBrokerKept`.

**ConnProofs.** `LockInv` (inside a frame exactly when holding `writeMu`) and
`FrameInv` (the last part on the socket is the one before the holder's next).

**AuditLogProofs.** `HandleInv`: a closed handle is the trace of a rotation that
failed, away from the day of the handle. With it every lost line has its cause.

**ProcessProofs.** `RefinesAuditLog` gives the properties of the log to the
process. `PIInv` adds that `wg` is the read loop plus the handlers there are
(`GroupCounts`), that outside `pump` there is neither (`OutsidePump`: `PumpReturns`
has seen `wg = 0`), who may be inside `Write` at each stage (`WritersKnown`), and
that `cfg` and `execs` come from the document (`LoadedFrom`). So an end that is no
crash finds nobody inside `Write`: that is `CleanExitIsComplete`, and without the
`wg.Add` of a handler it fails. `ScopesGoBySegment` rests on two lemmas on texts:
once an entry ends in a slash, being its root or beginning with it is the same as
its names being a prefix (`PrefixOfSegments`), also when the last name of the path
is only the beginning of one (`PrefixOfFront`).

**CommandProofs.** `ResolveCorrect` does without the state: the first denial of a
sequence is "none" exactly when no check denies (`FirstLemma`, by the
well-foundedness of the naturals), so `Resolve` admits what is valid and nothing
else. `IInv` joins `AdmitInv` (the verdict decides), `BufferInv` (the buffer has
everything that was written until it overflows, and the ceiling's worth after),
`ShapeInv` (the files returned are those before the first that did not fit),
`LimitsKept`, and `SpendInv`: what the files returned cost and what is left of the
budget are within `max_bytes`. `Wrap` is only known to return an integer: the
limits hold for any width. All properties of the run follow, `BudgetKept` by
`SumAppend`: the sum of a list that got one longer is the sum of the list plus the
new element. A sum is a recursive function; that the function exists, and that it
has one value, are shown for each list by a least counterexample among its finitely
many beginnings (`SumsExist`, `SameSums`), since an induction rule that takes a
predicate is out of the provers' reach. `RefinesHandling` uses `ResolveCorrect` for
both directions of the verdict; every step of `execute` is a stutter.

Only model-checked: the liveness properties `ShutdownCompletes`,
`SessionReplaced`, `CallsSettle`, `CloseCompletes` and `WritesReturn` (fairness is
beyond the prover). Every invariant, action property and refinement that a passing
run checks is a theorem. The run `session` checks its inductive invariant itself, so
a mistake in it shows as a short counterexample; TLC has confirmed those of `conn`,
`command` and `wsread` on the instances of their runs before they were proved.

## 7. Where code and documents differ

Four runs end in a counterexample to a statement of the repository.

- `process_scope`: `vocab.go:521-522` and `PROTOCOL.md:252` say that a wildcard
  can never climb above the scope, and `TestDepotScopeRespectsSegmentBoundary`
  (`vocab_test.go:185-189`) that only a real segment boundary counts.
  `literalPrefix` cuts `//depot/game...` and `//depot/game*` down to `//depot/game`,
  which `withinPrefixList` (`vocab.go:574`) takes for the root of `//depot/game/`;
  both are admitted, and both match `//depot/gamesecret`. The cases of the test have
  a slash before the wildcard. `ScopeBySegment` states what holds, with this
  exception.
- `dedupe_restart`: `PROTOCOL.md:195-197` says a duplicate id inside a ten-minute
  window is rejected rather than executed again; the table is in memory, so this
  holds of one process, not across a restart.
- `session_audit`: `PROTOCOL.md:368` says "One local audit line per command,
  whatever the outcome". A command that was read and waits for a slot is dropped
  without a line when the session ends (`session.go:303`). The broker has no
  result for it either. `AuditTrail` states what does hold: every command that
  got a handler has its line.
- `wsread_complete`: `wsclient.go:313` says `ReadMessage` "returns the next
  complete text message". When it times out between two fragments while a frame
  was seen within the window, the loop calls it again (`session.go:279`) and the
  remaining fragments are returned as a message of their own. Inside a frame the
  stream is then read out of step. The broker's own library does not fragment
  small messages, so this needs a slow network or a large message;
  `DeliveredInOrder` states what holds when no read was torn.

Four more were met while translating, and have no run of their own:

- `PROTOCOL.md:35` says "floor 500 ms, cap 60 s"; `backoff` adds the floor after the
  cap (`session.go:152`), so a delay may reach 60.5 s. This is the theorem
  `DelaysBounded`.
- `PROTOCOL.md:200-201` and `protocol.go:4-6` say that the connector truncates at
  `max_bytes` for every verb and says so; `changes` (`perforce.go:183`) does not look
  at it, only the ceiling on the child's output bounds its result, and it always
  says that nothing was cut. That includes what `run` drops: it takes the first
  record that does not decode for the end of the output (`perforce.go:294-300`).
  `TruncationReported` names the exception.
- `protocol.go:102` says that a frame of unknown type is a no-op rather than a
  reason to close; before the welcome it ends the session (`session.go:209`).
- `perforce.go:176` says that a record's charge is rounded up; the escapes of
  the JSON encoder are not counted.

## 8. What is not modelled

- Bytes inside frames: masks, JSON, the encoding of a result, the headers of the
  upgrade, the payload of `hello`, `welcome` and `heartbeat`. `internal/protocol`
  has nothing else: its frame kinds and statuses are those of `Session`,
  `Exchange` and `Command`. `Session` has the whole of `execute` as one step;
  `Command` takes it apart, for one command.
- In `internal/vocab`, `validateDepotPath` and the patterns (classes of values),
  `Selfcheck` (its outcome is the same for every run of a build, and a test has
  it), and the allowlists of build types and repositories, which no compiled verb
  uses.
- In `internal/config`, the syntax of URLs, tokens and durations (classes), the
  directory of the log, and the text of `Redacted`. `Load` keeps a negative
  timeout; what a tool makes of it is not modelled.
- In `internal/tools`, the command line and environment of `p4`, the projection
  of TeamCity's replies, and the wording and redaction of errors. The encoded
  size of a file: `approxJSONBytes` does not count the encoder's escapes, so it
  is an estimate and not a bound; `BudgetKept` speaks of the charges.
- The child process of `p4`: its deadline is taken as met (section 5).
- `ArgsDigest`, `AcceptKey`, logging to the console, the flags that print and
  exit, packaging; who may connect to the broker (its tokens and refusals).
- The wall clock's steps: `lastActivity` is kept as unix nanoseconds, so a step
  of the clock disturbs the idle rule; `WsRead` has a steady clock. `AuditLog`
  has a day that never goes back.
- In `Session` a heartbeat's write that succeeds, and the answers to pings, are
  left to `Conn` and `WsRead`.
- How long a shutdown takes: `Dial` and the wait for the welcome do not look at
  the context and end by their own timeouts, 10 s and 15 s in `Dial`, 30 s for the
  welcome. `ShutdownCompletes` says that it ends.

## 9. Plan

Done: the claim of ids, the session lifecycle with its refinements, the exchange
with a broker, message assembly and the idle rule, the write side, the audit log,
configuration and the life of the process, the admission and the execution of a
command with what `Session` takes for granted of it, and the theorems of section 6.

What is left:

1. `Session` and `Process` composed: `Process` has its own, coarser account of the
   read loop, the handlers and the WaitGroup, and `Session` has the audit line of a
   handler as one step. A refinement between them would say that the two agree.
2. `Dial` under its own timeouts and the context, to bound how long a shutdown
   may take.
