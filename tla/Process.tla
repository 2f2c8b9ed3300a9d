------------------------------- MODULE Process -------------------------------
(***************************************************************************)
(* The connector process (cmd/butterstack-connector/main.go: run): it      *)
(* loads connector.yml, opens the audit log, builds the tools, catches the *)
(* signals, runs sessions until one comes, and closes the log.  The        *)
(* service manager starts it again with whatever document is on the disk   *)
(* then.  Its audit lines are those of AuditLog.  The ones that run does   *)
(* not write are written below Run: by its loop, by the read loop of a     *)
(* session, and by a handler for each command, which pump waits for with a *)
(* WaitGroup before Run goes on.  Session has the rest of a session.       *)
(***************************************************************************)
EXTENDS AuditLog, Config, FiniteSets

CONSTANTS
    MainLines,  \* the calls of Write by run itself; bounds the starts
    Docs,       \* what may be on the disk when a process starts
    NoDoc,      \* there is no process
    Paths       \* depot paths a command may ask for

ASSUME ProcessAssumption ==
    /\ MainLines \subseteq Lines
    /\ Docs \subseteq Documents
    /\ \A path \in Paths :
          /\ path \in Texts
          /\ path.rooted
          /\ path.tail = "*" => path.segs # <<>>

VARIABLES
    proc,       \* how far run has got; "down" when there is no process
    doc,        \* the document the process has started from
    cfg,        \* cfg of run
    execs,      \* Runner.execs, the tools it has an executor for
    exit,       \* how the last process ended
    pump,       \* where the goroutine of Run is: outside pump, in its select,
                \* or in wg.Wait
    readers,    \* the number of read loops
    wg,         \* the counter of pump's WaitGroup
    by          \* by[w]: the goroutine of Run that is at line w: its loop, the
                \* read loop, or the handler whose line w is

group == <<pump, readers, wg, by>>
main  == <<doc, cfg, execs, exit>>
pvars == <<vars, proc, main, group>>

SessionLines == Lines \ MainLines
Serving == {"running", "stopping"}
Stages  == {"down", "loading", "opened", "announcing", "announced", "running",
            "stopping", "returned", "closing", "closed"}
Nobody == [w \in SessionLines |-> "none"]

PInit ==
    /\ Init
    /\ proc = "down" /\ doc = NoDoc
    /\ cfg = NoConfig /\ execs = {} /\ exit = "never"
    /\ pump = "out" /\ readers = 0 /\ wg = 0 /\ by = Nobody

--------------------------------------------------------------------------------
Exec ==
    /\ proc = "down"
    /\ proc' = "loading" /\ doc' \in Docs
    /\ UNCHANGED <<vars, cfg, execs, exit, group>>

(* os.Exit(1), or the return of main, after the deferred Close of the log; or
   the process is killed.  Its memory is gone, and its goroutines. *)
Ends(how) ==
    /\ proc' = "down" /\ exit' = how
    /\ doc' = NoDoc /\ cfg' = NoConfig /\ execs' = {}
    /\ pump' = "out" /\ readers' = 0 /\ wg' = 0 /\ by' = Nobody
    /\ Restart

(* config.Load and audit.New *)
OpenLog ==
    /\ proc = "loading"
    /\ Load(doc) # NoConfig
    /\ Cardinality({m \in MainLines : pc[m] = "new"}) >= 2     \* bound
    /\ proc' = "opened" /\ cfg' = Load(doc)
    /\ UNCHANGED <<vars, doc, execs, exit, group>>

(* Load fails, and nothing was opened; or audit.New does, for any document. *)
RefusesToStart ==
    /\ proc = "loading"
    /\ Ends("failure")

(* log.Event: one line stands for the startup lines, one is of the shutdown. *)
MainStamps(m) ==
    /\ \/ proc = "opened" /\ proc' = "announcing"
       \/ proc = "returned" /\ proc' = "closing"
    /\ Stamp(m)
    /\ UNCHANGED <<main, group>>

MainEmits(m) ==
    /\ \/ proc = "announcing" /\ proc' = "announced"
       \/ proc = "closing" /\ proc' = "closed"
    /\ Emit(m)
    /\ UNCHANGED <<main, group>>

(* session.New, and signal.NotifyContext: until here a signal kills. *)
NewRunner ==
    /\ proc = "announced"
    /\ \A t \in Tools(cfg) : Builds(cfg, t)
    /\ proc' = "running"
    /\ execs' = Tools(cfg)
    /\ UNCHANGED <<vars, doc, cfg, exit, group>>

NewRunnerFails ==
    /\ proc = "announced"
    /\ \E t \in Tools(cfg) : ~Builds(cfg, t)
    /\ Ends("failure")

(* SIGINT or SIGTERM; another one changes nothing. *)
Signal ==
    /\ proc = "running"
    /\ proc' = "stopping"
    /\ UNCHANGED <<vars, main, group>>

--------------------------------------------------------------------------------
(* Below Run.  A goroutine is in one Write at a time. *)
Idle(g) == \A w \in SessionLines : by[w] # g

(* The loop of Run, runOnce, and what they log outside pump *)
LoopStamps(w) ==
    /\ proc \in Serving /\ pump = "out" /\ Idle("loop")
    /\ by[w] = "none" /\ Stamp(w)
    /\ by' = [by EXCEPT ![w] = "loop"]
    /\ UNCHANGED <<proc, main, pump, readers, wg>>

(* pump begins; the heartbeat, which writes no line, is left out. *)
Pump ==
    /\ proc \in Serving /\ pump = "out" /\ Idle("loop")
    /\ pump' = "in" /\ readers' = 1 /\ wg' = 1
    /\ UNCHANGED <<vars, proc, main, by>>

(* A frame that is dropped or ignored *)
ReaderStamps(w) ==
    /\ readers = 1 /\ Idle("reader")
    /\ by[w] = "none" /\ Stamp(w)
    /\ by' = [by EXCEPT ![w] = "reader"]
    /\ UNCHANGED <<proc, main, pump, readers, wg>>

(* Fault: wg.Add is left to the handler, which may not have got there. *)
StartsUncounted(w) ==
    /\ readers = 1 /\ Idle("reader")
    /\ pc[w] = "new" /\ by[w] = "none"
    /\ by' = [by EXCEPT ![w] = "handler"]
    /\ wg' \in {wg, wg + 1}
    /\ UNCHANGED <<vars, proc, main, pump, readers>>

(* The read loop takes a command: wg.Add before the go statement. *)
StartsHandler(w) ==
    /\ readers = 1 /\ Idle("reader")
    /\ pc[w] = "new" /\ by[w] = "none"
    /\ by' = [by EXCEPT ![w] = "handler"]
    /\ wg' = wg + 1
    /\ UNCHANGED <<vars, proc, main, pump, readers>>

(* The deferred Write of handle *)
HandlerStamps(w) ==
    /\ by[w] = "handler"
    /\ Stamp(w)
    /\ UNCHANGED <<proc, main, group>>

SessionEmits(w) ==
    /\ Emit(w)
    /\ by' = IF by[w] = "handler" THEN by ELSE [by EXCEPT ![w] = "none"]
    /\ UNCHANGED <<proc, main, pump, readers, wg>>

(* wg.Done of a handler, after its line and its result *)
HandlerEnds(w) ==
    /\ by[w] = "handler" /\ pc[w] = "done"
    /\ by' = [by EXCEPT ![w] = "none"]
    /\ wg' = wg - 1
    /\ UNCHANGED <<vars, proc, main, pump, readers>>

(* The read loop fails, or finds the context done. *)
ReaderEnds ==
    /\ readers = 1 /\ Idle("reader")
    /\ readers' = 0 /\ wg' = wg - 1
    /\ UNCHANGED <<vars, proc, main, pump, by>>

(* An error was reported, or the context is done: pump closes the connection
   and waits, while the read loop may take a last command. *)
PumpWaits ==
    /\ pump = "in"
    /\ pump' = "waiting"
    /\ UNCHANGED <<vars, proc, main, readers, wg, by>>

PumpReturns ==
    /\ pump = "waiting" /\ wg = 0
    /\ pump' = "out"
    /\ UNCHANGED <<vars, proc, main, readers, wg, by>>

(* Run finds its context done, between sessions. *)
RunReturns ==
    /\ proc = "stopping" /\ pump = "out" /\ Idle("loop")
    /\ proc' = "returned"
    /\ UNCHANGED <<vars, main, group>>

--------------------------------------------------------------------------------
CloseLog ==
    /\ proc = "closed"
    /\ Ends("success")

(* Any other end: a signal before NotifyContext, SIGKILL, a panic, the machine *)
Crash ==
    /\ proc # "down"
    /\ Ends("killed")

PMidnight == Midnight /\ UNCHANGED <<proc, main, group>>

PNext ==
    \/ Exec \/ OpenLog \/ RefusesToStart \/ NewRunner \/ NewRunnerFails
    \/ Signal \/ RunReturns \/ CloseLog \/ Crash \/ PMidnight
    \/ \E m \in MainLines : MainStamps(m) \/ MainEmits(m)
    \/ Pump \/ ReaderEnds \/ PumpWaits \/ PumpReturns
    \/ \E w \in SessionLines :
          \/ LoopStamps(w) \/ ReaderStamps(w) \/ HandlerStamps(w)
          \/ SessionEmits(w) \/ StartsHandler(w) \/ HandlerEnds(w)

PSpec == PInit /\ [][PNext]_pvars

--------------------------------------------------------------------------------
(***************************************************************************)
(* Validate and withinPrefixList together: with the scopes a process has   *)
(* loaded, a path is admitted exactly if its whole names lie at or below a *)
(* scope of the document, name by name, whether or not that was written    *)
(* with a slash; neither function gives this alone.  The exception is the  *)
(* root of a scope with a wildcard right behind it.                        *)
(***************************************************************************)
ScopeBySegment ==
    proc \in Serving /\ "perforce" \in execs =>
        \A path \in Paths :
            InScope(path, cfg.scopes) <=>
                AtOrBelow(path, doc.scopes) \/ RootThenWild(path, doc.scopes)

(***************************************************************************)
(* PROTOCOL.md:252, "a wildcard can never climb above the scope"; the      *)
(* comment of withinPrefixList, "matching only on a real path-segment      *)
(* boundary"; TestDepotScopeRespectsSegmentBoundary: no exception.         *)
(***************************************************************************)
ScopeRespectsBoundary ==
    proc \in Serving /\ "perforce" \in execs =>
        \A path \in Paths : InScope(path, cfg.scopes) => AtOrBelow(path, doc.scopes)

(***************************************************************************)
(* The message of the shutdown line, "socket closed and audit log          *)
(* flushed": a process that ends by itself, well or not, has written every *)
(* line that was begun.                                                    *)
(***************************************************************************)
CleanExitLosesNothing ==
    [][proc # "down" /\ proc' = "down" /\ exit' # "killed" =>
         \A w \in Lines : pc'[w] = "gone" => pc[w] = "gone"]_pvars

--------------------------------------------------------------------------------
(* The inductive invariant, with AuditLog's own: who may be in the middle of
   a Write at each stage, what the WaitGroup counts, and where the
   configuration comes from. *)
Handlers == {w \in SessionLines : by[w] = "handler"}

GroupCounts ==
    /\ by \in [SessionLines -> {"none", "loop", "reader", "handler"}]
    /\ pump \in {"out", "in", "waiting"}
    /\ readers \in {0, 1}
    /\ IsFiniteSet(Handlers)
    /\ wg = readers + Cardinality(Handlers)

OutsidePump ==
    /\ pump = "out" => readers = 0 /\ Handlers = {}
    /\ readers = 0 => Idle("reader")
    /\ pump # "out" => proc \in Serving /\ Idle("loop")
    /\ proc \notin Serving => Idle("loop")

WritersKnown ==
    /\ \A m \in MainLines : pc[m] = "stamped" => proc \in {"announcing", "closing"}
    /\ \A m, n \in MainLines : pc[m] = "stamped" /\ pc[n] = "stamped" => m = n
    /\ \A w \in SessionLines : pc[w] = "stamped" => by[w] # "none"
    /\ \A w \in SessionLines : by[w] \in {"loop", "reader"} => pc[w] = "stamped"

LoadedFrom ==
    /\ proc # "down" => doc \in Docs
    /\ proc \notin {"down", "loading"} => cfg = Load(doc) /\ cfg # NoConfig
    /\ proc \in Serving => execs = Tools(cfg) /\ \A t \in execs : Builds(cfg, t)

PIInv == proc \in Stages /\ GroupCounts /\ OutsidePump /\ WritersKnown /\ LoadedFrom
================================================================================
