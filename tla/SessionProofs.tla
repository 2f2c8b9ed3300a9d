----------------------------- MODULE SessionProofs -----------------------------
(***************************************************************************)
(* Proofs about Session for any number of commands, any bound on the tool  *)
(* calls, any number of connections and any window.                        *)
(***************************************************************************)
EXTENDS Session, FiniteSetTheorems, TLAPS

(* The bounds are natural numbers. *)
LEMMA Bounds ==
    /\ MaxConcurrent \in Nat /\ MaxConcurrent > 0
    /\ MaxAttempt \in Nat /\ MaxAttempt > 0
    /\ MaxConns \in Nat /\ MaxNow \in Nat
BY SessionAssumption

--------------------------------------------------------------------------------
(* Cardinality of a finite set that gains or loses an element *)

(* Its cardinality grows by one, *)
LEMMA Gains ==
    ASSUME NEW S, IsFiniteSet(S), NEW x, x \notin S
    PROVE  /\ IsFiniteSet(S \cup {x})
           /\ Cardinality(S) \in Nat
           /\ Cardinality(S \cup {x}) = Cardinality(S) + 1
BY FS_AddElement, FS_CardinalityType

(* or shrinks by one. *)
LEMMA Loses ==
    ASSUME NEW S, IsFiniteSet(S), NEW x \in S
    PROVE  /\ IsFiniteSet(S \ {x})
           /\ Cardinality(S) \in Nat \ {0}
           /\ Cardinality(S \ {x}) = Cardinality(S) - 1
<1>1. IsFiniteSet(S \ {x}) /\ Cardinality(S \ {x}) = Cardinality(S) - 1
  BY FS_RemoveElement
<1>2. Cardinality(S) \in Nat /\ Cardinality(S \ {x}) \in Nat
  BY <1>1, FS_CardinalityType
<1> QED
  BY <1>1, <1>2

(* A goroutine that exists has been counted. *)
LEMMA CountedLemma ==
    ASSUME IInv
    PROVE  /\ IsFiniteSet(Live) /\ IsFiniteSet(Holding)
           /\ Cardinality(Live) \in Nat /\ Cardinality(Holding) \in Nat
           /\ \A f \in Holding : sem > 0
           /\ \A f \in Live : wg > 0
           /\ hb = "on" \/ rd \in {"read", "sem"} => wg > 0
<1>1. IsFiniteSet(Live) /\ CountersExact
  BY DEF IInv
<1>2. Holding \subseteq Live
  BY DEF Holding, Live, LivePcs
<1>3. IsFiniteSet(Holding)
  BY <1>1, <1>2, FS_Subset
<1>4. Cardinality(Live) \in Nat /\ Cardinality(Holding) \in Nat
  BY <1>1, <1>3, FS_CardinalityType
<1>5. ASSUME NEW f \in Holding PROVE Cardinality(Holding) > 0
  <2>1. Cardinality(Holding) \in Nat \ {0}
    BY <1>3, <1>5, Loses
  <2> QED
    BY <2>1
<1>6. ASSUME NEW f \in Live PROVE Cardinality(Live) > 0
  <2>1. Cardinality(Live) \in Nat \ {0}
    BY <1>1, <1>6, Loses
  <2> QED
    BY <2>1
<1> QED
  BY <1>1, <1>3, <1>4, <1>5, <1>6 DEF CountersExact, One

--------------------------------------------------------------------------------
(* What each goroutine leaves alone *)

(* runOnce and pump's main goroutine leave the handlers alone. *)
LEMMA MainFrame == Main => UNCHANGED <<ctxDone, issued, handlerVars, now>>
BY DEF Main, RunTop, BackoffElapsed, BackoffCancelled, DialSucceeds, DialFails,
       Upgraded, UpgradeFails, SayHello, Welcomed, HandshakeFails,
       PumpFails, PumpCancelled, PumpCloses,
       PumpReturns, AfterRunOnce, connVars, handlerVars, runnerVars

(* The heartbeat goroutine leaves the connection, the reader and the handlers alone. *)
LEMMA HeartbeatFrame ==
    Heartbeat => UNCHANGED <<mainVars, connVars, cancelled, sem, rd, held,
                             handlerVars, runnerVars>>
BY DEF Heartbeat, HeartbeatFails, HeartbeatStops

(* The reader leaves the main goroutine alone, and what handlers have done. *)
LEMMA ReaderFrame ==
    Reader => UNCHANGED <<mainVars, conn, sock, issued, cancelled, hb,
                          name, reading, outcome, line, sent, runnerVars>>
BY DEF Reader, ReadCommand, ReadOther, ReadFails, IdleTimeout, ReaderFails,
       StartHandler, AbandonCommand, connVars, pumpVars, handlerVars

(* A handler leaves the connection and the other goroutines alone. *)
LEMMA HandlerFrame ==
    ASSUME NEW f \in Commands, Handler(f)
    PROVE  UNCHANGED <<mainVars, connVars, cancelled, hb, rd, held, via, sessionID, now>>
BY DEF Handler, Enter, ReadClock, Claim, ToolReturns, Finish, ReplySent, ReplyFails,
       Release, Exit, pumpVars, handlerVars, runnerVars

(* The environment leaves the goroutines and the table of ids alone. *)
LEMMA EnvironmentFrame ==
    Environment => UNCHANGED <<runPc, attempt, conn, pumpVars, handlerVars, sessionID, seen>>
BY DEF Environment, Cancel, ConnectionBreaks, Tick, BrokerSends,
       mainVars, connVars, runnerVars

(* A step is one of a goroutine, of the environment, or none. *)
LEMMA NextCases ==
    ASSUME [Next]_vars
    PROVE  \/ Main \/ Heartbeat \/ Reader
           \/ \E f \in Commands : Handler(f)
           \/ Environment
           \/ UNCHANGED vars
BY DEF Next, Exited

--------------------------------------------------------------------------------
(* Type correctness, one lemma per part *)

(* Every step keeps the types of Run and runOnce, *)
LEMMA MainTypeStep == TypeOK /\ [Next]_vars => MainTypeOK'
<1> SUFFICES ASSUME TypeOK, [Next]_vars PROVE MainTypeOK'
  OBVIOUS
<1> USE DEF TypeOK, MainTypeOK, RunPcs
<1>1. CASE Main
  <2>1. runPc' \in RunPcs
    BY <1>1 DEF Main, RunTop, BackoffElapsed, BackoffCancelled, DialSucceeds, DialFails,
         Upgraded, UpgradeFails, SayHello, Welcomed, HandshakeFails,
         PumpFails, PumpCancelled, PumpCloses,
         PumpReturns, AfterRunOnce
  <2>2. attempt' \in 0..MaxAttempt
    <3>1. Counted(attempt + 1) \in 0..MaxAttempt /\ 1 \in 0..MaxAttempt
      BY Bounds DEF Counted
    <3>2. attempt' \in {attempt, 1, Counted(attempt + 1)}
      BY <1>1
         DEF Main, RunTop, BackoffElapsed, BackoffCancelled, DialSucceeds, DialFails,
           Upgraded, UpgradeFails, SayHello, Welcomed, HandshakeFails,
           PumpFails, PumpCancelled, PumpCloses,
           PumpReturns, AfterRunOnce
    <3> QED
      BY <3>1, <3>2
  <2> QED
    BY <1>1, <2>1, <2>2, MainFrame
<1>2. CASE Heartbeat \/ Reader \/ \E f \in Commands : Handler(f)
  BY <1>2, HeartbeatFrame, ReaderFrame, HandlerFrame DEF mainVars
<1>3. CASE Environment
  BY <1>3, EnvironmentFrame DEF Environment, Cancel, ConnectionBreaks, Tick, BrokerSends, mainVars
<1>4. CASE UNCHANGED vars
  BY <1>4 DEF vars, mainVars
<1> QED
  BY <1>1, <1>2, <1>3, <1>4, NextCases

(* of the connection, *)
LEMMA ConnTypeStep == TypeOK /\ [Next]_vars => ConnTypeOK'
<1> SUFFICES ASSUME TypeOK, [Next]_vars PROVE ConnTypeOK'
  OBVIOUS
<1> USE DEF TypeOK, ConnTypeOK, connVars
<1>1. CASE Main
  <2>1. CASE DialSucceeds
    BY <2>1, Bounds DEF DialSucceeds, Conns
  <2>2. CASE UpgradeFails \/ HandshakeFails \/ PumpCloses
    BY <2>2 DEF UpgradeFails, HandshakeFails, PumpCloses
  <2>3. CASE UNCHANGED connVars
    BY <2>3
  <2> QED
    BY <1>1, <2>1, <2>2, <2>3
       DEF Main, RunTop, BackoffElapsed, BackoffCancelled, DialFails, Upgraded, SayHello,
           Welcomed, PumpFails, PumpCancelled, PumpReturns
<1>2. CASE Heartbeat \/ \E f \in Commands : Handler(f)
  BY <1>2, HeartbeatFrame, HandlerFrame
<1>3. CASE Reader
  <2>1. wire' = wire \/ (wire # <<>> /\ wire' = Tail(wire))
    BY <1>3 DEF Reader, ReadCommand, ReadOther, Readable, ReadFails, IdleTimeout,
                ReaderFails, StartHandler, AbandonCommand
  <2>2. wire' \in Seq(Frames)
    BY <2>1
  <2> QED
    BY <1>3, <2>2, ReaderFrame
<1>4. CASE Environment
  <2>1. ASSUME NEW f \in Frames, BrokerSends(f) PROVE ConnTypeOK'
    BY <2>1 DEF BrokerSends
  <2>2. CASE ConnectionBreaks
    BY <2>2 DEF ConnectionBreaks
  <2> QED
    BY <1>4, <2>1, <2>2 DEF Environment, Cancel, Tick
<1>5. CASE UNCHANGED vars
  BY <1>5 DEF vars
<1> QED
  BY <1>1, <1>2, <1>3, <1>4, <1>5, NextCases

(* of pump's counters and channels, *)
LEMMA PumpTypeStep == IInv /\ [Next]_vars => PumpTypeOK'
<1> SUFFICES ASSUME IInv, [Next]_vars PROVE PumpTypeOK'
  OBVIOUS
<1> PumpTypeOK /\ ConnTypeOK
  BY DEF IInv, TypeOK
<1> USE DEF PumpTypeOK, pumpVars
<1>1. CASE Main
  <2>1. CASE Welcomed
    <3>1. cancelled' \in BOOLEAN /\ errCh' \in BOOLEAN
      BY <2>1 DEF Welcomed
    <3>2. /\ sem' \in 0..MaxConcurrent /\ wg' \in Nat
         /\ hb' \in {"off", "on", "done"} /\ rd' \in {"off", "read", "sem", "done"}
         /\ held' \in Commands \cup {NoFrame}
      BY <2>1, Bounds DEF Welcomed
    <3> QED
      BY <3>1, <3>2
  <2>2. CASE PumpFails \/ PumpReturns
    BY <2>2 DEF PumpFails, PumpReturns
  <2>3. CASE UNCHANGED pumpVars
    BY <2>3
  <2> QED
    BY <1>1, <2>1, <2>2, <2>3
       DEF Main, RunTop, BackoffElapsed, BackoffCancelled, DialFails, DialSucceeds,
           Upgraded, UpgradeFails, SayHello, HandshakeFails, PumpCancelled, PumpCloses
<1>2. CASE Heartbeat
  <2>1. cancelled' \in BOOLEAN /\ errCh' \in BOOLEAN
    BY <1>2 DEF Heartbeat, HeartbeatFails, HeartbeatStops
  <2>2. /\ sem' \in 0..MaxConcurrent /\ wg' \in Nat
       /\ hb' \in {"off", "on", "done"} /\ rd' \in {"off", "read", "sem", "done"}
       /\ held' \in Commands \cup {NoFrame}
    BY <1>2, CountedLemma DEF Heartbeat, HeartbeatFails, HeartbeatStops
  <2> QED
    BY <2>1, <2>2
<1>3. CASE Reader
  <2>1. CASE ReadCommand
    BY <2>1 DEF ReadCommand
  <2>2. CASE ReadOther
    BY <2>2 DEF ReadOther
  <2>3. CASE ReadFails \/ IdleTimeout
    <3>1. cancelled' \in BOOLEAN /\ errCh' \in BOOLEAN
      BY <2>3 DEF ReadFails, IdleTimeout, ReaderFails
    <3>2. /\ sem' \in 0..MaxConcurrent /\ wg' \in Nat
         /\ hb' \in {"off", "on", "done"} /\ rd' \in {"off", "read", "sem", "done"}
         /\ held' \in Commands \cup {NoFrame}
      BY <2>3, CountedLemma DEF ReadFails, IdleTimeout, ReaderFails
    <3> QED
      BY <3>1, <3>2
  <2>4. CASE StartHandler
    BY <2>4, Bounds DEF StartHandler
  <2>5. CASE AbandonCommand
    BY <2>5, CountedLemma DEF AbandonCommand
  <2> QED
    BY <2>1, <2>2, <1>3, <2>3, <2>4, <2>5 DEF Reader
<1>4. ASSUME NEW f \in Commands, Handler(f) PROVE PumpTypeOK'
  <2>1. CASE ReplyFails(f)
    BY <2>1 DEF ReplyFails
  <2>2. CASE Release(f)
    <3>1. cancelled' \in BOOLEAN /\ errCh' \in BOOLEAN
      BY <2>2 DEF Release, Holding, HoldingSem
    <3>2. f \in Holding
      BY <2>2 DEF Release, Holding, HoldingSem
    <3>3. sem' \in 0..MaxConcurrent
      <4>1. sem > 0 /\ sem' = sem - 1 /\ sem \in 0..MaxConcurrent
        BY <2>2, <3>2, CountedLemma DEF Release
      <4> QED
        BY <4>1, Bounds
    <3>4. UNCHANGED <<wg, hb, rd, held>>
      BY <2>2 DEF Release
    <3> QED
      BY <3>1, <3>3, <3>4
  <2>3. CASE Exit(f)
    BY <2>3, CountedLemma DEF Exit, Live, LivePcs
  <2> QED
    BY <1>4, <2>1, <2>2, <2>3
       DEF Handler, Enter, ReadClock, Claim, ToolReturns, Finish, ReplySent
<1>5. CASE Environment
  BY <1>5, EnvironmentFrame
<1>6. CASE UNCHANGED vars
  BY <1>6 DEF vars
<1> QED
  BY <1>1, <1>2, <1>3, <1>4, <1>5, <1>6, NextCases

(* of the session id, the table of ids and the clock, *)
LEMMA RunnerTypeStep == IInv /\ [Next]_vars => RunnerTypeOK'
<1> SUFFICES ASSUME IInv, [Next]_vars PROVE RunnerTypeOK'
  OBVIOUS
<1> RunnerTypeOK /\ ConnTypeOK /\ HandlerTypeOK /\ HandlerInv
  BY DEF IInv, TypeOK
<1> USE DEF RunnerTypeOK, runnerVars
<1>1. CASE Main
  BY <1>1, MainFrame
     DEF Main, RunTop, BackoffElapsed, BackoffCancelled, DialFails, DialSucceeds,
         Upgraded, UpgradeFails, SayHello,
         Welcomed, HandshakeFails, PumpFails, PumpCancelled, PumpCloses, PumpReturns, ConnTypeOK
<1>2. CASE Heartbeat \/ Reader
  BY <1>2, HeartbeatFrame, ReaderFrame
<1>3. ASSUME NEW f \in Commands, Handler(f) PROVE RunnerTypeOK'
  <2>1. CASE Claim(f)
    <3> DEFINE table == Pruned(seen, reading[f])
    <3>1. reading[f] \in 0..MaxNow /\ IdOf[f] \in Ids
      BY <2>1, SessionAssumption DEF HandlerTypeOK, HandlerInv, Claim
    <3>2. /\ DOMAIN table \subseteq DOMAIN seen
          /\ table \in [DOMAIN table -> 0..MaxNow]
      BY DEF Pruned, Restrict, Fresh
    <3> QED
      BY <2>1, <3>1, <3>2 DEF Claim, Recorded
  <2> QED
    BY <1>3, <2>1
       DEF Handler, Enter, ReadClock, ToolReturns, Finish, ReplySent, ReplyFails, Release, Exit
<1>4. CASE Environment
  BY <1>4, EnvironmentFrame, Bounds
     DEF Environment, Cancel, ConnectionBreaks, Tick, BrokerSends
<1>5. CASE UNCHANGED vars
  BY <1>5 DEF vars
<1> QED
  BY <1>1, <1>2, <1>3, <1>4, <1>5, NextCases

(* of the handlers, *)
LEMMA HandlerTypeStep == IInv /\ [Next]_vars => HandlerTypeOK'
<1> SUFFICES ASSUME IInv, [Next]_vars PROVE HandlerTypeOK'
  OBVIOUS
<1> HandlerTypeOK /\ ConnTypeOK /\ RunnerTypeOK /\ MainInv /\ HandlerInv /\ QuiescentBetweenSessions
  BY DEF IInv, TypeOK
<1> USE DEF HandlerTypeOK, handlerVars
<1>1. CASE Main \/ Heartbeat \/ Environment \/ UNCHANGED vars
  BY <1>1, MainFrame, HeartbeatFrame, EnvironmentFrame DEF vars
<1>2. CASE Reader
  <2>1. CASE ReadCommand
    <3>1. conn \in 0..MaxConns
      BY DEF ConnTypeOK
    <3> QED
      BY <2>1, <3>1, ReaderFrame DEF ReadCommand
  <2>2. CASE StartHandler \/ AbandonCommand
    BY <2>2 DEF StartHandler, AbandonCommand, HandlerPcs, LivePcs, HoldingSem
  <2> QED
    BY <1>2, <2>1, <2>2, ReaderFrame DEF Reader, ReadOther, ReadFails, IdleTimeout, ReaderFails
<1>3. ASSUME NEW f \in Commands, Handler(f) PROVE HandlerTypeOK'
  <2> USE DEF HandlerPcs, LivePcs, HoldingSem
  <2>1. CASE Enter(f)
    BY <2>1 DEF Enter, Outcomes, RunnerTypeOK
  <2>2. CASE ReadClock(f)
    BY <2>2 DEF ReadClock, RunnerTypeOK
  <2>3. CASE Claim(f)
    BY <2>3 DEF Claim, Outcomes
  <2>4. CASE ToolReturns(f)
    BY <2>4 DEF ToolReturns, Outcomes
  <2>5. CASE Finish(f)
    <3>1. h[f] = "audit" /\ outcome[f] \in Outcomes /\ name[f] = conn
      BY <2>5 DEF Finish, HandlerInv, HasOutcome
    <3>2. conn \in Conns
      BY <3>1 DEF QuiescentBetweenSessions, Live, MainInv
    <3> QED
      BY <2>5, <3>1, <3>2 DEF Finish
  <2>6. CASE ReplySent(f)
    BY <2>6 DEF ReplySent
  <2>7. CASE ReplyFails(f) \/ Release(f) \/ Exit(f)
    BY <2>7 DEF ReplyFails, Release, Exit
  <2> QED
    BY <2>1, <2>2, <1>3, <2>3, <2>4, <2>5, <2>6, <2>7 DEF Handler
<1> QED
  BY <1>1, <1>2, <1>3, NextCases

(* and so all types. *)
LEMMA TypeStep == IInv /\ [Next]_vars => TypeOK'
BY MainTypeStep, ConnTypeStep, PumpTypeStep, HandlerTypeStep, RunnerTypeStep
   DEF TypeOK, IInv

--------------------------------------------------------------------------------
(* The goroutines exist only inside pump, and how pump ends *)

(* wg.Wait: the counter is zero only when no goroutine is left. *)
LEMMA Drained ==
    ASSUME IInv, wg = 0
    PROVE  Live = {} /\ hb # "on" /\ rd \notin {"read", "sem"} /\ held = NoFrame
<1>1. Live = {} /\ hb # "on" /\ rd \notin {"read", "sem"}
  BY CountedLemma
<1>2. held = NoFrame
  BY <1>1 DEF IInv, ReaderInv
<1> QED
  BY <1>1, <1>2

(* pump waits for its goroutines, so none outlives its session. *)
LEMMA QuiescentStep == IInv /\ [Next]_vars => QuiescentBetweenSessions'
<1> SUFFICES ASSUME IInv, [Next]_vars PROVE QuiescentBetweenSessions'
  OBVIOUS
<1> QuiescentBetweenSessions /\ HandlerTypeOK /\ PumpTypeOK
  BY DEF IInv, TypeOK
<1> USE DEF QuiescentBetweenSessions, Live
<1>1. CASE Main
  <2>0. Live' = Live
    BY <1>1, MainFrame DEF handlerVars
  <2>1. CASE Welcomed
    BY <2>1 DEF Welcomed, PumpPcs
  <2>2. CASE PumpReturns
    BY <2>0, <2>2, Drained DEF PumpReturns, AfterRunOnce
  <2>3. CASE PumpFails \/ PumpCancelled \/ PumpCloses
    BY <2>3 DEF PumpFails, PumpCancelled, PumpCloses, PumpPcs
  <2> QED
    BY <1>1, <2>0, <2>1, <2>2, <2>3
       DEF Main, RunTop, BackoffElapsed, BackoffCancelled, DialFails, DialSucceeds,
           Upgraded, UpgradeFails, SayHello, HandshakeFails, AfterRunOnce, PumpPcs, pumpVars
<1>2. CASE Heartbeat
  BY <1>2, HeartbeatFrame DEF Heartbeat, HeartbeatFails, HeartbeatStops, mainVars, handlerVars
<1>3. CASE Reader
  <2>1. rd \in {"read", "sem"}
    BY <1>3 DEF Reader, ReadCommand, ReadOther, Readable, ReadFails, IdleTimeout,
                StartHandler, AbandonCommand
  <2> QED
    BY <1>3, <2>1, ReaderFrame DEF mainVars
<1>4. ASSUME NEW f \in Commands, Handler(f) PROVE QuiescentBetweenSessions'
  <2>1. f \in Live
    BY <1>4 DEF Handler, Enter, ReadClock, Claim, ToolReturns, Finish, ReplySent,
                ReplyFails, Release, Exit, LivePcs, HoldingSem
  <2> QED
    BY <1>4, <2>1, HandlerFrame DEF mainVars
<1>5. CASE Environment \/ UNCHANGED vars
  BY <1>5, EnvironmentFrame DEF vars, mainVars, pumpVars, handlerVars
<1> QED
  BY <1>1, <1>2, <1>3, <1>4, <1>5, NextCases

(* Every step keeps what Run knows where it stands, *)
LEMMA MainInvStep == IInv /\ [Next]_vars => MainInv'
<1> SUFFICES ASSUME IInv, [Next]_vars PROVE MainInv'
  OBVIOUS
<1> MainInv /\ MainTypeOK /\ ConnTypeOK /\ QuiescentBetweenSessions
  BY DEF IInv, TypeOK
<1> USE DEF MainInv, PumpPcs, HandshakePcs
<1>1. CASE Main
  <2>1. CASE DialSucceeds
    BY <2>1, Bounds DEF DialSucceeds, ConnTypeOK, Conns
  <2>2. CASE Welcomed
    BY <2>2 DEF Welcomed, connVars
  <2>3. CASE PumpCloses
    BY <2>3 DEF PumpCloses, pumpVars, runnerVars, ConnTypeOK
  <2>4. CASE Upgraded \/ SayHello
    BY <2>4 DEF Upgraded, SayHello, HandshakePcs, connVars
  <2>5. CASE PumpFails \/ PumpCancelled
    BY <2>5 DEF PumpFails, PumpCancelled, connVars, pumpVars, runnerVars
  <2>6. CASE \/ RunTop \/ BackoffElapsed \/ BackoffCancelled
             \/ DialFails \/ UpgradeFails \/ HandshakeFails \/ PumpReturns
    <3>1. runPc' \in {"top", "dial", "backoff", "exited"}
      BY <2>6 DEF RunTop, BackoffElapsed, BackoffCancelled, DialFails, UpgradeFails,
                  HandshakeFails, PumpReturns, AfterRunOnce
    <3> QED
      BY <3>1
  <2> QED
    BY <2>1, <2>2, <1>1, <2>3, <2>4, <2>5, <2>6 DEF Main
<1>2. CASE Heartbeat
  BY <1>2, HeartbeatFrame
     DEF Heartbeat, HeartbeatFails, HeartbeatStops, mainVars, connVars, runnerVars
<1>3. CASE Reader
  <2>1. rd' # "off" \/ rd' = rd
    BY <1>3 DEF Reader, ReadCommand, ReadOther, ReadFails, IdleTimeout, ReaderFails,
                StartHandler, AbandonCommand, pumpVars
  <2> QED
    BY <1>3, <2>1, ReaderFrame DEF mainVars, runnerVars
<1>4. CASE \E f \in Commands : Handler(f)
  BY <1>4, HandlerFrame DEF mainVars, connVars
<1>5. CASE Environment
  <2>1. CASE ConnectionBreaks
    BY <2>1, EnvironmentFrame, <1>5 DEF ConnectionBreaks, SockOpen, pumpVars, ConnTypeOK
  <2>2. CASE ~ConnectionBreaks
    BY <1>5, <2>2, EnvironmentFrame DEF Environment, Cancel, Tick, BrokerSends, connVars, pumpVars
  <2> QED
    BY <2>1, <2>2
<1>6. CASE UNCHANGED vars
  BY <1>6 DEF vars, mainVars, connVars, pumpVars, runnerVars
<1> QED
  BY <1>1, <1>2, <1>3, <1>4, <1>5, <1>6, NextCases

(* what is known of the connection, *)
LEMMA ConnInvStep == IInv /\ [Next]_vars => ConnInv'
<1> SUFFICES ASSUME IInv, [Next]_vars, NEW c \in Conns
             PROVE  /\ c > conn' => sock'[c] = "unused"
                    /\ c < conn' => sock'[c] = "closed"
                    /\ c = conn' /\ runPc' \notin HandshakePcs \cup PumpPcs =>
                         sock'[c] = "closed"
  BY DEF ConnInv
<1> MainInv /\ MainTypeOK /\ ConnTypeOK /\ ConnInv /\ conn \in Nat /\ c \in Nat
  BY Bounds DEF IInv, TypeOK, ConnTypeOK, Conns
<1> USE DEF PumpPcs, HandshakePcs
<1>1. CASE Main
  <2>1. CASE DialSucceeds
    BY <2>1 DEF DialSucceeds, ConnInv, ConnTypeOK
  <2>2. CASE UpgradeFails \/ HandshakeFails
    BY <2>2 DEF UpgradeFails, HandshakeFails, ConnInv, ConnTypeOK, MainInv
  <2>3. CASE PumpCloses
    BY <2>3 DEF PumpCloses, ConnInv, ConnTypeOK, MainInv
  <2>4. CASE PumpReturns
    BY <2>4 DEF PumpReturns, ConnInv, MainInv, connVars
  <2>5. CASE RunTop \/ BackoffElapsed \/ BackoffCancelled \/ DialFails
    BY <2>5 DEF RunTop, BackoffElapsed, BackoffCancelled, DialFails, ConnInv, connVars
  <2>6. CASE Upgraded \/ SayHello \/ Welcomed \/ PumpFails \/ PumpCancelled
    BY <2>6 DEF Upgraded, SayHello, Welcomed, PumpFails, PumpCancelled, ConnInv, connVars
  <2> QED
    BY <2>1, <2>2, <1>1, <2>3, <2>4, <2>5, <2>6 DEF Main
<1>2. CASE Heartbeat \/ Reader \/ \E f \in Commands : Handler(f)
  BY <1>2, HeartbeatFrame, ReaderFrame, HandlerFrame DEF mainVars, connVars, ConnInv
<1>3. CASE Environment
  <2>1. CASE ConnectionBreaks
    BY <2>1, <1>3, EnvironmentFrame DEF ConnectionBreaks, ConnInv, ConnTypeOK
  <2>2. CASE ~ConnectionBreaks
    BY <1>3, <2>2, EnvironmentFrame DEF Environment, Cancel, Tick, BrokerSends, connVars, ConnInv
  <2> QED
    BY <2>1, <2>2
<1>4. CASE UNCHANGED vars
  BY <1>4 DEF vars, mainVars, connVars, ConnInv
<1> QED
  BY <1>1, <1>2, <1>3, <1>4, NextCases

(* the error that a goroutine which has stopped leaves to end the session, *)
LEMMA NoHalfDeadStep == IInv /\ [Next]_vars => NoHalfDeadSession'
<1> SUFFICES ASSUME IInv, [Next]_vars PROVE NoHalfDeadSession'
  OBVIOUS
<1> NoHalfDeadSession
  BY DEF IInv
<1> USE DEF NoHalfDeadSession, PumpDone
<1>1. CASE Main
  <2>1. CASE Welcomed
    BY <2>1 DEF Welcomed
  <2>2. runPc' = "pump" => Welcomed
    BY <1>1 DEF Main, RunTop, BackoffElapsed, BackoffCancelled, DialSucceeds, DialFails,
  Upgraded, UpgradeFails, SayHello, HandshakeFails,
  PumpFails, PumpCancelled, PumpCloses, PumpReturns, AfterRunOnce
  <2> QED
    BY <2>1, <2>2
<1>2. CASE Heartbeat
  BY <1>2, HeartbeatFrame DEF Heartbeat, HeartbeatFails, HeartbeatStops, PumpDone, mainVars
<1>3. CASE Reader
  BY <1>3, ReaderFrame
     DEF Reader, ReadCommand, ReadOther, ReadFails, IdleTimeout, ReaderFails,
         StartHandler, AbandonCommand, PumpDone, mainVars, pumpVars
<1>4. ASSUME NEW f \in Commands, Handler(f) PROVE NoHalfDeadSession'
  <2>1. errCh' = errCh \/ errCh' = TRUE
    BY <1>4 DEF Handler, Enter, ReadClock, Claim, ToolReturns, Finish, ReplySent,
                ReplyFails, Release, Exit, pumpVars
  <2> QED
    BY <1>4, <2>1, HandlerFrame DEF mainVars
<1>5. CASE Environment
  BY <1>5, EnvironmentFrame
     DEF Environment, Cancel, ConnectionBreaks, Tick, BrokerSends, mainVars, pumpVars
<1>6. CASE UNCHANGED vars
  BY <1>6 DEF vars, mainVars, pumpVars
<1> QED
  BY <1>1, <1>2, <1>3, <1>4, <1>5, <1>6, NextCases

--------------------------------------------------------------------------------
(* What the handlers have recorded *)

(* what each handler has done so far, *)
LEMMA HandlerInvStep == IInv /\ [Next]_vars => HandlerInv'
<1> SUFFICES ASSUME IInv, [Next]_vars PROVE HandlerInv'
  OBVIOUS
<1> /\ HandlerInv /\ HandlerTypeOK /\ MainInv /\ ReaderInv /\ PumpTypeOK /\ ConnTypeOK
    /\ QuiescentBetweenSessions
  BY DEF IInv, TypeOK
<1> USE DEF HandlerInv, HandlerTypeOK, LivePcs, HoldingSem, HasOutcome, HasLine, HasReplied
<1>1. CASE Main
  <2>1. UNCHANGED handlerVars
    BY <1>1, MainFrame
  <2>2. CASE Live = {}
    BY <2>1, <2>2 DEF handlerVars, Live
  <2>3. CASE conn' = conn
    BY <2>1, <2>3 DEF handlerVars
  (* The connection changes only outside pump, where there is no handler. *)
  <2>4. conn' = conn \/ Live = {}
    BY <1>1
       DEF Main, RunTop, BackoffElapsed, BackoffCancelled, DialSucceeds, DialFails,
           Upgraded, UpgradeFails, SayHello, Welcomed, HandshakeFails,
           PumpFails, PumpCancelled, PumpCloses,
           PumpReturns, connVars, QuiescentBetweenSessions, PumpPcs
  <2> QED
    BY <2>2, <2>3, <2>4
<1>2. CASE Heartbeat \/ Environment \/ UNCHANGED vars
  BY <1>2, HeartbeatFrame, EnvironmentFrame DEF vars, connVars, handlerVars
<1>3. CASE Reader
  <2>1. CASE ReadCommand
    <3>1. /\ Head(wire) \in Commands
          /\ h[Head(wire)] = "none"
          /\ UNCHANGED <<conn, h, name, outcome, line, sent>>
          /\ via' = [via EXCEPT ![Head(wire)] = conn]
      BY <2>1 DEF ReadCommand, Readable, ReaderInv, Untouched, ConnTypeOK
    <3> QED
      BY <3>1
  <2>2. CASE StartHandler
    <3>1. held \in Commands /\ h[held] = "none" /\ via[held] = conn /\ conn \in Conns
      BY <2>2 DEF StartHandler, ReaderInv, PumpTypeOK, QuiescentBetweenSessions, MainInv
    <3> QED
      BY <2>2, <3>1 DEF StartHandler, connVars
  <2>3. CASE AbandonCommand
    <3>1. held \in Commands /\ h[held] = "none"
      BY <2>3 DEF AbandonCommand, ReaderInv, PumpTypeOK
    <3> QED
      BY <2>3, <3>1 DEF AbandonCommand, connVars
  <2>4. CASE ReadOther \/ ReadFails \/ IdleTimeout
    BY <2>4 DEF ReadOther, ReadFails, IdleTimeout, ReaderFails, connVars, handlerVars
  <2> QED
    BY <1>3, <2>1, <2>2, <2>3, <2>4 DEF Reader
<1>4. ASSUME NEW f \in Commands, Handler(f) PROVE HandlerInv'
  <2>1. conn' = conn /\ via' = via
    BY <1>4, HandlerFrame DEF connVars
  <2>2. CASE Enter(f)
    <3>1. sessionID = conn
      BY <2>2 DEF Enter, QuiescentBetweenSessions, Live, MainInv
    <3> QED
      BY <2>1, <2>2, <3>1 DEF Enter, Outcomes
  <2>3. CASE ReadClock(f)
    BY <2>1, <2>3 DEF ReadClock
  <2>4. CASE Claim(f)
    BY <2>1, <2>4 DEF Claim, Outcomes
  <2>5. CASE ToolReturns(f)
    BY <2>1, <2>5 DEF ToolReturns, Outcomes
  <2>6. CASE Finish(f)
    BY <2>1, <2>6 DEF Finish
  <2>7. CASE ReplySent(f)
    BY <2>1, <2>7 DEF ReplySent
  <2>8. CASE ReplyFails(f) \/ Release(f) \/ Exit(f)
    BY <2>1, <2>8 DEF ReplyFails, Release, Exit
  <2> QED
    BY <1>4, <2>2, <2>3, <2>4, <2>5, <2>6, <2>7, <2>8 DEF Handler
<1> QED
  BY <1>1, <1>2, <1>3, <1>4, NextCases

--------------------------------------------------------------------------------
(* A frame is read at most once *)

(* Steps that touch neither the wire nor the held command, and start no
   handler, keep ReaderInv. *)
LEMMA ReaderInvFrame ==
    ASSUME ReaderInv, UNCHANGED <<wire, issued, held>>,
           rd' = "sem" <=> rd = "sem",
           held # NoFrame => via'[held] = conn',
           \A f \in Commands : h[f] = "none" => h'[f] = "none",
           held # NoFrame => held \in Commands
    PROVE  ReaderInv'
BY DEF ReaderInv, Untouched

(* what the reader holds and has handed over, *)
LEMMA ReaderInvStep == IInv /\ [Next]_vars => ReaderInv'
<1> SUFFICES ASSUME IInv, [Next]_vars PROVE ReaderInv'
  OBVIOUS
<1> /\ ReaderInv /\ HandlerTypeOK /\ PumpTypeOK /\ ConnTypeOK
    /\ QuiescentBetweenSessions
  BY DEF IInv, TypeOK
<1>0. NoFrame \notin Commands
  BY SessionAssumption DEF Frames
<1>1. CASE Main
  <2>0. UNCHANGED <<issued, h, via>>
    BY <1>1, MainFrame DEF handlerVars
  <2>1. CASE DialSucceeds
    <3>1. held = NoFrame /\ held' = held /\ rd' = rd /\ wire' = <<>>
      BY <2>1 DEF DialSucceeds, QuiescentBetweenSessions, PumpPcs, pumpVars
    <3> QED
      BY <2>0, <3>1 DEF ReaderInv, Untouched
  <2>2. CASE Welcomed
    <3>1. held = NoFrame /\ held' = held /\ rd' = "read" /\ wire' = wire /\ rd # "sem"
      BY <2>2 DEF Welcomed, QuiescentBetweenSessions, PumpPcs, connVars
    <3> QED
      BY <2>0, <3>1 DEF ReaderInv, Untouched
  <2>3. CASE ~DialSucceeds /\ ~Welcomed
    <3>1. UNCHANGED <<wire, held, rd, conn>>
      BY <1>1, <2>3
         DEF Main, RunTop, BackoffElapsed, BackoffCancelled, DialFails, Upgraded,
             UpgradeFails, SayHello, HandshakeFails,
             PumpFails, PumpCancelled, PumpCloses, PumpReturns,
             connVars, pumpVars
    <3> QED
      BY <2>0, <3>1 DEF ReaderInv, Untouched
  <2> QED
    BY <2>1, <2>2, <2>3
<1>2. CASE Heartbeat \/ UNCHANGED vars
  <2>1. UNCHANGED <<wire, issued, held, rd, conn, h, via>>
    BY <1>2, HeartbeatFrame DEF vars, connVars, handlerVars, pumpVars
  <2> QED
    BY <2>1 DEF ReaderInv, Untouched
<1>3. CASE Reader
  <2>1. CASE ReadCommand
    <3> DEFINE f == Head(wire)
    <3>1. /\ wire # <<>> /\ wire \in Seq(Frames)
          /\ f = wire[1] /\ f \in Commands
          /\ wire' = Tail(wire) /\ held' = f /\ rd' = "sem" /\ rd = "read"
          /\ via' = [via EXCEPT ![f] = conn]
          /\ UNCHANGED <<issued, h, conn>>
      BY <2>1 DEF ReadCommand, Readable, ConnTypeOK
    <3>2. /\ Len(wire) \in Nat /\ Len(wire) > 0
          /\ Len(Tail(wire)) = Len(wire) - 1
          /\ \A i \in 1..Len(Tail(wire)) : Tail(wire)[i] = wire[i + 1]
      BY <3>1
    <3>3. f \in issued /\ h[f] = "none"
      BY <3>1, <3>2 DEF ReaderInv, Untouched
    <3> HIDE DEF f
    <3>4. \A i \in 1..Len(wire') :
            /\ wire'[i] \in issued'
            /\ wire'[i] \in Commands => h'[wire'[i]] = "none" /\ wire'[i] # f
      BY <3>1, <3>2 DEF ReaderInv, Untouched
    <3>5. \A i, j \in 1..Len(wire') : wire'[i] = wire'[j] => i = j
      BY <3>1, <3>2 DEF ReaderInv
    <3>6. \A g \in Commands \ issued' : h'[g] = "none" /\ g # f
      BY <3>1, <3>3 DEF ReaderInv, Untouched
    <3>7. f \in issued' /\ h'[f] = "none" /\ via'[f] = conn' /\ f # NoFrame
      BY <1>0, <3>1, <3>3 DEF HandlerTypeOK
    <3> QED
      BY <3>1, <3>4, <3>5, <3>6, <3>7 DEF ReaderInv, Untouched
  <2>2. CASE ReadOther
    <3>1. /\ wire # <<>> /\ wire \in Seq(Frames)
          /\ wire' = Tail(wire) /\ held' = held /\ rd' = rd
          /\ UNCHANGED <<issued, h, via, conn>>
      BY <2>2 DEF ReadOther, Readable, ConnTypeOK, pumpVars, handlerVars
    <3>2. /\ Len(wire) \in Nat /\ Len(wire) > 0
          /\ Len(Tail(wire)) = Len(wire) - 1
          /\ \A i \in 1..Len(Tail(wire)) : Tail(wire)[i] = wire[i + 1]
      BY <3>1
    <3> QED
      BY <3>1, <3>2 DEF ReaderInv, Untouched
  <2>3. CASE ReadFails \/ IdleTimeout
    BY <2>3 DEF ReadFails, IdleTimeout, ReaderFails, ReaderInv, Untouched, connVars, handlerVars
  <2>4. CASE StartHandler \/ AbandonCommand
    <3>1. /\ held \in Commands /\ held' = NoFrame /\ rd' # "sem"
          /\ UNCHANGED <<wire, issued>>
          /\ \A g \in Commands : g # held => h'[g] = h[g]
      BY <2>4 DEF StartHandler, AbandonCommand, ReaderInv, PumpTypeOK, HandlerTypeOK, connVars
    <3>2. held \in issued /\ \A i \in 1..Len(wire) : wire[i] \in Commands => wire[i] # held
      BY <1>0, <3>1 DEF ReaderInv, Untouched
    <3> QED
      BY <1>0, <3>1, <3>2 DEF ReaderInv, Untouched
  <2> QED
    BY <1>3, <2>1, <2>2, <2>3, <2>4 DEF Reader
<1>4. ASSUME NEW f \in Commands, Handler(f) PROVE ReaderInv'
  <2>1. UNCHANGED <<wire, issued, held, rd, conn, via>>
    BY <1>4, HandlerFrame DEF connVars
  <2>2. h[f] # "none" /\ \A g \in Commands : g # f => h'[g] = h[g]
    BY <1>4 DEF Handler, Enter, ReadClock, Claim, ToolReturns, Finish, ReplySent,
                ReplyFails, Release, Exit, HandlerTypeOK
  <2> QED
    BY <2>1, <2>2, ReaderInvFrame DEF PumpTypeOK, ReaderInv
<1>5. CASE Environment
  <2>0. UNCHANGED <<held, rd, conn, h, via>>
    BY <1>5, EnvironmentFrame DEF pumpVars, handlerVars
  <2>1. ASSUME NEW f \in Frames, BrokerSends(f) PROVE ReaderInv'
    <3>1. /\ f \notin issued /\ issued' = issued \cup {f}
          /\ wire' = Append(wire, f) /\ wire \in Seq(Frames)
      BY <2>1 DEF BrokerSends, ConnTypeOK
    <3>2. /\ Len(wire) \in Nat /\ Len(wire') = Len(wire) + 1
          /\ wire'[Len(wire) + 1] = f
          /\ \A i \in 1..Len(wire) : wire'[i] = wire[i]
      BY <3>1
    <3>3. \A i \in 1..Len(wire) : wire[i] \in issued /\ wire[i] # f
      BY <3>1 DEF ReaderInv
    <3> QED
      BY <2>0, <3>1, <3>2, <3>3 DEF ReaderInv, Untouched
  <2>2. CASE ~\E f \in Frames : BrokerSends(f)
    <3>1. UNCHANGED <<wire, issued>>
      BY <1>5, <2>2 DEF Environment, Cancel, ConnectionBreaks, Tick, connVars
    <3> QED
      BY <2>0, <3>1 DEF ReaderInv, Untouched
  <2> QED
    BY <2>1, <2>2
<1> QED
  BY <1>1, <1>2, <1>3, <1>4, <1>5, NextCases

--------------------------------------------------------------------------------
(* The semaphore and the WaitGroup count exactly *)

(* and the counts of goroutines and of slots. *)
LEMMA CountersStep == IInv /\ [Next]_vars => CountersExact' /\ IsFiniteSet(Live')
<1> SUFFICES ASSUME IInv, [Next]_vars PROVE CountersExact' /\ IsFiniteSet(Live')
  OBVIOUS
<1> /\ CountersExact /\ HandlerTypeOK /\ PumpTypeOK /\ ReaderInv /\ QuiescentBetweenSessions
  BY DEF IInv, TypeOK
<1>0. IsFiniteSet(Live) /\ IsFiniteSet(Holding) /\ sem \in Int /\ wg \in Int
  BY CountedLemma, Bounds DEF PumpTypeOK
<1> DEFINE Go(x, y) == One(x = "on") + One(y \in {"read", "sem"})
<1>1. CASE Main
  <2>1. Live' = Live /\ Holding' = Holding
    BY <1>1, MainFrame DEF handlerVars, Live, Holding
  <2>2. CASE Welcomed
    <3>1. Live = {} /\ Holding = {}
      BY <2>2 DEF Welcomed, QuiescentBetweenSessions, PumpPcs, Live, Holding, LivePcs
    <3>2. Cardinality(Live') = 0 /\ Cardinality(Holding') = 0
      BY <2>1, <3>1, FS_EmptySet
    <3> QED
      BY <1>0, <2>1, <2>2, <3>2 DEF Welcomed, CountersExact, One
  <2>3. CASE ~Welcomed
    <3>1. UNCHANGED <<sem, wg, hb, rd>>
      BY <1>1, <2>3
         DEF Main, RunTop, BackoffElapsed, BackoffCancelled, DialSucceeds, DialFails,
             Upgraded, UpgradeFails, SayHello,
             HandshakeFails, PumpFails, PumpCancelled, PumpCloses, PumpReturns, pumpVars
    <3> QED
      BY <1>0, <2>1, <3>1 DEF CountersExact
  <2> QED
    BY <2>2, <2>3
<1>2. CASE Heartbeat
  <2>1. Live' = Live /\ Holding' = Holding
    BY <1>2, HeartbeatFrame DEF handlerVars, Live, Holding
  <2>2. /\ hb = "on" /\ hb' = "done" /\ wg' = wg - 1 /\ sem' = sem /\ rd' = rd
    BY <1>2, HeartbeatFrame DEF Heartbeat, HeartbeatFails, HeartbeatStops
  <2> QED
    BY <1>0, <2>1, <2>2, CountedLemma DEF CountersExact, One
<1>3. CASE Reader
  <2>1. CASE StartHandler
    <3>1. /\ held \in Commands /\ h[held] = "none"
          /\ h' = [h EXCEPT ![held] = "enter"]
          /\ sem' = sem + 1 /\ wg' = wg + 1
          /\ hb' = hb /\ rd = "sem" /\ rd' = "read"
      BY <2>1 DEF StartHandler, ReaderInv, PumpTypeOK
    <3>2. /\ Live' = Live \cup {held} /\ held \notin Live
          /\ Holding' = Holding \cup {held} /\ held \notin Holding
      BY <3>1 DEF Live, Holding, LivePcs, HoldingSem, HandlerTypeOK
    <3>3. /\ IsFiniteSet(Live') /\ Cardinality(Live') = Cardinality(Live) + 1
          /\ Cardinality(Holding') = Cardinality(Holding) + 1
          /\ Cardinality(Live) \in Nat /\ Cardinality(Holding) \in Nat
      BY <1>0, <3>2, Gains
    <3> QED
      BY <3>1, <3>3 DEF CountersExact, One
  <2>2. CASE ~StartHandler
    <3>1. Live' = Live /\ Holding' = Holding
      <4>1. CASE AbandonCommand
        BY <4>1 DEF AbandonCommand, ReaderInv, PumpTypeOK, HandlerTypeOK,
                    Live, Holding, LivePcs, HoldingSem
      <4>2. CASE ~AbandonCommand
        BY <1>3, <2>2, <4>2 DEF Reader, ReadCommand, ReadOther, ReadFails, IdleTimeout,
                    ReaderFails, handlerVars, Live, Holding
      <4> QED
        BY <4>1, <4>2
    <3>2. /\ sem' = sem /\ hb' = hb
          /\ wg' - One(rd' \in {"read", "sem"}) = wg - One(rd \in {"read", "sem"})
          /\ wg' \in Int
      BY <1>0, <1>3, <2>2
         DEF Reader, ReadCommand, ReadOther, Readable, ReadFails, IdleTimeout,
             ReaderFails, AbandonCommand, One, pumpVars
    <3> QED
      BY <1>0, <3>1, <3>2, CountedLemma DEF CountersExact, One
  <2> QED
    BY <2>1, <2>2
<1>4. ASSUME NEW f \in Commands, Handler(f) PROVE CountersExact' /\ IsFiniteSet(Live')
  <2>0. hb' = hb /\ rd' = rd
    BY <1>4, HandlerFrame
  <2>1. CASE Release(f)
    <3>1. /\ h[f] = "release" /\ h' = [h EXCEPT ![f] = "exit"]
          /\ sem' = sem - 1 /\ wg' = wg
      BY <2>1 DEF Release
    <3>2. Live' = Live /\ Holding' = Holding \ {f} /\ f \in Holding
      BY <3>1 DEF Live, Holding, LivePcs, HoldingSem, HandlerTypeOK
    <3>3. /\ Cardinality(Holding') = Cardinality(Holding) - 1
          /\ Cardinality(Holding) \in Nat
      BY <1>0, <3>2, Loses
    <3> QED
      BY <1>0, <2>0, <3>1, <3>2, <3>3 DEF CountersExact
  <2>2. CASE Exit(f)
    <3>1. /\ h[f] = "exit" /\ h' = [h EXCEPT ![f] = "done"]
          /\ sem' = sem /\ wg' = wg - 1
      BY <2>2 DEF Exit
    <3>2. Live' = Live \ {f} /\ f \in Live /\ Holding' = Holding
      BY <3>1 DEF Live, Holding, LivePcs, HoldingSem, HandlerTypeOK
    <3>3. /\ IsFiniteSet(Live') /\ Cardinality(Live') = Cardinality(Live) - 1
          /\ Cardinality(Live) \in Nat
      BY <1>0, <3>2, Loses
    <3> QED
      BY <1>0, <2>0, <3>1, <3>2, <3>3 DEF CountersExact, One
  <2>3. CASE ~Release(f) /\ ~Exit(f)
    <3>1. sem' = sem /\ wg' = wg
      BY <1>4, <2>3 DEF Handler, Enter, ReadClock, Claim, ToolReturns, Finish, ReplySent,
                        ReplyFails, pumpVars
    <3>2. /\ h[f] \in HoldingSem /\ h'[f] \in HoldingSem
          /\ \A g \in Commands : g # f => h'[g] = h[g]
      BY <1>4, <2>3 DEF Handler, Enter, ReadClock, Claim, ToolReturns, Finish, ReplySent,
                        ReplyFails, HoldingSem, HandlerTypeOK
    <3>3. Live' = Live /\ Holding' = Holding
      BY <3>2 DEF Live, Holding, LivePcs
    <3> QED
      BY <1>0, <2>0, <3>1, <3>3 DEF CountersExact
  <2> QED
    BY <2>1, <2>2, <2>3
<1>5. CASE Environment \/ UNCHANGED vars
  <2>1. UNCHANGED <<sem, wg, hb, rd, h>>
    BY <1>5, EnvironmentFrame DEF vars, pumpVars, handlerVars
  <2> QED
    BY <1>0, <2>1 DEF CountersExact, Live, Holding
<1> QED
  BY <1>1, <1>2, <1>3, <1>4, <1>5, NextCases

--------------------------------------------------------------------------------
(* The inductive invariant *)

(* Nothing runs at first. *)
LEMMA IInvInit == Init => IInv
<1> SUFFICES ASSUME Init PROVE IInv
  OBVIOUS
<1>1. Live = {} /\ Holding = {}
  BY DEF Init, Live, Holding, LivePcs, HoldingSem
<1>2. IsFiniteSet(Live) /\ Cardinality(Live) = 0 /\ Cardinality(Holding) = 0
  BY <1>1, FS_EmptySet
<1>3. CountersExact
  BY <1>2 DEF Init, CountersExact, One
<1>4. MainTypeOK /\ ConnTypeOK
  <2>1. ctxDone \in BOOLEAN
    BY DEF Init
  <2>2. runPc \in RunPcs /\ attempt \in 0..MaxAttempt
    BY Bounds DEF Init, RunPcs
  <2>3. conn \in 0..MaxConns /\ wire \in Seq(Frames) /\ issued \subseteq Frames
    BY Bounds DEF Init
  <2>4. sock \in [Conns -> {"unused", "open", "broken", "closed"}]
    BY DEF Init
  <2> QED
    BY <2>1, <2>2, <2>3, <2>4 DEF MainTypeOK, ConnTypeOK
<1>5. PumpTypeOK
  <2>1. cancelled \in BOOLEAN /\ errCh \in BOOLEAN
    BY DEF Init
  <2>2. sem \in 0..MaxConcurrent /\ wg \in Nat
    BY Bounds DEF Init
  <2>3. /\ hb \in {"off", "on", "done"} /\ rd \in {"off", "read", "sem", "done"}
        /\ held \in Commands \cup {NoFrame}
    BY DEF Init
  <2> QED
    BY <2>1, <2>2, <2>3 DEF PumpTypeOK
<1>6. HandlerTypeOK /\ RunnerTypeOK
  BY Bounds DEF Init, HandlerTypeOK, RunnerTypeOK, EmptyTable, HandlerPcs
<1>7. MainInv /\ ReaderInv /\ HandlerInv /\ ConnInv
  BY SessionAssumption
     DEF Init, MainInv, ReaderInv, HandlerInv, ConnInv, Untouched, PumpPcs, HandshakePcs, LivePcs,
         HoldingSem, HasOutcome, HasLine, HasReplied, Frames, Conns
<1>8. QuiescentBetweenSessions /\ NoHalfDeadSession
  BY <1>1 DEF Init, QuiescentBetweenSessions, NoHalfDeadSession
<1> QED
  BY <1>2, <1>3, <1>4, <1>5, <1>6, <1>7, <1>8 DEF IInv, TypeOK

(* The inductive invariant of the session, for any number of concurrent commands
   and any window. *)
THEOREM Inductive == Spec => []IInv
<1>1. IInv /\ [Next]_vars => IInv'
  BY TypeStep, MainInvStep, ReaderInvStep, HandlerInvStep, ConnInvStep, CountersStep,
     QuiescentStep, NoHalfDeadStep
     DEF IInv
<1> QED
  BY IInvInit, <1>1, PTL DEF Spec

--------------------------------------------------------------------------------
(* The results *)

(* Every field keeps its type; in particular neither counter goes negative and
   the semaphore never holds more than its capacity. *)
THEOREM TypeCorrect == Spec => []TypeOK
BY Inductive, PTL DEF IInv

(* len(sem) and the WaitGroup count exactly the goroutines there are. *)
THEOREM CountersAreExact == Spec => []CountersExact
BY Inductive, PTL DEF IInv

(* wg.Wait separates the sessions: outside pump nothing of it is left. *)
THEOREM Quiescence == Spec => []QuiescentBetweenSessions
BY Inductive, PTL DEF IInv

(* No failure of the reader or the heartbeat is lost in the one-slot errCh. *)
THEOREM NeverHalfDead == Spec => []NoHalfDeadSession
BY Inductive, PTL DEF IInv

(* MaxConcurrent bounds the commands in progress, over all sessions. *)
THEOREM ToolsAreBounded == Spec => []BoundedTools
<1>1. IInv => BoundedTools
  BY Bounds DEF IInv, CountersExact, TypeOK, PumpTypeOK, BoundedTools
<1> QED
  BY <1>1, Inductive, PTL

(* The audit line of a command names the session the command came in. *)
THEOREM AuditNamesTheSession == Spec => []AuditNamesSession
<1>1. IInv => AuditNamesSession
  <2> SUFFICES ASSUME IInv, NEW f \in Commands, line[f] # NoLine
               PROVE  line[f].session = via[f]
    BY DEF AuditNamesSession
  <2>1. line[f] = [status |-> outcome[f], session |-> via[f]]
    BY DEF IInv, HandlerInv
  <2> QED
    BY <2>1
<1> QED
  BY <1>1, Inductive, PTL

(* What the broker was told is what was audited, and a session that is over
   leaves no handled command without its line. *)
THEOREM AuditTrailKept == Spec => []AuditTrail
<1>1. IInv => AuditTrail
  <2> SUFFICES ASSUME IInv, NEW f \in Commands
               PROVE  /\ sent[f] # "none" => line[f] # NoLine /\ line[f].status = sent[f]
                      /\ h[f] \notin {"none", "abandoned"} /\ runPc \notin PumpPcs =>
                            line[f] # NoLine
    BY DEF AuditTrail
  <2> HandlerInv /\ HandlerTypeOK /\ QuiescentBetweenSessions
    BY DEF IInv, TypeOK
  <2>1. ASSUME h[f] \in HasLine PROVE line[f] # NoLine /\ line[f].status = outcome[f]
    <3>1. h[f] \in HasOutcome
      BY <2>1 DEF HasLine
    <3>2. outcome[f] \in Outcomes /\ line[f] = [status |-> outcome[f], session |-> via[f]]
      BY <2>1, <3>1 DEF HandlerInv
    <3>3. via[f] \in Conns
      BY <3>1 DEF HandlerInv, HasOutcome, LivePcs, HoldingSem
    <3> QED
      BY <3>2, <3>3, SessionAssumption
  <2>2. sent[f] # "none" => h[f] \in HasLine /\ sent[f] = outcome[f]
    BY DEF HandlerInv, HasReplied, HasLine, HasOutcome
  <2>3. h[f] \notin {"none", "abandoned"} /\ runPc \notin PumpPcs => h[f] \in HasLine
    BY DEF QuiescentBetweenSessions, Live, HandlerTypeOK, HandlerPcs, HasLine, HasOutcome
  <2> QED
    BY <2>1, <2>2, <2>3
<1> QED
  BY <1>1, Inductive, PTL

(* At most one connection is not closed, and none outside a session. *)
THEOREM ConnectionsDoNotLeak == Spec => []NoConnectionLeak
<1>1. IInv => NoConnectionLeak
  <2> SUFFICES ASSUME IInv, NEW c \in Conns, sock[c] \in {"open", "broken"}
               PROVE  c = conn /\ runPc \in HandshakePcs \cup PumpPcs
    BY DEF NoConnectionLeak
  <2>1. conn \in Nat /\ c \in Nat /\ ConnInv
    BY Bounds DEF IInv, TypeOK, ConnTypeOK, Conns
  <2> QED
    BY <2>1 DEF ConnInv
<1> QED
  BY <1>1, Inductive, PTL

--------------------------------------------------------------------------------
(* Refinement *)

(* Session implements Reconnect: the failure count and the phases of Run. *)
THEOREM RefinesReconnect == Spec => ImplementsReconnect
<1>1. Init => R!Init
  <2> SUFFICES ASSUME Init PROVE R!Init
    OBVIOUS
  <2>1. Phase = "connecting"
    BY DEF Init, Phase, PumpPcs
  <2>2. attempt = 0
    BY DEF Init
  <2>3. ctxDone = FALSE
    BY DEF Init
  <2> QED
    BY <2>1, <2>2, <2>3 DEF R!Init
<1>2. IInv /\ [Next]_vars => [R!Next]_(R!vars)
  <2> SUFFICES ASSUME IInv, [Next]_vars PROVE [R!Next]_(R!vars)
    OBVIOUS
  <2> MainTypeOK
    BY DEF IInv, TypeOK
  <2> USE DEF R!Next, R!vars, Phase, PumpPcs, HandshakePcs
  <2>1. CASE Main
    <3>0. ctxDone' = ctxDone
      BY <2>1, MainFrame
    <3>1. CASE RunTop
      BY <3>0, <3>1 DEF RunTop, R!Stop
    <3>2. CASE BackoffElapsed
      BY <3>0, <3>2 DEF BackoffElapsed, R!Retry
    <3>3. CASE BackoffCancelled
      BY <3>0, <3>3 DEF BackoffCancelled, R!Stop
    <3>4. CASE \/ DialSucceeds \/ Upgraded \/ SayHello
               \/ PumpFails \/ PumpCancelled \/ PumpCloses
      BY <3>0, <3>4 DEF DialSucceeds, Upgraded, SayHello, PumpFails, PumpCancelled, PumpCloses
    <3>5. CASE DialFails \/ UpgradeFails \/ HandshakeFails
      BY <3>0, <3>5 DEF DialFails, UpgradeFails, HandshakeFails, AfterRunOnce, Counted,
                        R!Counted, R!Lesser, R!ConnectFails, R!Stop
    <3>6. CASE Welcomed
      BY <3>0, <3>6 DEF Welcomed, R!Connected
    <3>7. CASE PumpReturns
      BY <3>0, <3>7 DEF PumpReturns, AfterRunOnce, R!SessionEnds, R!Stop
    <3> QED
      BY <2>1, <3>1, <3>2, <3>3, <3>4, <3>5, <3>6, <3>7 DEF Main
  <2>2. CASE Heartbeat \/ Reader \/ \E f \in Commands : Handler(f)
    BY <2>2, HeartbeatFrame, ReaderFrame, HandlerFrame DEF mainVars
  <2>3. CASE Environment
    <3>1. CASE Cancel
      BY <2>3, <3>1, EnvironmentFrame DEF Cancel, R!Cancel
    <3>2. CASE ~Cancel
      BY <2>3, <3>2, EnvironmentFrame DEF Environment, ConnectionBreaks, Tick, BrokerSends, mainVars
    <3> QED
      BY <3>1, <3>2
  <2>4. CASE UNCHANGED vars
    BY <2>4 DEF vars, mainVars
  <2> QED
    BY <2>1, <2>2, <2>3, <2>4, NextCases
<1> QED
  BY <1>1, <1>2, Inductive, PTL DEF Spec, ImplementsReconnect, R!Spec

(***************************************************************************)
(* backoff: whatever the count of failures, a delay is at least backoffMin *)
(* and less than backoffMin + backoffMax.  From the eighth failure on it   *)
(* can come to within a unit of that, which is more than the cap.          *)
(***************************************************************************)
THEOREM DelaysBounded ==
    /\ \A n \in Nat \ {0} :
        R!BackoffDelays(n) \subseteq R!BackoffMin .. R!BackoffMin + R!BackoffMax - 1
    /\ \A n \in Nat : n >= 8 => R!BackoffMin + R!BackoffMax - 1 \in R!BackoffDelays(n)
<1> USE DEF R!BackoffMin, R!BackoffMax, R!MaxShift
<1>1. ASSUME NEW n \in Nat \ {0}
      PROVE  R!BackoffDelays(n) \subseteq R!BackoffMin .. R!BackoffMin + R!BackoffMax - 1
  <2> DEFINE s == R!Lesser(n - 1, 12)
             d == R!Lesser(5 * 2^s, 600)
  <2>1. s \in Nat
    BY DEF R!Lesser
  <2>2. R!BackoffDelays(n) = 5 .. 5 + d - 1
    BY DEF R!BackoffDelays
  <2> HIDE DEF s
  <2>3. 2^s \in Int
    BY <2>1
  <2>4. d \in Int /\ d <= 600
    BY <2>3 DEF R!Lesser
  <2> HIDE DEF d
  <2> QED
    BY <2>2, <2>4
<1>2. ASSUME NEW n \in Nat, n >= 8
      PROVE  R!BackoffMin + R!BackoffMax - 1 \in R!BackoffDelays(n)
  <2> DEFINE k == R!Lesser(n - 1, 12)
  <2>1. k \in 7..12
    BY <1>2 DEF R!Lesser
  <2>2. R!BackoffDelays(n) = 5 .. 5 + R!Lesser(5 * 2^k, 600) - 1
    BY DEF R!BackoffDelays
  <2> HIDE DEF k
  <2>3. R!Lesser(5 * 2^k, 600) = 600
    <3>1. CASE k = 7
      <4>1. 5 * 2^7 = 640
        OBVIOUS
      <4> QED
        BY <3>1, <4>1 DEF R!Lesser
    <3>2. CASE k = 8
      <4>1. 5 * 2^8 = 1280
        OBVIOUS
      <4> QED
        BY <3>2, <4>1 DEF R!Lesser
    <3>3. CASE k = 9
      <4>1. 5 * 2^9 = 2560
        OBVIOUS
      <4> QED
        BY <3>3, <4>1 DEF R!Lesser
    <3>4. CASE k = 10
      <4>1. 5 * 2^10 = 5120
        OBVIOUS
      <4> QED
        BY <3>4, <4>1 DEF R!Lesser
    <3>5. CASE k = 11
      <4>1. 5 * 2^11 = 10240
        OBVIOUS
      <4> QED
        BY <3>5, <4>1 DEF R!Lesser
    <3>6. CASE k = 12
      <4>1. 5 * 2^12 = 20480
        OBVIOUS
      <4> QED
        BY <3>6, <4>1 DEF R!Lesser
    <3> QED
      BY <2>1, <3>1, <3>2, <3>3, <3>4, <3>5, <3>6
  <2> QED
    BY <2>2, <2>3
<1> QED
  BY <1>1, <1>2

(* A handler that has not claimed is "new" to Dedupe; only the step that
   reads the clock and the claim itself move it. *)
LEMMA ClaimStateFrame ==
    ASSUME NEW f \in Commands, h'[f] = h[f],
           outcome'[f] = outcome[f]
    PROVE  ClaimState(f)' = ClaimState(f)
BY DEF ClaimState

(* Session implements Dedupe: the claims of every session of the process go
   to one table, which no reconnect clears. *)
THEOREM RefinesDedupe == Spec => ImplementsDedupe
<1>1. Init => D!Init
  BY DEF Init, D!Init, Claiming, ClaimState, EmptyTable, D!EmptyTable
<1>2. IInv /\ [Next]_vars => [D!Next]_(D!vars)
  <2> SUFFICES ASSUME IInv, [Next]_vars PROVE [D!Next]_(D!vars)
    OBVIOUS
  <2> HandlerTypeOK /\ PumpTypeOK /\ ReaderInv /\ HandlerInv
    BY DEF IInv, TypeOK
  (* A step that moves no claim is a stutter of Dedupe. *)
  <2>0. ASSUME UNCHANGED <<now, seen, reading>>,
               \A f \in Claiming : ClaimState(f)' = ClaimState(f)
        PROVE  UNCHANGED D!vars
    BY <2>0 DEF D!vars
  <2>1. CASE Main \/ Heartbeat
    <3>1. UNCHANGED <<now, seen, handlerVars>>
      BY <2>1, MainFrame, HeartbeatFrame
         DEF Main, RunTop, BackoffElapsed, BackoffCancelled, DialSucceeds, DialFails,
             Upgraded, UpgradeFails, SayHello, Welcomed, HandshakeFails,
             PumpFails, PumpCancelled, PumpCloses,
             PumpReturns, AfterRunOnce, runnerVars
    <3> QED
      BY <2>0, <3>1, ClaimStateFrame DEF handlerVars, Claiming
  <2>2. CASE Reader
    <3>1. UNCHANGED <<now, seen, reading, outcome>>
      BY <2>2, ReaderFrame DEF runnerVars
    <3>2. ASSUME NEW f \in Claiming PROVE ClaimState(f)' = ClaimState(f)
      <4>1. CASE StartHandler \/ AbandonCommand
        BY <3>1, <4>1 DEF StartHandler, AbandonCommand, ReaderInv, PumpTypeOK,
                          HandlerTypeOK, ClaimState, Claiming
      <4>2. CASE ~StartHandler /\ ~AbandonCommand
        BY <2>2, <3>1, <4>2
           DEF Reader, ReadCommand, ReadOther, ReadFails, IdleTimeout, ReaderFails,
               handlerVars, ClaimState
      <4> QED
        BY <4>1, <4>2
    <3> QED
      BY <2>0, <3>1, <3>2
  <2>3. ASSUME NEW f \in Commands, Handler(f) PROVE [D!Next]_(D!vars)
    <3>1. \A g \in Claiming : g # f => ClaimState(g)' = ClaimState(g)
      <4>1. \A g \in Commands : g # f => h'[g] = h[g] /\ outcome'[g] = outcome[g]
        BY <2>3 DEF Handler, Enter, ReadClock, Claim, ToolReturns, Finish, ReplySent,
                    ReplyFails, Release, Exit, HandlerTypeOK
      <4> QED
        BY <4>1, ClaimStateFrame DEF Claiming
    <3>2. CASE ReadClock(f)
      <4>1. f \in Claiming
        BY <3>2 DEF ReadClock, HandlerInv, Claiming
      <4>2. ClaimState(f) = "new" /\ ClaimState(f)' = "clock"
        BY <3>2 DEF ReadClock, ClaimState, HandlerTypeOK
      <4>3. [g \in Claiming |-> ClaimState(g)]' =
              [[g \in Claiming |-> ClaimState(g)] EXCEPT ![f] = "clock"]
        BY <3>1, <4>1, <4>2
      <4>4. [g \in Claiming |-> reading[g]]' =
              [[g \in Claiming |-> reading[g]] EXCEPT ![f] = now]
        BY <3>2, <4>1 DEF ReadClock, HandlerTypeOK, Claiming
      <4>5. now' = now /\ seen' = seen
        BY <3>2 DEF ReadClock, runnerVars
      <4>6. D!ReadClock(f)
        BY <4>1, <4>2, <4>3, <4>4, <4>5 DEF D!ReadClock
      <4> QED
        BY <4>1, <4>6 DEF D!Next
    <3>3. CASE Claim(f)
      <4>1. f \in Claiming
        BY <3>3 DEF Claim, HandlerInv, Claiming
      <4> DEFINE table == Pruned(seen, reading[f])
                 dup   == IsDuplicate(table, IdOf[f], reading[f])
      <4>2. /\ D!Pruned(seen, reading[f]) = table
            /\ D!IsDuplicate(table, IdOf[f], reading[f]) <=> dup
            /\ D!Recorded(table, IdOf[f], reading[f]) = Recorded(table, IdOf[f], reading[f])
        <5>0. ASSUME NEW S PROVE D!Cardinality(S) = Cardinality(S)
          BY DEF Cardinality, D!Cardinality
        <5>1. D!Pruned(seen, reading[f]) = table
          BY <5>0 DEF Pruned, D!Pruned, Restrict, D!Restrict, Fresh, D!Fresh, Expired, D!Expired
        <5> HIDE DEF table
        <5>2. D!IsDuplicate(table, IdOf[f], reading[f]) <=> dup
          BY DEF IsDuplicate, D!IsDuplicate, Expired, D!Expired
        <5>3. D!Recorded(table, IdOf[f], reading[f]) = Recorded(table, IdOf[f], reading[f])
          BY DEF Recorded, D!Recorded
        <5> QED
          BY <5>1, <5>2, <5>3
      <4>3. ClaimState(f) = "clock" /\ ClaimState(f)' = IF dup THEN "denied" ELSE "admitted"
        BY <3>3 DEF Claim, ClaimState, HandlerTypeOK
      <4>4. [g \in Claiming |-> ClaimState(g)]' =
              [[g \in Claiming |-> ClaimState(g)] EXCEPT ![f] = IF dup THEN "denied" ELSE "admitted"]
        BY <3>1, <4>1, <4>3
      <4>5. /\ seen' = IF dup THEN table ELSE Recorded(table, IdOf[f], reading[f])
            /\ now' = now /\ reading' = reading
        BY <3>3 DEF Claim
      <4> HIDE DEF table, dup
      <4>6. D!Claim(f)
        BY <4>1, <4>2, <4>3, <4>4, <4>5 DEF D!Claim
      <4> QED
        BY <4>1, <4>6 DEF D!Next
    <3>4. CASE ~ReadClock(f) /\ ~Claim(f)
      <4>1. UNCHANGED <<now, seen, reading>>
        BY <2>3, <3>4 DEF Handler, Enter, ToolReturns, Finish, ReplySent,
                    ReplyFails, Release, Exit, runnerVars
      <4>2. f \in Claiming => ClaimState(f)' = ClaimState(f)
        BY <2>3, <3>4 DEF Handler, Enter, ToolReturns, Finish, ReplySent,
                    ReplyFails, Release, Exit, ClaimState, Claiming, HandlerTypeOK, ToolOutcomes
      <4> QED
        BY <2>0, <3>1, <4>1, <4>2
    <3> QED
      BY <3>2, <3>3, <3>4
  <2>4. CASE Environment
    <3>1. UNCHANGED <<seen, handlerVars>>
      BY <2>4, EnvironmentFrame
    <3>2. \A f \in Claiming : ClaimState(f)' = ClaimState(f)
      BY <3>1, ClaimStateFrame DEF handlerVars, Claiming
    <3>3. CASE Tick
      BY <3>1, <3>2, <3>3 DEF Tick, D!Next, D!Tick, handlerVars
    <3>4. CASE ~Tick
      BY <2>0, <2>4, <3>1, <3>2, <3>4
         DEF Environment, Cancel, ConnectionBreaks, BrokerSends, handlerVars, runnerVars
    <3> QED
      BY <3>3, <3>4
  <2>5. CASE UNCHANGED vars
    BY <2>0, <2>5, ClaimStateFrame DEF vars, handlerVars, runnerVars, Claiming
  <2> QED
    BY <2>1, <2>2, NextCases, <2>3, <2>4, <2>5
<1> QED
  BY <1>1, <1>2, Inductive, PTL DEF Spec, ImplementsDedupe, D!Spec

(* Every outcome is a status of a Result. *)
LEMMA StatusLemma ==
    /\ Status("none") = "none"
    /\ \A o \in Outcomes : Status(o) # "none"
    /\ \A o \in ToolOutcomes : Status(o) \in H!ToolResults
    /\ \A o \in Outcomes \ ToolOutcomes : Status(o) = "denied"
BY DEF Status, Outcomes, ToolOutcomes, H!ToolResults

(* What a handler does to other commands than its own: nothing. *)
LEMMA OthersFrame ==
    ASSUME HandlerTypeOK, NEW f \in Commands, Handler(f), NEW g \in Commands, g # f
    PROVE  h'[g] = h[g] /\ outcome'[g] = outcome[g] /\ line'[g] = line[g] /\ sent'[g] = sent[g]
BY DEF Handler, Enter, ReadClock, Claim, ToolReturns, Finish, ReplySent,
       ReplyFails, Release, Exit, HandlerTypeOK

(* Session implements Handling: the steps of a handler are those of its command,
   and no other goroutine moves a command. *)
THEOREM RefinesHandling == Spec => ImplementsHandling
<1> DEFINE Phases  == [g \in Commands |-> HandlingPhase(g)]
           Results == [g \in Commands |-> Status(outcome[g])]
           Logged(g) == IF line[g] = NoLine THEN "none" ELSE Status(line[g].status)
           Logs    == [g \in Commands |-> Logged(g)]
           Told    == [g \in Commands |-> Status(sent[g])]
           May     == [g \in Commands |-> g \notin Refused]
<1>1. Init => H!Init
  <2> SUFFICES ASSUME Init PROVE H!Init
    OBVIOUS
  <2>1. \A g \in Commands : /\ h[g] = "none" /\ outcome[g] = "none"
                            /\ line[g] = NoLine /\ sent[g] = "none"
    BY DEF Init
  <2>2. \A g \in Commands : HandlingPhase(g) = "waiting"
    BY <2>1 DEF HandlingPhase
  <2> QED
    BY <2>1, <2>2, StatusLemma DEF H!Init
<1>2. IInv /\ [Next]_vars => [H!Next]_(H!vars)
  <2> SUFFICES ASSUME IInv, [Next]_vars PROVE [H!Next]_(H!vars)
    OBVIOUS
  <2> HandlerTypeOK /\ PumpTypeOK /\ ReaderInv /\ HandlerInv /\ MainInv
    BY DEF IInv, TypeOK
  <2>0. ASSUME UNCHANGED <<outcome, line, sent>>,
               \A g \in Commands : HandlingPhase(g)' = HandlingPhase(g)
        PROVE  UNCHANGED H!vars
    BY <2>0 DEF H!vars
  <2>1. ASSUME UNCHANGED handlerVars PROVE UNCHANGED H!vars
    BY <2>0, <2>1 DEF handlerVars, HandlingPhase
  <2>2. CASE Main \/ Heartbeat \/ Environment
    BY <2>1, <2>2, MainFrame, HeartbeatFrame, EnvironmentFrame DEF pumpVars
  <2>3. CASE Reader
    <3>1. UNCHANGED <<outcome, line, sent>>
      BY <2>3, ReaderFrame
    <3>2. ASSUME NEW g \in Commands PROVE HandlingPhase(g)' = HandlingPhase(g)
      <4>1. CASE StartHandler \/ AbandonCommand
        BY <4>1 DEF StartHandler, AbandonCommand, ReaderInv, PumpTypeOK,
                    HandlerTypeOK, HandlingPhase
      <4>2. CASE ~StartHandler /\ ~AbandonCommand
        BY <2>3, <4>2
           DEF Reader, ReadCommand, ReadOther, ReadFails, IdleTimeout, ReaderFails,
               handlerVars, HandlingPhase
      <4> QED
        BY <4>1, <4>2
    <3> QED
      BY <2>0, <3>1, <3>2
  <2>4. ASSUME NEW f \in Commands, Handler(f) PROVE [H!Next]_(H!vars)
    <3>1. \A g \in Commands : g # f =>
            /\ HandlingPhase(g)' = HandlingPhase(g)
            /\ outcome'[g] = outcome[g] /\ line'[g] = line[g] /\ sent'[g] = sent[g]
      BY <2>4, OthersFrame DEF HandlingPhase
    (* So a step of Handling is known by what it does to f. *)
    <3>2. ASSUME HandlingPhase(f) = "waiting", HandlingPhase(f)' = "settled",
                 Status(outcome'[f]) = "denied", line' = line, sent' = sent
          PROVE  H!Refuse(f)
      <4>1. Phases' = [Phases EXCEPT ![f] = "settled"]
        BY <3>1, <3>2
      <4>2. Results' = [Results EXCEPT ![f] = "denied"]
        BY <3>1, <3>2
      <4>3. UNCHANGED <<May, Logs, Told>>
        BY <3>2
      <4> QED
        BY <3>2, <4>1, <4>2, <4>3 DEF H!Refuse
    <3>3. ASSUME HandlingPhase(f) = "waiting", HandlingPhase(f)' = "running",
                 f \notin Refused, outcome'[f] = outcome[f], line' = line, sent' = sent
          PROVE  H!Run(f)
      <4>1. Phases' = [Phases EXCEPT ![f] = "running"]
        BY <3>1, <3>3
      <4>2. UNCHANGED <<May, Results, Logs, Told>>
        BY <3>1, <3>3
      <4> QED
        BY <3>3, <4>1, <4>2 DEF H!Run
    <3>4. ASSUME HandlingPhase(f) = "running", HandlingPhase(f)' = "settled",
                 outcome'[f] \in ToolOutcomes, line' = line, sent' = sent
          PROVE  H!Return(f)
      <4>1. Phases' = [Phases EXCEPT ![f] = "settled"]
        BY <3>1, <3>4
      <4>2. Results' = [Results EXCEPT ![f] = Status(outcome'[f])]
        BY <3>1, <3>4
      <4>3. UNCHANGED <<May, Logs, Told>>
        BY <3>4
      <4>4. Status(outcome'[f]) \in H!ToolResults
        BY <3>4, StatusLemma
      <4> QED
        BY <3>4, <4>1, <4>2, <4>3, <4>4 DEF H!Return
    <3>5. CASE Enter(f)
      <4>1. HandlingPhase(f) = "waiting" /\ line' = line /\ sent' = sent
        BY <3>5 DEF Enter, HandlingPhase
      <4>2. CASE IdOf[f] = NoId
        <5>1. HandlingPhase(f)' = "settled" /\ Status(outcome'[f]) = "denied"
          BY <3>5, <4>2 DEF Enter, HandlingPhase, HandlerTypeOK, Status
        <5> QED
          BY <3>2, <4>1, <5>1 DEF H!Next
      <4>3. CASE IdOf[f] # NoId
        <5>1. HandlingPhase(f)' = "waiting" /\ outcome' = outcome
          BY <3>5, <4>3 DEF Enter, HandlingPhase, HandlerTypeOK
        <5> QED
          BY <2>0, <3>1, <4>1, <5>1
      <4> QED
        BY <4>2, <4>3
    <3>6. CASE ReadClock(f) \/ ReplyFails(f) \/ Release(f) \/ Exit(f)
      <4>1. UNCHANGED <<outcome, line, sent>> /\ HandlingPhase(f)' = HandlingPhase(f)
        BY <3>6 DEF ReadClock, ReplyFails, Release, Exit, HandlingPhase, HandlerTypeOK
      <4> QED
        BY <2>0, <3>1, <4>1
    <3>7. CASE Claim(f)
      <4> DEFINE dup == IsDuplicate(Pruned(seen, reading[f]), IdOf[f], reading[f])
      <4>1. HandlingPhase(f) = "waiting" /\ line' = line /\ sent' = sent
        BY <3>7 DEF Claim, HandlingPhase
      <4>2. CASE dup \/ f \in Refused
        <5>1. HandlingPhase(f)' = "settled" /\ Status(outcome'[f]) = "denied"
          BY <3>7, <4>2 DEF Claim, HandlingPhase, HandlerTypeOK, Status
        <5> QED
          BY <3>2, <4>1, <5>1 DEF H!Next
      <4>3. CASE ~dup /\ f \notin Refused
        <5>1. HandlingPhase(f)' = "running" /\ outcome'[f] = "none"
          BY <3>7, <4>3 DEF Claim, HandlingPhase, HandlerTypeOK
        <5>2. outcome[f] = "none"
          BY <3>7 DEF Claim, HandlerInv, HasOutcome
        <5> QED
          BY <3>3, <4>1, <4>3, <5>1, <5>2 DEF H!Next
      <4> QED
        BY <4>2, <4>3
    <3>8. CASE ToolReturns(f)
      <4>1. /\ HandlingPhase(f) = "running" /\ HandlingPhase(f)' = "settled"
            /\ outcome'[f] \in ToolOutcomes /\ line' = line /\ sent' = sent
        BY <3>8 DEF ToolReturns, HandlingPhase, HandlerTypeOK
      <4> QED
        BY <3>4, <4>1 DEF H!Next
    <3>9. CASE Finish(f)
      <4>1. /\ HandlingPhase(f) = "settled" /\ HandlingPhase(f)' = "settled"
            /\ outcome' = outcome /\ sent' = sent
        BY <3>9 DEF Finish, HandlingPhase, HandlerTypeOK
      <4>2. line[f] = NoLine /\ outcome[f] \in Outcomes /\ name[f] \in Conns
        BY <3>9 DEF Finish, HandlerInv, HasLine, HasOutcome, LivePcs, HoldingSem
      <4>3. line'[f] = [status |-> outcome[f], session |-> name[f]]
        BY <3>9 DEF Finish, HandlerTypeOK
      <4>4. line'[f] # NoLine /\ line'[f].status = outcome[f]
        BY <4>2, <4>3, SessionAssumption
      <4>5. Logs' = [Logs EXCEPT ![f] = Status(outcome[f])]
        BY <3>1, <4>4
      <4>6. UNCHANGED <<May, Phases, Results, Told>>
        BY <3>1, <4>1
      <4>7. H!Log(f)
        BY <4>1, <4>2, <4>5, <4>6 DEF H!Log
      <4> QED
        BY <4>7 DEF H!Next
    <3>10. CASE ReplySent(f)
      <4>1. /\ HandlingPhase(f)' = HandlingPhase(f)
            /\ outcome' = outcome /\ line' = line /\ sent'[f] = outcome[f]
        BY <3>10 DEF ReplySent, HandlingPhase, HandlerTypeOK
      <4>2. /\ line[f] = [status |-> outcome[f], session |-> via[f]]
            /\ outcome[f] \in Outcomes /\ via[f] \in Conns /\ sent[f] = "none"
        BY <3>10 DEF ReplySent, HandlerInv, HasReplied, HasLine, HasOutcome, LivePcs, HoldingSem
      <4>3. line[f] # NoLine /\ Logged(f) = Status(outcome[f])
        BY <4>2, SessionAssumption
      <4>4. Logged(f) # "none" /\ Status(sent[f]) = "none"
        BY <4>2, <4>3, StatusLemma
      <4>5. Told' = [Told EXCEPT ![f] = Status(outcome[f])]
        BY <3>1, <4>1
      <4>6. UNCHANGED <<May, Phases, Results, Logs>>
        BY <3>1, <4>1
      <4>7. H!Tell(f)
        BY <4>3, <4>4, <4>5, <4>6 DEF H!Tell
      <4> QED
        BY <4>7 DEF H!Next
    <3> QED
      BY <2>4, <3>5, <3>6, <3>7, <3>8, <3>9, <3>10 DEF Handler
  <2>5. CASE UNCHANGED vars
    BY <2>1, <2>5 DEF vars
  <2> QED
    BY <2>2, <2>3, <2>4, <2>5, NextCases
<1> QED
  BY <1>1, <1>2, Inductive, PTL DEF Spec, ImplementsHandling, H!Spec
================================================================================
