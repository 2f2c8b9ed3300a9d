---------------------------- MODULE ExchangeProofs ----------------------------
(***************************************************************************)
(* Proofs about Exchange: whatever the broker does the connector is a      *)
(* Session, so every theorem about Session holds of the exchange; and what *)
(* a caller is told agrees with what the connector has done.               *)
(***************************************************************************)
EXTENDS Exchange, SessionProofs, SequenceTheorems

(* The connections are numbered, and no frame is not a command. *)
LEMMA XBounds == Conns = 1..MaxConns /\ MaxConns \in Nat /\ NoFrame \notin Commands
BY SessionAssumption DEF Conns, Frames

--------------------------------------------------------------------------------
(* The connector of an exchange is a Session *)

(* What a caller, the broker or the world may do to the connector's state. *)
LEMMA StepOfSession == [XNext]_xvars => [Next]_vars
<1> SUFFICES ASSUME [XNext]_xvars PROVE [Next]_vars
  OBVIOUS
<1>1. CASE Connector
  BY <1>1 DEF Connector, ConnectorRuns, ConnectorListens, ConnectorWorks,
              ConnectorReplies, Next, Handler
<1>2. CASE World
  BY <1>2 DEF World, Next, Environment
<1>3. CASE Broker
  <2>1. CASE Chatter
    BY <2>1 DEF Chatter, Next, Environment, Frames
  <2> QED
    BY <1>3, <2>1 DEF Broker, Lists, Welcomes, ReadsResult, Drops
<1>4. CASE Callers
  BY <1>4 DEF Callers, Issue, Transmit, Next, Environment, Frames
<1>5. CASE UNCHANGED xvars
  BY <1>5 DEF xvars
<1> QED
  BY <1>1, <1>2, <1>3, <1>4, <1>5 DEF XNext

(* Run, runOnce, pump and handle: no behaviour of a broker or of its callers
   takes the connector out of Session. *)
THEOREM RefinesSession == XSpec => Spec
<1>1. XInit => Init
  BY DEF XInit
<1> QED
  BY <1>1, StepOfSession, PTL DEF XSpec, Spec

(* In particular the invariant of Session holds. *)
THEOREM SessionInvariant == XSpec => []IInv
BY RefinesSession, Inductive, PTL

--------------------------------------------------------------------------------
(* Claims: the table and the denials stay justified *)

(* Commands come over the connection in use, and none over a later one. *)
LEMMA ViaStep == IInv /\ ViaKnown /\ [Next]_vars => ViaKnown'
<1> SUFFICES ASSUME IInv, ViaKnown, [Next]_vars PROVE ViaKnown'
  OBVIOUS
<1>1. conn \in Nat /\ \A f \in Commands : via[f] \in Nat
  BY XBounds DEF IInv, TypeOK, ConnTypeOK, HandlerTypeOK
<1>2. CASE Main
  <2>1. via' = via /\ (conn' = conn \/ conn' = conn + 1)
    BY <1>2, MainFrame
       DEF handlerVars, connVars, Main, RunTop, BackoffElapsed, BackoffCancelled, DialSucceeds,
           DialFails, Upgraded, UpgradeFails, SayHello, HandshakeFails, Welcomed, PumpFails,
           PumpCancelled, PumpCloses, PumpReturns
  <2> QED
    BY <1>1, <2>1 DEF ViaKnown
<1>3. CASE Reader
  <2>1. conn' = conn /\ (via' = via \/ via' = [via EXCEPT ![Head(wire)] = conn])
    BY <1>3, ReaderFrame
       DEF Reader, ReadCommand, ReadOther, ReadFails, IdleTimeout, ReaderFails, StartHandler,
           AbandonCommand, handlerVars
  <2>2. via \in [Commands -> 0..MaxConns]
    BY DEF IInv, TypeOK, HandlerTypeOK
  <2> QED
    BY <1>1, <2>1, <2>2 DEF ViaKnown
<1>4. CASE ~Main /\ ~Reader
  <2>1. via' = via /\ conn' = conn
    BY <1>4, NextCases, HeartbeatFrame, HandlerFrame, EnvironmentFrame
       DEF vars, connVars, handlerVars
  <2> QED
    BY <2>1 DEF ViaKnown
<1> QED
  BY <1>2, <1>3, <1>4

(* Every step but a claim: what is admitted stays, and nothing is denied. *)
LEMMA ClaimsKept ==
    ASSUME ClaimsJustified, seen' = seen,
           \A f \in Claiming :
               /\ ClaimState(f) = "admitted" =>
                    /\ ClaimState(f)' = "admitted"
                    /\ reading'[f] = reading[f] /\ via'[f] = via[f]
               /\ ClaimState(f)' = "denied" =>
                    /\ ClaimState(f) = "denied"
                    /\ reading'[f] = reading[f] /\ via'[f] = via[f]
    PROVE  ClaimsJustified'
<1>1. \A f \in D!Admitted :
        f \in D!Admitted' /\ f \in Claiming /\ reading'[f] = reading[f] /\ via'[f] = via[f]
  BY DEF D!Admitted
<1>2. D!TableJustified'
  <2> SUFFICES ASSUME NEW id \in DOMAIN seen
               PROVE  \E f \in D!Admitted' :
                         /\ [g \in Claiming |-> IdOf[g]][f] = id
                         /\ [g \in Claiming |-> reading[g]]'[f] = seen[id]
    BY DEF D!TableJustified
  <2>1. PICK f \in D!Admitted :
               /\ [g \in Claiming |-> IdOf[g]][f] = id
               /\ [g \in Claiming |-> reading[g]][f] = seen[id]
    BY DEF ClaimsJustified, D!TableJustified
  <2> QED
    BY <1>1, <2>1
<1>3. DenialsFollow'
  BY <1>1 DEF ClaimsJustified, DenialsFollow, Expired
<1> QED
  BY <1>2, <1>3 DEF ClaimsJustified

(* claim: an entry that denies f, or that f leaves, is that of an admitted
   command. *)
LEMMA ClaimJustifies ==
    ASSUME IInv, ViaKnown, ClaimsJustified, NEW f \in Commands, Claim(f)
    PROVE  ClaimsJustified'
<1> DEFINE table == Pruned(seen, reading[f])
           dup   == IsDuplicate(table, IdOf[f], reading[f])
<1> HandlerTypeOK /\ HandlerInv
  BY DEF IInv, TypeOK
<1>1. f \in Claiming /\ ClaimState(f) = "clock" /\ reading' = reading /\ via' = via
      /\ via[f] = conn
  BY DEF Claim, HandlerInv, Claiming, ClaimState, LivePcs, HoldingSem
<1>2. ASSUME NEW g \in Claiming, g # f PROVE ClaimState(g)' = ClaimState(g)
  BY <1>2 DEF Claim, ClaimState, HandlerTypeOK, Claiming
<1>3. ClaimState(f)' = IF dup THEN "denied" ELSE "admitted"
  BY <1>1 DEF Claim, ClaimState, HandlerTypeOK
<1>4. \A id \in DOMAIN table : id \in DOMAIN seen /\ table[id] = seen[id]
  BY DEF Pruned, Restrict, Fresh
<1>5. \A g \in D!Admitted : g \in D!Admitted'
  BY <1>1, <1>2 DEF D!Admitted
<1> HIDE DEF table
<1>6. ASSUME NEW id \in DOMAIN table
      PROVE  \E g \in D!Admitted : IdOf[g] = id /\ reading[g] = table[id]
  BY <1>4, <1>6 DEF ClaimsJustified, D!TableJustified, D!Admitted
<1>7. D!TableJustified'
  <2>1. CASE dup
    <3>1. seen' = table
      BY <2>1 DEF Claim, table
    <3> QED
      BY <1>1, <1>5, <1>6, <3>1 DEF D!TableJustified, D!Admitted
  <2>2. CASE ~dup
    <3>1. seen' = Recorded(table, IdOf[f], reading[f])
      BY <2>2 DEF Claim, table
    <3>2. f \in D!Admitted'
      BY <1>1, <1>3, <2>2 DEF D!Admitted
    <3>3. ASSUME NEW id \in DOMAIN seen'
          PROVE  \E g \in D!Admitted' : IdOf[g] = id /\ reading[g] = seen'[id]
      BY <3>1, <3>2, <3>3, <1>5, <1>6 DEF Recorded
    <3> QED
      BY <1>1, <3>3 DEF D!TableJustified, D!Admitted
  <2> QED
    BY <2>1, <2>2
<1>8. DenialsFollow'
  <2> SUFFICES ASSUME NEW g \in Claiming, ClaimState(g)' = "denied"
               PROVE  \E e \in D!Admitted' :
                         /\ IdOf[e] = IdOf[g] /\ ~Expired(reading[e], reading[g])
                         /\ via[e] <= via[g]
    BY <1>1 DEF DenialsFollow, Expired
  <2>1. CASE g = f
    <3>1. IdOf[f] \in DOMAIN table /\ ~Expired(table[IdOf[f]], reading[f])
      BY <1>3, <2>1 DEF IsDuplicate
    <3>2. \A e \in D!Admitted : via[e] <= via[f]
      BY <1>1 DEF ViaKnown, D!Admitted, Claiming
    <3> QED
      BY <1>5, <1>6, <2>1, <3>1, <3>2
  <2>2. CASE g # f
    <3>1. ClaimState(g) = "denied"
      BY <1>2, <2>2
    <3> QED
      BY <1>5, <3>1 DEF ClaimsJustified, DenialsFollow
  <2> QED
    BY <2>1, <2>2
<1> QED
  BY <1>7, <1>8 DEF ClaimsJustified

(* Every step keeps the table and the denials of the connector justified. *)
LEMMA ClaimsStep == IInv /\ ViaKnown /\ ClaimsJustified /\ [Next]_vars => ClaimsJustified'
<1> SUFFICES ASSUME IInv, ViaKnown, ClaimsJustified, [Next]_vars PROVE ClaimsJustified'
  OBVIOUS
<1> HandlerTypeOK /\ HandlerInv /\ ReaderInv /\ PumpTypeOK
  BY DEF IInv, TypeOK
<1>1. CASE Main \/ Heartbeat \/ Environment \/ UNCHANGED vars
  <2>1. UNCHANGED handlerVars
    BY <1>1, MainFrame, HeartbeatFrame, EnvironmentFrame DEF vars
  <2>2. seen' = seen
    BY <1>1, HeartbeatFrame, EnvironmentFrame
       DEF vars, runnerVars, Main, RunTop, BackoffElapsed, BackoffCancelled, DialSucceeds,
           DialFails, Upgraded, UpgradeFails, SayHello, HandshakeFails, Welcomed,
           PumpFails, PumpCancelled, PumpCloses, PumpReturns
  <2> QED
    BY <2>1, <2>2, ClaimsKept, ClaimStateFrame DEF handlerVars, Claiming
<1>2. CASE Reader
  <2>1. UNCHANGED <<reading, outcome, seen>>
    BY <1>2, ReaderFrame DEF runnerVars
  <2>2. ASSUME NEW f \in Claiming PROVE ClaimState(f)' = ClaimState(f)
    <3>1. CASE StartHandler \/ AbandonCommand
      BY <2>1, <3>1 DEF StartHandler, AbandonCommand, ReaderInv, PumpTypeOK,
                        HandlerTypeOK, ClaimState, Claiming
    <3>2. CASE ~StartHandler /\ ~AbandonCommand
      BY <1>2, <2>1, <3>2
         DEF Reader, ReadCommand, ReadOther, ReadFails, IdleTimeout, ReaderFails,
             handlerVars, ClaimState
    <3> QED
      BY <3>1, <3>2
  <2>3. ASSUME NEW f \in Claiming, via'[f] # via[f] PROVE ClaimState(f) = "new"
    <3>1. Head(wire) = f /\ Readable
      BY <1>2, <2>3
         DEF Reader, ReadCommand, ReadOther, ReadFails, IdleTimeout, ReaderFails, StartHandler,
             AbandonCommand, handlerVars, HandlerTypeOK, Claiming
    <3>2. h[f] = "none"
      BY <3>1 DEF Readable, ReaderInv, Untouched, Claiming, IInv, TypeOK, ConnTypeOK
    <3> QED
      BY <3>2 DEF ClaimState
  <2> QED
    BY <2>1, <2>2, <2>3, ClaimsKept
<1>3. ASSUME NEW f \in Commands, Handler(f) PROVE ClaimsJustified'
  <2>1. CASE Claim(f)
    BY <2>1, ClaimJustifies
  <2>2. CASE ReadClock(f)
    <3>1. ClaimState(f) = "new" /\ ClaimState(f)' = "clock" /\ seen' = seen /\ via' = via
      BY <2>2 DEF ReadClock, ClaimState, HandlerTypeOK, runnerVars
    <3>2. ASSUME NEW g \in Commands, g # f
          PROVE  ClaimState(g)' = ClaimState(g) /\ reading'[g] = reading[g]
      BY <2>2, <3>2 DEF ReadClock, ClaimState, HandlerTypeOK
    <3> QED
      BY <3>1, <3>2, ClaimsKept DEF Claiming
  <2>3. CASE ~Claim(f) /\ ~ReadClock(f)
    <3>1. UNCHANGED <<reading, seen, via>>
      BY <1>3, <2>3
         DEF Handler, Enter, ToolReturns, Finish, ReplySent, ReplyFails, Release, Exit,
             runnerVars
    <3>2. ClaimState(f)' = ClaimState(f) \/ f \notin Claiming
      BY <1>3, <2>3
         DEF Handler, Enter, ToolReturns, Finish, ReplySent, ReplyFails, Release, Exit,
             ToolOutcomes, ClaimState, Claiming, HandlerTypeOK
    <3>3. ASSUME NEW g \in Commands, g # f PROVE ClaimState(g)' = ClaimState(g)
      BY <1>3, <2>3, <3>3
         DEF Handler, Enter, ToolReturns, Finish, ReplySent, ReplyFails, Release, Exit,
             ClaimState, HandlerTypeOK
    <3> QED
      BY <3>1, <3>2, <3>3, ClaimsKept DEF Claiming
  <2> QED
    BY <2>1, <2>2, <2>3
<1> QED
  BY <1>1, <1>2, <1>3, NextCases

(* claim: a command is denied as a duplicate only if it carries an id. *)
LEMMA DenialsStep == IInv /\ DenialsNamed /\ [Next]_vars => DenialsNamed'
<1> SUFFICES ASSUME IInv, DenialsNamed, [Next]_vars PROVE DenialsNamed'
  OBVIOUS
<1> HandlerTypeOK /\ HandlerInv
  BY DEF IInv, TypeOK
<1>1. CASE ~\E f \in Commands : Handler(f)
  <2>1. outcome' = outcome
    BY <1>1, NextCases, MainFrame, HeartbeatFrame, ReaderFrame, EnvironmentFrame
       DEF vars, handlerVars
  <2> QED
    BY <2>1 DEF DenialsNamed, Claiming
<1>2. ASSUME NEW f \in Commands, Handler(f) PROVE DenialsNamed'
  <2>1. CASE Claim(f)
    BY <2>1 DEF Claim, DenialsNamed, HandlerInv, HandlerTypeOK, Claiming
  <2>2. CASE ~Claim(f)
    <3>1. \A g \in Commands : outcome'[g] = outcome[g] \/ outcome'[g] # "duplicate_command_id"
      BY <1>2, <2>2
         DEF Handler, Enter, ReadClock, ToolReturns, Finish, ReplySent, ReplyFails, Release,
             Exit, ToolOutcomes, HandlerTypeOK
    <3> QED
      BY <3>1 DEF DenialsNamed, Claiming
  <2> QED
    BY <2>1, <2>2
<1> QED
  BY <1>1, <1>2

--------------------------------------------------------------------------------
(* What the broker and the connector know of each other *)

(* Every step keeps the types of the broker's state. *)
LEMMA XTypeStep == IInv /\ XTypeOK /\ [XNext]_xvars => XTypeOK'
<1> SUFFICES ASSUME IInv, XTypeOK, [XNext]_xvars PROVE XTypeOK'
  OBVIOUS
<1> USE DEF XTypeOK, OnlineStates
<1>1. ASSUME NEW f \in Commands PROVE IdOf[f] \in AllIds
  BY SessionAssumption DEF AllIds
<1>2. CASE UNCHANGED brokerVars
  BY <1>2 DEF brokerVars
<1>3. ASSUME NEW f \in Commands, ConnectorReplies(f) PROVE XTypeOK'
  <2>1. via[f] \in Conns
    BY <1>3 DEF ConnectorReplies, ReplySent, IInv, HandlerInv, LivePcs, HoldingSem
  <2>2. Append(back[via[f]], f) \in Seq(Commands)
    BY <2>1
  <2> QED
    BY <1>3, <2>2 DEF ConnectorReplies
<1>4. CASE Lists
  BY <1>4 DEF Lists
<1>5. ASSUME NEW c \in Conns, Welcomes(c) \/ Drops(c) PROVE XTypeOK'
  <2>1. <<>> \in Seq(Commands)
    OBVIOUS
  <2> QED
    BY <1>5, <2>1 DEF Welcomes, Drops
<1>6. ASSUME NEW c \in Conns, ReadsResult(c) PROVE XTypeOK'
  <2>1. back[c] \in Seq(Commands) /\ back[c] # <<>>
    BY <1>6 DEF ReadsResult
  <2>2. Head(back[c]) \in Commands /\ Tail(back[c]) \in Seq(Commands)
    BY <2>1
  <2> QED
    BY <1>1, <1>6, <2>2 DEF ReadsResult, Deliver
<1>7. ASSUME NEW f \in Commands, NEW c \in Conns, Issue(f, c) PROVE XTypeOK'
  <2>1. c \in 0..MaxConns
    BY XBounds
  <2>2. listed' \in [Conns -> OnlineStates \cup {"none", "gone"}] /\ back' = back
    BY <1>7 DEF Issue, Transmit
  <2> QED
    BY <1>1, <1>7, <2>1, <2>2 DEF Issue
<1> QED
  BY <1>2, <1>3, <1>4, <1>5, <1>6, <1>7
     DEF XNext, Connector, ConnectorRuns, ConnectorListens, ConnectorWorks, World, Broker,
         Chatter, Callers, xvars, brokerVars

(* The steps that leave the wire, the connection and what was received alone. *)
LEMMA FramesKept ==
    ASSUME IInv, FramesKnown, UNCHANGED <<wire, conn, via>>,
           runPc' \in PumpPcs => conn \in Conns /\ WasWelcomed(conn),
           \A c \in Conns : WasWelcomed(c) => listed'[c] \in {"welcomed", "gone"},
           \A f \in Commands : on[f] # 0 => on'[f] = on[f]
    PROVE  FramesKnown'
<1>1. \A f \in Commands : Received(f) => via[f] \in Conns
  BY XBounds DEF IInv, TypeOK, HandlerTypeOK, Received
<1>2. \A i \in 1..Len(wire) : wire[i] \in Commands => on[wire[i]] # 0
  BY XBounds DEF FramesKnown
<1> QED
  BY <1>1, <1>2, XBounds DEF FramesKnown, Received, WasWelcomed

(* Every step keeps the frames on the session they were issued on. *)
LEMMA FramesStep == IInv /\ XTypeOK /\ FramesKnown /\ [XNext]_xvars => FramesKnown'
<1> SUFFICES ASSUME IInv, XTypeOK, FramesKnown, [XNext]_xvars PROVE FramesKnown'
  OBVIOUS
<1> MainInv /\ MainTypeOK /\ ConnTypeOK /\ PumpTypeOK /\ HandlerTypeOK /\ HandlerInv
  BY DEF IInv, TypeOK
<1>1. ASSUME UNCHANGED <<runPc, wire, conn, via, brokerVars>> PROVE FramesKnown'
  BY <1>1 DEF FramesKnown, Received, WasWelcomed, brokerVars
<1>2. CASE ConnectorRuns
  <2>1. UNCHANGED <<via, listed, on>>
    BY <1>2, MainFrame DEF ConnectorRuns, handlerVars, brokerVars
  <2>2. CASE DialSucceeds
    <3>1. wire' = <<>> /\ runPc' \notin PumpPcs
      BY <2>2 DEF DialSucceeds, PumpPcs
    <3> QED
      BY <2>1, <3>1 DEF FramesKnown, Received, WasWelcomed
  <2>3. CASE ~DialSucceeds
    <3>1. UNCHANGED <<wire, conn>>
      BY <1>2, <2>3
         DEF ConnectorRuns, Main, RunTop, BackoffElapsed, BackoffCancelled, DialFails, Upgraded,
             UpgradeFails, SayHello, Welcomed, HandshakeFails, PumpFails, PumpCancelled,
             PumpCloses, PumpReturns, connVars
    <3>2. runPc' \in PumpPcs =>
            runPc \in PumpPcs \/ (runPc \in HandshakePcs /\ listed[conn] = "welcomed")
      BY <1>2, <2>3
         DEF ConnectorRuns, PumpNeedsWelcome, Main, RunTop, BackoffElapsed, BackoffCancelled,
             DialFails, Upgraded, UpgradeFails, SayHello, Welcomed, HandshakeFails, PumpFails,
             PumpCancelled, PumpCloses, PumpReturns, AfterRunOnce, PumpPcs,
             HandshakePcs
    <3>3. runPc' \in PumpPcs => conn \in Conns /\ WasWelcomed(conn)
      BY <3>2 DEF FramesKnown, MainInv, WasWelcomed
    <3> QED
      BY <2>1, <3>1, <3>3, FramesKept DEF WasWelcomed
  <2> QED
    BY <2>2, <2>3
<1>3. CASE ConnectorListens
  <2>1. CASE Heartbeat
    BY <1>1, <1>3, <2>1, HeartbeatFrame
       DEF ConnectorListens, mainVars, connVars, handlerVars
  <2>2. CASE ReadCommand
    <3>1. wire \in Seq(Frames) /\ wire # <<>>
      BY <2>2 DEF ReadCommand, Readable, ConnTypeOK
    <3>2. Head(wire) = wire[1] /\ 1 \in 1..Len(wire)
      BY <3>1
    <3>3. on[Head(wire)] = conn /\ WasWelcomed(conn) /\ conn \in Conns
      BY <2>2, <3>2 DEF ReadCommand, FramesKnown
    <3>4. \A i \in 1..Len(Tail(wire)) : i + 1 \in 1..Len(wire) /\ Tail(wire)[i] = wire[i + 1]
      BY <3>1
    <3>5. UNCHANGED <<runPc, conn, listed, on>>
      BY <1>3, <2>2 DEF ConnectorListens, ReadCommand, mainVars, brokerVars
    <3> QED
      BY <2>2, <3>3, <3>4, <3>5
         DEF ReadCommand, FramesKnown, Received, WasWelcomed, HandlerTypeOK
  <2>3. CASE ReadOther
    <3>1. wire \in Seq(Frames) /\ wire # <<>>
      BY <2>3 DEF ReadOther, Readable, ConnTypeOK
    <3>2. \A i \in 1..Len(Tail(wire)) : i + 1 \in 1..Len(wire) /\ Tail(wire)[i] = wire[i + 1]
      BY <3>1
    <3>3. UNCHANGED <<runPc, conn, via, listed, on>> /\ wire' = Tail(wire)
      BY <1>3, <2>3 DEF ConnectorListens, ReadOther, mainVars, handlerVars, brokerVars
    <3> QED
      BY <3>2, <3>3 DEF FramesKnown, Received, WasWelcomed
  <2>4. CASE Reader /\ ~ReadCommand /\ ~ReadOther
    BY <1>1, <1>3, <2>4
       DEF ConnectorListens, Reader, ReadFails, IdleTimeout, ReaderFails, StartHandler,
           AbandonCommand, mainVars, connVars, handlerVars
  <2> QED
    BY <1>3, <2>1, <2>2, <2>3, <2>4 DEF ConnectorListens
<1>4. ASSUME NEW f \in Commands, ConnectorWorks(f) \/ ConnectorReplies(f) PROVE FramesKnown'
  <2>1. Handler(f) /\ UNCHANGED <<listed, on>>
    BY <1>4 DEF ConnectorWorks, ConnectorReplies, Handler, brokerVars
  <2> QED
    BY <2>1, HandlerFrame DEF FramesKnown, Received, WasWelcomed, mainVars, connVars
<1>5. CASE World
  BY <1>1, <1>5 DEF World, Cancel, ConnectionBreaks, Tick, Exited, vars, mainVars, connVars,
                    handlerVars
<1>6. ASSUME UNCHANGED vars, \A f \in Commands : on[f] # 0 => on'[f] = on[f],
             \A c \in Conns : WasWelcomed(c) => listed'[c] \in {"welcomed", "gone"}
      PROVE  FramesKnown'
  <2>1. UNCHANGED <<runPc, wire, conn, via>>
    BY <1>6 DEF vars, mainVars, connVars, handlerVars
  <2>2. runPc \in PumpPcs => conn \in Conns /\ WasWelcomed(conn)
    BY DEF MainInv, FramesKnown
  <2> QED
    BY <1>6, <2>1, <2>2, FramesKept
<1>7. CASE Lists
  BY <1>6, <1>7 DEF Lists, WasWelcomed, XTypeOK
<1>8. ASSUME NEW c \in Conns, Welcomes(c) \/ ReadsResult(c) \/ Drops(c) PROVE FramesKnown'
  BY <1>6, <1>8 DEF Welcomes, ReadsResult, Drops, WasWelcomed, XTypeOK
<1>9. ASSUME NEW f \in Frames, BrokerSends(f), listed' = listed, listed[conn] = "welcomed",
             conn \in Conns, f \in Commands => on'[f] = conn,
             \A g \in Commands : on[g] # 0 => on'[g] = on[g]
      PROVE  FramesKnown'
  <2>1. UNCHANGED <<runPc, conn, via>> /\ wire' = Append(wire, f) /\ wire \in Seq(Frames)
    BY <1>9 DEF BrokerSends, mainVars, handlerVars, ConnTypeOK
  <2>2. /\ Len(wire') = Len(wire) + 1 /\ Len(wire) \in Nat
        /\ wire'[Len(wire) + 1] = f /\ \A i \in 1..Len(wire) : wire'[i] = wire[i]
    BY <2>1
  <2>3. \A g \in Commands : Received(g) => on'[g] = on[g]
    BY <1>9, XBounds DEF FramesKnown, Received, HandlerTypeOK
  <2>4. \A i \in 1..Len(wire) : wire[i] \in Commands => on'[wire[i]] = conn
    BY <1>9, XBounds DEF FramesKnown
  <2> QED
    BY <1>9, <2>1, <2>2, <2>3, <2>4 DEF FramesKnown, Received, WasWelcomed
<1>10. CASE Chatter
  <2>1. PICK o \in Others : BrokerSends(o)
    BY <1>10 DEF Chatter
  <2>2. UNCHANGED <<listed, on>> /\ listed[conn] = "welcomed" /\ conn \in Conns /\ o \notin Commands
    BY <1>10, SessionAssumption DEF Chatter, brokerVars, MainInv
  <2> QED
    BY <1>9, <2>1, <2>2 DEF Frames
<1>11. ASSUME NEW f \in Commands, NEW c \in Conns, Issue(f, c) PROVE FramesKnown'
  <2>1. on[f] = 0 /\ on' = [on EXCEPT ![f] = c] /\ on \in [Commands -> 0..MaxConns]
    BY <1>11 DEF Issue, XTypeOK
  <2>2. \A g \in Commands : on[g] # 0 => on'[g] = on[g]
    BY <2>1
  <2>3. CASE listed[c] = "welcomed" /\ c = conn /\ BrokerSends(f) /\ UNCHANGED listed
    BY <1>9, <2>1, <2>2, <2>3 DEF Frames
  <2>4. CASE UNCHANGED vars /\ \A d \in Conns : WasWelcomed(d) => listed'[d] = listed[d]
    BY <1>6, <2>2, <2>4 DEF WasWelcomed
  <2> QED
    BY <1>11, <2>3, <2>4 DEF Issue, Transmit, WasWelcomed, XTypeOK
<1> QED
  BY <1>1, <1>2, <1>3, <1>4, <1>5, <1>7, <1>8, <1>10, <1>11
     DEF XNext, Connector, Broker, Callers, xvars, vars, mainVars, connVars, handlerVars

(* A result the broker has was written by the connector for that id. *)
LEMMA GotKnown ==
    ASSUME XTypeOK, ResultsKnown, NEW c \in Conns, NEW id \in AllIds, got[c][id] # NoFrame
    PROVE  got[c][id] \in Commands /\ Written(got[c][id], c) /\ IdOf[got[c][id]] = id
<1>1. got[c][id] \in Commands \cup {NoFrame}
  BY DEF XTypeOK
<1>2. Written(got[c][id], c) /\ IdOf[got[c][id]] = id
  BY DEF ResultsKnown
<1> QED
  BY <1>1, <1>2

(* What makes ResultsKnown hold after a step. *)
LEMMA ResultsFrom ==
    ASSUME \A c \in Conns : \A i \in 1..Len(back'[c]) :
               on'[back'[c][i]] = c /\ sent'[back'[c][i]] # "none",
           \A c \in Conns, id \in AllIds :
               got'[c][id] # NoFrame =>
                   /\ on'[got'[c][id]] = c /\ sent'[got'[c][id]] # "none"
                   /\ IdOf[got'[c][id]] = id
    PROVE  ResultsKnown'
BY DEF ResultsKnown, Written

(* What a handler has written stays written, and a session stays that of the
   commands issued on it. *)
LEMMA ResultsStep ==
    IInv /\ XTypeOK /\ FramesKnown /\ ResultsKnown /\ [XNext]_xvars => ResultsKnown'
<1> SUFFICES ASSUME IInv, XTypeOK, FramesKnown, ResultsKnown, [XNext]_xvars
             PROVE  ResultsKnown'
  OBVIOUS
<1> HandlerTypeOK /\ HandlerInv
  BY DEF IInv, TypeOK
<1>0. \A c \in Conns : /\ back[c] \in Seq(Commands)
                      /\ \A i \in 1..Len(back[c]) : back[c][i] \in Commands
                      /\ \A id \in AllIds : got[c][id] \in Commands \cup {NoFrame}
  BY DEF XTypeOK
<1>1. ASSUME UNCHANGED <<back, got>>,
             \A f \in Commands, c \in Conns :
                 Written(f, c) => on'[f] = c /\ sent'[f] # "none"
      PROVE  ResultsKnown'
  <2>1. ASSUME NEW c \in Conns, NEW i \in 1..Len(back'[c])
        PROVE  on'[back'[c][i]] = c /\ sent'[back'[c][i]] # "none"
    <3>1. back[c][i] \in Commands /\ Written(back[c][i], c)
      BY <1>0, <1>1, <2>1 DEF ResultsKnown
    <3> QED
      BY <1>1, <3>1
  <2>2. ASSUME NEW c \in Conns, NEW id \in AllIds, got'[c][id] # NoFrame
        PROVE  /\ on'[got'[c][id]] = c /\ sent'[got'[c][id]] # "none"
               /\ IdOf[got'[c][id]] = id
    <3>1. got[c][id] \in Commands /\ Written(got[c][id], c) /\ IdOf[got[c][id]] = id
      BY <1>1, <2>2, GotKnown
    <3> QED
      BY <1>1, <3>1
  <2> QED
    BY <2>1, <2>2, ResultsFrom
<1>3. CASE UNCHANGED <<sent, brokerVars>>
  BY <1>1, <1>3 DEF Written, brokerVars
<1>4. ASSUME NEW f \in Commands, ConnectorReplies(f) PROVE ResultsKnown'
  <2>0. h[f] = "reply"
    BY <1>4 DEF ConnectorReplies, ReplySent
  <2>1. via[f] \in Conns /\ on[f] = via[f] /\ outcome[f] # "none"
    <3>1. via[f] \in Conns /\ outcome[f] \in Outcomes
      BY <2>0 DEF HandlerInv, LivePcs, HoldingSem, HasOutcome
    <3> QED
      BY <3>1, XBounds DEF FramesKnown, Received, Outcomes, ToolOutcomes
  <2>2. sent' = [sent EXCEPT ![f] = outcome[f]] /\ on' = on /\ got' = got
    BY <1>4 DEF ConnectorReplies, ReplySent
  <2>3. \A g \in Commands, c \in Conns : Written(g, c) => on'[g] = c /\ sent'[g] # "none"
    BY <2>1, <2>2 DEF Written, HandlerTypeOK
  <2>4. on'[f] = via[f] /\ sent'[f] # "none"
    BY <2>1, <2>2 DEF Written, HandlerTypeOK
  <2>5. CASE back' = back
    BY <1>1, <2>2, <2>3, <2>5
  <2>6. CASE back' = [back EXCEPT ![via[f]] = Append(@, f)]
    <3>1. ASSUME NEW c \in Conns, NEW i \in 1..Len(back'[c])
          PROVE  \/ back'[c][i] = f /\ c = via[f]
                 \/ i \in 1..Len(back[c]) /\ back'[c][i] = back[c][i]
      <4>1. CASE c # via[f]
        BY <2>6, <3>1, <4>1 DEF XTypeOK
      <4>2. CASE c = via[f]
        <5>1. back'[c] = Append(back[c], f) /\ back[c] \in Seq(Commands)
          BY <1>0, <2>6, <4>2 DEF XTypeOK
        <5>2. /\ Len(back'[c]) = Len(back[c]) + 1 /\ Len(back[c]) \in Nat
              /\ back'[c][Len(back[c]) + 1] = f
              /\ \A j \in 1..Len(back[c]) : back'[c][j] = back[c][j]
          BY <5>1
        <5> QED
          BY <3>1, <4>2, <5>2
      <4> QED
        BY <4>1, <4>2
    <3>2. \A c \in Conns : \A i \in 1..Len(back'[c]) :
            on'[back'[c][i]] = c /\ sent'[back'[c][i]] # "none"
      BY <1>0, <2>3, <2>4, <3>1 DEF ResultsKnown
    <3>3. ASSUME NEW c \in Conns, NEW id \in AllIds, got'[c][id] # NoFrame
          PROVE  /\ on'[got'[c][id]] = c /\ sent'[got'[c][id]] # "none"
                 /\ IdOf[got'[c][id]] = id
      <4>1. got[c][id] \in Commands /\ Written(got[c][id], c) /\ IdOf[got[c][id]] = id
        BY <2>2, <3>3, GotKnown
      <4> QED
        BY <2>2, <2>3, <4>1
    <3> QED
      BY <3>2, <3>3, ResultsFrom
  <2> QED
    BY <1>4, <2>5, <2>6 DEF ConnectorReplies
<1>5. CASE Lists
  BY <1>1, <1>5 DEF Lists, Written, vars, handlerVars
<1>6. ASSUME NEW c \in Conns, Welcomes(c) \/ Drops(c) PROVE ResultsKnown'
  <2>1. UNCHANGED <<sent, on, got>> /\ (back' = back \/ back' = [back EXCEPT ![c] = <<>>])
    BY <1>6 DEF Welcomes, Drops, vars, handlerVars
  <2>2. \A d \in Conns : \A i \in 1..Len(back'[d]) :
          i \in 1..Len(back[d]) /\ back'[d][i] = back[d][i]
    <3>1. ASSUME NEW d \in Conns PROVE back'[d] \in {back[d], <<>>}
      BY <2>1 DEF XTypeOK
    <3>2. Len(<<>>) = 0
      OBVIOUS
    <3> QED
      BY <3>1, <3>2
  <2> QED
    BY <2>1, <2>2, ResultsFrom DEF ResultsKnown, Written
<1>7. ASSUME NEW c \in Conns, ReadsResult(c) PROVE ResultsKnown'
  <2> DEFINE f == Head(back[c])
  <2>1. UNCHANGED <<sent, on>>
    BY <1>7 DEF ReadsResult, vars, handlerVars
  <2>2. back[c] # <<>> /\ back' = [back EXCEPT ![c] = Tail(@)]
    BY <1>7 DEF ReadsResult
  <2>3. f \in Commands /\ Written(f, c) /\ IdOf[f] \in AllIds
    BY <1>0, <2>2, SessionAssumption DEF ResultsKnown, AllIds
  <2>4. \A i \in 1..Len(Tail(back[c])) :
          i + 1 \in 1..Len(back[c]) /\ Tail(back[c])[i] = back[c][i + 1]
    BY <1>0, <2>2
  <2>5. \A d \in Conns : \A i \in 1..Len(back'[d]) : Written(back'[d][i], d)
    BY <2>2, <2>4 DEF ResultsKnown, XTypeOK
  <2>6. got' = [got EXCEPT ![c][IdOf[f]] = f] \/ got' = got
    BY <1>7 DEF ReadsResult, Deliver
  <2>7. \A d \in Conns, id \in AllIds :
          got'[d][id] # NoFrame => Written(got'[d][id], d) /\ IdOf[got'[d][id]] = id
    <3>1. CASE got' = [got EXCEPT ![c][IdOf[f]] = f]
      <4>1. \A d \in Conns, id \in AllIds :
              got'[d][id] = IF d = c /\ id = IdOf[f] THEN f ELSE got[d][id]
        BY <3>1 DEF XTypeOK
      <4> QED
        BY <2>3, <4>1 DEF ResultsKnown
    <3> QED
      BY <2>6, <3>1 DEF ResultsKnown
  <2> QED
    BY <2>1, <2>5, <2>7, ResultsFrom DEF Written
<1>8. ASSUME NEW f \in Commands, NEW c \in Conns, Issue(f, c) PROVE ResultsKnown'
  <2>1. sent' = sent /\ back' = back
    BY <1>8 DEF Issue, Transmit, BrokerSends, vars, handlerVars
  <2>2. on[f] = 0 /\ on' = [on EXCEPT ![f] = c]
    BY <1>8 DEF Issue
  <2>3. \A g \in Commands, d \in Conns : Written(g, d) => on'[g] = d /\ sent'[g] # "none"
    BY <2>1, <2>2, XBounds DEF Written, XTypeOK
  <2>4. got' = got \/ got' = [got EXCEPT ![c][IdOf[f]] = NoFrame]
    BY <1>8 DEF Issue
  <2>5. \A d \in Conns, id \in AllIds : got'[d][id] \in {got[d][id], NoFrame}
    BY <2>4 DEF XTypeOK
  <2> QED
    <3>1. ASSUME NEW d \in Conns, NEW i \in 1..Len(back'[d])
          PROVE  on'[back'[d][i]] = d /\ sent'[back'[d][i]] # "none"
      <4>1. back[d][i] \in Commands /\ Written(back[d][i], d)
        BY <1>0, <2>1, <3>1 DEF ResultsKnown
      <4> QED
        BY <2>1, <2>3, <4>1
    <3>2. ASSUME NEW d \in Conns, NEW id \in AllIds, got'[d][id] # NoFrame
          PROVE  /\ on'[got'[d][id]] = d /\ sent'[got'[d][id]] # "none"
                 /\ IdOf[got'[d][id]] = id
      <4>1. got'[d][id] = got[d][id]
        BY <2>5, <3>2
      <4>2. got[d][id] \in Commands /\ Written(got[d][id], d) /\ IdOf[got[d][id]] = id
        BY <3>2, <4>1, GotKnown
      <4> QED
        BY <2>3, <4>1, <4>2
    <3> QED
      BY <3>1, <3>2, ResultsFrom
<1>9. CASE UNCHANGED xvars
  BY <1>3, <1>9 DEF xvars, vars, handlerVars
<1>10. CASE ConnectorRuns \/ ConnectorListens
  BY <1>3, <1>10, MainFrame, HeartbeatFrame, ReaderFrame
     DEF ConnectorRuns, ConnectorListens, handlerVars
<1>11. CASE World \/ Chatter
  BY <1>3, <1>11 DEF World, Chatter, Cancel, ConnectionBreaks, Tick, Exited, BrokerSends, vars,
                     handlerVars
<1> QED
  BY <1>3, <1>4, <1>5, <1>6, <1>7, <1>8, <1>9, <1>10, <1>11
     DEF XNext, Connector, ConnectorWorks, Broker, Callers

--------------------------------------------------------------------------------
(* The results *)

(* No command has been issued and no result returned at first. *)
LEMMA XIInvInit == XInit => XIInv
<1> SUFFICES ASSUME XInit PROVE XIInv
  OBVIOUS
<1>1. XTypeOK
  BY XBounds DEF XInit, XTypeOK
<1>2. FramesKnown
  BY DEF XInit, Init, FramesKnown, Received, PumpPcs
<1>3. ResultsKnown
  BY DEF XInit, ResultsKnown
<1>4. DenialsNamed
  BY DEF XInit, Init, DenialsNamed
<1>5. ClaimsJustified
  BY DEF XInit, Init, ClaimsJustified, D!TableJustified, DenialsFollow, EmptyTable,
         ClaimState, Claiming
<1>6. ViaKnown
  BY DEF XInit, Init, ViaKnown
<1> QED
  BY <1>1, <1>2, <1>3, <1>4, <1>5, <1>6 DEF XIInv

(* The inductive invariant of the exchange, for any number of sessions and
   commands. *)
THEOREM XInductive == XSpec => []XIInv
<1>1. IInv /\ XIInv /\ [XNext]_xvars => XIInv'
  BY StepOfSession, XTypeStep, FramesStep, ResultsStep, DenialsStep, ViaStep, ClaimsStep
     DEF XIInv
<1> QED
  BY XIInvInit, SessionInvariant, <1>1, PTL DEF XSpec

(* What was sent is in the audit log. *)
LEMMA WrittenIsAudited ==
    ASSUME IInv, XIInv, NEW g \in Commands, NEW c \in Conns, Written(g, c)
    PROVE  /\ line[g] = [status |-> sent[g], session |-> c]
           /\ outcome[g] = sent[g] /\ h[g] \in HasReplied
<1>1. h[g] \in HasReplied /\ sent[g] = outcome[g]
  BY DEF Written, IInv, HandlerInv
<1>2. via[g] \in Conns /\ line[g] = [status |-> outcome[g], session |-> via[g]]
  BY <1>1 DEF IInv, HandlerInv, HasReplied, HasLine, HasOutcome, LivePcs, HoldingSem
<1>3. via[g] = c
  BY <1>2, XBounds DEF XIInv, FramesKnown, Received, Written
<1> QED
  BY <1>1, <1>2, <1>3

(* The outcome a caller is told was written for the id of its command. *)
LEMMA OutcomeIsWritten ==
    ASSUME XIInv, NEW f \in Commands, Outcome(f) # NoFrame
    PROVE  /\ on[f] \in Conns /\ Outcome(f) \in Commands
           /\ Written(Outcome(f), on[f]) /\ IdOf[Outcome(f)] = IdOf[f]
<1>1. on[f] \in Conns /\ Outcome(f) = got[on[f]][IdOf[f]] /\ IdOf[f] \in AllIds
  BY XBounds, SessionAssumption DEF Outcome, XIInv, XTypeOK, AllIds
<1> QED
  BY <1>1 DEF XIInv, XTypeOK, ResultsKnown

(* What a caller is given is what a command with its id, on its own session,
   did according to the connector's audit log. *)
THEOREM AnswersAreAudited == XSpec => []AnswersAudited
<1>1. IInv /\ XIInv => AnswersAudited
  BY WrittenIsAudited, OutcomeIsWritten DEF AnswersAudited, Registered, Written
<1> QED
  BY <1>1, SessionInvariant, XInductive, PTL

(* A caller that is told "duplicate" learns that its id was granted to another
   delivery, on this session or on an earlier one, within the window, and that
   the log has a line of that one or it is still being handled. *)
THEOREM DuplicatesAreExplained == XSpec => []DuplicateExplained
<1>1. IInv /\ XIInv => DuplicateExplained
  <2> SUFFICES ASSUME IInv, XIInv, NEW f \in Commands, Outcome(f) # NoFrame,
                      sent[Outcome(f)] = "duplicate_command_id"
               PROVE  \E e \in D!Admitted :
                        /\ IdOf[e] = IdOf[f] /\ ~Expired(reading[e], reading[Outcome(f)])
                        /\ \/ e \in Live
                           \/ line[e] \in [status : Outcomes \ {"duplicate_command_id"},
                                           session : 1 .. on[f]]
    BY DEF DuplicateExplained, Registered
  <2> DEFINE g == Outcome(f)
  <2>1. g \in Commands /\ IdOf[g] = IdOf[f] /\ outcome[g] = "duplicate_command_id"
        /\ h[g] \in HasReplied /\ via[g] = on[f] /\ on[f] \in Conns
    <3>1. on[f] \in Conns /\ g \in Commands /\ Written(g, on[f]) /\ IdOf[g] = IdOf[f]
      BY OutcomeIsWritten
    <3>2. line[g] = [status |-> sent[g], session |-> on[f]] /\ outcome[g] = sent[g]
          /\ h[g] \in HasReplied
      BY <3>1, WrittenIsAudited
    <3>3. line[g] = [status |-> outcome[g], session |-> via[g]]
      BY <3>1, <3>2 DEF IInv, HandlerInv, HasReplied, HasLine
    <3> QED
      BY <3>1, <3>2, <3>3
  <2>2. g \in Claiming
    BY <2>1 DEF XIInv, DenialsNamed
  <2>3. ClaimState(g) = "denied"
    BY <2>1 DEF ClaimState, HasReplied, HasLine, HasOutcome
  <2>4. PICK e \in D!Admitted :
          IdOf[e] = IdOf[g] /\ ~Expired(reading[e], reading[g]) /\ via[e] <= via[g]
    BY <2>2, <2>3 DEF XIInv, ClaimsJustified, DenialsFollow
  <2>5. e \in Commands /\ ClaimState(e) = "admitted"
    BY <2>4 DEF D!Admitted, Claiming
  <2>6. ASSUME e \notin Live
        PROVE  line[e] \in [status : Outcomes \ {"duplicate_command_id"}, session : 1 .. on[f]]
    <3>1. h[e] = "done" /\ outcome[e] # "duplicate_command_id"
      BY <2>5, <2>6
         DEF ClaimState, Live, LivePcs, HoldingSem, HandlerPcs, IInv, TypeOK, HandlerTypeOK
    <3>2. /\ outcome[e] \in Outcomes /\ via[e] \in Conns
          /\ line[e] = [status |-> outcome[e], session |-> via[e]]
      BY <2>5, <3>1 DEF IInv, HandlerInv, HasLine, HasOutcome
    <3>3. via[e] \in 1 .. on[f]
      BY <2>1, <2>4, <3>2, XBounds
    <3> QED
      BY <3>1, <3>2, <3>3
  <2> QED
    BY <2>1, <2>4, <2>6
<1> QED
  BY <1>1, SessionInvariant, XInductive, PTL

(* A connector in pump was welcomed on its connection, and no command runs
   that was sent before the welcome. *)
THEOREM SessionsDoAgree == XSpec => []SessionsAgree
<1>1. IInv /\ XIInv => SessionsAgree
  BY DEF IInv, MainInv, XIInv, FramesKnown, SessionsAgree, WasWelcomed
<1> QED
  BY <1>1, SessionInvariant, XInductive, PTL
================================================================================
