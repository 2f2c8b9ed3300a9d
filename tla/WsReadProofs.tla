----------------------------- MODULE WsReadProofs -----------------------------
(***************************************************************************)
(* The read loop, for every heartbeat and write timeout, every layout of   *)
(* the messages and every order of the frames, the pings and the timeouts: *)
(* a broker that has gone silent is noticed within two windows, or the     *)
(* time of a pong and the writes before it; one that answers its pings is  *)
(* not taken for a dead one; and the messages are delivered whole and in   *)
(* order as long as no read was given up inside one.                       *)
(***************************************************************************)
EXTENDS WsRead, TLAPS

USE DEF writeVars

(* The arithmetic of the constants. *)
LEMMA Limits ==
    /\ Window \in Nat /\ Window > 0 /\ WriteTimeout \in Nat /\ WriteTimeout > 0
    /\ Writers \in Nat /\ PongLimit \in Nat
    /\ WaitLimit \in Nat /\ 2 * Window <= WaitLimit /\ PongLimit < WaitLimit
    /\ NoTimer \notin Nat
<1>1. /\ Window \in Nat /\ Window > 0 /\ Writers \in Nat
      /\ WriteTimeout \in Nat /\ WriteTimeout > 0 /\ NoTimer \notin Nat
  BY WsReadAssumption DEF Window, ReadSlack
<1>2. PongLimit \in Nat
  <2>1. Writers * WriteTimeout \in Nat
    BY <1>1
  <2> QED
    BY <1>1, <2>1 DEF PongLimit, WritesTake
<1> QED
  BY <1>1, <1>2 DEF WaitLimit

(* The writes before a pong take a write timeout each. *)
LEMMA Queue ==
    /\ \A n \in 0..Writers : WritesTake(n) \in Nat /\ WritesTake(n) + WriteTimeout <= PongLimit
    /\ \A n \in 1..Writers : WritesTake(n - 1) + WriteTimeout = WritesTake(n)
    /\ WritesTake(0) = 0
<1>1. ASSUME NEW n \in 0..Writers
      PROVE  WritesTake(n) \in Nat /\ WritesTake(n) + WriteTimeout <= PongLimit
  <2>1. n \in Nat /\ Writers - n \in Nat /\ WriteTimeout \in Nat
    BY Limits
  <2>2. n * WriteTimeout \in Nat /\ (Writers - n) * WriteTimeout \in Nat
    BY <2>1
  <2>3. Writers * WriteTimeout = n * WriteTimeout + (Writers - n) * WriteTimeout
    BY <2>1, Limits
  <2> QED
    BY <2>2, <2>3, Limits DEF PongLimit, WritesTake
<1>2. ASSUME NEW n \in 1..Writers
      PROVE  WritesTake(n - 1) + WriteTimeout = WritesTake(n)
  BY Limits DEF WritesTake
<1>3. WritesTake(0) = 0
  BY Limits DEF WritesTake
<1> QED
  BY <1>1, <1>2, <1>3

(* The initial timers. *)
LEMMA TimersInit == Init => TimersInv
  BY Limits DEF Init, TimersInv, TimersTypeOK, WaitBounded, ReaderPcs, Ended

(* The broker and the heartbeat goroutine touch no timer of the reader. *)
LEMMA OthersFrame == Broker \/ Ping => UNCHANGED <<callVars, idleFor, waited>>
  BY DEF aliveVars, Broker, Ping, StartMessage, SendData, SendPong, SendPing, SendBad,
         SendControl, BrokerDies

(* Reading a frame: the wait starts afresh or goes on, and the deadline of the
   call stays, unless the call ends. *)
LEMMA ReadingStep ==
    ASSUME TimersInv,
           ReadPong \/ ReadBad \/ ReadFrameStart \/ ReadData \/ ReadOutOfStep
    PROVE  TimersInv'
<1> USE Limits DEF TimersInv, TimersTypeOK, WaitBounded, ReaderPcs, Ended
<1>1. CASE ReadPong
  BY <1>1 DEF ReadPong, Read, Activity, callVars
<1>2. CASE ReadBad
  BY <1>2 DEF ReadBad, Read, Refuse, Activity
<1>3. CASE ReadFrameStart
  BY <1>3 DEF ReadFrameStart, Read, callVars, aliveVars
<1>4. CASE ReadData
  BY <1>4 DEF ReadData, Read, Activity, Gather, Refuse
<1>5. CASE ReadOutOfStep
  BY <1>5 DEF ReadOutOfStep, Read, Activity, Gather, Refuse, callVars
<1> QED
  BY <1>1, <1>2, <1>3, <1>4, <1>5

(* Answering a ping: the write of the pong has its own deadline, which is set
   when the writes before it are done, and so had each of these. *)
LEMMA PongStep ==
    ASSUME TimersInv, ReadPing \/ NextWriter \/ WriteTimesOut \/ PongWritten
    PROVE  TimersInv'
<1> USE Limits DEF TimersInv, TimersTypeOK, WaitBounded, ReaderPcs, Ended
<1>1. CASE ReadPing
  <2>1. CASE rd' = "ponging"
    <3>1. ahead' \in 0..Writers
      BY <1>1, <2>1 DEF ReadPing, Read, Refuse, callVars
    <3>2. WritesTake(ahead') \in Nat /\ WritesTake(ahead') + WriteTimeout <= PongLimit
      BY <3>1, Queue
    <3>3. writeBy' = WriteTimeout /\ waited' = 0 /\ idleFor' = 0 
          /\ deadline' = deadline /\ rd = "reading"
      BY <1>1, <2>1 DEF ReadPing, Read, Activity, Refuse, callVars
    <3> QED
      BY <2>1, <3>1, <3>2, <3>3
  <2>2. CASE rd' # "ponging"
    BY <1>1, <2>2 DEF ReadPing, Read, Activity, Refuse, callVars
  <2> QED
    BY <2>1, <2>2
<1>2. CASE NextWriter
  <2>1. ahead \in 1..Writers /\ ahead' = ahead - 1 /\ writeBy' = WriteTimeout
        /\ UNCHANGED <<rd, deadline, idleFor, waited>> /\ rd = "ponging"
    BY <1>2 DEF NextWriter, aliveVars
  <2>2. ahead' \in 0..Writers
    BY <2>1, Limits
  <2>3. waited' + WritesTake(ahead') + writeBy' <= PongLimit
    <3>1. /\ WritesTake(ahead') \in Nat /\ WritesTake(ahead) \in Nat
          /\ WritesTake(ahead') + WriteTimeout = WritesTake(ahead)
      BY <2>1, <2>2, Queue
    <3>2. waited + WritesTake(ahead) + writeBy <= PongLimit /\ writeBy \in Nat
      BY <2>1
    <3> QED
      BY <2>1, <3>1, <3>2
  <2> QED
    BY <2>1, <2>2, <2>3
<1>3. CASE WriteTimesOut
  <2>1. ahead' = 0 /\ UNCHANGED <<rd, deadline, writeBy, idleFor, waited>>
    BY <1>3 DEF WriteTimesOut
  <2>2. rd = "ponging" => waited' + WritesTake(ahead') + writeBy' <= PongLimit
    <3>1. WritesTake(ahead) \in Nat /\ WritesTake(ahead') = 0
      BY <2>1, Queue
    <3> QED
      BY <2>1, <3>1
  <2> QED
    BY <2>1, <2>2
<1>4. CASE PongWritten
  <2>1. rd = "ponging" /\ rd' = "reading" /\ ahead = 0 /\ writeBy' = NoTimer
        /\ UNCHANGED <<ahead, deadline, idleFor, waited>>
    BY <1>4 DEF PongWritten, aliveVars
  <2> QED
    BY <2>1
<1> QED
  BY <1>1, <1>2, <1>3, <1>4

(* A call that is started again after a timeout has waited for less than one
   window, and may wait for one more. *)
LEMMA LoopStep ==
    ASSUME TimersInv, ReadTimesOut \/ PongTimesOut \/ ReadOn \/ Closed
    PROVE  TimersInv'
<1> USE Limits DEF TimersInv, TimersTypeOK, WaitBounded, ReaderPcs, Ended
<1>1. CASE ReadTimesOut \/ PongTimesOut
  <2>1. /\ TimedOut
        /\ writeBy' \in {writeBy, NoTimer}
        /\ rd' # "ponging"
    BY <1>1 DEF ReadTimesOut, PongTimesOut, TimedOut
  <2> QED
    BY <2>1 DEF TimedOut, Idle, aliveVars
<1>2. CASE ReadOn
  BY <1>2 DEF ReadOn
<1>3. CASE Closed
  BY <1>3 DEF Closed, aliveVars
<1> QED
  BY <1>1, <1>2, <1>3

(* A tick moves a unit from the time left to the time waited. *)
LEMMA TickStep == ASSUME TimersInv, Tick PROVE TimersInv'
<1> USE Limits DEF TimersInv, TimersTypeOK, WaitBounded, ReaderPcs, Ended
<1>1. /\ rd' = rd
      /\ deadline' = Elapse(deadline) /\ writeBy' = Elapse(writeBy)
      /\ idleFor' = Grow(idleFor, Window)
      /\ waited' = IF rd = "busy" THEN 0 ELSE Grow(waited, WaitLimit)
      /\ rd = "reading" => deadline > 0
      /\ writeBy # 0
      /\ ahead' = ahead
  BY DEF Tick
<1>2. TimersTypeOK'
  BY <1>1 DEF Elapse, Grow
<1>3. rd = "ponging" => waited' + WritesTake(ahead') + writeBy' <= PongLimit
  <2>1. SUFFICES ASSUME rd = "ponging"
                 PROVE  waited' + WritesTake(ahead') + writeBy' <= PongLimit
    OBVIOUS
  <2>2. writeBy \in Nat \ {0} /\ writeBy' = writeBy - 1
    BY <1>1, <2>1 DEF Elapse
  <2>3. waited' \in Nat /\ waited' <= waited + 1
    BY <1>1, <2>1 DEF Grow
  <2>4. WritesTake(ahead) \in Nat /\ waited + WritesTake(ahead) + writeBy <= PongLimit
    BY <2>1, Queue
  <2> QED
    BY <1>1, <2>2, <2>3, <2>4
<1>4. rd = "ponging" => \/ deadline' = 0 /\ waited' <= PongLimit
                        \/ waited' + deadline' < 2 * Window
  <2>1. rd = "ponging" => /\ WritesTake(ahead) \in Nat /\ ahead' = ahead
                          /\ writeBy' \in Nat /\ waited' \in Nat
    BY <1>1, <1>2, Queue DEF Elapse
  <2>2. rd = "ponging" => waited' <= PongLimit
    BY <1>1, <1>3, <2>1
  <2> QED
    BY <1>1, <2>2 DEF Elapse, Grow
<1>5. WaitBounded'
  BY <1>1, <1>3, <1>4 DEF Elapse, Grow
<1> QED
  BY <1>2, <1>5

(* The timers, for every run of the reader. *)
THEOREM TimersBounded == Spec => []TimersInv
<1>1. Init => TimersInv
  BY TimersInit
<1>2. TimersInv /\ [Next]_vars => TimersInv'
  <2> SUFFICES ASSUME TimersInv, [Next]_vars PROVE TimersInv'
    OBVIOUS
  <2>1. CASE Broker \/ Ping
    BY <2>1, OthersFrame
       DEF TimersInv, TimersTypeOK, WaitBounded, callVars, aliveVars
  <2>2. CASE Reader
    BY <2>2, ReadingStep, PongStep, LoopStep DEF Reader
  <2>3. CASE Tick \/ WriteTimesOut
    BY <2>3, TickStep, PongStep
  <2>4. CASE UNCHANGED vars
    BY <2>4 DEF vars, callVars, aliveVars, TimersInv, TimersTypeOK, WaitBounded
  <2> QED
    BY <2>1, <2>2, <2>3, <2>4 DEF Next, Stop
<1> QED
  BY <1>1, <1>2, PTL DEF Spec

(* The idle rule of pump: the loop never waits for WaitLimit without a sign of
   life, so a broker that has gone silent is noticed. *)
THEOREM SilenceIsNoticed == Spec => []DeadBrokerNoticed
<1>1. TimersInv => DeadBrokerNoticed
  <2>1. SUFFICES ASSUME TimersInv, rd \in {"reading", "ponging"} PROVE waited < WaitLimit
    BY DEF DeadBrokerNoticed
  <2>2. waited \in Nat /\ deadline \in Nat
        /\ (waited + deadline < 2 * Window \/ waited <= PongLimit)
    BY <2>1 DEF TimersInv, TimersTypeOK, WaitBounded
  <2> QED
    BY <2>2, Limits
<1> QED
  BY <1>1, TimersBounded, PTL

--------------------------------------------------------------------------------
(* Type correctness *)

(* The initial states are of their types. *)
LEMMA TypeInit == Init => TypeOK
<1> SUFFICES ASSUME Init PROVE TypeOK
  OBVIOUS
<1>1. /\ pings \in 0..MaxPings /\ nextPing \in 0..Heartbeat /\ waited \in 0..WaitLimit
      /\ deadline \in 0..Window \cup {NoTimer} /\ idleFor \in 0..Window
      /\ pongDue \in 0..PongDelay \cup {NoTimer}
      /\ writeBy \in 0..WriteTimeout \cup {NoTimer}
  BY Limits, WsReadAssumption DEF Init
<1>2. /\ sizes \in Seq(Nat \ {0}) /\ Len(sizes) <= MaxMessages
      /\ sending \in Seq({"whole", "split", "tail"})
      /\ wire \in Seq(Pieces) /\ Len(wire) <= MaxWire
      /\ msg \in Seq(Fragments) /\ Len(msg) <= MaxFragments
      /\ delivered \in Seq(Seq(Fragments))
  BY WsReadAssumption DEF Init
<1>3. /\ alive \in BOOLEAN /\ torn \in BOOLEAN /\ stalled \in BOOLEAN
      /\ rd \in ReaderPcs /\ framing \in {"between", "inside", "lost"} /\ cut \in BOOLEAN
  BY DEF Init, ReaderPcs
<1>4. ahead \in 0..Writers
  BY Limits DEF Init
<1> QED
  BY <1>1, <1>2, <1>3, <1>4 DEF TypeOK

(* What arrives is appended to the wire. *)
LEMMA ArrivesType ==
    ASSUME wire \in Seq(Pieces), NEW piece \in Pieces, Arrives(piece)
    PROVE  /\ wire' = Append(wire, piece)
           /\ wire' \in Seq(Pieces) /\ Len(wire') = Len(wire) + 1 /\ Len(wire') <= MaxWire
  BY WsReadAssumption DEF Arrives

(* The pieces that the broker sends. *)
LEMMA BrokerPieces ==
    /\ \A kind \in {"pong", "ping", "bad"} : Control(kind) \in Pieces
    /\ \A k, i \in Nat, part \in {"whole", "split", "tail"} : Data(k, i, part) \in Pieces
  BY DEF Control, Data, Pieces

(* So are the states after a step of the broker, *)
LEMMA BrokerType == ASSUME TypeOK, SendingInv, Broker PROVE TypeOK'
<1> USE DEF callVars, streamVars, aliveVars
<1>1. CASE StartMessage
  <2>1. PICK layout \in Layouts : sending' = layout /\ sizes' = Append(sizes, Len(layout))
    BY <1>1 DEF StartMessage
  <2>2. layout \in Seq({"whole", "split"}) /\ layout # <<>>
    BY <2>1, WsReadAssumption
  <2>3. Len(layout) \in Nat \ {0} /\ layout \in Seq({"whole", "split", "tail"})
    BY <2>2
  <2>4. sizes' \in Seq(Nat \ {0}) /\ Len(sizes') = Len(sizes) + 1
    BY <2>1, <2>3 DEF TypeOK
  <2>5. Len(sizes') <= MaxMessages
    BY <2>4, <1>1, WsReadAssumption DEF StartMessage, TypeOK
  <2> QED
    BY <1>1, <2>1, <2>3, <2>4, <2>5 DEF StartMessage, TypeOK
<1>2. CASE SendData
  <2> DEFINE k == Len(sizes)
             i == sizes[k] - Len(sending) + 1
  <2>1. sending # <<>> /\ sending \in Seq({"whole", "split", "tail"}) /\ sizes \in Seq(Nat \ {0})
    BY <1>2 DEF SendData, TypeOK
  <2>2. k \in Nat /\ i \in Nat
    BY <2>1 DEF SendingInv
  <2>3. Head(sending) \in {"whole", "split", "tail"}
    BY <2>1
  <2>4. Data(k, i, Head(sending)) \in Pieces
    BY <2>2, <2>3, BrokerPieces
  <2>5. wire' \in Seq(Pieces) /\ Len(wire') <= MaxWire
    BY <1>2, <2>4, ArrivesType DEF SendData, TypeOK
  <2>6. sending' \in Seq({"whole", "split", "tail"})
    <3>1. /\ Tail(sending) \in Seq({"whole", "split", "tail"})
          /\ <<"tail">> \in Seq({"whole", "split", "tail"})
      BY <2>1
    <3>2. <<"tail">> \o Tail(sending) \in Seq({"whole", "split", "tail"})
      BY <3>1
    <3> QED
      BY <1>2, <3>1, <3>2 DEF SendData
  <2> QED
    BY <1>2, <2>5, <2>6 DEF SendData, TypeOK
<1>3. CASE SendPong \/ SendPing \/ SendBad
  <2>1. PICK kind \in {"pong", "ping", "bad"} : SendControl(kind)
    BY <1>3 DEF SendPong, SendPing, SendBad
  <2>2. wire' \in Seq(Pieces) /\ Len(wire') <= MaxWire
    BY <2>1, BrokerPieces, ArrivesType DEF SendControl, TypeOK
  <2>3. pings' \in 0..MaxPings /\ pongDue' \in 0..PongDelay \cup {NoTimer}
    BY <1>3, WsReadAssumption DEF SendPong, SendPing, SendBad, TypeOK
  <2> QED
    BY <2>1, <2>2, <2>3 DEF SendControl, TypeOK
<1>4. CASE BrokerDies
  BY <1>4 DEF BrokerDies, TypeOK
<1> QED
  BY <1>1, <1>2, <1>3, <1>4 DEF Broker

(* after a ping, *)
LEMMA PingType == ASSUME TypeOK, Ping PROVE TypeOK'
<1>1. pongDue' \in 0..PongDelay \cup {NoTimer}
  BY WsReadAssumption DEF Ping, TypeOK
<1>2. nextPing' \in 0..Heartbeat
  BY WsReadAssumption DEF Ping
<1>3. stalled' \in BOOLEAN
  BY DEF Ping, TypeOK
<1> QED
  BY <1>1, <1>2, <1>3 DEF Ping, TypeOK, callVars, streamVars

(* A piece is taken off the wire. *)
LEMMA ReadTakes ==
    ASSUME TypeOK, NEW piece, Read(piece)
    PROVE  /\ rd = "reading" /\ wire # <<>> /\ piece = wire[1] /\ piece \in Pieces
           /\ wire' = Tail(wire) /\ wire' \in Seq(Pieces) /\ Len(wire') = Len(wire) - 1
           /\ Len(wire') <= MaxWire
           /\ UNCHANGED <<alive, sizes, sending, pongDue, pings, nextPing>>
  BY WsReadAssumption DEF TypeOK, Read, brokerVars

(* What is gathered stays within the limit on a message. *)
LEMMA GatherType ==
    ASSUME TypeOK, Fits, rd = "reading", NEW fragment \in Fragments, NEW fin,
           Gather(fragment, fin)
    PROVE  /\ msg' \in Seq(Fragments) /\ Len(msg') <= MaxFragments
           /\ delivered' \in Seq(Seq(Fragments))
           /\ rd' \in ReaderPcs /\ deadline' \in 0..Window \cup {NoTimer}
           /\ UNCHANGED <<writeVars, torn>>
<1>1. /\ Append(msg, fragment) \in Seq(Fragments)
      /\ Len(Append(msg, fragment)) = Len(msg) + 1 /\ Len(msg) + 1 <= MaxFragments
  BY WsReadAssumption DEF TypeOK, Fits
<1>2. Append(delivered, Append(msg, fragment)) \in Seq(Seq(Fragments))
  BY <1>1 DEF TypeOK
<1>3. <<>> \in Seq(Fragments) /\ Len(<<>>) <= MaxFragments
  BY WsReadAssumption
<1> QED
  BY <1>1, <1>2, <1>3 DEF Gather, TypeOK, ReaderPcs

(* after the reading of a piece, *)
LEMMA ReadingType ==
    ASSUME TypeOK, ReadPong \/ ReadPing \/ ReadBad \/ ReadFrameStart \/ ReadData \/ ReadOutOfStep
    PROVE  TypeOK'
<1> USE DEF callVars, streamVars, aliveVars
<1>1. 0 \in 0..Window /\ 0 \in 0..WaitLimit /\ WriteTimeout \in 0..WriteTimeout
  BY Limits
<1>2. CASE ReadPong
  BY <1>1, <1>2, ReadTakes DEF ReadPong, Activity, TypeOK
<1>3. CASE ReadPing
  <2>1. /\ Read(Control("ping")) /\ Activity
        /\ UNCHANGED <<deadline, cut, streamVars>> /\ stalled' \in BOOLEAN
    BY <1>3 DEF ReadPing, Refuse, TypeOK
  <2>2. /\ rd' \in ReaderPcs /\ ahead' \in 0..Writers
        /\ writeBy' \in 0..WriteTimeout \cup {NoTimer}
    BY <1>1, <1>3, Limits DEF ReadPing, Read, Refuse, ReaderPcs, Ended, TypeOK
  <2> QED
    BY <1>1, <2>1, <2>2, ReadTakes DEF Activity, TypeOK
<1>4. CASE ReadBad
  BY <1>1, <1>4, ReadTakes DEF ReadBad, Activity, Refuse, ReaderPcs, Ended, TypeOK
<1>5. CASE ReadFrameStart
  BY <1>5, ReadTakes DEF ReadFrameStart, TypeOK
<1>6. CASE ReadData
  <2>1. PICK k \in 1..Len(sizes), i \in 1..MaxFragments + 1 :
          /\ \E piece : Read(piece)
          /\ Activity /\ UNCHANGED stalled
          /\ IF Fits THEN Gather(<<k, i>>, i = sizes[k]) /\ framing' = "between" ELSE Refuse
    BY <1>6 DEF ReadData
  <2>2. <<k, i>> \in Fragments
    BY WsReadAssumption DEF TypeOK, Fragments
  <2>3. CASE Fits
    BY <1>1, <2>1, <2>2, <2>3, ReadTakes, GatherType DEF Activity, TypeOK
  <2>4. CASE ~Fits
    BY <1>1, <2>1, <2>4, ReadTakes DEF Activity, Refuse, ReaderPcs, Ended, TypeOK
  <2> QED
    BY <2>3, <2>4
<1>7. CASE ReadOutOfStep
  <2>1. Read(Head(wire)) /\ UNCHANGED stalled
    BY <1>7 DEF ReadOutOfStep
  <2>2. Garbage \in Fragments
    BY WsReadAssumption DEF Garbage, Fragments
  <2>3. CASE Refuse /\ UNCHANGED <<idleFor, waited>>
    BY <2>1, <2>3, ReadTakes DEF Refuse, ReaderPcs, Ended, TypeOK
  <2>4. CASE framing' = "lost" /\ UNCHANGED <<callVars, msg, delivered, torn>>
             /\ (Activity \/ UNCHANGED <<idleFor, waited>>)
    BY <1>1, <2>1, <2>4, ReadTakes DEF Activity, TypeOK
  <2>5. CASE Fits /\ Activity /\ framing' = "lost" /\ \E fin \in BOOLEAN : Gather(Garbage, fin)
    BY <1>1, <2>1, <2>2, <2>5, ReadTakes, GatherType DEF Activity, TypeOK
  <2> QED
    BY <1>7, <2>3, <2>4, <2>5 DEF ReadOutOfStep
<1> QED
  BY <1>2, <1>3, <1>4, <1>5, <1>6, <1>7

(* after a step of the loop, *)
LEMMA LoopType ==
    ASSUME TypeOK, NextWriter \/ WriteTimesOut \/ PongWritten \/ ReadTimesOut
                     \/ PongTimesOut \/ ReadOn \/ Closed
    PROVE  TypeOK'
<1> USE DEF callVars, streamVars, aliveVars, brokerVars
<1>1. /\ Window \in 0..Window /\ 0 \in 0..WaitLimit /\ 0 \in 0..Writers
      /\ WriteTimeout \in 0..WriteTimeout
  BY Limits
<1>2. CASE PongWritten
  BY <1>2 DEF PongWritten, ReaderPcs, TypeOK
<1>6. CASE NextWriter
  BY <1>1, <1>6, Limits DEF NextWriter, TypeOK
<1>7. CASE WriteTimesOut
  BY <1>1, <1>7 DEF WriteTimesOut, TypeOK
<1>3. CASE ReadTimesOut \/ PongTimesOut
  <2>1. TimedOut
    BY <1>3 DEF ReadTimesOut, PongTimesOut
  <2>2. msg' \in Seq(Fragments) /\ Len(msg') <= MaxFragments
    <3>1. msg' = <<>> \/ msg' = msg
      BY <2>1 DEF TimedOut
    <3>2. <<>> \in Seq(Fragments) /\ Len(<<>>) = 0 /\ 0 <= MaxFragments
      BY WsReadAssumption
    <3> QED
      BY <3>1, <3>2 DEF TypeOK
  <2>3. torn' \in BOOLEAN /\ framing' \in {"between", "inside", "lost"}
    BY <2>1 DEF TimedOut, TypeOK
  <2>4. rd' \in ReaderPcs /\ deadline' \in 0..Window \cup {NoTimer}
    BY <1>1, <2>1 DEF TimedOut, TypeOK, ReaderPcs, Ended
  <2>5. writeBy' \in 0..WriteTimeout \cup {NoTimer} /\ cut' \in BOOLEAN
    BY <1>3 DEF ReadTimesOut, PongTimesOut, TypeOK
  <2> QED
    BY <2>1, <2>2, <2>3, <2>4, <2>5 DEF TimedOut, TypeOK
<1>4. CASE ReadOn
  BY <1>1, <1>4 DEF ReadOn, ReaderPcs, TypeOK
<1>5. CASE Closed
  BY <1>5 DEF Closed, ReaderPcs, Ended, TypeOK
<1> QED
  BY <1>2, <1>3, <1>4, <1>5, <1>6, <1>7

(* and after a tick. *)
LEMMA TickType == ASSUME TypeOK, Tick PROVE TypeOK'
<1> USE Limits, WsReadAssumption
<1>1. /\ nextPing' \in 0..Heartbeat
      /\ pongDue' \in 0..PongDelay \cup {NoTimer}
      /\ deadline' \in 0..Window \cup {NoTimer}
      /\ writeBy' \in 0..WriteTimeout \cup {NoTimer}
  BY DEF Tick, TypeOK, Elapse
<1>2. idleFor' \in 0..Window /\ waited' \in 0..WaitLimit
  BY DEF Tick, TypeOK, Grow
<1> QED
  BY <1>1, <1>2 DEF Tick, TypeOK, streamVars

--------------------------------------------------------------------------------
(* The stream *)

(* The sender is at a place. *)
LEMMA SenderPlace == ASSUME TypeOK', SendingInv' PROVE SenderAt' \in Places
<1>1. CASE sending' = <<>>
  BY <1>1 DEF SenderAt, Place, Places, TypeOK
<1>2. CASE sending' # <<>>
  <2>1. /\ Len(sizes') \in Nat /\ sizes'[Len(sizes')] \in Nat /\ Len(sending') \in Nat
        /\ Len(sending') <= sizes'[Len(sizes')]
    BY <1>2 DEF SendingInv, TypeOK
  <2> QED
    BY <1>2, <2>1 DEF SenderAt, Place, Places
<1> QED
  BY <1>1, <1>2

(* A fragment comes at its place, *)
LEMMA FitsData ==
    ASSUME NEW sz, NEW k \in 1..Len(sz), NEW i \in 1..sz[k], NEW part, NEW b \in BOOLEAN,
           part \in IF b THEN {"tail"} ELSE {"whole", "split"}
    PROVE  FitsAt(sz, Place(k, i, b), Data(k, i, part))
  BY DEF FitsAt, Place, Data

(* and its place is followed by that of the next. *)
LEMMA AfterData ==
    ASSUME NEW sz, NEW k, NEW i, NEW part, NEW b
    PROVE  LET next == After(sz, Place(k, i, b), Data(k, i, part))
           IN  /\ part = "split" => next = Place(k, i, TRUE)
               /\ part # "split" /\ i = sz[k] => next = Place(k + 1, 1, FALSE)
               /\ part # "split" /\ i # sz[k] => next = Place(k, i + 1, FALSE)
  BY DEF After, Place, Data

(* Once some of a message has been sent, the sender is at what is left of it. *)
LEMMA SenderInside ==
    ASSUME sending # <<>>, NEW b \in BOOLEAN, b <=> Head(sending) = "tail"
    PROVE  SenderAt = Place(Len(sizes), sizes[Len(sizes)] - Len(sending) + 1, b)
<1>1. (Head(sending) = "tail") = b
  OBVIOUS
<1> QED
  BY <1>1 DEF SenderAt

(* and a piece of data comes there and moves it on. *)
LEMMA SendDataMoves ==
    ASSUME TypeOK, SendingInv, SendData
    PROVE  /\ SendingInv'
           /\ \E piece \in Pieces : /\ Arrives(piece) /\ FitsAt(sizes, SenderAt, piece)
                                    /\ SenderAt' = After(sizes, SenderAt, piece)
<1> DEFINE n == Len(sizes)
           s == sizes[n]
           m == Len(sending)
           i == s - m + 1
           b == Head(sending) = "tail"
           piece == Data(n, i, Head(sending))
<1>1. /\ sending \in Seq({"whole", "split", "tail"}) /\ sending # <<>> /\ sizes \in Seq(Nat \ {0})
      /\ n \in Nat \ {0} /\ s \in Nat \ {0} /\ m \in Nat \ {0} /\ m <= s
      /\ \A j \in 2..m : sending[j] # "tail"
      /\ Head(sending) \in {"whole", "split", "tail"}
  BY DEF SendData, SendingInv, TypeOK
<1>2. Arrives(piece) /\ sizes' = sizes
      /\ sending' = IF Head(sending) = "split" THEN <<"tail">> \o Tail(sending) ELSE Tail(sending)
  BY DEF SendData
<1>3. SenderAt = Place(n, i, b)
  BY <1>1, SenderInside
<1>4. piece \in Pieces
  BY <1>1, BrokerPieces
<1>5. FitsAt(sizes, SenderAt, piece)
  <2>1. n \in 1..Len(sizes) /\ i \in 1..sizes[n] /\ b \in BOOLEAN
    BY <1>1
  <2>2. Head(sending) \in IF b THEN {"tail"} ELSE {"whole", "split"}
    BY <1>1
  <2> HIDE DEF n, s, i, b
  <2> QED
    BY <1>3, <2>1, <2>2, FitsData DEF piece
<1>6. After(sizes, SenderAt, piece) = IF Head(sending) = "split" THEN Place(n, i, TRUE)
                               ELSE IF i = s THEN Place(n + 1, 1, FALSE)
                               ELSE Place(n, i + 1, FALSE)
  <2>1. s = sizes[n]
    OBVIOUS
  <2> HIDE DEF n, s, i, b
  <2>2. After(sizes, Place(n, i, b), piece) = IF Head(sending) = "split" THEN Place(n, i, TRUE)
                                              ELSE IF i = s THEN Place(n + 1, 1, FALSE)
                                              ELSE Place(n, i + 1, FALSE)
    BY <2>1 DEF After, Place, Data, piece
  <2> QED
    BY <1>3, <2>2
<1>7. CASE Head(sending) = "split"
  <2>1. Tail(sending) \in Seq({"whole", "split", "tail"}) /\ Len(Tail(sending)) = m - 1
        /\ \A j \in 1..(m - 1) : Tail(sending)[j] = sending[j + 1]
    BY <1>1
  <2>2. sending' = <<"tail">> \o Tail(sending)
    BY <1>2, <1>7
  <2>3. /\ Len(sending') = m /\ sending' # <<>> /\ Head(sending') = "tail"
        /\ \A j \in 2..m : sending'[j] = sending[j]
    BY <1>1, <2>1, <2>2
  <2>4. SendingInv'
    BY <1>1, <1>2, <2>3 DEF SendingInv
  <2>5. SenderAt' = Place(n, i, TRUE)
    BY <1>2, <2>3 DEF SenderAt, Place
  <2> QED
    BY <1>2, <1>4, <1>5, <1>6, <1>7, <2>4, <2>5
<1>8. CASE Head(sending) # "split"
  <2>1. sending' = Tail(sending) /\ Len(sending') = m - 1
        /\ \A j \in 1..(m - 1) : sending'[j] = sending[j + 1]
    BY <1>1, <1>2, <1>8
  <2>2. SendingInv'
    BY <1>1, <1>2, <2>1 DEF SendingInv
  <2>3. CASE m = 1
    <3>1. sending' = <<>>
      BY <1>1, <2>1, <2>3
    <3>2. SenderAt' = Place(n + 1, 1, FALSE)
      BY <1>2, <3>1 DEF SenderAt, Place
    <3>3. i = s
      BY <1>1, <2>3
    <3> QED
      BY <1>2, <1>4, <1>5, <1>6, <1>8, <2>2, <3>2, <3>3
  <2>4. CASE m # 1
    <3>1. m \in Nat /\ m >= 2
      <4>1. m \in Nat \ {0}
        BY <1>1
      <4> HIDE DEF m
      <4> QED
        BY <2>4, <4>1
    <3>2. Len(sending') >= 1 /\ Len(<<>>) = 0
      BY <2>1, <3>1
    <3>3. sending' # <<>>
      BY <3>2
    <3>4. 1 \in 1..(m - 1) /\ 2 \in 2..m
      BY <3>1
    <3>5. Head(sending') = sending'[1] /\ sending'[1] = sending[2] /\ sending[2] # "tail"
      BY <1>1, <2>1, <3>4
    <3>6. (Head(sending') = "tail") = FALSE
      BY <3>5
    <3>7. SenderAt' = Place(Len(sizes'), sizes'[Len(sizes')] - Len(sending') + 1, FALSE)
      BY <3>3, <3>6 DEF SenderAt
    <3>8. s - Len(sending') + 1 = i + 1 /\ i # s
      BY <1>1, <2>1, <2>4
    <3>9. SenderAt' = Place(n, i + 1, FALSE)
      BY <1>2, <3>7, <3>8
    <3> QED
      BY <1>2, <1>4, <1>5, <1>6, <1>8, <2>2, <3>8, <3>9
  <2> QED
    BY <2>3, <2>4
<1> QED
  BY <1>7, <1>8

(* A control frame comes where no fragment is broken off, and moves nothing. *)
LEMMA SendControlMoves ==
    ASSUME TypeOK, SendingInv, NEW kind \in {"pong", "ping", "bad"}, SendControl(kind)
    PROVE  /\ SendingInv'
           /\ \E piece \in Pieces : /\ Arrives(piece) /\ FitsAt(sizes, SenderAt, piece)
                                    /\ SenderAt' = After(sizes, SenderAt, piece)
<1>1. Control(kind) \in Pieces /\ Arrives(Control(kind)) /\ UNCHANGED <<sizes, sending>>
  BY BrokerPieces DEF SendControl
<1>2. ~SenderAt.inside
  BY DEF SendControl, SenderAt, Place
<1>3. FitsAt(sizes, SenderAt, Control(kind))
  BY <1>2 DEF FitsAt, Control
<1>4. After(sizes, SenderAt, Control(kind)) = SenderAt
  BY DEF After, Control
<1>5. SenderAt' = SenderAt /\ SendingInv'
  BY <1>1 DEF SenderAt, SendingInv
<1> QED
  BY <1>1, <1>3, <1>4, <1>5

(* A new message begins at the sender's place. *)
LEMMA StartMessageMoves ==
    ASSUME TypeOK, StartMessage
    PROVE  /\ SendingInv' /\ SenderAt' = SenderAt
           /\ Len(sizes') = Len(sizes) + 1
           /\ \A k \in 1..Len(sizes) : sizes'[k] = sizes[k]
<1>1. PICK layout \in Layouts : sending' = layout /\ sizes' = Append(sizes, Len(layout))
  BY DEF StartMessage
<1>2. layout \in Seq({"whole", "split"}) /\ layout # <<>>
  BY <1>1, WsReadAssumption
<1>3. Len(layout) \in Nat \ {0} /\ \A j \in 1..Len(layout) : layout[j] # "tail"
  BY <1>2
<1>4. sizes \in Seq(Nat \ {0}) /\ Len(sizes) \in Nat /\ sending = <<>>
  BY DEF TypeOK, StartMessage
<1>5. /\ Len(sizes') = Len(sizes) + 1 /\ sizes'[Len(sizes')] = Len(layout) /\ sizes' # <<>>
      /\ \A k \in 1..Len(sizes) : sizes'[k] = sizes[k]
  BY <1>1, <1>3, <1>4
<1>6. SendingInv'
  BY <1>1, <1>3, <1>5 DEF SendingInv
<1>7. Head(layout) # "tail"
  BY <1>2, <1>3
<1>8. SenderAt' = Place(Len(sizes) + 1, 1, FALSE)
  <2>1. sending' # <<>> /\ (Head(sending') = "tail") = FALSE
    BY <1>1, <1>2, <1>7
  <2>2. SenderAt' = Place(Len(sizes'), sizes'[Len(sizes')] - Len(sending') + 1, FALSE)
    BY <2>1 DEF SenderAt
  <2>3. sizes'[Len(sizes')] - Len(sending') + 1 = 1
    BY <1>1, <1>3, <1>5
  <2> QED
    BY <1>5, <2>2, <2>3
<1> QED
  BY <1>4, <1>5, <1>6, <1>8 DEF SenderAt


(* A longer list of sizes changes nothing for the messages of a shorter one. *)
LEMMA LongerSizes ==
    ASSUME NEW sz, NEW tz, Len(sz) \in Nat, Len(tz) \in Nat, Len(sz) <= Len(tz),
           \A k \in 1..Len(sz) : tz[k] = sz[k],
           NEW p, NEW piece, FitsAt(sz, p, piece)
    PROVE  FitsAt(tz, p, piece) /\ After(tz, p, piece) = After(sz, p, piece)
<1>1. CASE piece \in [kind : {"pong", "ping", "bad"}] /\ ~p.inside
  BY <1>1 DEF FitsAt, After
<1>2. CASE /\ p.message \in 1..Len(sz) /\ p.fragment \in 1..sz[p.message]
           /\ \E part \in IF p.inside THEN {"tail"} ELSE {"whole", "split"} :
                piece = Data(p.message, p.fragment, part)
  <2>1. p.message \in 1..Len(tz) /\ tz[p.message] = sz[p.message]
    BY <1>2
  <2> QED
    BY <1>2, <2>1 DEF FitsAt, After
<1> QED
  BY <1>1, <1>2 DEF FitsAt

(* A piece that comes at the sender's place extends the wire. *)
LEMMA WireGrows ==
    ASSUME TypeOK, WireConnects, NEW piece \in Pieces, Arrives(piece),
           FitsAt(sizes, SenderAt, piece), SenderAt' = After(sizes, SenderAt, piece),
           SenderAt' \in Places, ReaderAt' = ReaderAt, sizes' = sizes
    PROVE  WireConnects'
<1> DEFINE n == Len(wire)
<1>1. PICK place \in [1 .. n + 1 -> Places] : Connects(place)
  BY DEF WireConnects
<1>2. /\ n \in Nat /\ Len(wire') = n + 1 /\ wire'[n + 1] = piece
      /\ \A j \in 1..n : wire'[j] = wire[j]
  BY DEF Arrives, TypeOK
<1> DEFINE longer == [j \in 1 .. n + 2 |-> IF j <= n + 1 THEN place[j] ELSE SenderAt']
<1>3. longer \in [1 .. Len(wire') + 1 -> Places]
  BY <1>2
<1>4. longer[1] = ReaderAt' /\ longer[Len(wire') + 1] = SenderAt'
  BY <1>1, <1>2 DEF Connects
<1>5. ASSUME NEW j \in 1..Len(wire')
      PROVE  FitsAt(sizes', longer[j], wire'[j])
             /\ longer[j + 1] = After(sizes', longer[j], wire'[j])
  <2>1. CASE j \in 1..n
    <3>1. longer[j] = place[j] /\ longer[j + 1] = place[j + 1] /\ wire'[j] = wire[j]
      BY <1>2, <2>1
    <3>2. FitsAt(sizes, place[j], wire[j]) /\ place[j + 1] = After(sizes, place[j], wire[j])
      BY <1>1, <2>1 DEF Connects
    <3> QED
      BY <3>1, <3>2
  <2>2. CASE j = n + 1
    <3>1. longer[j] = SenderAt /\ longer[j + 1] = SenderAt' /\ wire'[j] = piece
      BY <1>1, <1>2, <2>2 DEF Connects
    <3> QED
      BY <3>1
  <2> QED
    BY <1>2, <2>1, <2>2
<1> HIDE DEF longer
<1>6. \E q \in [1 .. Len(wire') + 1 -> Places] :
        /\ q[1] = ReaderAt' /\ q[Len(wire') + 1] = SenderAt'
        /\ \A j \in 1..Len(wire') : /\ FitsAt(sizes', q[j], wire'[j])
                                    /\ q[j + 1] = After(sizes', q[j], wire'[j])
  BY <1>3, <1>4, <1>5
<1> QED
  BY <1>6 DEF WireConnects, Connects

(* The piece that is read next comes at the reader's place, *)
LEMMA ReaderSees ==
    ASSUME TypeOK, WireConnects, wire # <<>>
    PROVE  FitsAt(sizes, ReaderAt, Head(wire))
<1>1. PICK place \in [1 .. Len(wire) + 1 -> Places] : Connects(place)
  BY DEF WireConnects
<1>2. 1 \in 1..Len(wire) /\ wire[1] = Head(wire)
  BY DEF TypeOK
<1> QED
  BY <1>1, <1>2 DEF Connects

(* and takes the reader to the place of the one after it. *)
LEMMA WireShrinks ==
    ASSUME TypeOK, WireConnects, wire # <<>>, wire' = Tail(wire),
           ReaderAt' = After(sizes, ReaderAt, Head(wire)),
           sizes' = sizes, SenderAt' = SenderAt
    PROVE  WireConnects'
<1> DEFINE n == Len(wire)
<1>1. PICK place \in [1 .. n + 1 -> Places] : Connects(place)
  BY DEF WireConnects
<1>2. /\ n \in Nat \ {0} /\ Len(wire') = n - 1 /\ wire[1] = Head(wire)
      /\ \A j \in 1 .. n - 1 : wire'[j] = wire[j + 1]
  BY DEF TypeOK
<1> DEFINE shorter == [j \in 1..n |-> place[j + 1]]
<1>3. shorter \in [1 .. Len(wire') + 1 -> Places]
  BY <1>2
<1>4. shorter[1] = ReaderAt' /\ shorter[Len(wire') + 1] = SenderAt'
  <2>1. place[2] = After(sizes, place[1], wire[1]) /\ place[1] = ReaderAt
        /\ place[n + 1] = SenderAt
    BY <1>1, <1>2 DEF Connects
  <2> QED
    BY <1>2, <2>1
<1>5. ASSUME NEW j \in 1..Len(wire')
      PROVE  FitsAt(sizes', shorter[j], wire'[j])
             /\ shorter[j + 1] = After(sizes', shorter[j], wire'[j])
  <2>1. /\ shorter[j] = place[j + 1] /\ shorter[j + 1] = place[(j + 1) + 1]
        /\ wire'[j] = wire[j + 1] /\ j + 1 \in 1..n
    BY <1>2
  <2>2. FitsAt(sizes, place[j + 1], wire[j + 1])
        /\ place[(j + 1) + 1] = After(sizes, place[j + 1], wire[j + 1])
    BY <1>1, <2>1 DEF Connects
  <2> QED
    BY <2>1, <2>2
<1> HIDE DEF shorter
<1>6. \E q \in [1 .. Len(wire') + 1 -> Places] :
        /\ q[1] = ReaderAt' /\ q[Len(wire') + 1] = SenderAt'
        /\ \A j \in 1..Len(wire') : /\ FitsAt(sizes', q[j], wire'[j])
                                    /\ q[j + 1] = After(sizes', q[j], wire'[j])
  BY <1>3, <1>4, <1>5
<1> QED
  BY <1>6 DEF WireConnects, Connects


(* What leaves the stream alone keeps its invariant, as long as the wire still
   connects the reader with the sender. *)
LEMMA StreamKept ==
    ASSUME StreamInv, UNCHANGED <<sizes, streamVars>>,
           ~torn /\ rd' \notin Ended => WireConnects'
    PROVE  StreamInv'
  BY DEF StreamInv, streamVars, DeliveredInOrder, Whole

(* So does what leaves the wire alone as well. *)
LEMMA WireKept ==
    ASSUME StreamInv, UNCHANGED <<sizes, sending, wire, streamVars>>,
           rd' \in Ended \/ rd \notin Ended
    PROVE  StreamInv'
<1>1. ~torn /\ rd' \notin Ended => WireConnects'
  BY DEF StreamInv, WireConnects, Connects, ReaderAt, SenderAt, streamVars
<1> QED
  BY <1>1, StreamKept

(* The broker begins a message. *)
LEMMA StartMessageStream ==
    ASSUME TypeOK, StreamInv, rd \notin Ended, StartMessage
    PROVE  StreamInv'
<1>1. SUFFICES ASSUME ~torn' PROVE StreamInv'
  BY DEF StreamInv
<1>2. UNCHANGED <<wire, rd, msg, framing, delivered, torn>>
  BY DEF StartMessage, streamVars, callVars
<1>3. /\ framing # "lost" /\ Len(delivered) <= Len(sizes) /\ DeliveredInOrder
      /\ rd \notin Ended /\ WireConnects
  BY <1>1, <1>2 DEF StreamInv
<1>4. /\ SenderAt' = SenderAt /\ Len(sizes') = Len(sizes) + 1 /\ Len(sizes) \in Nat
      /\ \A k \in 1..Len(sizes) : sizes'[k] = sizes[k]
  BY StartMessageMoves DEF TypeOK
<1>5. DeliveredInOrder'
  <2>1. ASSUME NEW k \in 1..Len(delivered)
        PROVE  delivered[k] = Whole(k) /\ sizes'[k] = sizes[k]
    <3>1. k \in 1..Len(sizes)
      BY <1>3, <1>4 DEF TypeOK
    <3> QED
      BY <1>1, <1>2, <1>3, <1>4, <3>1 DEF DeliveredInOrder
  <2>2. msg = [i \in 1..Len(msg) |-> <<Len(delivered) + 1, i>>]
    BY <1>1, <1>2, <1>3 DEF DeliveredInOrder
  <2> QED
    BY <1>2, <2>1, <2>2 DEF DeliveredInOrder, Whole
<1>6. WireConnects'
  <2>1. PICK place \in [1 .. Len(wire) + 1 -> Places] : Connects(place)
    BY <1>3 DEF WireConnects
  <2>2. ASSUME NEW j \in 1..Len(wire)
        PROVE  /\ FitsAt(sizes', place[j], wire[j])
               /\ place[j + 1] = After(sizes', place[j], wire[j])
    <3>1. FitsAt(sizes, place[j], wire[j]) /\ place[j + 1] = After(sizes, place[j], wire[j])
      BY <2>1 DEF Connects
    <3>2. Len(sizes) \in Nat /\ Len(sizes') \in Nat /\ Len(sizes) <= Len(sizes')
      BY <1>4
    <3> QED
      BY <1>4, <3>1, <3>2, LongerSizes
  <2>3. place[1] = ReaderAt' /\ place[Len(wire) + 1] = SenderAt'
    BY <1>2, <1>4, <2>1 DEF Connects, ReaderAt
  <2> QED
    BY <1>2, <2>2, <2>3 DEF WireConnects, Connects
<1> QED
  BY <1>2, <1>3, <1>4, <1>5, <1>6 DEF StreamInv, TypeOK

(* The steps of the broker. *)
LEMMA StreamBroker ==
    ASSUME TypeOK, SendingInv, StreamInv, rd \notin Ended, Broker, TypeOK'
    PROVE  SendingInv' /\ StreamInv'
<1>1. ASSUME NEW piece \in Pieces, Arrives(piece), FitsAt(sizes, SenderAt, piece),
             SenderAt' = After(sizes, SenderAt, piece), SendingInv',
             UNCHANGED <<sizes, rd, streamVars>>
      PROVE  StreamInv'
  <2>1. SenderAt' \in Places
    BY <1>1, SenderPlace
  <2>2. ReaderAt' = ReaderAt
    BY <1>1 DEF ReaderAt, streamVars
  <2>3. ~torn => WireConnects
    BY DEF StreamInv
  <2>4. ~torn => WireConnects'
    BY <1>1, <2>1, <2>2, <2>3, WireGrows
  <2> QED
    BY <1>1, <2>4, StreamKept
<1>2. CASE StartMessage
  BY <1>2, StartMessageMoves, StartMessageStream
<1>3. CASE SendData
  <2>1. UNCHANGED <<sizes, rd, streamVars>>
    BY <1>3 DEF SendData, callVars
  <2> QED
    BY <1>1, <1>3, <2>1, SendDataMoves
<1>4. CASE SendPong \/ SendPing \/ SendBad
  <2>1. PICK kind \in {"pong", "ping", "bad"} : SendControl(kind)
    BY <1>4 DEF SendPong, SendPing, SendBad
  <2>2. UNCHANGED <<sizes, rd, streamVars>>
    BY <2>1 DEF SendControl, callVars
  <2> QED
    BY <1>1, <2>1, <2>2, SendControlMoves
<1>5. CASE BrokerDies
  BY <1>5, WireKept DEF BrokerDies, SendingInv, callVars
<1> QED
  BY <1>2, <1>3, <1>4, <1>5 DEF Broker


(* A control frame that is read moves the reader to no other place. *)
LEMMA StreamControlRead ==
    ASSUME TypeOK, StreamInv, NEW kind \in {"pong", "ping", "bad"}, Read(Control(kind)),
           UNCHANGED streamVars
    PROVE  StreamInv'
<1>1. wire # <<>> /\ Head(wire) = Control(kind) /\ wire' = Tail(wire) /\ rd \notin Ended
      /\ UNCHANGED <<sizes, sending>>
  BY DEF Read, brokerVars, Ended
<1>2. ReaderAt' = ReaderAt /\ SenderAt' = SenderAt
  BY <1>1 DEF ReaderAt, SenderAt, streamVars
<1>3. After(sizes, ReaderAt, Head(wire)) = ReaderAt
  <2>1. Head(wire).kind = kind /\ kind # "data"
    BY <1>1 DEF Control
  <2> QED
    BY <2>1 DEF After
<1>4. ~torn => WireConnects
  BY <1>1 DEF StreamInv
<1>5. ~torn => WireConnects'
  BY <1>1, <1>2, <1>3, <1>4, WireShrinks
<1> QED
  BY <1>1, <1>5, StreamKept

(* A fragment that is read out of nowhere but its place is the one the reader
   is waiting for. *)
LEMMA ReadsNext ==
    ASSUME TypeOK, StreamInv, ~torn, NEW k, NEW i, NEW part, Read(Data(k, i, part))
    PROVE  /\ k = Len(delivered) + 1 /\ i = Len(msg) + 1
           /\ k \in 1..Len(sizes) /\ i \in 1..sizes[k]
           /\ WireConnects /\ wire # <<>> /\ Head(wire) = Data(k, i, part)
           /\ wire' = Tail(wire) /\ UNCHANGED <<sizes, sending>> /\ SenderAt' = SenderAt
<1>1. wire # <<>> /\ Head(wire) = Data(k, i, part) /\ wire' = Tail(wire) /\ rd \notin Ended
      /\ UNCHANGED <<sizes, sending>>
  BY DEF Read, brokerVars, Ended
<1>2. WireConnects
  BY <1>1 DEF StreamInv
<1>3. FitsAt(sizes, ReaderAt, Data(k, i, part))
  BY <1>1, <1>2, ReaderSees
<1>4. Data(k, i, part) \notin [kind : {"pong", "ping", "bad"}]
  BY DEF Data
<1>5. /\ ReaderAt.message \in 1..Len(sizes) /\ ReaderAt.fragment \in 1..sizes[ReaderAt.message]
      /\ \E other : Data(k, i, part) = Data(ReaderAt.message, ReaderAt.fragment, other)
  BY <1>3, <1>4 DEF FitsAt
<1>6. k = ReaderAt.message /\ i = ReaderAt.fragment
  BY <1>5 DEF Data
<1>7. ReaderAt.message = Len(delivered) + 1 /\ ReaderAt.fragment = Len(msg) + 1
  BY DEF ReaderAt, Place
<1> QED
  BY <1>1, <1>2, <1>5, <1>6, <1>7 DEF SenderAt

(* The beginning of a frame. *)
LEMMA StreamFrameStart ==
    ASSUME TypeOK, StreamInv, ReadFrameStart
    PROVE  StreamInv'
<1>1. PICK k \in 1..Len(sizes), i \in 1..MaxFragments + 1 : Read(Data(k, i, "split"))
  BY DEF ReadFrameStart
<1>2. framing = "between" /\ framing' = "inside" /\ UNCHANGED <<rd, msg, delivered, torn>>
  BY DEF ReadFrameStart, callVars
<1>3. SUFFICES ASSUME ~torn' PROVE StreamInv'
  BY DEF StreamInv
<1>4. /\ k = Len(delivered) + 1 /\ i = Len(msg) + 1
      /\ k \in 1..Len(sizes) /\ i \in 1..sizes[k]
      /\ WireConnects /\ wire # <<>> /\ Head(wire) = Data(k, i, "split")
      /\ wire' = Tail(wire) /\ UNCHANGED <<sizes, sending>> /\ SenderAt' = SenderAt
  BY <1>1, <1>2, <1>3, ReadsNext
<1>5. ReaderAt = Place(k, i, FALSE) /\ ReaderAt' = Place(k, i, TRUE)
  <2>1. (framing = "inside") = FALSE /\ (framing' = "inside") = TRUE
    BY <1>2
  <2> QED
    BY <1>2, <1>4, <2>1 DEF ReaderAt
<1>6. After(sizes, Place(k, i, FALSE), Data(k, i, "split")) = Place(k, i, TRUE)
  BY AfterData
<1>7. WireConnects'
  BY <1>4, <1>5, <1>6, WireShrinks
<1> QED
  BY <1>2, <1>3, <1>4, <1>7 DEF StreamInv, DeliveredInOrder, Whole

(* Nothing of a message is missing when its last fragment is gathered. *)
LEMMA GatheredWhole ==
    ASSUME TypeOK, NEW k, msg = [x \in 1..Len(msg) |-> <<k, x>>], sizes[k] = Len(msg) + 1
    PROVE  Append(msg, <<k, sizes[k]>>) = Whole(k)
<1>1. Len(msg) \in Nat
  BY DEF TypeOK
<1>2. \A x \in 1..Len(msg) : msg[x] = <<k, x>>
  BY <1>1
<1>3. Append(msg, <<k, sizes[k]>>) =
        [x \in 1 .. Len(msg) + 1 |-> IF x = Len(msg) + 1 THEN <<k, sizes[k]>> ELSE msg[x]]
  BY DEF TypeOK
<1> QED
  BY <1>1, <1>2, <1>3 DEF Whole


(* The end of a frame. *)
LEMMA StreamData ==
    ASSUME TypeOK, StreamInv, ReadData
    PROVE  StreamInv'
<1>1. PICK k \in 1..Len(sizes), i \in 1..MaxFragments + 1 :
        /\ \/ framing = "between" /\ Read(Data(k, i, "whole"))
           \/ framing = "inside" /\ Read(Data(k, i, "tail"))
        /\ IF Fits THEN Gather(<<k, i>>, i = sizes[k]) /\ framing' = "between"
           ELSE Refuse
  BY DEF ReadData
<1>2. CASE ~Fits
  <2>1. rd' \in Ended /\ UNCHANGED <<sizes, streamVars>>
    BY <1>1, <1>2 DEF Refuse, Ended, Read, brokerVars
  <2> QED
    BY <2>1, StreamKept
<1>3. CASE Fits
  <2>1. Gather(<<k, i>>, i = sizes[k]) /\ framing' = "between" /\ torn' = torn
    BY <1>1, <1>3 DEF Gather
  <2>2. SUFFICES ASSUME ~torn' PROVE StreamInv'
    BY DEF StreamInv
  <2>3. PICK part \in {"whole", "tail"} :
          Read(Data(k, i, part)) /\ ((framing = "inside") <=> part = "tail")
    BY <1>1
  <2>4. /\ k = Len(delivered) + 1 /\ i = Len(msg) + 1
        /\ k \in 1..Len(sizes) /\ i \in 1..sizes[k]
        /\ WireConnects /\ wire # <<>> /\ Head(wire) = Data(k, i, part)
        /\ wire' = Tail(wire) /\ UNCHANGED <<sizes, sending>> /\ SenderAt' = SenderAt
    BY <2>1, <2>2, <2>3, ReadsNext
  <2>5. DeliveredInOrder /\ Len(delivered) \in Nat /\ Len(msg) \in Nat
    BY <2>1, <2>2 DEF StreamInv, TypeOK
  <2>6. PICK b \in BOOLEAN : b = (framing = "inside")
    OBVIOUS
  <2>7. ReaderAt = Place(k, i, b)
    BY <2>4, <2>6 DEF ReaderAt
  <2>8. (framing' = "inside") = FALSE
    BY <2>1
  <2>9. ReaderAt' = Place(Len(delivered') + 1, Len(msg') + 1, FALSE)
    BY <2>8 DEF ReaderAt
  <2>10. /\ i = sizes[k] => After(sizes, ReaderAt, Head(wire)) = Place(k + 1, 1, FALSE)
         /\ i # sizes[k] => After(sizes, ReaderAt, Head(wire)) = Place(k, i + 1, FALSE)
    <3>1. part # "split" /\ ReaderAt = Place(k, i, b) /\ Head(wire) = Data(k, i, part)
      BY <2>4, <2>7
    <3>2. /\ i = sizes[k] => After(sizes, Place(k, i, b), Data(k, i, part)) = Place(k + 1, 1, FALSE)
          /\ i # sizes[k] => After(sizes, Place(k, i, b), Data(k, i, part)) = Place(k, i + 1, FALSE)
      BY <3>1, AfterData
    <3> QED
      BY <3>1, <3>2
  <2>11. DeliveredInOrder' /\ ReaderAt' = After(sizes, ReaderAt, Head(wire))
         /\ Len(delivered') <= Len(sizes)
    <3>1. CASE i = sizes[k]
      <4>1. delivered' = Append(delivered, Append(msg, <<k, i>>)) /\ msg' = <<>>
        BY <2>1, <3>1 DEF Gather
      <4>2. Append(msg, <<k, i>>) = Whole(k)
        BY <2>1, <2>2, <2>4, <2>5, <3>1, GatheredWhole DEF DeliveredInOrder
      <4>3. /\ Len(delivered') = k /\ Len(msg') = 0 /\ delivered'[k] = Whole(k)
            /\ \A n \in 1..Len(delivered) : delivered'[n] = delivered[n]
        <5>1. delivered' = Append(delivered, Whole(k)) /\ delivered \in Seq(Seq(Fragments))
          BY <4>1, <4>2 DEF TypeOK
        <5>2. /\ Len(delivered') = Len(delivered) + 1
              /\ delivered'[Len(delivered) + 1] = Whole(k)
              /\ \A n \in 1..Len(delivered) : delivered'[n] = delivered[n]
          BY <5>1
        <5> QED
          BY <2>4, <4>1, <5>2
      <4>4. \A n \in 1..Len(delivered') : delivered'[n] = Whole(n)
        <5> SUFFICES ASSUME NEW n \in 1..Len(delivered') PROVE delivered'[n] = Whole(n)
          OBVIOUS
        <5>1. n = k \/ n \in 1..Len(delivered)
          BY <2>4, <2>5, <4>3
        <5>2. n \in 1..Len(delivered) => delivered[n] = Whole(n)
          BY <2>1, <2>2, <2>5 DEF DeliveredInOrder
        <5> QED
          BY <4>3, <5>1, <5>2
      <4>5. msg' = [x \in 1..Len(msg') |-> <<Len(delivered') + 1, x>>]
        BY <4>1, <4>3
      <4>6. DeliveredInOrder'
        BY <2>4, <4>4, <4>5 DEF DeliveredInOrder, Whole
      <4>7. ReaderAt' = Place(k + 1, 1, FALSE) /\ Len(delivered') <= Len(sizes)
        BY <2>4, <2>9, <4>3
      <4> QED
        BY <2>10, <3>1, <4>6, <4>7
    <3>2. CASE i # sizes[k]
      <4>1. delivered' = delivered /\ msg' = Append(msg, <<k, i>>)
        BY <2>1, <3>2 DEF Gather
      <4>2. Len(msg') = i
        BY <2>4, <4>1 DEF TypeOK
      <4>3. msg' = [x \in 1..Len(msg') |-> <<Len(delivered') + 1, x>>]
        <5>1. msg' = [x \in 1 .. Len(msg) + 1 |-> IF x = Len(msg) + 1 THEN <<k, i>> ELSE msg[x]]
          BY <4>1 DEF TypeOK
        <5>2. \A x \in 1..Len(msg) : msg[x] = <<k, x>>
          BY <2>1, <2>2, <2>4, <2>5 DEF DeliveredInOrder
        <5>3. \A x \in 1 .. Len(msg) + 1 :
                (IF x = Len(msg) + 1 THEN <<k, i>> ELSE msg[x]) = <<k, x>>
          BY <2>4, <2>5, <5>2
        <5>4. msg' = [x \in 1 .. Len(msg) + 1 |-> <<k, x>>]
          BY <5>1, <5>3
        <5> QED
          BY <2>4, <4>1, <4>2, <5>4
      <4>4. DeliveredInOrder'
        BY <2>1, <2>2, <2>4, <2>5, <4>1, <4>3 DEF DeliveredInOrder, Whole
      <4>5. ReaderAt' = Place(k, i + 1, FALSE) /\ Len(delivered') <= Len(sizes)
        <5>1. Len(delivered') = Len(delivered) /\ Len(delivered) <= Len(sizes)
          BY <2>1, <2>2, <4>1 DEF StreamInv
        <5> QED
          BY <2>4, <2>9, <4>2, <5>1
      <4> QED
        BY <2>10, <3>2, <4>4, <4>5
    <3> QED
      BY <3>1, <3>2
  <2>12. WireConnects'
    BY <2>4, <2>11, WireShrinks
  <2> QED
    BY <2>1, <2>4, <2>11, <2>12 DEF StreamInv
<1> QED
  BY <1>2, <1>3

(* The reader is out of step only when a read was given up inside a frame. *)
LEMMA StreamOutOfStep ==
    ASSUME TypeOK, StreamInv, ReadOutOfStep
    PROVE  StreamInv' /\ torn
<1>1. ASSUME ~torn PROVE FALSE
  <2>1. rd \notin Ended /\ wire # <<>>
    BY DEF ReadOutOfStep, Read, Ended
  <2>2. framing # "lost" /\ WireConnects
    BY <1>1, <2>1 DEF StreamInv
  <2>3. framing = "between" /\ Head(wire).kind = "data" /\ Head(wire).part = "tail"
    BY <2>2 DEF ReadOutOfStep, Tailed
  <2>4. FitsAt(sizes, ReaderAt, Head(wire)) /\ ~ReaderAt.inside
    BY <2>1, <2>2, <2>3, ReaderSees DEF ReaderAt, Place
  <2>5. CASE Head(wire) \in [kind : {"pong", "ping", "bad"}]
    BY <2>3, <2>5
  <2>6. CASE \E part \in {"whole", "split"} :
               Head(wire) = Data(ReaderAt.message, ReaderAt.fragment, part)
    BY <2>3, <2>6 DEF Data
  <2> QED
    BY <2>4, <2>5, <2>6 DEF FitsAt
<1>2. torn' = torn
  BY DEF ReadOutOfStep, Refuse, Gather, streamVars
<1> QED
  BY <1>1, <1>2 DEF StreamInv

(* A call that is given up between two messages leaves nothing behind. *)
LEMMA StreamTimedOut ==
    ASSUME TypeOK, StreamInv, rd \notin Ended, TimedOut
    PROVE  StreamInv'
<1>1. UNCHANGED <<sizes, sending, wire, delivered>>
  BY DEF TimedOut, brokerVars
<1>2. CASE Idle /\ ~torn'
  <2>1. msg' = <<>> /\ msg = <<>> /\ framing' = framing /\ torn' = torn /\ rd' = "reading"
    BY <1>2 DEF TimedOut, TypeOK
  <2> QED
    BY <1>1, <2>1, WireKept DEF streamVars
<1>3. CASE ~Idle
  <2>1. rd' \in Ended /\ UNCHANGED <<msg, framing, torn>>
    BY <1>3 DEF TimedOut, Ended
  <2> QED
    BY <1>1, <2>1, WireKept DEF streamVars
<1> QED
  BY <1>2, <1>3 DEF StreamInv

(* The steps of the reader. *)
LEMMA StreamReader ==
    ASSUME TypeOK, StreamInv, SendingInv, rd \notin Ended, Reader
    PROVE  SendingInv' /\ StreamInv'
<1>1. UNCHANGED <<sizes, sending>>
  BY DEF Reader, ReadPong, ReadPing, NextWriter, PongWritten, ReadBad, ReadFrameStart,
         ReadData, ReadOutOfStep, ReadTimesOut, PongTimesOut, ReadOn, Closed, Read, TimedOut, brokerVars
<1>2. SendingInv'
  BY <1>1 DEF SendingInv
<1>3. CASE ReadPong
  BY <1>2, <1>3, StreamControlRead DEF ReadPong
<1>4. CASE ReadPing
  <2>1. UNCHANGED streamVars
    BY <1>4 DEF ReadPing, Refuse
  <2> QED
    BY <1>2, <1>4, <2>1, StreamControlRead DEF ReadPing
<1>5. CASE ReadBad
  BY <1>2, <1>5, StreamControlRead DEF ReadBad, Refuse
<1>6. CASE ReadTimesOut \/ PongTimesOut
  BY <1>2, <1>6, StreamTimedOut DEF ReadTimesOut, PongTimesOut
<1>7. CASE NextWriter \/ PongWritten \/ ReadOn \/ Closed
  <2>1. UNCHANGED <<wire, streamVars>> /\ (rd' \in Ended \/ rd \notin Ended)
    BY <1>7 DEF NextWriter, PongWritten, ReadOn, Closed
  <2> QED
    BY <1>1, <1>2, <2>1, WireKept
<1> QED
  BY <1>2, <1>3, <1>4, <1>5, <1>6, <1>7, StreamFrameStart, StreamData, StreamOutOfStep DEF Reader


--------------------------------------------------------------------------------
(* The idle rule *)

(* A live broker gives a sign of life within a window. *)
LEMMA SignBound ==
    /\ TypeOK => SignWithin \in Nat /\ SignWithin < Window
    /\ TypeOK' => SignWithin' \in Nat /\ SignWithin' < Window
<1>1. /\ Heartbeat \in Nat \ {0} /\ PongDelay \in Nat /\ PongDelay < Heartbeat
      /\ Window = 2 * Heartbeat /\ NoTimer \notin Nat
  BY WsReadAssumption DEF Window, ReadSlack
<1>2. ASSUME NEW due \in 0..PongDelay \cup {NoTimer}, NEW ping \in 0..Heartbeat, NEW seen
      PROVE  LET sign == IF seen THEN 0 ELSE IF due # NoTimer THEN due ELSE ping + PongDelay
             IN  sign \in Nat /\ sign < Window
  BY <1>1
<1> QED
  BY <1>2 DEF TypeOK, SignWithin

(* A pong stays on the wire when another piece arrives, *)
LEMMA PongStays ==
    ASSUME TypeOK, NEW piece, Arrives(piece), PongOnWire
    PROVE  PongOnWire'
  BY DEF Arrives, PongOnWire, TypeOK

(* and when another piece is read. *)
LEMMA PongNext ==
    ASSUME TypeOK, wire # <<>>, wire' = Tail(wire), Head(wire) # Control("pong"), PongOnWire
    PROVE  PongOnWire'
<1>1. PICK j \in 1..Len(wire) : wire[j] = Control("pong")
  BY DEF PongOnWire
<1>2. Head(wire) = wire[1] /\ Len(wire) \in Nat /\ Len(wire') = Len(wire) - 1
      /\ \A i \in 1 .. Len(wire) - 1 : wire'[i] = wire[i + 1]
  BY DEF TypeOK
<1>3. j - 1 \in 1..Len(wire') /\ wire'[j - 1] = wire[j]
  <2>1. j # 1
    BY <1>1, <1>2
  <2>2. j - 1 \in 1 .. Len(wire) - 1 /\ (j - 1) + 1 = j
    BY <1>1, <1>2, <2>1
  <2> QED
    BY <1>2, <2>2
<1> QED
  BY <1>1, <1>3 DEF PongOnWire

(* The steps of the broker: a sign of life comes no later than before. *)
LEMMA QuietBroker ==
    ASSUME TypeOK, TypeOK', TimersInv, QuietInv, Broker
    PROVE  QuietInv'
<1>1. UNCHANGED <<nextPing, rd, deadline, idleFor, stalled, torn>>
  BY DEF Broker, StartMessage, SendData, SendPong, SendPing, SendBad, SendControl, BrokerDies,
         callVars, streamVars, aliveVars
<1>2. CASE BrokerDies
  BY <1>2 DEF BrokerDies, QuietInv
<1>3. CASE StartMessage
  BY <1>1, <1>3 DEF StartMessage, QuietInv, SignWithin, PongOnWire
<1>4. ASSUME NEW piece, Arrives(piece), alive' = alive,
             \/ pongDue' = pongDue
             \/ pongDue' = NoTimer /\ piece = Control("pong")
      PROVE  QuietInv'
  <2>1. PongOnWire => PongOnWire'
    BY <1>4, PongStays
  <2>2. piece = Control("pong") => PongOnWire'
    <3>1. wire' = Append(wire, piece) /\ wire \in Seq(Pieces)
      BY <1>4 DEF Arrives, TypeOK
    <3>2. Len(wire') \in 1..Len(wire') /\ wire'[Len(wire')] = piece
      BY <3>1
    <3> QED
      BY <3>2 DEF PongOnWire
  <2>3. SignWithin' <= SignWithin /\ SignWithin' \in Nat /\ SignWithin \in Nat
    <3>1. SignWithin' \in Nat /\ SignWithin \in Nat
      BY SignBound
    <3>2. PongOnWire' => SignWithin' = 0
      BY DEF SignWithin
    <3>3. ~PongOnWire' => SignWithin' = SignWithin
      BY <1>1, <1>4, <2>1, <2>2 DEF SignWithin
    <3> QED
      BY <3>1, <3>2, <3>3
  <2>4. (rd = "reading" => deadline \in Nat) /\ idleFor \in Nat /\ Window \in Nat
    BY Limits DEF TimersInv, TimersTypeOK, WaitBounded
  <2>5. pongDue' # NoTimer => pongDue' = pongDue
    BY <1>4
  <2>6. ASSUME rd = "reading", idleFor + SignWithin < Window \/ SignWithin < deadline
        PROVE  idleFor' + SignWithin' < Window \/ SignWithin' < deadline'
    <3>1. idleFor' = idleFor /\ deadline' = deadline /\ idleFor \in Nat /\ deadline \in Nat
      BY <1>1, <2>4, <2>6
    <3>2. \A i, d, s, t \in Nat : t <= s /\ (i + s < Window \/ s < d) => i + t < Window \/ t < d
      BY <2>4
    <3> QED
      BY <2>3, <2>6, <3>1, <3>2
  <2> QED
    BY <1>1, <1>4, <2>5, <2>6 DEF QuietInv
<1>5. CASE SendData
  BY <1>4, <1>5 DEF SendData
<1>6. CASE SendPong
  BY <1>4, <1>6 DEF SendPong, SendControl
<1>7. CASE SendPing \/ SendBad
  BY <1>4, <1>7 DEF SendPing, SendBad, SendControl
<1> QED
  BY <1>2, <1>3, <1>5, <1>6, <1>7 DEF Broker


(* The ping: the pong that it asks for comes before the next. *)
LEMMA QuietPing ==
    ASSUME TypeOK, TypeOK', QuietInv, Ping
    PROVE  QuietInv'
<1>1. UNCHANGED <<alive, wire, rd, deadline, idleFor, torn>> /\ nextPing = 0
      /\ nextPing' = Heartbeat
  BY DEF Ping, callVars, streamVars
<1>2. CASE ~alive \/ stalled' = TRUE
  BY <1>1, <1>2 DEF QuietInv
<1>3. CASE alive /\ stalled' = stalled /\ pongDue' = PongDelay
  <2>1. SUFFICES ASSUME alive, ~stalled, ~torn PROVE QuietInv'
    BY <1>1, <1>3 DEF QuietInv
  <2>2. PongDelay \in Nat /\ PongDelay < Heartbeat /\ Heartbeat \in Nat /\ NoTimer \notin Nat
    BY WsReadAssumption
  <2>3. pongDue = NoTimer
    <3>1. pongDue # NoTimer => pongDue \in Nat /\ pongDue + Heartbeat = PongDelay
      BY <1>1, <2>1, <2>2 DEF QuietInv, TypeOK
    <3> QED
      BY <2>2, <3>1
  <2>4. PongOnWire' = PongOnWire
    BY <1>1 DEF PongOnWire
  <2>5. SignWithin' = SignWithin
    BY <1>1, <1>3, <2>2, <2>3, <2>4 DEF SignWithin
  <2>6. pongDue' + Heartbeat = nextPing' + PongDelay
    BY <1>1, <1>3, <2>2
  <2> QED
    BY <1>1, <2>1, <2>5, <2>6 DEF QuietInv
<1> QED
  BY <1>2, <1>3 DEF Ping, TypeOK

(* A frame that is read complete, or a call that begins, leaves a window for
   the next sign of life. *)
LEMMA QuietAfresh ==
    ASSUME TypeOK', QuietInv, UNCHANGED <<alive, pongDue, nextPing>>,
           stalled' = stalled \/ stalled' = TRUE, torn' = torn \/ torn' = TRUE,
           rd' = "reading" => idleFor' = 0 \/ deadline' = Window,
           rd' \in {"ponging", "timedOut"} => rd' = rd \/ stalled' = TRUE
    PROVE  QuietInv'
<1>1. SignWithin' \in Nat /\ SignWithin' < Window /\ Window \in Nat
  BY SignBound, Limits
<1>2. 0 + SignWithin' < Window
  <2>1. \A n \in Nat : n < Window => 0 + n < Window
    BY <1>1
  <2> QED
    BY <1>1, <2>1
<1> QED
  BY <1>1, <1>2 DEF QuietInv

(* The steps of the reader. *)
LEMMA QuietReader ==
    ASSUME TypeOK, TypeOK', TimersInv, StreamInv, QuietInv, rd \notin Ended, Reader
    PROVE  QuietInv'
<1>1. UNCHANGED <<alive, pongDue, nextPing>>
  BY DEF Reader, ReadPong, ReadPing, NextWriter, PongWritten, ReadBad, ReadFrameStart,
         ReadData, ReadOutOfStep, ReadTimesOut, PongTimesOut, ReadOn, Closed, Read, TimedOut, brokerVars
<1>2. CASE ReadPong
  BY <1>1, <1>2, QuietAfresh DEF ReadPong, Activity, callVars, streamVars
<1>3. CASE ReadPing
  BY <1>1, <1>3, QuietAfresh DEF ReadPing, Activity, Refuse, callVars, streamVars
<1>4. CASE NextWriter \/ PongWritten
  BY <1>1, <1>4 DEF NextWriter, PongWritten, QuietInv, aliveVars, streamVars
<1>5. CASE ReadBad
  BY <1>1, <1>5, QuietAfresh DEF ReadBad, Refuse, streamVars
<1>6. CASE ReadFrameStart
  <2>1. PICK k \in 1..Len(sizes), i \in 1..MaxFragments + 1 : Read(Data(k, i, "split"))
    BY <1>6 DEF ReadFrameStart
  <2>2. PongOnWire => PongOnWire'
    <3>1. Head(wire) # Control("pong") /\ wire # <<>> /\ wire' = Tail(wire)
      BY <2>1 DEF Read, Data, Control
    <3> QED
      BY <3>1, PongNext
  <2>3. PongOnWire' => PongOnWire
    <3>1. \A j \in 1..Len(wire') : j + 1 \in 1..Len(wire) /\ wire'[j] = wire[j + 1]
      BY <2>1 DEF Read, TypeOK
    <3> QED
      BY <3>1 DEF PongOnWire
  <2>4. SignWithin' = SignWithin
    BY <1>1, <2>2, <2>3 DEF SignWithin
  <2>5. UNCHANGED <<rd, deadline, idleFor, stalled, torn>>
    BY <1>6 DEF ReadFrameStart, callVars, aliveVars
  <2> QED
    BY <1>1, <2>4, <2>5 DEF QuietInv
<1>7. CASE ReadData
  BY <1>1, <1>7, QuietAfresh DEF ReadData, Activity, Gather, Refuse, Read, streamVars
<1>8. CASE ReadOutOfStep
  <2>1. torn' = torn
    BY <1>8 DEF ReadOutOfStep, Refuse, Gather, streamVars
  <2> QED
    BY <1>8, <2>1, StreamOutOfStep DEF QuietInv
<1>9. CASE ReadTimesOut
  <2>1. alive /\ ~stalled /\ ~torn => Idle
    <3>1. SUFFICES ASSUME alive, ~stalled, ~torn PROVE idleFor < Window
      BY DEF Idle
    <3>2. deadline = 0 /\ rd = "reading"
      BY <1>9 DEF ReadTimesOut
    <3>3. SignWithin \in Nat /\ idleFor \in Nat /\ Window \in Nat
      BY SignBound, Limits DEF TimersInv, TimersTypeOK
    <3>4. idleFor + SignWithin < Window
      BY <3>1, <3>2, <3>3 DEF QuietInv
    <3> QED
      BY <3>3, <3>4
  <2>2. CASE Idle
    BY <1>1, <1>9, <2>2, QuietAfresh DEF ReadTimesOut, TimedOut, aliveVars, TypeOK
  <2>3. CASE ~Idle
    BY <1>1, <1>9, <2>1, <2>3 DEF ReadTimesOut, TimedOut, aliveVars, QuietInv
  <2> QED
    BY <2>2, <2>3
<1>10. CASE PongTimesOut
  <2>1. ~(alive /\ ~stalled /\ ~torn)
    BY <1>10 DEF PongTimesOut, QuietInv
  <2>2. stalled' = stalled /\ (torn => torn')
    BY <1>10 DEF PongTimesOut, TimedOut, aliveVars
  <2> QED
    BY <1>1, <2>1, <2>2 DEF QuietInv
<1>11. CASE ReadOn
  BY <1>1, <1>11, QuietAfresh DEF ReadOn, streamVars
<1>12. CASE Closed
  BY <1>1, <1>12, QuietAfresh DEF Closed, streamVars, aliveVars
<1> QED
  BY <1>2, <1>3, <1>4, <1>5, <1>6, <1>7, <1>8, <1>9, <1>10, <1>11, <1>12 DEF Reader


(* A tick brings the sign of life and the end of the wait a tick closer. *)
LEMMA QuietTick ==
    ASSUME TypeOK, TypeOK', TimersInv, QuietInv, Tick
    PROVE  QuietInv'
<1>1. /\ UNCHANGED <<alive, wire, rd, stalled, torn>>
      /\ nextPing > 0 /\ nextPing' = nextPing - 1
      /\ pongDue # 0 /\ pongDue' = Elapse(pongDue)
      /\ deadline' = Elapse(deadline) /\ idleFor' = Grow(idleFor, Window)
      /\ rd = "reading" => wire = <<>> /\ deadline > 0
  BY DEF Tick, streamVars
<1>2. SUFFICES ASSUME alive, ~stalled, ~torn PROVE QuietInv'
  BY <1>1 DEF QuietInv
<1>3. /\ nextPing \in Nat /\ nextPing' \in Nat /\ idleFor \in Nat /\ Window \in Nat
      /\ PongDelay \in Nat /\ Heartbeat \in Nat /\ NoTimer \notin Nat
      /\ pongDue \in Nat \cup {NoTimer}
  BY <1>1, Limits, WsReadAssumption DEF TypeOK
<1>4. /\ pongDue = NoTimer => pongDue' = NoTimer
      /\ pongDue # NoTimer => /\ pongDue \in Nat \ {0} /\ pongDue' = pongDue - 1
                              /\ pongDue' # NoTimer /\ pongDue' \in Nat
  BY <1>1, <1>3 DEF Elapse
<1>5. pongDue' # NoTimer => pongDue' + Heartbeat = nextPing' + PongDelay
  <2>1. SUFFICES ASSUME pongDue' # NoTimer PROVE pongDue' + Heartbeat = nextPing' + PongDelay
    OBVIOUS
  <2>2. pongDue \in Nat /\ pongDue' = pongDue - 1
        /\ pongDue + Heartbeat = nextPing + PongDelay
    BY <1>2, <1>4, <2>1 DEF QuietInv
  <2> QED
    BY <1>1, <1>3, <2>2
<1>6. ASSUME rd = "reading"
      PROVE  idleFor' + SignWithin' < Window \/ SignWithin' < deadline'
  <2>1. ~PongOnWire /\ ~PongOnWire'
    <3>1. wire = <<>> /\ Len(wire) = 0 /\ wire' = wire
      BY <1>1, <1>6
    <3> QED
      BY <3>1 DEF PongOnWire
  <2>2. SignWithin \in Nat /\ SignWithin' \in Nat
    BY SignBound
  <2>3. SignWithin' = SignWithin - 1
    <3>1. CASE pongDue = NoTimer
      <4>1. SignWithin = nextPing + PongDelay /\ SignWithin' = nextPing' + PongDelay
        BY <1>4, <2>1, <3>1 DEF SignWithin
      <4> QED
        BY <1>1, <1>3, <4>1
    <3>2. CASE pongDue # NoTimer
      BY <1>4, <2>1, <3>2 DEF SignWithin
    <3> QED
      BY <3>1, <3>2
  <2>4. deadline \in Nat /\ deadline' = deadline - 1
    BY <1>1, <1>6, Limits DEF TimersInv, TimersTypeOK, WaitBounded, Elapse
  <2>5. idleFor' \in Nat /\ idleFor' <= idleFor + 1
    BY <1>1, <1>3 DEF Grow
  <2>6. idleFor + SignWithin < Window \/ SignWithin < deadline
    BY <1>2, <1>6 DEF QuietInv
  <2>7. \A i, j, d, s \in Nat :
          j <= i + 1 /\ (i + s < Window \/ s < d) => j + (s - 1) < Window \/ s - 1 < d - 1
    BY <1>3
  <2> QED
    BY <1>3, <2>2, <2>3, <2>4, <2>5, <2>6, <2>7
<1> QED
  BY <1>1, <1>2, <1>5, <1>6 DEF QuietInv

--------------------------------------------------------------------------------
(* The invariant *)

(* The initial states: nothing has been sent, and the first ping is a heartbeat
   away. *)
LEMMA InitInv == Init => IInv
<1> SUFFICES ASSUME Init PROVE IInv
  OBVIOUS
<1>1. TypeOK /\ TimersInv
  BY TypeInit, TimersInit
<1>2. SendingInv
  BY DEF Init, SendingInv
<1>3. StreamInv
  <2>1. ReaderAt = Place(1, 1, FALSE) /\ SenderAt = Place(1, 1, FALSE)
    <3>1. (framing = "inside") = FALSE /\ sending = <<>>
          /\ Len(delivered) + 1 = 1 /\ Len(msg) + 1 = 1 /\ Len(sizes) + 1 = 1
      BY DEF Init
    <3> QED
      BY <3>1 DEF ReaderAt, SenderAt
  <2>2. Place(1, 1, FALSE) \in Places
    BY DEF Place, Places
  <2>3. WireConnects
    <3>1. Len(wire) = 0 /\ Len(wire) + 1 = 1
      BY DEF Init
    <3>2. \E place \in [1..1 -> Places] : place[1] = Place(1, 1, FALSE)
      <4>1. ASSUME NEW S, NEW p \in S PROVE \E place \in [1..1 -> S] : place[1] = p
        <5>1. [j \in 1..1 |-> p] \in [1..1 -> S] /\ [j \in 1..1 |-> p][1] = p
          OBVIOUS
        <5> QED
          BY <5>1
      <4> QED
        BY <2>2, <4>1
    <3>3. PICK place \in [1 .. Len(wire) + 1 -> Places] : place[1] = Place(1, 1, FALSE)
      BY <3>1, <3>2
    <3>4. \A j \in 1..Len(wire) : FALSE
      BY <3>1
    <3> QED
      BY <2>1, <3>1, <3>3, <3>4 DEF WireConnects, Connects
  <2>4. DeliveredInOrder
    BY DEF Init, DeliveredInOrder
  <2> QED
    BY <2>3, <2>4 DEF Init, StreamInv
<1>4. QuietInv
  <2>1. /\ Heartbeat \in Nat /\ PongDelay \in Nat /\ PongDelay < Heartbeat
        /\ Window = 2 * Heartbeat
    BY WsReadAssumption DEF Window, ReadSlack
  <2>2. SignWithin = Heartbeat + PongDelay
    BY DEF Init, SignWithin, PongOnWire
  <2>3. SignWithin < deadline
    BY <2>1, <2>2 DEF Init
  <2> QED
    BY <2>3 DEF Init, QuietInv
<1> QED
  BY <1>1, <1>2, <1>3, <1>4 DEF IInv

(* Every step keeps it. *)
LEMMA NextInv == IInv /\ [Next]_vars => IInv'
<1> SUFFICES ASSUME IInv, [Next]_vars PROVE IInv'
  OBVIOUS
<1> USE DEF IInv
<1>1. CASE rd \notin Ended /\ Broker
  <2>1. TypeOK'
    BY <1>1, BrokerType
  <2>2. TimersInv'
    BY <1>1, OthersFrame DEF TimersInv, TimersTypeOK, WaitBounded, callVars
  <2> QED
    BY <1>1, <2>1, <2>2, StreamBroker, QuietBroker
<1>2. CASE rd \notin Ended /\ Ping
  <2>1. TypeOK'
    BY <1>2, PingType
  <2>2. TimersInv'
    BY <1>2, OthersFrame DEF TimersInv, TimersTypeOK, WaitBounded, callVars
  <2>3. SendingInv' /\ StreamInv'
    BY <1>2, WireKept DEF Ping, callVars, SendingInv
  <2> QED
    BY <1>2, <2>1, <2>2, <2>3, QuietPing
<1>3. CASE rd \notin Ended /\ Reader
  <2>1. TypeOK'
    BY <1>3, ReadingType, LoopType DEF Reader
  <2>2. TimersInv'
    BY <1>3, ReadingStep, PongStep, LoopStep DEF Reader
  <2> QED
    BY <1>3, <2>1, <2>2, StreamReader, QuietReader
<1>4. CASE rd \notin Ended /\ Tick
  <2>1. TypeOK' /\ TimersInv'
    BY <1>4, TickType, TickStep
  <2>2. SendingInv' /\ StreamInv'
    BY <1>4, WireKept DEF Tick, SendingInv
  <2> QED
    BY <1>4, <2>1, <2>2, QuietTick
<1>6. CASE rd \notin Ended /\ WriteTimesOut
  <2>1. TypeOK' /\ TimersInv'
    BY <1>6, LoopType, PongStep
  <2>2. SendingInv' /\ StreamInv'
    BY <1>6, WireKept DEF WriteTimesOut, brokerVars, SendingInv
  <2>3. QuietInv'
    BY <1>6 DEF WriteTimesOut, QuietInv
  <2> QED
    BY <2>1, <2>2, <2>3
<1>5. CASE UNCHANGED vars
  <2> USE <1>5 DEF vars, brokerVars, callVars, streamVars, aliveVars
  <2>1. TypeOK' /\ TimersInv' /\ SendingInv'
    BY DEF TypeOK, TimersInv, TimersTypeOK, WaitBounded, SendingInv
  <2>2. StreamInv'
    BY WireKept DEF StreamInv, DeliveredInOrder, Whole
  <2>3. QuietInv'
    BY DEF QuietInv, SignWithin, PongOnWire
  <2> QED
    BY <2>1, <2>2, <2>3
<1> QED
  BY <1>1, <1>2, <1>3, <1>4, <1>5, <1>6 DEF Next, Stop

(* The inductive invariant of the reader, for every heartbeat, every layout of
   the messages and every order of the frames. *)
THEOREM Inductive == Spec => []IInv
  BY InitInv, NextInv, PTL DEF Spec

(* The states of the broker, the wire and the reader are of their types. *)
THEOREM TypeCorrect == Spec => []TypeOK
<1>1. IInv => TypeOK
  BY DEF IInv
<1> QED
  BY <1>1, Inductive, PTL

(* ReadMessage: as long as no read was given up inside a message, the messages
   it returns are those the broker sent, whole, in order and without a gap. *)
THEOREM ReadsInOrder == Spec => []DeliveredInOrder
<1>1. IInv => DeliveredInOrder
  BY DEF IInv, StreamInv, DeliveredInOrder
<1> QED
  BY <1>1, Inductive, PTL

(* The idle rule of pump never takes a broker that answers every ping before the
   next for a dead one, unless a write has blocked or a read was given up inside
   a message. *)
THEOREM QuietIsKept == Spec => []QuietBrokerKept
<1>1. IInv => QuietBrokerKept
  BY DEF IInv, QuietInv, QuietBrokerKept
<1> QED
  BY <1>1, Inductive, PTL
================================================================================
