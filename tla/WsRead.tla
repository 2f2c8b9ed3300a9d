-------------------------------- MODULE WsRead --------------------------------
(***************************************************************************)
(* Conn.ReadMessage and readFrame (internal/wsclient/wsclient.go) under    *)
(* the read loop of Runner.pump (internal/session/session.go): the         *)
(* assembly of messages from fragments, the read deadline, lastActivity    *)
(* and the idle rule that starts the read again after a timeout.           *)
(*                                                                         *)
(* The stream carries pieces.  A control frame is one piece; a fragment of *)
(* a message (a data frame) is one piece, or two when the network          *)
(* delivers it in two parts.  Message k is the k-th the broker sends.      *)
(* Bytes, masks and lengths are abstracted: a frame that readFrame or      *)
(* ReadMessage refuses (reserved bits, an unknown or binary opcode, a      *)
(* frame that is too long) and a close frame are the piece "bad"; the      *)
(* answer to a close frame is left out, the call fails whatever becomes of *)
(* it.                                                                     *)
(*                                                                         *)
(* Time is in ticks and is kept as timers: a deadline as the time left     *)
(* (NoTimer when none is set), a recorded time as the time since.  The     *)
(* reader takes no time to consume what has arrived, and a deadline is     *)
(* noticed in the tick it falls in; data and a deadline that fall in the   *)
(* same tick may be seen in either order.                                  *)
(***************************************************************************)
EXTENDS Integers, Sequences

CONSTANTS
    Heartbeat,      \* the negotiated heartbeat interval
    WriteTimeout,   \* the write deadline of writeFrame
    Writers,        \* bound on the writes that get writeMu before a pong does
    PongDelay,      \* a live broker answers a ping within this time
    Layouts,        \* a message: for each fragment, "whole" or "split"
    MaxFragments,   \* MaxMessageBytes, in fragments
    MaxMessages,    \* bound on the messages the broker sends
    MaxPings,       \* bound on the pings the broker sends
    MaxWire,        \* bound on the pieces that wait to be read
    NoTimer         \* a timer that is not set

ASSUME WsReadAssumption ==
    /\ Heartbeat \in Nat \ {0}
    /\ WriteTimeout \in Nat \ {0}
    /\ Writers \in Nat
    /\ PongDelay \in 0 .. Heartbeat - 1
    /\ Layouts \subseteq Seq({"whole", "split"}) \ {<<>>}
    /\ MaxFragments \in Nat
    /\ MaxMessages \in Nat
    /\ MaxPings \in Nat
    /\ MaxWire \in Nat
    /\ NoTimer \notin Nat

ReadSlack == 2
Window    == Heartbeat * ReadSlack

(* The longest that n writes take, and a pong behind Writers of them. *)
WritesTake(n) == n * WriteTimeout
PongLimit     == WritesTake(Writers) + WriteTimeout

(* The longest the loop waits for a sign of life (see DeadBrokerNoticed). *)
WaitLimit == IF 2 * Window > PongLimit THEN 2 * Window ELSE PongLimit + 1

VARIABLES
    \* the broker and the network
    alive,      \* the broker still sends
    sizes,      \* sizes[k]: the number of fragments of message k
    sending,    \* what is left to send of the last message
    pongDue,    \* time within which the pong of the last ping arrives
    pings,      \* how many pings the broker has sent
    wire,       \* the pieces that have arrived and have not been read
    \* the connector
    nextPing,   \* time to the next ping of the heartbeat goroutine
    rd,         \* the reader, see ReaderPcs
    deadline,   \* time left to the deadline passed to ReadMessage
    ahead,      \* while a pong waits for writeMu: the writes before it
    writeBy,    \* time left to the deadline of the write that holds writeMu
    cut,        \* a write has timed out: every later one fails at once
    idleFor,    \* time.Since(conn.LastActivity()), up to Window
    msg,        \* ReadMessage's msg: the fragments gathered
    framing,    \* where in the stream of frames readFrame stands
    delivered,  \* the messages ReadMessage has returned
    \* for the properties
    waited,     \* time since a frame arrived or the loop came back to read
    torn,       \* a read was given up with part of a message consumed
    stalled     \* the write of a ping or of a pong has blocked

brokerVars == <<alive, sizes, sending, pongDue, pings>>
writeVars  == <<ahead, writeBy, cut>>
callVars   == <<rd, deadline, writeVars>>
streamVars == <<msg, framing, delivered, torn>>
aliveVars  == <<idleFor, waited, stalled>>
vars == <<brokerVars, wire, nextPing, callVars, streamVars, aliveVars>>

--------------------------------------------------------------------------------
(* In ReadMessage, waiting for a frame; in ReadMessage, writing a pong;
   between two calls, handing a command over; and the ways the loop ends. *)
Ended     == {"timedOut", "refused", "closed"}
ReaderPcs == {"reading", "ponging", "busy"} \cup Ended

Control(kind) == [kind |-> kind]

(* A data frame that is split arrives as a piece "split" and a piece "tail". *)
Data(k, i, part) == [kind |-> "data", message |-> k, fragment |-> i, part |-> part]

(* What the bytes of a frame read out of step are taken for. *)
Garbage == <<0, 0>>

Whole(k) == [i \in 1..sizes[k] |-> <<k, i>>]

Init ==
    /\ alive = TRUE /\ sizes = <<>> /\ sending = <<>> /\ pongDue = NoTimer /\ pings = 0
    /\ wire = <<>>
    /\ nextPing = Heartbeat
    /\ rd = "reading" /\ deadline = Window
    /\ ahead = 0 /\ writeBy = NoTimer /\ cut = FALSE
    /\ msg = <<>> /\ framing = "between" /\ delivered = <<>> /\ torn = FALSE
    /\ idleFor = 0 /\ waited = 0 /\ stalled = FALSE

--------------------------------------------------------------------------------
(* The broker and the network *)

StartMessage ==
    /\ alive
    /\ sending = <<>>
    /\ Len(sizes) < MaxMessages
    /\ \E layout \in Layouts : sending' = layout /\ sizes' = Append(sizes, Len(layout))
    /\ UNCHANGED <<alive, pongDue, pings, wire, nextPing, callVars, streamVars, aliveVars>>

Arrives(piece) == alive /\ Len(wire) < MaxWire /\ wire' = Append(wire, piece)

SendData ==
    /\ sending # <<>>
    /\ Arrives(Data(Len(sizes), sizes[Len(sizes)] - Len(sending) + 1, Head(sending)))
    /\ sending' = IF Head(sending) = "split" THEN <<"tail">> \o Tail(sending)
                  ELSE Tail(sending)
    /\ UNCHANGED <<alive, sizes, pongDue, pings, nextPing, callVars, streamVars, aliveVars>>

(* A control frame may come between two fragments, never inside a frame. *)
SendControl(kind) ==
    /\ sending # <<>> => Head(sending) # "tail"
    /\ Arrives(Control(kind))
    /\ UNCHANGED <<alive, sizes, sending, nextPing, callVars, streamVars, aliveVars>>

SendPong == pongDue # NoTimer /\ SendControl("pong") /\ pongDue' = NoTimer /\ UNCHANGED pings

SendPing == pings < MaxPings /\ SendControl("ping") /\ pings' = pings + 1 /\ UNCHANGED pongDue

SendBad == SendControl("bad") /\ UNCHANGED <<pongDue, pings>>

BrokerDies ==
    /\ alive
    /\ alive' = FALSE
    /\ pongDue' = NoTimer
    /\ UNCHANGED <<sizes, sending, pings, wire, nextPing, callVars, streamVars, aliveVars>>

--------------------------------------------------------------------------------
(* The heartbeat goroutine: a WebSocket ping at every tick of its ticker,
   unless the write blocks or fails. *)

Ping ==
    /\ nextPing = 0
    /\ nextPing' = Heartbeat
    /\ \/ ~cut /\ pongDue' = (IF alive THEN PongDelay ELSE NoTimer) /\ UNCHANGED stalled
       \/ stalled' = TRUE /\ UNCHANGED pongDue
    /\ UNCHANGED <<alive, sizes, sending, pings, wire, callVars, streamVars, idleFor, waited>>

--------------------------------------------------------------------------------
(* ReadMessage *)

Read(piece) ==
    /\ rd = "reading"
    /\ wire # <<>>
    /\ piece = Head(wire)
    /\ wire' = Tail(wire)
    /\ UNCHANGED <<brokerVars, nextPing>>

(* Fault: the time of a frame is not recorded. *)
NotRecorded == idleFor' = idleFor /\ waited' = 0

(* A frame of any kind is complete: c.lastActivity.Store(time.Now()) *)
Activity == idleFor' = 0 /\ waited' = 0

(* The frame cannot be accepted: an error that is no timeout. *)
Refuse == rd' = "refused" /\ UNCHANGED <<deadline, writeVars, streamVars>>

ReadPong ==
    /\ framing # "lost"
    /\ Read(Control("pong"))
    /\ Activity
    /\ UNCHANGED <<callVars, streamVars, stalled>>

(* The pong is written at once, or fails, or blocks: behind the writes of the
   handlers and of the heartbeat goroutine that get writeMu first, and then in
   a write of its own, whose deadline is set once it holds writeMu. *)
ReadPing ==
    /\ framing # "lost"
    /\ Read(Control("ping"))
    /\ Activity
    /\ \/ ~cut /\ UNCHANGED <<callVars, streamVars, stalled>>
       \/ Refuse /\ UNCHANGED stalled
       \/ /\ rd' = "ponging"
          /\ ahead' \in IF cut THEN {0} ELSE 0..Writers
          /\ writeBy' = WriteTimeout
          /\ stalled' = TRUE
          /\ UNCHANGED <<deadline, cut, streamVars>>

(* The write before the pong is done, and the next one has writeMu. *)
NextWriter ==
    /\ rd = "ponging" /\ ahead > 0 /\ ~cut
    /\ ahead' = ahead - 1
    /\ writeBy' = WriteTimeout
    /\ UNCHANGED <<brokerVars, wire, nextPing, rd, deadline, cut, streamVars, aliveVars>>

(* The write of a handler or of the heartbeat goroutine times out.  crypto/tls
   then answers every later write with that timeout, the ones that wait for
   writeMu too. *)
WriteTimesOut ==
    /\ rd = "ponging" => ahead > 0
    /\ cut' = TRUE /\ stalled' = TRUE
    /\ ahead' = 0
    /\ UNCHANGED <<brokerVars, wire, nextPing, rd, deadline, writeBy, streamVars, idleFor, waited>>

PongWritten ==
    /\ rd = "ponging" /\ ahead = 0 /\ ~cut
    /\ rd' = "reading"
    /\ writeBy' = NoTimer
    /\ UNCHANGED <<brokerVars, wire, nextPing, deadline, ahead, cut, streamVars, aliveVars>>

(* ReadMessage refuses a frame after it was recorded, readFrame before. *)
ReadBad ==
    /\ framing # "lost"
    /\ Read(Control("bad"))
    /\ Refuse
    /\ Activity \/ UNCHANGED <<idleFor, waited>>
    /\ UNCHANGED stalled

(* Fault: a fragment replaces what was gathered before it. *)
GatherAnew(fragment, fin) ==
    /\ IF fin
       THEN /\ delivered' = Append(delivered, <<fragment>>)
            /\ msg' = <<>>
            /\ rd' = "busy" /\ deadline' = NoTimer
       ELSE msg' = <<fragment>> /\ UNCHANGED <<delivered, rd, deadline>>
    /\ UNCHANGED <<writeVars, torn>>

(* Append the payload of a text or continuation frame, and return the message
   when the frame is the final one. *)
Gather(fragment, fin) ==
    /\ IF fin
       THEN /\ delivered' = Append(delivered, Append(msg, fragment))
            /\ msg' = <<>>
            /\ rd' = "busy" /\ deadline' = NoTimer
       ELSE msg' = Append(msg, fragment) /\ UNCHANGED <<delivered, rd, deadline>>
    /\ UNCHANGED <<writeVars, torn>>

(* readFrame has the beginning of a frame and waits for the rest. *)
ReadFrameStart ==
    /\ framing = "between"
    /\ \E k \in 1..Len(sizes), i \in 1..MaxFragments + 1 : Read(Data(k, i, "split"))
    /\ framing' = "inside"
    /\ UNCHANGED <<callVars, msg, delivered, torn, aliveVars>>

(* Fault: a message may have any size. *)
AlwaysFits == TRUE

(* len(msg)+len(payload) <= MaxMessageBytes *)
Fits == Len(msg) < MaxFragments

ReadData ==
    \E k \in 1..Len(sizes), i \in 1..MaxFragments + 1 :
        /\ \/ framing = "between" /\ Read(Data(k, i, "whole"))
           \/ framing = "inside" /\ Read(Data(k, i, "tail"))
        /\ Activity
        /\ IF Fits THEN Gather(<<k, i>>, i = sizes[k]) /\ framing' = "between"
           ELSE Refuse
        /\ UNCHANGED stalled

Tailed(piece) == piece.kind = "data" /\ piece.part = "tail"

(* The rest of a frame whose beginning was consumed and forgotten is read as if
   a frame began there: it is refused, or taken for a frame of any kind, or
   swallowed with what follows. *)
ReadOutOfStep ==
    /\ Read(Head(wire))
    /\ framing = "lost" \/ (framing = "between" /\ Tailed(Head(wire)))
    /\ \/ Refuse /\ UNCHANGED <<idleFor, waited>>
       \/ Activity /\ framing' = "lost" /\ UNCHANGED <<callVars, msg, delivered, torn>>
       \/ /\ Len(delivered) < MaxMessages /\ Fits
          /\ Activity /\ framing' = "lost" /\ \E fin \in BOOLEAN : Gather(Garbage, fin)
       \/ framing' = "lost" /\ UNCHANGED <<callVars, msg, delivered, torn, idleFor, waited>>
    /\ UNCHANGED stalled

--------------------------------------------------------------------------------
(* The read loop of pump *)

(* Fault: a timeout is never taken for a dead connection. *)
AlwaysIdle == TRUE

(* time.Since(conn.LastActivity()) < heartbeat*readSlack *)
Idle == idleFor < Window

(* What the loop does with an error for which IsTimeout holds: read on, with a
   new call that knows nothing of what the last one has consumed, or fail. *)
TimedOut ==
    /\ IF Idle
       THEN /\ rd' = "reading"
            /\ deadline' = Window
            /\ msg' = <<>>
            /\ framing' = IF framing = "inside" THEN "between" ELSE framing
            /\ torn' = (torn \/ msg # <<>> \/ framing = "inside")
       ELSE rd' = "timedOut" /\ UNCHANGED <<deadline, msg, framing, torn>>
    /\ UNCHANGED <<brokerVars, wire, nextPing, ahead, delivered, aliveVars>>

ReadTimesOut ==
    /\ rd = "reading" /\ deadline = 0
    /\ TimedOut
    /\ UNCHANGED <<writeBy, cut>>

(* The write deadline of writeFrame is a timeout for the loop as well. *)
PongTimesOut ==
    /\ rd = "ponging" /\ ahead = 0
    /\ writeBy = 0 \/ cut
    /\ TimedOut
    /\ writeBy' = NoTimer
    /\ cut' = TRUE

(* The loop has dealt with the message, which may have had to wait for a slot. *)
ReadOn ==
    /\ rd = "busy"
    /\ rd' = "reading"
    /\ deadline' = Window
    /\ waited' = 0
    /\ UNCHANGED <<brokerVars, wire, nextPing, writeVars, streamVars, idleFor, stalled>>

(* conn.Close by pump, or a broken connection: the call in progress, or the
   next, fails with an error that is no timeout. *)
Closed ==
    /\ rd' = "closed"
    /\ UNCHANGED <<brokerVars, wire, nextPing, deadline, writeVars, streamVars, aliveVars>>

--------------------------------------------------------------------------------
Elapse(timer)    == IF timer \in {NoTimer, 0} THEN timer ELSE timer - 1
Grow(age, limit) == IF age < limit THEN age + 1 ELSE limit

(* Time passes when nothing is due. *)
Tick ==
    /\ nextPing > 0 /\ pongDue # 0 /\ writeBy # 0
    /\ rd = "reading" => wire = <<>> /\ deadline > 0
    /\ rd = "ponging" => ~cut
    /\ nextPing' = nextPing - 1
    /\ pongDue' = Elapse(pongDue)
    /\ deadline' = Elapse(deadline)
    /\ writeBy' = Elapse(writeBy)
    /\ idleFor' = Grow(idleFor, Window)
    /\ waited' = IF rd = "busy" THEN 0 ELSE Grow(waited, WaitLimit)
    /\ UNCHANGED <<alive, sizes, sending, pings, wire, rd, ahead, cut, streamVars, stalled>>

(* The loop has ended. *)
Stop == rd \in Ended /\ UNCHANGED vars

Broker == StartMessage \/ SendData \/ SendPong \/ SendPing \/ SendBad \/ BrokerDies

Reader == \/ ReadPong \/ ReadPing \/ NextWriter \/ PongWritten \/ ReadBad
          \/ ReadFrameStart \/ ReadData \/ ReadOutOfStep
          \/ ReadTimesOut \/ PongTimesOut \/ ReadOn \/ Closed

(* Once the loop has ended the connection is closed, and nothing more of it
   matters. *)
Next == \/ rd \notin Ended /\ (Broker \/ Ping \/ WriteTimesOut \/ Reader \/ Tick)
        \/ Stop

Spec == Init /\ [][Next]_vars

--------------------------------------------------------------------------------
Fragments == (0..MaxMessages) \X Nat

Pieces == [kind : {"pong", "ping", "bad"}]
            \cup [kind : {"data"}, message : Nat, fragment : Nat,
                  part : {"whole", "split", "tail"}]

TypeOK ==
    /\ alive \in BOOLEAN
    /\ sizes \in Seq(Nat \ {0}) /\ Len(sizes) <= MaxMessages
    /\ sending \in Seq({"whole", "split", "tail"})
    /\ pongDue \in 0..PongDelay \cup {NoTimer}
    /\ pings \in 0..MaxPings
    /\ wire \in Seq(Pieces) /\ Len(wire) <= MaxWire
    /\ nextPing \in 0..Heartbeat
    /\ rd \in ReaderPcs
    /\ deadline \in 0..Window \cup {NoTimer}
    /\ ahead \in 0..Writers /\ cut \in BOOLEAN
    /\ writeBy \in 0..WriteTimeout \cup {NoTimer}
    /\ idleFor \in 0..Window
    /\ msg \in Seq(Fragments) /\ Len(msg) <= MaxFragments
    /\ delivered \in Seq(Seq(Fragments))
    /\ framing \in {"between", "inside", "lost"}
    /\ waited \in 0..WaitLimit
    /\ torn \in BOOLEAN /\ stalled \in BOOLEAN

(***************************************************************************)
(* ReadMessage: as long as no read was given up inside a message, the      *)
(* messages returned are the ones the broker sent, each complete, in       *)
(* order, none missing, whatever pings, pongs and timeouts came between    *)
(* their fragments; and what is gathered is the beginning of the next.     *)
(***************************************************************************)
DeliveredInOrder ==
    ~torn =>
        /\ \A k \in 1..Len(delivered) : delivered[k] = Whole(k)
        /\ msg = [i \in 1..Len(msg) |-> <<Len(delivered) + 1, i>>]

(***************************************************************************)
(* wsclient.go:313: "ReadMessage returns the next complete text message,   *)
(* transparently answering pings and reassembling continuation frames".    *)
(* The idle rule calls it again after a timeout, and what the call that    *)
(* timed out had consumed is gone.                                         *)
(***************************************************************************)
MessagesComplete ==
    \A n \in 1..Len(delivered) : \E k \in 1..Len(sizes) : delivered[n] = Whole(k)

(***************************************************************************)
(* The idle rule: a broker that has gone silent is noticed.  The loop does *)
(* not wait for two windows (four heartbeats) without having seen a frame, *)
(* nor, if that is more, for longer than a write timeout for the pong of   *)
(* the last ping and one for each write that got writeMu before it.        *)
(***************************************************************************)
DeadBrokerNoticed ==
    rd \in {"reading", "ponging"} => waited < WaitLimit

(***************************************************************************)
(* The idle rule: a quiet broker that answers each ping before the next is *)
(* never taken for a dead one, however long the loop was busy.             *)
(***************************************************************************)
QuietBrokerKept ==
    rd = "timedOut" => ~alive \/ stalled \/ torn

--------------------------------------------------------------------------------
(* The state that makes DeadBrokerNoticed inductive: the time waited and the
   time left of the call add up to less than two windows, unless a pong that
   was slow to be written has used the call up. *)
TimersTypeOK ==
    /\ rd \in ReaderPcs
    /\ deadline \in Nat \cup {NoTimer}
    /\ ahead \in 0..Writers
    /\ writeBy \in Nat \cup {NoTimer}
    /\ idleFor \in Nat
    /\ waited \in Nat

WaitBounded ==
    /\ idleFor < Window => waited <= idleFor
    /\ rd \in {"reading", "ponging"} =>
         /\ deadline # NoTimer
         /\ \/ waited + deadline < 2 * Window
            \/ deadline = 0 /\ waited <= PongLimit
    /\ rd = "ponging" =>
         /\ writeBy # NoTimer
         /\ waited + WritesTake(ahead) + writeBy <= PongLimit

TimersInv == TimersTypeOK /\ WaitBounded

(* The state that makes DeliveredInOrder inductive.  A place in what the broker
   sends: the fragment that is next, and whether it is the rest of it. *)
Place(k, i, inside) == [message |-> k, fragment |-> i, inside |-> inside]
Places == [message : Nat, fragment : Nat, inside : BOOLEAN]

ReaderAt == Place(Len(delivered) + 1, Len(msg) + 1, framing = "inside")

SenderAt ==
    IF sending = <<>> THEN Place(Len(sizes) + 1, 1, FALSE)
    ELSE Place(Len(sizes), sizes[Len(sizes)] - Len(sending) + 1, Head(sending) = "tail")

(* In a stream of messages of these sizes the piece may come at the place, *)
FitsAt(sz, p, piece) ==
    \/ piece \in [kind : {"pong", "ping", "bad"}] /\ ~p.inside
    \/ /\ p.message \in 1..Len(sz) /\ p.fragment \in 1..sz[p.message]
       /\ \E part \in IF p.inside THEN {"tail"} ELSE {"whole", "split"} :
            piece = Data(p.message, p.fragment, part)

(* and leads to this one. *)
After(sz, p, piece) ==
    IF piece.kind # "data" THEN p
    ELSE IF piece.part = "split" THEN Place(p.message, p.fragment, TRUE)
    ELSE IF p.fragment = sz[p.message] THEN Place(p.message + 1, 1, FALSE)
    ELSE Place(p.message, p.fragment + 1, FALSE)

(* place[j] is where wire[j] comes: from the reader's to the sender's. *)
Connects(place) ==
    /\ place[1] = ReaderAt
    /\ place[Len(wire) + 1] = SenderAt
    /\ \A j \in 1..Len(wire) :
         /\ FitsAt(sizes, place[j], wire[j])
         /\ place[j + 1] = After(sizes, place[j], wire[j])

WireConnects == \E place \in [1 .. Len(wire) + 1 -> Places] : Connects(place)

(* What is left to send of a message ends it, and the rest of a fragment comes
   first. *)
SendingInv ==
    /\ sending # <<>> => sizes # <<>> /\ Len(sending) <= sizes[Len(sizes)]
    /\ \A j \in 2..Len(sending) : sending[j] # "tail"

StreamInv ==
    ~torn =>
        /\ framing # "lost"
        /\ Len(delivered) <= Len(sizes)
        /\ DeliveredInOrder
        /\ rd \notin Ended => WireConnects

(* The state that makes QuietBrokerKept inductive: the time within which the
   broker gives a sign of life. *)
PongOnWire == \E j \in 1..Len(wire) : wire[j] = Control("pong")

SignWithin ==
    IF PongOnWire THEN 0 ELSE IF pongDue # NoTimer THEN pongDue ELSE nextPing + PongDelay

(* The sign comes before the broker's silence is a window long, or before the
   read has timed out, whichever is later. *)
QuietInv ==
    alive /\ ~stalled /\ ~torn =>
        /\ pongDue # NoTimer => pongDue + Heartbeat = nextPing + PongDelay
        /\ rd \notin {"ponging", "timedOut"}
        /\ rd = "reading" => idleFor + SignWithin < Window \/ SignWithin < deadline

IInv == TypeOK /\ TimersInv /\ SendingInv /\ StreamInv /\ QuietInv
================================================================================
