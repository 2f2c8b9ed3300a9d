------------------------------- MODULE Exchange -------------------------------
(***************************************************************************)
(* The connector (Session) together with a broker that keeps books as      *)
(* test/mock_broker.rb does: the sessions it lists, the commands           *)
(* outstanding on each, and the results it has matched to them.            *)
(*                                                                         *)
(* A call is one command frame: call f sends frame f, once.  A retry is    *)
(* another call with the same id, on the same session or on a later one.   *)
(*                                                                         *)
(* What is abstracted.  A caller of f that still waits is given            *)
(* Outcome(f); that one gives up changes nothing in the broker.  The       *)
(* broker lists a session before it has sent the welcome; a welcome in     *)
(* flight is the state "welcomed".  Refused upgrades are failures of       *)
(* Session's dial.  The results the broker has not read when it drops a    *)
(* session are lost, and so is what is written to a broken connection.     *)
(***************************************************************************)
EXTENDS Session

CONSTANT
    Unregistered    \* commands the broker sends and does not record

ASSUME UnregisteredAssumption == Unregistered \subseteq Commands

Registered == Commands \ Unregistered

VARIABLES
    listed,     \* listed[c]: what the broker makes of connection c
    back,       \* back[c]: the results written to c and not yet read
    on,         \* on[f]: the session command f was issued on, 0 before
    got         \* got[c][i]: @outstanding of session c: the result for id i

brokerVars == <<listed, back, on, got>>
xvars == <<vars, brokerVars>>

AllIds == Ids \cup {NoId}

(* The broker counts the session as online. *)
OnlineStates == {"listed", "welcomed", "spoiled"}
Online(c) == listed[c] \in OnlineStates

(* await: the frame whose result the caller of f is given, NoFrame if it has
   to wait. *)
Outcome(f) == IF on[f] = 0 THEN NoFrame ELSE got[on[f]][IdOf[f]]

XInit ==
    /\ Init
    /\ listed = [c \in Conns |-> "none"]
    /\ back   = [c \in Conns |-> <<>>]
    /\ on     = [f \in Commands |-> 0]
    /\ got    = [c \in Conns |-> [i \in AllIds |-> NoFrame]]

--------------------------------------------------------------------------------
(* The connector *)

(* Fault: the first frame is taken for a welcome, whatever it is. *)
AnyFirstFrame == TRUE

(* runOnce: only a welcome leads into pump. *)
PumpNeedsWelcome ==
    runPc = "welcome" /\ runPc' = "pump" => listed[conn] = "welcomed"

ConnectorRuns ==
    /\ Main /\ PumpNeedsWelcome
    /\ UNCHANGED brokerVars

ConnectorListens ==
    /\ Heartbeat \/ Reader
    /\ UNCHANGED brokerVars

(* All steps of a handler but a reply that was written. *)
ConnectorWorks(f) ==
    /\ Handler(f) /\ sent' = sent
    /\ UNCHANGED brokerVars

(* A result is written to the connection its command came from.  What is
   written to one that has broken is lost. *)
ConnectorReplies(f) ==
    /\ ReplySent(f)
    /\ back' = IF sock[via[f]] = "open"
               THEN [back EXCEPT ![via[f]] = Append(@, f)] ELSE back
    /\ UNCHANGED <<listed, on, got>>

World ==
    /\ Cancel \/ ConnectionBreaks \/ Tick \/ Exited
    /\ UNCHANGED brokerVars

(* A frame that is no command: the connector drops it. *)
Chatter ==
    /\ runPc \in PumpPcs /\ listed[conn] = "welcomed"
    /\ \E o \in Others : BrokerSends(o)
    /\ UNCHANGED brokerVars

--------------------------------------------------------------------------------
(* The broker: serve *)

(* hello was read: the session is listed. *)
Lists ==
    /\ runPc = "welcome" /\ listed[conn] = "none"
    /\ listed' = [listed EXCEPT ![conn] = "listed"]
    /\ UNCHANGED <<vars, back, on, got>>

Welcomes(c) ==
    /\ listed[c] = "listed"
    /\ listed' = [listed EXCEPT ![c] = "welcomed"]
    /\ UNCHANGED <<vars, back, on, got>>

(* Fault: a result is matched by its id alone. *)
DeliverAnywhere(c, f) ==
    got' = [d \in Conns |-> [got[d] EXCEPT ![IdOf[f]] = f]]

(* deliver: into the session's own outstanding commands, else discarded *)
Deliver(c, f) ==
    got' = IF \E e \in Registered : on[e] = c /\ IdOf[e] = IdOf[f]
           THEN [got EXCEPT ![c][IdOf[f]] = f] ELSE got

ReadsResult(c) ==
    /\ Online(c) /\ back[c] # <<>>
    /\ back' = [back EXCEPT ![c] = Tail(@)]
    /\ Deliver(c, Head(back[c]))
    /\ UNCHANGED <<vars, listed, on>>

(* serve ends: the connection is gone, or nothing was read for too long, or
   the broker closes it (revoke, partition, stop). *)
Drops(c) ==
    /\ Online(c)
    /\ listed' = [listed EXCEPT ![c] = "gone"]
    /\ back' = [back EXCEPT ![c] = <<>>]
    /\ UNCHANGED <<vars, on, got>>

--------------------------------------------------------------------------------
(* Callers: issue *)

(* The frame reaches the connector if the session is in use, and nobody if its
   connection is gone.  One sent before the welcome is the first frame that
   runOnce reads. *)
Transmit(f, c) ==
    \/ listed[c] = "welcomed" /\ c = conn /\ BrokerSends(f) /\ UNCHANGED listed
    \/ listed[c] = "listed" /\ listed' = [listed EXCEPT ![c] = "spoiled"] /\ UNCHANGED vars
    \/ /\ listed[c] = "spoiled" \/ c # conn \/ ~SockOpen \/ runPc \notin {"welcome"} \cup PumpPcs
       /\ UNCHANGED <<vars, listed>>

(* issue, and issue_unregistered *)
Issue(f, c) ==
    /\ on[f] = 0 /\ Online(c)
    /\ on' = [on EXCEPT ![f] = c]
    /\ got' = IF f \in Registered THEN [got EXCEPT ![c][IdOf[f]] = NoFrame] ELSE got
    /\ Transmit(f, c)
    /\ UNCHANGED back

--------------------------------------------------------------------------------
Connector ==
    \/ ConnectorRuns \/ ConnectorListens
    \/ \E f \in Commands : ConnectorWorks(f) \/ ConnectorReplies(f)

Broker ==
    \/ Lists \/ Chatter
    \/ \E c \in Conns : Welcomes(c) \/ ReadsResult(c) \/ Drops(c)

Callers ==
    \E f \in Commands, c \in Conns : Issue(f, c)

XNext == Connector \/ World \/ Broker \/ Callers

XSpec == XInit /\ [][XNext]_xvars

(***************************************************************************)
(* Fairness: that of Session, and a broker whose threads run.  A session   *)
(* whose connection is gone is dropped: its read ends, at the latest when  *)
(* the read times out.                                                     *)
(***************************************************************************)
XFairness ==
    /\ WF_xvars(ConnectorRuns)
    /\ WF_xvars((ReadCommand \/ ReadOther \/ ReadFails) /\ UNCHANGED brokerVars)
    /\ WF_xvars((StartHandler \/ AbandonCommand) /\ UNCHANGED brokerVars)
    /\ WF_xvars(HeartbeatStops /\ UNCHANGED brokerVars)
    /\ \A f \in Commands : WF_xvars(ConnectorWorks(f) \/ ConnectorReplies(f))
    /\ \A c \in Conns :
        /\ WF_xvars(Welcomes(c)) /\ WF_xvars(ReadsResult(c))
        /\ WF_xvars(sock[c] \notin {"unused", "open"} /\ Drops(c))

XFairSpec == XSpec /\ XFairness

--------------------------------------------------------------------------------
XTypeOK ==
    /\ listed \in [Conns -> OnlineStates \cup {"none", "gone"}]
    /\ back \in [Conns -> Seq(Commands)]
    /\ on \in [Commands -> 0..MaxConns]
    /\ got \in [Conns -> [AllIds -> Commands \cup {NoFrame}]]

(***************************************************************************)
(* handle, deliver: what a caller is given is the result of a command with *)
(* its id that came over its own session, and the connector's audit log    *)
(* has the line of that command: the same status, the same session.        *)
(***************************************************************************)
AnswersAudited ==
    \A f \in Registered : Outcome(f) # NoFrame =>
        LET g == Outcome(f)
        IN  /\ IdOf[g] = IdOf[f] /\ on[g] = on[f]
            /\ line[g] = [status |-> sent[g], session |-> on[f]]

(***************************************************************************)
(* claim: a caller that is told "duplicate" can conclude that another      *)
(* delivery of its id was granted no longer than a window ago, on this     *)
(* session or an earlier one, and that it is still being handled or has a  *)
(* line of its own in the log.  That it runs is not said: the claim comes  *)
(* before Resolve, so the one granted may have been denied for another     *)
(* reason, or its tool may have failed.                                    *)
(***************************************************************************)
DuplicateExplained ==
    \A f \in Registered :
        Outcome(f) # NoFrame /\ sent[Outcome(f)] = "duplicate_command_id" =>
            \E e \in D!Admitted :
                /\ IdOf[e] = IdOf[f]
                /\ ~Expired(reading[e], reading[Outcome(f)])
                /\ e \in Live \/ line[e] \in [status : Outcomes \ {"duplicate_command_id"},
                                              session : 1 .. on[f]]

(***************************************************************************)
(* runOnce: a connector that is in pump was welcomed, on the connection    *)
(* it uses, under the session id it audits with; a command sent before the *)
(* welcome is never taken for one, and never runs.                         *)
(***************************************************************************)
SessionsAgree ==
    /\ runPc \in PumpPcs => listed[conn] \in {"welcomed", "gone"} /\ sessionID = conn
    /\ \A f \in Commands : Received(f) => via[f] = on[f] /\ listed[on[f]] # "spoiled"

--------------------------------------------------------------------------------
(* The inductive invariant behind the safety properties *)

(* A session that the broker has welcomed, and may have dropped since. *)
WasWelcomed(c) == listed[c] \in {"welcomed", "gone"}

(* Only a welcomed connection carries frames, each on the session it was
   issued on, and only what it carried is received. *)
FramesKnown ==
    /\ runPc \in PumpPcs => WasWelcomed(conn)
    /\ \A i \in 1..Len(wire) :
         /\ conn \in Conns /\ WasWelcomed(conn)
         /\ wire[i] \in Commands => on[wire[i]] = conn
    /\ \A f \in Commands : Received(f) => via[f] = on[f] /\ WasWelcomed(via[f])

(* A result on its way to the broker, or kept there, was written by the
   handler of a command of that session. *)
Written(f, c) == on[f] = c /\ sent[f] # "none"

ResultsKnown ==
    \A c \in Conns :
        /\ \A i \in 1..Len(back[c]) : Written(back[c][i], c)
        /\ \A id \in AllIds :
             got[c][id] # NoFrame => Written(got[c][id], c) /\ IdOf[got[c][id]] = id

(* A denied duplicate carried an id. *)
DenialsNamed ==
    \A f \in Commands : outcome[f] = "duplicate_command_id" => f \in Claiming

(* Connections are numbered as they are made. *)
ViaKnown == \A f \in Commands : via[f] <= conn

(* A denied duplicate was preceded by a claim that was granted. *)
DenialsFollow ==
    \A f \in Claiming : ClaimState(f) = "denied" =>
        \E e \in D!Admitted :
            IdOf[e] = IdOf[f] /\ ~Expired(reading[e], reading[f]) /\ via[e] <= via[f]

(* The table of the connector, in Dedupe's terms, and what it has denied. *)
ClaimsJustified == D!TableJustified /\ DenialsFollow

XIInv == XTypeOK /\ FramesKnown /\ ResultsKnown /\ DenialsNamed /\ ViaKnown /\ ClaimsJustified

(***************************************************************************)
(* A command issued on a session is answered, unless the session ends: it  *)
(* is not forgotten in the reader, behind the semaphore, in a handler or   *)
(* in the broker, while both sides stay up.                                *)
(***************************************************************************)
CallsSettle ==
    \A f \in Registered, c \in Conns :
        on[f] = c ~> got[c][IdOf[f]] # NoFrame \/ listed[c] = "gone"
================================================================================
