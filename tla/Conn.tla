--------------------------------- MODULE Conn ---------------------------------
(***************************************************************************)
(* The write side of Conn (internal/wsclient/wsclient.go): writeFrame,     *)
(* which the handlers, the heartbeat and the pong of the reader call       *)
(* concurrently, and Close.                                                *)
(*                                                                         *)
(* writeFrame puts a frame on the socket in parts (header, mask, payload   *)
(* if there is one), each a Write of its own, under writeMu.  Close writes *)
(* a close frame the same way and then closes the socket.  Only the        *)
(* goroutine of pump and runOnce calls Close, twice, so closeMu is never   *)
(* contended and is left out.                                              *)
(*                                                                         *)
(* A Write may block until its deadline.  It puts out all its bytes, or    *)
(* fails having put out none or some of them.                              *)
(***************************************************************************)
EXTENDS Integers

CONSTANTS
    Writers,    \* the goroutines that write: handlers, heartbeat, reader
    Main,       \* the goroutine that closes
    NoOne       \* no holder of writeMu

ASSUME ConnAssumption == Main \notin Writers /\ NoOne \notin Writers \cup {Main}

Goroutines == Writers \cup {Main}

VARIABLES
    writeMu,    \* the holder of Conn.writeMu
    closed,     \* Conn.closed
    sock,       \* the socket: "open" or "closed"
    pc,         \* where each goroutine stands in writeFrame or Close
    size,       \* the parts of the frame it writes
    next,       \* the next part it writes
    last,       \* the last part on the socket
    cut         \* a frame was left unfinished on the socket

vars == <<writeMu, closed, sock, pc, size, next, last, cut>>

Pcs == {"idle", "lock", "write", "unlock", "shut"}

(* With a payload and without. *)
Sizes == {2, 3}

Part(g, k, n) == [by |-> g, part |-> k, of |-> n]

Final(p) == p.part = p.of

Init ==
    /\ writeMu = NoOne
    /\ closed = FALSE
    /\ sock = "open"
    /\ pc = [g \in Goroutines |-> "idle"]
    /\ size = [g \in Goroutines |-> 3]
    /\ next = [g \in Goroutines |-> 1]
    /\ last = Part(NoOne, 3, 3)
    /\ cut = FALSE

--------------------------------------------------------------------------------
(* WriteText, WritePing, or the pong of ReadMessage *)
StartWrite(g) ==
    /\ g \in Writers
    /\ pc[g] = "idle"
    /\ pc' = [pc EXCEPT ![g] = "lock"]
    /\ \E n \in Sizes : size' = [size EXCEPT ![g] = n]
    /\ UNCHANGED <<writeMu, closed, sock, next, last, cut>>

(* Close: return if it was closed before, else write a close frame. *)
StartClose ==
    /\ pc[Main] = "idle"
    /\ ~closed
    /\ closed' = TRUE
    /\ pc' = [pc EXCEPT ![Main] = "lock"]
    /\ UNCHANGED <<writeMu, sock, size, next, last, cut>>

(* Fault: writeMu is not waited for. *)
LockAnyway(g) ==
    /\ pc[g] = "lock"
    /\ writeMu' = g
    /\ pc' = [pc EXCEPT ![g] = "write"]
    /\ next' = [next EXCEPT ![g] = 1]
    /\ UNCHANGED <<closed, sock, size, last, cut>>

Lock(g) ==
    /\ pc[g] = "lock"
    /\ writeMu = NoOne
    /\ writeMu' = g
    /\ pc' = [pc EXCEPT ![g] = "write"]
    /\ next' = [next EXCEPT ![g] = 1]
    /\ UNCHANGED <<closed, sock, size, last, cut>>

WritePart(g) ==
    /\ pc[g] = "write"
    /\ sock = "open"
    /\ last' = Part(g, next[g], size[g])
    /\ IF next[g] = size[g]
       THEN pc' = [pc EXCEPT ![g] = "unlock"] /\ UNCHANGED next
       ELSE next' = [next EXCEPT ![g] = next[g] + 1] /\ UNCHANGED pc
    /\ UNCHANGED <<writeMu, closed, sock, size, cut>>

(* The socket was closed, the peer is gone or does not drain: the rest of the
   frame is not written. *)
WriteFails(g) ==
    /\ pc[g] = "write"
    /\ pc' = [pc EXCEPT ![g] = "unlock"]
    /\ \E some \in BOOLEAN :
          cut' = (cut \/ next[g] > 1 \/ (some /\ sock = "open"))
    /\ UNCHANGED <<writeMu, closed, sock, size, next, last>>

(* Fault: an error returns without unlocking. *)
KeepsLock(g) ==
    /\ pc[g] = "unlock"
    /\ writeMu' = IF Final(last) THEN NoOne ELSE writeMu
    /\ pc' = [pc EXCEPT ![g] = IF g = Main THEN "shut" ELSE "idle"]
    /\ UNCHANGED <<closed, sock, size, next, last, cut>>

(* The deferred Unlock; Close goes on to close the socket. *)
Unlock(g) ==
    /\ pc[g] = "unlock"
    /\ writeMu' = NoOne
    /\ pc' = [pc EXCEPT ![g] = IF g = Main THEN "shut" ELSE "idle"]
    /\ UNCHANGED <<closed, sock, size, next, last, cut>>

Shut ==
    /\ pc[Main] = "shut"
    /\ sock' = "closed"
    /\ pc' = [pc EXCEPT ![Main] = "idle"]
    /\ UNCHANGED <<writeMu, closed, size, next, last, cut>>

(* One step of writeFrame. *)
Write(g) == Lock(g) \/ WritePart(g) \/ WriteFails(g) \/ Unlock(g)

Next == \/ StartClose \/ Shut
        \/ \E g \in Goroutines : StartWrite(g) \/ Write(g)

Spec == Init /\ [][Next]_vars

(* A Write returns by its deadline, and sync.Mutex does not starve a waiter. *)
FairSpec ==
    /\ Spec
    /\ \A g \in Goroutines : SF_vars(Lock(g)) /\ WF_vars(Write(g))
    /\ WF_vars(Shut)

--------------------------------------------------------------------------------
TypeOK ==
    /\ writeMu \in Goroutines \cup {NoOne}
    /\ closed \in BOOLEAN
    /\ sock \in {"open", "closed"}
    /\ pc \in [Goroutines -> Pcs]
    /\ size \in [Goroutines -> Sizes]
    /\ next \in [Goroutines -> 1..3]
    /\ last \in [by : Goroutines \cup {NoOne}, part : 1..3, of : Sizes]
    /\ cut \in BOOLEAN

(* A part that is not the first follows the part before it of the same frame. *)
Continues(before, p) ==
    p.part > 1 => before = [p EXCEPT !.part = p.part - 1]

(***************************************************************************)
(* writeFrame: the parts of a frame are never separated by the parts of    *)
(* another, whoever writes, closes or fails in between; and as long as no  *)
(* frame was left unfinished a frame begins only where another has ended.  *)
(***************************************************************************)
FramesContiguous ==
    [][last' # last =>
          /\ Continues(last, last')
          /\ last'.part = 1 /\ ~cut => Final(last)]_vars

(***************************************************************************)
(* Close: it closes the socket although other goroutines write, block and  *)
(* fail, and one of them holds the lock that the close frame needs.        *)
(***************************************************************************)
CloseCompletes == closed ~> sock = "closed"

(***************************************************************************)
(* writeFrame: every call returns, so a goroutine that reports a result    *)
(* cannot keep pump waiting for ever.                                      *)
(***************************************************************************)
WritesReturn == \A g \in Writers : pc[g] = "lock" ~> pc[g] = "idle"

--------------------------------------------------------------------------------
(* The inductive invariant behind FramesContiguous *)
LockInv ==
    \A g \in Goroutines : pc[g] \in {"write", "unlock"} <=> writeMu = g

FrameInv ==
    /\ \A g \in Goroutines :
         /\ pc[g] = "write" => next[g] <= size[g]
         /\ pc[g] = "write" /\ next[g] > 1 => last = Part(g, next[g] - 1, size[g])
         /\ pc[g] = "write" /\ next[g] = 1 /\ ~cut => Final(last)
         /\ pc[g] = "unlock" /\ ~cut => Final(last)
    /\ writeMu = NoOne /\ ~cut => Final(last)

IInv == TypeOK /\ LockInv /\ FrameInv
================================================================================
