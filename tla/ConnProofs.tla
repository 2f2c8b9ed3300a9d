------------------------------ MODULE ConnProofs ------------------------------
(***************************************************************************)
(* Frames are contiguous on the socket, for any set of writers.            *)
(***************************************************************************)
EXTENDS Conn, TLAPS

(* The initial state. *)
LEMMA InvInit == Init => IInv
<1> SUFFICES ASSUME Init PROVE IInv
  OBVIOUS
<1> USE ConnAssumption DEF Init, Goroutines, Pcs, Sizes
<1>1. TypeOK
  <2>1. last \in [by : Goroutines \cup {NoOne}, part : 1..3, of : Sizes]
    BY DEF Part
  <2>2. closed \in BOOLEAN /\ cut \in BOOLEAN
    OBVIOUS
  <2> QED
    BY <2>1, <2>2 DEF TypeOK
<1>2. LockInv
  BY DEF LockInv
<1>3. FrameInv
  BY DEF FrameInv, Part, Final
<1> QED
  BY <1>1, <1>2, <1>3 DEF IInv

(* Starting a call touches neither the lock nor the socket. *)
LEMMA StartStep ==
    ASSUME IInv, NEW g \in Goroutines, StartWrite(g) \/ StartClose
    PROVE  IInv'
<1> USE ConnAssumption DEF IInv, TypeOK, LockInv, FrameInv, Goroutines, Pcs, Sizes, Final
<1>1. CASE StartWrite(g)
  <2>1. PICK n \in Sizes : size' = [size EXCEPT ![g] = n]
    BY <1>1 DEF StartWrite
  <2> QED
    BY <1>1, <2>1 DEF StartWrite, Part
<1>2. CASE StartClose
  BY <1>2 DEF StartClose, Part
<1> QED
  BY <1>1, <1>2

(* Taking the lock: the frame begins where the last one ended. *)
LEMMA LockStep == ASSUME IInv, NEW g \in Goroutines, Lock(g) PROVE IInv'
  BY ConnAssumption
     DEF Lock, IInv, TypeOK, LockInv, FrameInv, Goroutines, Pcs, Sizes, Part, Final

(* Writing a part, or failing to. *)
LEMMA WriteStep ==
    ASSUME IInv, NEW g \in Goroutines, WritePart(g) \/ WriteFails(g)
    PROVE  IInv'
<1> USE ConnAssumption DEF IInv, TypeOK, LockInv, FrameInv, Goroutines, Pcs, Sizes
<1>1. CASE WritePart(g)
  <2>1. TypeOK'
    BY <1>1 DEF WritePart, Part
  <2>2. LockInv'
    BY <1>1 DEF WritePart
  <2>3. FrameInv'
    BY <1>1 DEF WritePart, Part, Final
  <2> QED
    BY <2>1, <2>2, <2>3
<1>2. CASE WriteFails(g)
  <2>1. PICK some \in BOOLEAN : cut' = (cut \/ next[g] > 1 \/ (some /\ sock = "open"))
    BY <1>2 DEF WriteFails
  <2>2. cut' \in BOOLEAN
    BY <2>1
  <2>3. TypeOK' /\ LockInv'
    BY <1>2, <2>2 DEF WriteFails
  <2>4. ~cut' => ~cut /\ ~(next[g] > 1)
    BY <2>1
  <2>5. FrameInv'
    BY <1>2, <2>4 DEF WriteFails, Part, Final
  <2> QED
    BY <2>3, <2>5
<1> QED
  BY <1>1, <1>2

(* Giving the lock back, and closing the socket. *)
LEMMA EndStep ==
    ASSUME IInv, NEW g \in Goroutines, Unlock(g) \/ Shut
    PROVE  IInv'
<1> USE ConnAssumption DEF IInv, TypeOK, LockInv, FrameInv, Goroutines, Pcs, Sizes, Final, Part
<1>1. CASE Unlock(g)
  BY <1>1 DEF Unlock
<1>2. CASE Shut
  BY <1>2 DEF Shut
<1> QED
  BY <1>1, <1>2

(* The inductive invariant of writeFrame and Close. *)
THEOREM Inductive == Spec => []IInv
<1>1. IInv /\ [Next]_vars => IInv'
  <2> SUFFICES ASSUME IInv, [Next]_vars PROVE IInv'
    OBVIOUS
  <2>1. Main \in Goroutines
    BY DEF Goroutines
  <2>2. CASE StartClose \/ Shut
    BY <2>1, <2>2, StartStep, EndStep
  <2>3. ASSUME NEW g \in Goroutines, StartWrite(g) \/ Write(g) PROVE IInv'
    BY <2>3, StartStep, LockStep, WriteStep, EndStep DEF Write
  <2>4. CASE UNCHANGED vars
    BY <2>4 DEF vars, IInv, TypeOK, LockInv, FrameInv
  <2> QED
    BY <2>2, <2>3, <2>4 DEF Next
<1> QED
  BY InvInit, <1>1, PTL DEF Spec

(* writeFrame: no part of a frame comes between the parts of another, and a
   frame begins where another has ended unless one was left unfinished. *)
THEOREM Contiguous == Spec => FramesContiguous
<1> DEFINE Step == last' # last =>
                     /\ Continues(last, last')
                     /\ last'.part = 1 /\ ~cut => Final(last)
<1>1. IInv /\ [Next]_vars => [Step]_vars
  <2> SUFFICES ASSUME IInv, [Next]_vars, last' # last PROVE Step
    OBVIOUS
  <2>1. PICK g \in Goroutines : WritePart(g)
    BY DEF Next, vars, StartWrite, StartClose, Write, Lock, WriteFails, Unlock, Shut
  <2> QED
    BY <2>1 DEF WritePart, IInv, TypeOK, FrameInv, Continues, Part, Final, Sizes
<1> HIDE DEF Step
<1>2. Spec => [][Step]_vars
  BY <1>1, Inductive, PTL DEF Spec
<1> QED
  BY <1>2 DEF Step, FramesContiguous
================================================================================
