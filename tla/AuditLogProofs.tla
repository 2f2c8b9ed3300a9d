---------------------------- MODULE AuditLogProofs ----------------------------
(***************************************************************************)
(* Every audit line is in the file of its day, and is missing from it only *)
(* after a failure of the disk, for any number of lines and days.          *)
(***************************************************************************)
EXTENDS AuditLog, TLAPS

(* The initial state. *)
LEMMA InvInit == Init => IInv
  BY AuditLogAssumption
     DEF Init, IInv, TypeOK, FiledByDay, LostOnlyByFailure, HandleInv, LineInv, Days

(* Time passes, or the process is started again. *)
LEMMA ClockStep ==
    ASSUME IInv, Midnight \/ Restart
    PROVE  IInv'
<1> USE AuditLogAssumption
    DEF IInv, TypeOK, FiledByDay, LostOnlyByFailure, HandleInv, LineInv, Days
<1>1. CASE Midnight
  BY <1>1 DEF Midnight
<1>2. CASE Restart
  BY <1>2 DEF Restart
<1> QED
  BY <1>1, <1>2

(* A call takes its timestamp: it has no line anywhere yet, and no failure. *)
LEMMA StampStep ==
    ASSUME IInv, NEW w \in Lines, Stamp(w)
    PROVE  IInv'
  BY AuditLogAssumption
     DEF Stamp, IInv, TypeOK, FiledByDay, LostOnlyByFailure, HandleInv, LineInv, Days

(* A line that goes to a file goes to the file of its day. *)
LEMMA AppendedStep ==
    ASSUME IInv, NEW w \in Lines, pc[w] = "stamped",
           pc' = [pc EXCEPT ![w] = "done"], mirror' = mirror \cup {w},
           UNCHANGED <<today, day>>,
           file' = [day |-> day[w], open |-> TRUE],
           \/ /\ files' = [files EXCEPT ![day[w]] = files[day[w]] \cup {w}]
              /\ lost' = lost
           \/ /\ files' = files
              /\ lost' = [lost EXCEPT ![w] = "write"]
    PROVE  IInv'
<1> USE DEF IInv
<1>1. day[w] \in Days /\ lost[w] = "none"
  BY DEF TypeOK, LineInv
<1>2. TypeOK'
  <2>1. file' \in [day : Days, open : BOOLEAN]
    BY <1>1
  <2>2. files' \in [Days -> SUBSET Lines]
    BY <1>1 DEF TypeOK
  <2>3. lost' \in [Lines -> {"none", "open", "write", "stale"}]
    BY DEF TypeOK
  <2>4. pc' \in [Lines -> {"new", "stamped", "done", "gone"}] /\ mirror' \subseteq Lines
    BY DEF TypeOK
  <2> QED
    BY <2>1, <2>2, <2>3, <2>4 DEF TypeOK
<1>3. \A d \in Days : \A v \in files'[d] : v \in files[d] \/ (v = w /\ d = day[w])
  BY <1>1 DEF TypeOK
<1>4. FiledByDay'
  BY <1>3 DEF FiledByDay
<1>5. \A v \in Lines : lost'[v] = lost[v] \/ (v = w /\ lost'[v] = "write")
  BY DEF TypeOK
<1>6. \A v \in Lines : pc'[v] = IF v = w THEN "done" ELSE pc[v]
  BY DEF TypeOK
<1>7. LineInv'
  BY <1>3, <1>5, <1>6 DEF LineInv
<1>8. \A d \in Days : files[d] \subseteq files'[d]
  BY <1>1 DEF TypeOK
<1>9. lost'[w] = "none" => w \in files'[day[w]]
  BY <1>1 DEF TypeOK
<1>10. LostOnlyByFailure'
  BY <1>1, <1>5, <1>6, <1>8, <1>9 DEF LostOnlyByFailure, TypeOK
<1>11. HandleInv'
  BY DEF HandleInv
<1> QED
  BY <1>2, <1>4, <1>7, <1>10, <1>11

(* A line that goes to no file is lost to the failure that kept it from it. *)
LEMMA LostStep ==
    ASSUME IInv, NEW w \in Lines, pc[w] = "stamped",
           pc' = [pc EXCEPT ![w] = "done"], mirror' = mirror \cup {w},
           UNCHANGED <<today, day, files>>,
           \/ ~HasFile(day[w]) /\ OpenFails(w)
           \/ /\ HasFile(day[w]) /\ file' = file
              /\ lost' = [lost EXCEPT ![w] = IF file.open THEN "write" ELSE "stale"]
    PROVE  IInv'
<1> USE AuditLogAssumption DEF IInv, TypeOK, Days, HasFile, OpenFails
<1>1. TypeOK'
  OBVIOUS
<1>2. FiledByDay' /\ LineInv'
  BY DEF FiledByDay, LineInv
<1>3. \A v \in Lines : lost[v] = "open" => lost'[v] = "open"
  BY DEF LineInv
<1>4. LostOnlyByFailure'
  BY <1>3 DEF LostOnlyByFailure, LineInv, HandleInv
<1>5. HandleInv'
  BY <1>3 DEF HandleInv
<1> QED
  BY <1>1, <1>2, <1>4, <1>5

(* The inductive invariant of the audit log. *)
THEOREM Inductive == Spec => []IInv
<1>1. IInv /\ [Next]_vars => IInv'
  <2> SUFFICES ASSUME IInv, [Next]_vars PROVE IInv'
    OBVIOUS
  <2>1. CASE Midnight \/ Restart
    BY <2>1, ClockStep
  <2>2. ASSUME NEW w \in Lines, Stamp(w) PROVE IInv'
    BY <2>2, StampStep
  <2>3. ASSUME NEW w \in Lines, Emit(w) PROVE IInv'
    <3> USE <2>3 DEF Emit
    <3>1. CASE HasFile(day[w]) /\ AppendHere(w)
      BY <3>1, AppendedStep, LostStep
         DEF AppendHere, HasFile, IInv, TypeOK
    <3>2. CASE ~HasFile(day[w]) /\ OpenAndAppend(w, day[w])
      BY <3>2, AppendedStep DEF OpenAndAppend
    <3>3. CASE ~HasFile(day[w]) /\ OpenFails(w)
      BY <3>3, LostStep DEF OpenFails
    <3> QED
      BY <3>1, <3>2, <3>3
  <2>4. CASE UNCHANGED vars
    BY <2>4 DEF vars, IInv, TypeOK, FiledByDay, LostOnlyByFailure, HandleInv, LineInv
  <2> QED
    BY <2>1, <2>2, <2>3, <2>4 DEF Next
<1> QED
  BY InvInit, <1>1, PTL DEF Spec

(* rotate: a line is filed under the day of its own timestamp. *)
THEOREM LinesFiledByDay == Spec => []FiledByDay
  BY Inductive, PTL DEF IInv

(* Write: a line is missing only after a failure of the disk. *)
THEOREM LinesLostOnlyByFailure == Spec => []LostOnlyByFailure
  BY Inductive, PTL DEF IInv
================================================================================
