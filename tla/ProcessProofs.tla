---------------------------- MODULE ProcessProofs ----------------------------
(***************************************************************************)
(* The process writes its audit log as AuditLog says, loses no line when   *)
(* it ends by itself, and serves with tools and scopes as the document it  *)
(* was started with asks for: for any set of documents and paths.          *)
(***************************************************************************)
EXTENDS Process, AuditLogProofs, SequenceTheorems, FiniteSetTheorems

(* What a goroutine below Run does about line w *)
LineStep(w) ==
    \/ LoopStamps(w) \/ ReaderStamps(w) \/ HandlerStamps(w)
    \/ SessionEmits(w) \/ StartsHandler(w) \/ HandlerEnds(w)

(***************************************************************************)
(* Whatever the process does to its audit log is a step of AuditLog.       *)
(***************************************************************************)
THEOREM RefinesAuditLog == PSpec => Spec
<1>1. PInit => Init
  BY DEF PInit
<1>2. [PNext]_pvars => [Next]_vars
  <2> SUFFICES ASSUME [PNext]_pvars PROVE [Next]_vars
    OBVIOUS
  <2> USE DEF Next
  <2>1. ASSUME NEW how, Ends(how) PROVE Next
    BY <2>1 DEF Ends
  <2>2. CASE Exec \/ OpenLog \/ NewRunner \/ Signal \/ RunReturns
    BY <2>2 DEF Exec, OpenLog, NewRunner, Signal, RunReturns
  <2>8. CASE Pump \/ ReaderEnds \/ PumpWaits \/ PumpReturns
    BY <2>8 DEF Pump, ReaderEnds, PumpWaits, PumpReturns
  <2>3. CASE RefusesToStart \/ NewRunnerFails \/ CloseLog \/ Crash
    BY <2>3, <2>1 DEF RefusesToStart, NewRunnerFails, CloseLog, Crash
  <2>4. CASE PMidnight
    BY <2>4 DEF PMidnight
  <2>5. ASSUME NEW m \in MainLines, MainStamps(m) \/ MainEmits(m) PROVE Next
    BY <2>5, ProcessAssumption DEF MainStamps, MainEmits
  <2>6. ASSUME NEW w \in SessionLines, LineStep(w) PROVE [Next]_vars
    BY <2>6 DEF LineStep, LoopStamps, ReaderStamps, HandlerStamps, SessionEmits,
                StartsHandler, HandlerEnds, SessionLines
  <2>7. CASE UNCHANGED pvars
    BY <2>7 DEF pvars
  <2> QED
    BY <2>2, <2>3, <2>4, <2>5, <2>6, <2>7, <2>8 DEF PNext, LineStep
<1> QED
  BY <1>1, <1>2, PTL DEF PSpec, Spec

(* Every line of the log is in the file of its day. *)
THEOREM ProcessFilesByDay == PSpec => []FiledByDay
  BY RefinesAuditLog, LinesFiledByDay, PTL

(* A line that was written is missing only after a failure of the disk. *)
THEOREM ProcessLosesByFailure == PSpec => []LostOnlyByFailure
  BY RefinesAuditLog, LinesLostOnlyByFailure, PTL

--------------------------------------------------------------------------------
(* After the end of a process nobody is in the middle of a Write. *)
LEMMA EndsStep ==
    ASSUME TypeOK, PIInv, NEW how, Ends(how)
    PROVE  PIInv' /\ \A w \in Lines : pc'[w] # "stamped"
<1>1. \A w \in Lines : pc'[w] # "stamped"
  BY DEF TypeOK, Ends, Restart
<1>2. by' = Nobody /\ pump' = "out" /\ readers' = 0 /\ wg' = 0 /\ proc' = "down"
  BY DEF Ends
<1>3. Handlers' = {}
  BY <1>2 DEF Handlers, Nobody
<1>4. GroupCounts'
  BY <1>2, <1>3, FS_EmptySet DEF GroupCounts, Nobody
<1>5. OutsidePump'
  BY <1>2, <1>3 DEF OutsidePump, Nobody, Idle
<1>6. WritersKnown'
  BY <1>1, <1>2, ProcessAssumption DEF WritersKnown, Nobody, SessionLines
<1> QED
  BY <1>1, <1>4, <1>5, <1>6 DEF PIInv, Ends, LoadedFrom, Stages, Serving

(* The steps of run that write no line *)
LEMMA RunStep ==
    ASSUME TypeOK, PIInv,
           Exec \/ OpenLog \/ NewRunner \/ Signal \/ RunReturns \/ PMidnight
    PROVE  PIInv'
<1>1. UNCHANGED <<group, pc>> /\ proc' \in Stages
  BY DEF PIInv, Exec, OpenLog, NewRunner, Signal, RunReturns, PMidnight, Midnight,
         vars, Stages
<1>2. GroupCounts'
  BY <1>1 DEF PIInv, GroupCounts, Handlers, group
<1>3. OutsidePump' /\ WritersKnown'
  <2> USE <1>1 DEF PIInv, OutsidePump, WritersKnown, Handlers, Idle, group, Serving
  <2>1. CASE Exec \/ OpenLog \/ NewRunner \/ Signal \/ PMidnight
    BY <2>1 DEF Exec, OpenLog, NewRunner, Signal, PMidnight
  <2>2. CASE RunReturns
    BY <2>2 DEF RunReturns
  <2> QED
    BY <2>1, <2>2
<1>4. LoadedFrom'
  BY DEF PIInv, LoadedFrom, Serving, main,
         Exec, OpenLog, NewRunner, Signal, RunReturns, PMidnight, Midnight
<1> QED
  BY <1>1, <1>2, <1>3, <1>4 DEF PIInv

(* run writes a line. *)
LEMMA MainStep ==
    ASSUME TypeOK, PIInv, NEW m \in MainLines, MainStamps(m) \/ MainEmits(m)
    PROVE  PIInv'
<1>1. LoadedFrom' /\ proc' \in Stages
  BY DEF PIInv, MainStamps, MainEmits, LoadedFrom, main, Serving, Stages
<1>2. UNCHANGED group /\ proc \notin Serving /\ proc' \notin Serving
  BY DEF MainStamps, MainEmits, Serving
<1>3. GroupCounts' /\ OutsidePump'
  BY <1>2 DEF PIInv, GroupCounts, OutsidePump, Handlers, Idle, group
<1>4. \A w \in SessionLines : pc'[w] = pc[w] /\ by'[w] = by[w]
  BY <1>2 DEF MainStamps, MainEmits, Stamp, Emit, SessionLines, group, TypeOK
<1>5. \A w \in SessionLines : /\ pc'[w] = "stamped" => by'[w] # "none"
                              /\ by'[w] \in {"loop", "reader"} => pc'[w] = "stamped"
  BY <1>4 DEF PIInv, WritersKnown
<1>6. CASE MainStamps(m)
  <2>1. pc' = [pc EXCEPT ![m] = "stamped"] /\ proc \in {"opened", "returned"}
        /\ proc' \in {"announcing", "closing"}
    BY <1>6 DEF MainStamps, Stamp
  <2>2. \A n \in MainLines : pc[n] # "stamped"
    BY <2>1 DEF PIInv, WritersKnown
  <2> QED
    BY <1>1, <1>3, <1>5, <2>1, <2>2, ProcessAssumption DEF PIInv, WritersKnown, TypeOK
<1>7. CASE MainEmits(m)
  <2>1. pc[m] = "stamped" /\ pc' = [pc EXCEPT ![m] = "done"]
        /\ proc \in {"announcing", "closing"} /\ proc' \in {"announced", "closed"}
    BY <1>7 DEF MainEmits, Emit
  <2>2. \A n \in MainLines : pc[n] = "stamped" => n = m
    BY <2>1 DEF PIInv, WritersKnown
  <2> QED
    BY <1>1, <1>3, <1>5, <2>1, <2>2, ProcessAssumption DEF PIInv, WritersKnown, TypeOK
<1> QED
  BY <1>6, <1>7

(* A session begins and ends: pump returns when nobody of it is left, since
   what it waits for counts the read loop and the handlers. *)
LEMMA PumpStep ==
    ASSUME TypeOK, PIInv, Pump \/ ReaderEnds \/ PumpWaits \/ PumpReturns
    PROVE  PIInv'
<1>1. UNCHANGED <<vars, proc, main, by>> /\ UNCHANGED Handlers /\ UNCHANGED pc
  BY DEF Pump, ReaderEnds, PumpWaits, PumpReturns, Handlers, vars
<1>2. LoadedFrom' /\ proc' \in Stages /\ WritersKnown'
  BY <1>1 DEF PIInv, LoadedFrom, WritersKnown, main
<1>3. IsFiniteSet(Handlers) /\ Cardinality(Handlers) \in Nat
  BY FS_CardinalityType DEF PIInv, GroupCounts
<1>4. GroupCounts'
  <2> USE <1>1, <1>3 DEF PIInv, GroupCounts
  <2>1. CASE Pump
    <3>1. Handlers = {} /\ Cardinality(Handlers) = 0
      BY <2>1, FS_EmptySet DEF Pump, OutsidePump
    <3> QED
      BY <2>1, <3>1 DEF Pump
  <2>2. CASE ReaderEnds
    BY <2>2 DEF ReaderEnds
  <2>3. CASE PumpWaits \/ PumpReturns
    BY <2>3 DEF PumpWaits, PumpReturns
  <2> QED
    BY <2>1, <2>2, <2>3
<1>5. OutsidePump'
  <2> USE <1>1 DEF PIInv, OutsidePump, Idle
  <2>1. CASE Pump
    BY <2>1 DEF Pump
  <2>2. CASE ReaderEnds
    BY <2>2 DEF ReaderEnds
  <2>3. CASE PumpWaits
    BY <2>3 DEF PumpWaits
  <2>4. CASE PumpReturns
    <3>1. readers = 0 /\ Cardinality(Handlers) = 0
      BY <2>4, <1>3 DEF PumpReturns, GroupCounts
    <3>2. Handlers = {}
      BY <1>3, <3>1, FS_EmptySet
    <3>3. \A w \in SessionLines : by[w] # "loop"
      BY <2>4 DEF PumpReturns
    <3> QED
      BY <2>4, <3>1, <3>2, <3>3 DEF PumpReturns
  <2> QED
    BY <2>1, <2>2, <2>3, <2>4
<1> QED
  BY <1>2, <1>4, <1>5 DEF PIInv

(* A handler is added to those that are waited for, or leaves them. *)
LEMMA HandlerStep ==
    ASSUME TypeOK, PIInv, NEW w \in SessionLines, StartsHandler(w) \/ HandlerEnds(w)
    PROVE  PIInv'
<1>1. UNCHANGED <<vars, proc, main, pump, readers>> /\ UNCHANGED pc
  BY DEF StartsHandler, HandlerEnds, vars
<1>2. LoadedFrom' /\ proc' \in Stages
  BY <1>1 DEF PIInv, LoadedFrom, main
<1>3. by \in [SessionLines -> {"none", "loop", "reader", "handler"}]
      /\ IsFiniteSet(Handlers) /\ Cardinality(Handlers) \in Nat
      /\ readers \in {0, 1} /\ wg = readers + Cardinality(Handlers)
  BY FS_CardinalityType DEF PIInv, GroupCounts
<1>4. CASE StartsHandler(w)
  <2>1. by' = [by EXCEPT ![w] = "handler"] /\ by[w] = "none" /\ wg' = wg + 1
        /\ readers = 1 /\ pc[w] = "new"
    BY <1>4 DEF StartsHandler
  <2>2. Handlers' = Handlers \cup {w} /\ w \notin Handlers
    BY <1>3, <2>1 DEF Handlers
  <2>3. IsFiniteSet(Handlers') /\ Cardinality(Handlers') = Cardinality(Handlers) + 1
    BY <1>3, <2>2, FS_AddElement
  <2>4. GroupCounts'
    <3>1. by' \in [SessionLines -> {"none", "loop", "reader", "handler"}]
      BY <1>3, <2>1
    <3>2. wg' = readers' + Cardinality(Handlers')
      BY <1>1, <1>3, <2>1, <2>3
    <3> QED
      BY <1>1, <2>3, <3>1, <3>2 DEF PIInv, GroupCounts
  <2>5. \A v \in SessionLines : by'[v] = IF v = w THEN "handler" ELSE by[v]
    BY <1>3, <2>1
  <2>6. OutsidePump'
    BY <1>1, <2>1, <2>5 DEF PIInv, OutsidePump, Idle
  <2>7. WritersKnown'
    BY <1>1, <2>5 DEF PIInv, WritersKnown
  <2> QED
    BY <1>2, <2>4, <2>6, <2>7 DEF PIInv
<1>5. CASE HandlerEnds(w)
  <2>1. by' = [by EXCEPT ![w] = "none"] /\ by[w] = "handler" /\ wg' = wg - 1
        /\ pc[w] = "done"
    BY <1>5 DEF HandlerEnds
  <2>2. Handlers' = Handlers \ {w} /\ w \in Handlers
    BY <1>3, <2>1 DEF Handlers
  <2>3. IsFiniteSet(Handlers') /\ Cardinality(Handlers') = Cardinality(Handlers) - 1
    BY <1>3, <2>2, FS_RemoveElement
  <2>4. GroupCounts'
    <3>1. by' \in [SessionLines -> {"none", "loop", "reader", "handler"}]
      BY <1>3, <2>1
    <3>2. wg' = readers' + Cardinality(Handlers')
      BY <1>1, <1>3, <2>1, <2>3
    <3> QED
      BY <1>1, <2>3, <3>1, <3>2 DEF PIInv, GroupCounts
  <2>5. \A v \in SessionLines : by'[v] = IF v = w THEN "none" ELSE by[v]
    BY <1>3, <2>1
  <2>6. OutsidePump'
    BY <1>1, <2>2, <2>5 DEF PIInv, OutsidePump, Idle
  <2>7. WritersKnown'
    BY <1>1, <2>1, <2>5 DEF PIInv, WritersKnown
  <2> QED
    BY <1>2, <2>4, <2>6, <2>7 DEF PIInv
<1> QED
  BY <1>4, <1>5

(* A goroutine below Run writes a line: which ones are waited for is the same. *)
LEMMA SessionStep ==
    ASSUME TypeOK, PIInv, NEW w \in SessionLines,
           LoopStamps(w) \/ ReaderStamps(w) \/ HandlerStamps(w) \/ SessionEmits(w)
    PROVE  PIInv'
<1>1. UNCHANGED <<proc, main, pump, readers, wg>> /\ w \in Lines /\ w \notin MainLines
  BY DEF LoopStamps, ReaderStamps, HandlerStamps, SessionEmits, group, SessionLines
<1>2. LoadedFrom' /\ proc' \in Stages
  BY <1>1 DEF PIInv, LoadedFrom, main
<1>3. \A v \in Lines : v # w => pc'[v] = pc[v]
  BY DEF LoopStamps, ReaderStamps, HandlerStamps, SessionEmits, Stamp, Emit, TypeOK
<1>4. by \in [SessionLines -> {"none", "loop", "reader", "handler"}]
  BY DEF PIInv, GroupCounts
<1>5. \/ /\ pc[w] = "new" /\ pc'[w] = "stamped"
         /\ \/ /\ proc \in Serving /\ pump = "out" /\ by[w] = "none"
               /\ by' = [by EXCEPT ![w] = "loop"]
            \/ readers = 1 /\ by[w] = "none" /\ by' = [by EXCEPT ![w] = "reader"]
            \/ by[w] = "handler" /\ by' = by
      \/ /\ pc[w] = "stamped" /\ pc'[w] = "done"
         /\ by' = IF by[w] = "handler" THEN by ELSE [by EXCEPT ![w] = "none"]
  BY <1>1 DEF LoopStamps, ReaderStamps, HandlerStamps, SessionEmits, Stamp, Emit,
              TypeOK, group
<1>6. Handlers' = Handlers
  BY <1>4, <1>5 DEF Handlers
<1>7. by' \in [SessionLines -> {"none", "loop", "reader", "handler"}]
      /\ \A v \in SessionLines : v # w => by'[v] = by[v]
  BY <1>4, <1>5
<1>8. GroupCounts'
  BY <1>1, <1>6, <1>7 DEF PIInv, GroupCounts
<1>9. OutsidePump'
  BY <1>1, <1>4, <1>5, <1>6, <1>7 DEF PIInv, OutsidePump, Idle
<1>10. WritersKnown'
  <2>1. \A m \in MainLines : pc'[m] = pc[m]
    BY <1>1, <1>3, ProcessAssumption
  <2>2. \A v \in SessionLines : v # w => pc'[v] = pc[v]
    BY <1>3 DEF SessionLines
  <2>3. /\ pc'[w] = "stamped" => by'[w] # "none"
        /\ by'[w] \in {"loop", "reader"} => pc'[w] = "stamped"
    BY <1>4, <1>5 DEF PIInv, WritersKnown
  <2> QED
    BY <1>1, <1>7, <2>1, <2>2, <2>3 DEF PIInv, WritersKnown
<1> QED
  BY <1>2, <1>8, <1>9, <1>10 DEF PIInv

(***************************************************************************)
(* The invariant of the process: who is in the middle of a Write at each   *)
(* stage of run, that the WaitGroup counts the read loop and the handlers, *)
(* that nobody of them is there outside pump, and that cfg and execs come  *)
(* from the document.                                                      *)
(***************************************************************************)
THEOREM ProcessInductive == PSpec => []PIInv
<1>1. PInit => PIInv
  <2> SUFFICES ASSUME PInit PROVE PIInv
    OBVIOUS
  <2>1. by = Nobody /\ pump = "out" /\ readers = 0 /\ wg = 0 /\ proc = "down"
        /\ \A w \in Lines : pc[w] = "new"
    BY DEF PInit, Init
  <2>2. Handlers = {}
    BY <2>1 DEF Handlers, Nobody
  <2>3. GroupCounts
    BY <2>1, <2>2, FS_EmptySet DEF GroupCounts, Nobody
  <2>4. OutsidePump /\ WritersKnown
    BY <2>1, <2>2, ProcessAssumption
       DEF OutsidePump, WritersKnown, Nobody, Idle, SessionLines
  <2> QED
    BY <2>1, <2>3, <2>4 DEF PIInv, LoadedFrom, Stages, Serving
<1>2. TypeOK /\ PIInv /\ [PNext]_pvars => PIInv'
  <2> SUFFICES ASSUME TypeOK, PIInv, [PNext]_pvars PROVE PIInv'
    OBVIOUS
  <2>1. CASE Exec \/ OpenLog \/ NewRunner \/ Signal \/ RunReturns \/ PMidnight
    BY <2>1, RunStep
  <2>2. CASE RefusesToStart \/ NewRunnerFails \/ CloseLog \/ Crash
    BY <2>2, EndsStep DEF RefusesToStart, NewRunnerFails, CloseLog, Crash
  <2>3. CASE \E m \in MainLines : MainStamps(m) \/ MainEmits(m)
    BY <2>3, MainStep
  <2>4. CASE Pump \/ ReaderEnds \/ PumpWaits \/ PumpReturns
    BY <2>4, PumpStep
  <2>5. CASE \E w \in SessionLines : LineStep(w)
    BY <2>5, HandlerStep, SessionStep DEF LineStep
  <2>6. CASE UNCHANGED pvars
    BY <2>6 DEF pvars, vars, main, group, PIInv, WritersKnown, LoadedFrom,
                GroupCounts, OutsidePump, Handlers, Idle
  <2> QED
    BY <2>1, <2>2, <2>3, <2>4, <2>5, <2>6 DEF PNext, LineStep
<1>3. IInv => TypeOK
  BY DEF IInv
<1> QED
  BY <1>1, <1>2, <1>3, RefinesAuditLog, Inductive, PTL DEF PSpec

(***************************************************************************)
(* CloseLog, NewRunnerFails: an end that is not a crash finds no line      *)
(* begun.  run has finished its own; the counter of the WaitGroup was zero *)
(* when pump returned, and counts everyone who may be at a line of Run.    *)
(***************************************************************************)
THEOREM CleanExitIsComplete == PSpec => CleanExitLosesNothing
<1> DEFINE Complete ==
      proc # "down" /\ proc' = "down" /\ exit' # "killed" =>
        \A w \in Lines : pc'[w] = "gone" => pc[w] = "gone"
<1>1. TypeOK /\ PIInv /\ [PNext]_pvars => [Complete]_pvars
  <2> SUFFICES ASSUME TypeOK, PIInv, PNext, proc # "down", proc' = "down",
                      exit' # "killed"
               PROVE  \A w \in Lines : pc'[w] = "gone" => pc[w] = "gone"
    OBVIOUS
  <2>1. RefusesToStart \/ NewRunnerFails \/ CloseLog
    <3>1. ~Crash
      BY DEF Crash, Ends
    <3>2. ~(Exec \/ OpenLog \/ NewRunner \/ Signal \/ RunReturns \/ PMidnight)
      BY DEF Exec, OpenLog, NewRunner, Signal, RunReturns, PMidnight
    <3>3. ~\E m \in MainLines : MainStamps(m) \/ MainEmits(m)
      BY DEF MainStamps, MainEmits
    <3>4. ~(Pump \/ ReaderEnds \/ PumpWaits \/ PumpReturns)
      BY DEF Pump, ReaderEnds, PumpWaits, PumpReturns
    <3>5. ~\E w \in SessionLines : LineStep(w)
      BY DEF LineStep, LoopStamps, ReaderStamps, HandlerStamps, SessionEmits,
             StartsHandler, HandlerEnds
    <3> QED
      BY <3>1, <3>2, <3>3, <3>4, <3>5 DEF PNext, LineStep
  <2>2. proc \in {"loading", "announced", "closed"} /\ Restart
    BY <2>1 DEF RefusesToStart, NewRunnerFails, CloseLog, Ends
  <2>3. \A m \in MainLines : pc[m] # "stamped"
    BY <2>2 DEF PIInv, WritersKnown
  <2>4. \A w \in SessionLines : by[w] = "none"
    <3>1. Idle("loop") /\ pump = "out"
      BY <2>2 DEF PIInv, OutsidePump, Serving
    <3>2. Idle("reader") /\ Handlers = {}
      BY <3>1 DEF PIInv, OutsidePump
    <3> QED
      BY <3>1, <3>2 DEF PIInv, GroupCounts, Idle, Handlers
  <2>5. \A w \in Lines : pc[w] # "stamped"
    BY <2>3, <2>4 DEF PIInv, WritersKnown, SessionLines
  <2> QED
    BY <2>2, <2>5 DEF Restart
<1>2. IInv => TypeOK
  BY DEF IInv
<1> QED
  BY <1>1, <1>2, ProcessInductive, RefinesAuditLog, Inductive, PTL
     DEF PSpec, CleanExitLosesNothing

--------------------------------------------------------------------------------
(* A sequence that is no longer than its prefix is equal to it. *)
LEMMA PrefixIsEqual ==
    ASSUME NEW S, NEW a \in Seq(S), NEW b \in Seq(S), ~(Len(a) < Len(b))
    PROVE  b = a <=> IsPrefix(a, b)
<1>1. SubSeq(a, 1, Len(a)) = a /\ SubSeq(b, 1, Len(b)) = b
  BY SubSeqFull
<1>2. Len(a) \in Nat /\ Len(b) \in Nat
  BY LenProperties
<1>3. ASSUME IsPrefix(a, b) PROVE b = a
  <2>1. Len(a) <= Len(b) /\ SubSeq(a, 1, Len(a)) = SubSeq(b, 1, Len(a))
    BY <1>3, Zenon DEF IsPrefix
  <2>2. Len(a) = Len(b)
    BY <2>1, <1>2
  <2> QED
    BY <1>1, <2>1, <2>2
<1>4. ASSUME b = a PROVE IsPrefix(a, b)
  <2>1. Len(a) <= Len(b)
    BY <1>2, <1>4
  <2> QED
    BY <1>4, <2>1, Zenon DEF IsPrefix
<1> QED
  BY <1>3, <1>4

(* A sequence is a prefix of itself. *)
LEMMA PrefixOfItself ==
    ASSUME NEW S, NEW a \in Seq(S)
    PROVE  IsPrefix(a, a)
<1>1. Len(a) \in Nat
  BY LenProperties
<1>2. ~(Len(a) < Len(a))
  BY <1>1
<1> QED
  BY <1>2, PrefixIsEqual

(* What a sequence begins with, its front does too, unless it is all of it. *)
LEMMA PrefixOfFront ==
    ASSUME NEW S, NEW a \in Seq(S), NEW b \in Seq(S), b # <<>>
    PROVE  IsPrefix(a, b) <=> IsPrefix(a, Front(b)) \/ a = b
<1>1. Len(a) \in Nat /\ Len(b) \in Nat /\ Len(b) # 0
  BY LenProperties, EmptySeq
<1>2. Front(b) = SubSeq(b, 1, Len(b) - 1)
  BY DEF Front
<1>3. Len(Front(b)) = Len(b) - 1
  <2>1. \A i \in 1..Len(b) - 1 : b[i] \in S
    BY <1>1, ElementOfSeq
  <2>2. 1 \in Int /\ Len(b) - 1 \in Int
    BY <1>1
  <2>3. Len(SubSeq(b, 1, Len(b) - 1)) = IF 1 <= Len(b) - 1 THEN Len(b) - 1 - 1 + 1 ELSE 0
    BY <2>1, <2>2, SubSeqProperties
  <2>4. Len(Front(b)) = IF 1 <= Len(b) - 1 THEN Len(b) - 1 - 1 + 1 ELSE 0
    BY <1>2, <2>3, Zenon
  <2>5. \A n \in Nat : n # 0 => (IF 1 <= n - 1 THEN n - 1 - 1 + 1 ELSE 0) = n - 1
    OBVIOUS
  <2>6. (IF 1 <= Len(b) - 1 THEN Len(b) - 1 - 1 + 1 ELSE 0) = Len(b) - 1
    BY <1>1, <2>5
  <2> QED
    BY <2>4, <2>6
<1>4. ASSUME Len(a) <= Len(b) - 1
      PROVE  SubSeq(Front(b), 1, Len(a)) = SubSeq(b, 1, Len(a))
  <2>1. CASE Len(a) = 0
    <3>1. SubSeq(Front(b), 1, 0) = <<>> /\ SubSeq(b, 1, 0) = <<>>
      BY SubSeqEmpty
    <3> QED
      BY <2>1, <3>1
  <2>2. CASE Len(a) # 0
    <3> DEFINE j == Len(b) - 1
               n == Len(a)
    <3>1. 1 \in 1..Len(b) /\ j \in 1..Len(b) /\ 1 \in 1..j - 1 + 1 /\ n \in 1..j - 1 + 1
      BY <1>1, <1>4, <2>2
    <3>2. SubSeq(SubSeq(b, 1, j), 1, n) = SubSeq(b, 1 + 1 - 1, 1 + n - 1)
      <4> HIDE DEF j, n
      <4> QED
        BY <3>1, SubSeqOfSubSeq
    <3>3. 1 + 1 - 1 = 1 /\ 1 + n - 1 = n
      BY <1>1
    <3> QED
      BY <1>2, <3>2, <3>3
  <2> QED
    BY <2>1, <2>2
<1>5. ASSUME Len(a) <= Len(b) - 1 PROVE IsPrefix(a, b) <=> IsPrefix(a, Front(b))
  BY <1>1, <1>3, <1>4, <1>5 DEF IsPrefix
<1>6. CASE Len(a) <= Len(b) - 1
  <2>1. a # b
    BY <1>1, <1>6
  <2> QED
    BY <1>5, <1>6, <2>1
<1>7. CASE ~(Len(a) <= Len(b) - 1)
  <2>1. ~(Len(a) < Len(b))
    BY <1>1, <1>7
  <2>2. b = a <=> IsPrefix(a, b)
    BY <2>1, PrefixIsEqual
  <2>3. ~IsPrefix(a, Front(b))
    BY <1>3, <1>7 DEF IsPrefix
  <2> QED
    BY <2>2, <2>3
<1> QED
  BY <1>6, <1>7

(* Validate, withinPrefixList: on scopes that end in a slash, the comparison
   of texts is the comparison of segments. *)
LEMMA PrefixOfSegments ==
    ASSUME NEW s \in Texts, s.tail \in {"", "/"}, NEW p \in Texts, p.tail = "/",
           s.rooted = p.rooted
    PROVE  (s = [p EXCEPT !.tail = ""] \/ HasPrefix(s, p)) <=> IsPrefix(p.segs, s.segs)
<1>1. p.segs \in Seq(STRING) /\ s.segs \in Seq(STRING)
  BY DEF Texts
<1>2. s = [segs |-> s.segs, tail |-> s.tail, rooted |-> s.rooted]
      /\ p = [segs |-> p.segs, tail |-> p.tail, rooted |-> p.rooted]
  BY DEF Texts
<1>3. CASE Len(p.segs) < Len(s.segs) \/ s.tail = "/"
  <2>1. s = [p EXCEPT !.tail = ""] => IsPrefix(p.segs, s.segs)
    <3>1. s = [p EXCEPT !.tail = ""] => s.segs = p.segs
      BY <1>2
    <3>2. IsPrefix(p.segs, p.segs)
      BY <1>1, PrefixOfItself
    <3> QED
      BY <3>1, <3>2
  <2> QED
    BY <1>3, <2>1 DEF HasPrefix
<1>4. CASE ~(Len(p.segs) < Len(s.segs)) /\ s.tail = ""
  <2>1. ~HasPrefix(s, p)
    BY <1>4 DEF HasPrefix
  <2>2. s = [p EXCEPT !.tail = ""] <=> s.segs = p.segs
    BY <1>2, <1>4
  <2>3. s.segs = p.segs <=> IsPrefix(p.segs, s.segs)
    BY <1>1, <1>4, PrefixIsEqual
  <2> QED
    BY <2>1, <2>2, <2>3
<1> QED
  BY <1>3, <1>4

(* What Load gives is valid, and its scopes are those of the document, with a
   slash at the end of each. *)
LEMMA LoadedScopes ==
    ASSUME NEW d \in Docs, Load(d) # NoConfig, "perforce" \in Tools(Load(d))
    PROVE  /\ Load(d).scopes = Normalised(d.scopes)
           /\ d.scopes \in Seq(Texts)
           /\ \A p \in Range(d.scopes) : p.rooted
<1>1. d.scopes \in Seq(Texts)
  BY ProcessAssumption DEF Documents
<1> DEFINE c == Filled(d)
<1>2. c.scopes = d.scopes /\ Valid(c)
      /\ Load(d) = IF c.p4.enabled THEN [c EXCEPT !.scopes = Normalised(@)] ELSE c
  BY DEF Load, Filled
<1>3. c.p4.enabled
  <2>1. Load(d).p4.enabled
    BY DEF Tools
  <2> QED
    BY <1>2, <2>1
<1>4. Load(d).scopes = Normalised(d.scopes)
  BY <1>2, <1>3 DEF Filled
<1>5. \A p \in Range(d.scopes) : ValidScope(p)
  BY <1>2, <1>3 DEF Valid, ValidPerforce
<1> QED
  BY <1>1, <1>4, <1>5 DEF ValidScope

(***************************************************************************)
(* With the scopes a process has loaded, checkScope admits the paths whose *)
(* whole names lie at or below a scope of the document, name by name, and  *)
(* beyond those only the root of a scope with a wildcard right behind it.  *)
(***************************************************************************)
THEOREM ScopesGoBySegment == PSpec => []ScopeBySegment
<1>1. PIInv => ScopeBySegment
  <2> SUFFICES ASSUME PIInv, proc \in Serving, "perforce" \in execs, NEW path \in Paths
               PROVE  InScope(path, cfg.scopes) <=>
                          AtOrBelow(path, doc.scopes) \/ RootThenWild(path, doc.scopes)
    BY DEF ScopeBySegment
  <2> DEFINE s == LiteralPrefix(path)
             scopes == doc.scopes
  <2>1. doc \in Docs /\ cfg = Load(doc) /\ cfg # NoConfig /\ execs = Tools(cfg)
    BY DEF PIInv, LoadedFrom, Serving
  <2>2. cfg.scopes = Normalised(scopes) /\ scopes \in Seq(Texts)
        /\ \A p \in Range(scopes) : p.rooted
    BY <2>1, LoadedScopes
  <2>3. s \in Texts /\ s.tail \in {"", "/"} /\ s.rooted /\ s.segs = path.segs
        /\ path.segs \in Seq(STRING) /\ (path.tail = "*" => path.segs # <<>>)
    <3>1. path \in Texts /\ path.rooted /\ (path.tail = "*" => path.segs # <<>>)
      BY ProcessAssumption
    <3> QED
      BY <3>1 DEF LiteralPrefix, Texts, Tails
  <2>4. \A i \in 1..Len(scopes) :
          LET q == [scopes[i] EXCEPT !.tail = "/"]
          IN  /\ q \in Texts /\ q.tail = "/" /\ q.rooted = s.rooted
              /\ q.segs = scopes[i].segs
              /\ Normalised(scopes)[i] = q
    <3> SUFFICES ASSUME NEW i \in 1..Len(scopes)
                 PROVE  LET q == [scopes[i] EXCEPT !.tail = "/"]
                        IN  /\ q \in Texts /\ q.tail = "/" /\ q.rooted = s.rooted
                            /\ q.segs = scopes[i].segs
                            /\ Normalised(scopes)[i] = q
      OBVIOUS
    <3>1. scopes[i] \in Texts /\ scopes[i].rooted
      BY <2>2 DEF Range
    <3>2. s.rooted \in BOOLEAN /\ scopes[i].rooted \in BOOLEAN
      BY <2>3, <3>1 DEF Texts
    <3> QED
      BY <2>3, <3>1, <3>2 DEF Texts, Tails, Normalised
  <2>5. \A i \in 1..Len(scopes) :
          LET q == Normalised(scopes)[i]
          IN  (s = [q EXCEPT !.tail = ""] \/ HasPrefix(s, q))
                <=> IsPrefix(scopes[i].segs, path.segs)
    <3> SUFFICES ASSUME NEW i \in 1..Len(scopes), NEW q, q = Normalised(scopes)[i]
                 PROVE  (s = [q EXCEPT !.tail = ""] \/ HasPrefix(s, q))
                          <=> IsPrefix(scopes[i].segs, path.segs)
      OBVIOUS
    <3>1. q \in Texts /\ q.tail = "/" /\ s.rooted = q.rooted /\ q.segs = scopes[i].segs
      BY <2>4
    <3> QED
      BY <2>3, <3>1, PrefixOfSegments
  <2>6. DOMAIN Normalised(scopes) = 1..Len(scopes) /\ DOMAIN scopes = 1..Len(scopes)
    BY <2>2 DEF Normalised
  <2>7. InScope(path, cfg.scopes) <=>
          \E i \in 1..Len(scopes) : IsPrefix(scopes[i].segs, path.segs)
    <3>1. InScope(path, cfg.scopes) <=>
            \E i \in 1..Len(scopes) :
              LET q == Normalised(scopes)[i]
              IN  q.tail = "/" /\ (s = [q EXCEPT !.tail = ""] \/ HasPrefix(s, q))
      BY <2>2, <2>6 DEF InScope, Within, Range
    <3> QED
      BY <3>1, <2>4, <2>5
  <2>8. AtOrBelow(path, scopes) <=>
          \E i \in 1..Len(scopes) : IsPrefix(scopes[i].segs, WholeNames(path))
    BY <2>6 DEF AtOrBelow, Range
  <2>9. RootThenWild(path, scopes) <=>
          path.tail = "*" /\ \E i \in 1..Len(scopes) : scopes[i].segs = path.segs
    BY <2>6 DEF RootThenWild, Range
  <2>10. \A i \in 1..Len(scopes) :
           IsPrefix(scopes[i].segs, path.segs) <=>
               \/ IsPrefix(scopes[i].segs, WholeNames(path))
               \/ path.tail = "*" /\ scopes[i].segs = path.segs
    <3> SUFFICES ASSUME NEW i \in 1..Len(scopes)
                 PROVE  IsPrefix(scopes[i].segs, path.segs) <=>
                          \/ IsPrefix(scopes[i].segs, WholeNames(path))
                          \/ path.tail = "*" /\ scopes[i].segs = path.segs
      OBVIOUS
    <3>1. scopes[i].segs \in Seq(STRING)
      <4>1. scopes[i] \in Texts
        BY <2>2 DEF Range
      <4> QED
        BY <4>1 DEF Texts
    <3>2. CASE path.tail = "*"
      <4>1. WholeNames(path) = Front(path.segs)
        BY <3>2 DEF WholeNames
      <4>2. IsPrefix(scopes[i].segs, path.segs) <=>
              IsPrefix(scopes[i].segs, Front(path.segs)) \/ scopes[i].segs = path.segs
        BY <2>3, <3>1, <3>2, PrefixOfFront
      <4> QED
        BY <3>2, <4>1, <4>2
    <3>3. CASE path.tail # "*"
      <4>1. WholeNames(path) = path.segs
        BY <3>3 DEF WholeNames
      <4> QED
        BY <3>3, <4>1
    <3> QED
      BY <3>2, <3>3
  <2> QED
    BY <2>7, <2>8, <2>9, <2>10
<1> QED
  BY <1>1, ProcessInductive, PTL
================================================================================
