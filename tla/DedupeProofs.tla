----------------------------- MODULE DedupeProofs -----------------------------
(***************************************************************************)
(* Proofs about Dedupe for any set of frames and ids, any window and any   *)
(* table limit.                                                            *)
(***************************************************************************)
EXTENDS Dedupe, FiniteSetTheorems, TLAPS

USE DedupeAssumption, ClaimTableAssumption

--------------------------------------------------------------------------------
(* The operators of the table *)

(* A pruned table is the table without some entries, all of them expired. *)
LEMMA PrunedLemma ==
    ASSUME NEW S, NEW tbl \in [S -> Int], NEW reading \in Int
    PROVE  /\ DOMAIN Pruned(tbl, reading) \subseteq S
           /\ \A id \in DOMAIN Pruned(tbl, reading) :
                Pruned(tbl, reading)[id] = tbl[id]
           /\ \A id \in S :
                id \in DOMAIN Pruned(tbl, reading) \/ Expired(tbl[id], reading)
<1>1. CASE Cardinality(DOMAIN tbl) > DedupeMaxKeys
  BY <1>1 DEF Pruned, Restrict, Fresh
<1>2. CASE ~(Cardinality(DOMAIN tbl) > DedupeMaxKeys)
  BY <1>2 DEF Pruned
<1> QED
  BY <1>1, <1>2

(* A table over the limit is left with unexpired entries only. *)
LEMMA PrunedFreshLemma ==
    ASSUME NEW S, NEW tbl \in [S -> Int], NEW reading \in Int,
           Cardinality(DOMAIN tbl) > DedupeMaxKeys
    PROVE  \A id \in DOMAIN Pruned(tbl, reading) :
               ~Expired(Pruned(tbl, reading)[id], reading)
BY DEF Pruned, Restrict, Fresh

--------------------------------------------------------------------------------
(* What Claim does to the table, in one place: the steps below cite it.  *)
LEMMA ClaimLemma ==
    ASSUME TypeOK, NEW f \in Frames, Claim(f)
    PROVE  /\ at[f] \in 0..now
           /\ IdOf[f] \in Ids
           /\ DOMAIN seen' \subseteq DOMAIN seen \cup {IdOf[f]}
           /\ seen' \in [DOMAIN seen' -> 0..now]
           /\ \A id \in DOMAIN seen' \ {IdOf[f]} : seen'[id] = seen[id]
           /\ \A id \in DOMAIN seen \ {IdOf[f]} :
                id \in DOMAIN seen' \/ Expired(seen[id], at[f])
           /\ \/ /\ st' = [st EXCEPT ![f] = "admitted"]
                 /\ IdOf[f] \in DOMAIN seen'
                 /\ seen'[IdOf[f]] = at[f]
                 /\ IdOf[f] \in DOMAIN seen => Expired(seen[IdOf[f]], at[f])
              \/ /\ st' = [st EXCEPT ![f] = "denied"]
                 /\ IdOf[f] \in DOMAIN seen
                 /\ IdOf[f] \in DOMAIN seen'
                 /\ seen'[IdOf[f]] = seen[IdOf[f]]
                 /\ ~Expired(seen[IdOf[f]], at[f])
<1> DEFINE table == Pruned(seen, at[f])
           dup   == IsDuplicate(table, IdOf[f], at[f])
<1>1. at[f] \in 0..now /\ now \in Nat /\ IdOf[f] \in Ids
  BY DEF TypeOK
<1>2. seen \in [DOMAIN seen -> Int]
  BY <1>1 DEF TypeOK
<1>3. /\ DOMAIN table \subseteq DOMAIN seen
      /\ \A id \in DOMAIN table : table[id] = seen[id]
      /\ \A id \in DOMAIN seen : id \in DOMAIN table \/ Expired(seen[id], at[f])
  BY <1>1, <1>2, PrunedLemma
<1>4. table = [id \in DOMAIN table |-> table[id]]
  <2>1. seen = [id \in DOMAIN seen |-> seen[id]]
    BY <1>2
  <2> QED
    BY <2>1 DEF Pruned, Restrict
<1>5. \A id \in DOMAIN seen : seen[id] \in 0..now
  BY DEF TypeOK
<1>6. CASE dup
  <2>1. st' = [st EXCEPT ![f] = "denied"] /\ seen' = table
    BY <1>6 DEF Claim
  <2>2. IdOf[f] \in DOMAIN table /\ ~Expired(table[IdOf[f]], at[f])
    BY <1>6 DEF IsDuplicate
  <2>3. \A id \in DOMAIN table : table[id] \in 0..now
    BY <1>3, <1>5
  <2>4. table \in [DOMAIN table -> 0..now]
    BY <1>4, <2>3
  <2> HIDE DEF table
  <2> QED
    BY <1>1, <1>3, <2>1, <2>2, <2>4
<1>7. CASE ~dup
  <2>1. st' = [st EXCEPT ![f] = "admitted"] /\ seen' = Recorded(table, IdOf[f], at[f])
    BY <1>7 DEF Claim
  <2>2. IdOf[f] \in DOMAIN seen => Expired(seen[IdOf[f]], at[f])
    BY <1>3, <1>7 DEF IsDuplicate
  <2> HIDE DEF table
  <2>3. /\ DOMAIN seen' = DOMAIN table \cup {IdOf[f]}
        /\ seen'[IdOf[f]] = at[f]
        /\ \A id \in DOMAIN table \ {IdOf[f]} : seen'[id] = table[id]
        /\ seen' \in [DOMAIN table \cup {IdOf[f]} -> 0..now]
    BY <1>1, <1>3, <1>5, <2>1 DEF Recorded
  <2> QED
    BY <1>1, <1>3, <2>1, <2>2, <2>3
<1> QED
  BY <1>6, <1>7

--------------------------------------------------------------------------------
(* The inductive invariant *)

(* The table is empty at first and nothing has been admitted. *)
LEMMA IInvInit == Init => IInv
BY DEF Init, IInv, TypeOK, RecordedUntilExpired, TableJustified,
       DenialJustified, Admitted, EmptyTable

(* Every step keeps the types. *)
LEMMA TypeStep == IInv /\ [Next]_vars => TypeOK'
<1> SUFFICES ASSUME IInv, [Next]_vars PROVE TypeOK'
  OBVIOUS
<1> TypeOK
  BY DEF IInv
<1>1. CASE Tick
  BY <1>1 DEF Tick, TypeOK
<1>2. ASSUME NEW f \in Frames, ReadClock(f) PROVE TypeOK'
  BY <1>2 DEF ReadClock, TypeOK
<1>3. ASSUME NEW f \in Frames, Claim(f) PROVE TypeOK'
  <2>1. DOMAIN seen' \subseteq Ids /\ seen' \in [DOMAIN seen' -> 0..now]
    BY <1>3, ClaimLemma DEF TypeOK
  <2>2. UNCHANGED <<now, at, earlier>>
    BY <1>3 DEF Claim
  <2>3. st' \in [Frames -> {"new", "clock", "admitted", "denied", "lost"}]
    BY <1>3 DEF Claim, TypeOK
  <2> QED
    BY <2>1, <2>2, <2>3 DEF TypeOK
<1>4. CASE Restart
  BY <1>4 DEF Restart, TypeOK, EmptyTable
<1>5. CASE UNCHANGED vars
  BY <1>5 DEF vars, TypeOK
<1> QED
  BY <1>1, <1>2, <1>3, <1>4, <1>5 DEF Next

(* An admitted frame keeps its state and its reading; the clock never goes
   back, so what is expired stays expired. *)
LEMMA AdmittedStable ==
    ASSUME TypeOK, [Next]_vars
    PROVE  /\ now \in Nat /\ now' \in Nat /\ now' >= now
           /\ \A f \in Admitted : f \in Admitted' /\ at'[f] = at[f] /\ at[f] \in Nat
<1> USE DEF TypeOK, Admitted
<1>1. CASE Tick
  BY <1>1 DEF Tick
<1>2. CASE \E f \in Frames : ReadClock(f)
  BY <1>2 DEF ReadClock
<1>3. CASE \E f \in Frames : Claim(f)
  BY <1>3 DEF Claim
<1>4. CASE Restart
  BY <1>4 DEF Restart
<1>5. CASE UNCHANGED vars
  BY <1>5 DEF vars
<1> QED
  BY <1>1, <1>2, <1>3, <1>4, <1>5 DEF Next

(* claim, pruneSeen: an admitted id leaves the table only when it has expired. *)
LEMMA RecordedStep == IInv /\ [Next]_vars => RecordedUntilExpired'
<1> SUFFICES ASSUME IInv, [Next]_vars,
                    NEW g \in Admitted', g \notin earlier'
             PROVE  Expired(at'[g], now') \/ (IdOf[g] \in DOMAIN seen' /\ seen'[IdOf[g]] = at'[g])
  BY DEF RecordedUntilExpired, Expired
<1> TypeOK /\ RecordedUntilExpired /\ g \in Frames
  BY DEF IInv, Admitted
<1>0. g \in Admitted \ earlier =>
        /\ at'[g] = at[g] /\ at[g] \in Nat /\ now \in Nat /\ now' \in Nat /\ now' >= now
        /\ Expired(at[g], now) => Expired(at'[g], now')
        /\ Expired(at[g], now) \/ (IdOf[g] \in DOMAIN seen /\ seen[IdOf[g]] = at[g])
  BY AdmittedStable DEF Expired, RecordedUntilExpired
<1>1. CASE Tick
  BY <1>0, <1>1 DEF Tick, Admitted
<1>2. CASE \E f \in Frames : ReadClock(f)
  BY <1>0, <1>2 DEF ReadClock, Admitted, TypeOK
<1>3. ASSUME NEW f \in Frames, Claim(f)
      PROVE  Expired(at'[g], now') \/ (IdOf[g] \in DOMAIN seen' /\ seen'[IdOf[g]] = at'[g])
  <2>1. now' = now /\ at' = at /\ earlier' = earlier /\ st[f] = "clock"
    BY <1>3 DEF Claim
  <2>2. CASE g = f
    <3>1. st'[f] = "admitted"
      BY <2>2 DEF Admitted
    <3> QED
      BY <1>3, <2>1, <2>2, <3>1, ClaimLemma DEF TypeOK
  <2>3. CASE g # f
    <3>1. g \in Admitted \ earlier
      BY <1>3, <2>1, <2>3 DEF Claim, Admitted, TypeOK
    <3>2. CASE Expired(at[g], now)
      BY <1>0, <3>1, <3>2
    <3>3. CASE IdOf[g] \in DOMAIN seen /\ seen[IdOf[g]] = at[g]
      (* The entry of g survives, or it was expired at the reading of f. *)
      <4>1. \/ IdOf[g] \in DOMAIN seen' /\ seen'[IdOf[g]] = at[g]
            \/ Expired(at[g], at[f])
        BY <1>3, <3>3, ClaimLemma
      <4>2. at[f] \in Nat /\ at[f] <= now
        BY DEF TypeOK
      <4> QED
        BY <1>0, <2>1, <3>1, <4>1, <4>2, ClaimTableAssumption DEF Expired
    <3> QED
      BY <1>0, <3>1, <3>2, <3>3
  <2> QED
    BY <2>2, <2>3
<1>4. CASE Restart
  BY <1>4 DEF Restart, Admitted, TypeOK
<1>5. CASE UNCHANGED vars
  BY <1>0, <1>5 DEF vars, Admitted
<1> QED
  BY <1>1, <1>2, <1>3, <1>4, <1>5 DEF Next

(* claim: what is recorded is the id and the time of a frame admitted now. *)
LEMMA TableJustifiedStep == IInv /\ [Next]_vars => TableJustified'
<1> SUFFICES ASSUME IInv, [Next]_vars, NEW id \in DOMAIN seen'
             PROVE  \E f \in Admitted' : IdOf[f] = id /\ at'[f] = seen'[id]
  BY DEF TableJustified
<1> TypeOK /\ TableJustified
  BY DEF IInv
<1>0. id \in DOMAIN seen /\ seen'[id] = seen[id] =>
        \E f \in Admitted' : IdOf[f] = id /\ at'[f] = seen'[id]
  BY AdmittedStable DEF TableJustified
<1>1. CASE Tick \/ UNCHANGED vars \/ \E f \in Frames : ReadClock(f)
  BY <1>0, <1>1 DEF Tick, vars, ReadClock
<1>2. ASSUME NEW f \in Frames, Claim(f)
      PROVE  \E g \in Admitted' : IdOf[g] = id /\ at'[g] = seen'[id]
  <2>1. CASE id # IdOf[f]
    BY <1>0, <1>2, <2>1, ClaimLemma
  <2>2. CASE id = IdOf[f] /\ st'[f] = "admitted"
    <3>1. at' = at /\ f \in Admitted'
      BY <1>2, <2>2 DEF Claim, Admitted
    <3>2. seen'[id] = at[f]
      BY <1>2, <2>2, ClaimLemma DEF TypeOK
    <3> QED
      BY <2>2, <3>1, <3>2
  <2>3. CASE id = IdOf[f] /\ st'[f] # "admitted"
    <3>1. id \in DOMAIN seen /\ seen'[id] = seen[id]
      BY <1>2, <2>3, ClaimLemma DEF TypeOK
    <3> QED
      BY <1>0, <3>1
  <2> QED
    BY <2>1, <2>2, <2>3
<1>3. CASE Restart
  BY <1>3 DEF Restart, EmptyTable
<1> QED
  BY <1>1, <1>2, <1>3 DEF Next

(* claim: a frame is denied only for an entry within the window. *)
LEMMA DenialStep == IInv /\ [Next]_vars => DenialJustified'
<1> SUFFICES ASSUME IInv, [Next]_vars, NEW g \in Frames, st'[g] = "denied"
             PROVE  \E f \in Admitted' : IdOf[f] = IdOf[g] /\ ~Expired(at'[f], at'[g])
  BY DEF DenialJustified, Expired
<1> TypeOK /\ TableJustified /\ DenialJustified
  BY DEF IInv
<1>0. st[g] = "denied" /\ at'[g] = at[g] =>
        \E f \in Admitted' : IdOf[f] = IdOf[g] /\ ~Expired(at'[f], at'[g])
  BY AdmittedStable DEF DenialJustified
<1>1. CASE Tick \/ UNCHANGED vars \/ Restart
  BY <1>0, <1>1 DEF Tick, vars, Restart, TypeOK
<1>2. CASE \E f \in Frames : ReadClock(f)
  BY <1>0, <1>2 DEF ReadClock, TypeOK
<1>3. ASSUME NEW f \in Frames, Claim(f)
      PROVE  \E h \in Admitted' : IdOf[h] = IdOf[g] /\ ~Expired(at'[h], at'[g])
  <2>1. at' = at
    BY <1>3 DEF Claim
  <2>2. CASE g # f
    <3>1. st[g] = "denied"
      BY <1>3, <2>2 DEF Claim, TypeOK
    <3> QED
      BY <1>0, <2>1, <3>1
  <2>3. CASE g = f
    <3>1. IdOf[f] \in DOMAIN seen /\ ~Expired(seen[IdOf[f]], at[f])
      BY <1>3, <2>3, ClaimLemma DEF TypeOK
    <3>2. PICK h \in Admitted : IdOf[h] = IdOf[f] /\ at[h] = seen[IdOf[f]]
      BY <3>1 DEF TableJustified
    <3> QED
      BY <2>1, <2>3, <3>1, <3>2, AdmittedStable
  <2> QED
    BY <2>2, <2>3
<1> QED
  BY <1>1, <1>2, <1>3 DEF Next

(* The inductive invariant of claim, for any frames, clock and window. *)
THEOREM Inductive == Spec => []IInv
<1>1. IInv /\ [Next]_vars => IInv'
  BY TypeStep, RecordedStep, TableJustifiedStep, DenialStep DEF IInv
<1> QED
  BY IInvInit, <1>1, PTL DEF Spec

--------------------------------------------------------------------------------
(* The results *)

(* Every field keeps its type; no entry of the table is from the future. *)
THEOREM TypeCorrect == Spec => []TypeOK
BY Inductive, PTL DEF IInv

(* The admitted ids are in the table until they have expired. *)
THEOREM AdmittedAreRecorded == Spec => []RecordedUntilExpired
BY Inductive, PTL DEF IInv

(* No id is in the table that was not admitted at the time the table says. *)
THEOREM TableIsJustified == Spec => []TableJustified
BY Inductive, PTL DEF IInv

(* claim never denies an id that was not admitted within the window. *)
THEOREM DenialsAreJustified == Spec => []DenialJustified
BY Inductive, PTL DEF IInv

(* A frame is admitted by its own claim and by nothing else. *)
LEMMA AdmittingStep ==
    ASSUME IInv, [Next]_vars, NEW g \in Frames, st[g] = "clock", st'[g] = "admitted"
    PROVE  Claim(g) /\ st' = [st EXCEPT ![g] = "admitted"]
<1> TypeOK
  BY DEF IInv
<1>1. \E f \in Frames : Claim(f)
  BY DEF Next, Tick, ReadClock, Restart, vars, TypeOK
<1>2. PICK f \in Frames : Claim(f)
  BY <1>1
<1>3. f = g
  BY <1>2 DEF Claim, TypeOK
<1> QED
  BY <1>2, <1>3, ClaimLemma DEF TypeOK

(* claim admits an id at most once per sliding window, whatever the order in
   which the handlers read the clock, take the lock and prune. *)
THEOREM AtMostOncePerWindow == Spec => OncePerWindow
<1>1. ASSUME IInv, [Next]_vars, NEW g \in Frames, st[g] = "clock", st'[g] = "admitted"
      PROVE  Replayed(g) \subseteq earlier
  <2> TypeOK /\ RecordedUntilExpired
    BY <1>1 DEF IInv
  <2> SUFFICES ASSUME NEW f \in Replayed(g), f \notin earlier PROVE FALSE
    OBVIOUS
  <2>1. f \in Admitted \ earlier /\ IdOf[f] = IdOf[g] /\ ~Expired(at[f], now)
    BY DEF Replayed
  <2>2. IdOf[f] \in DOMAIN seen /\ seen[IdOf[f]] = at[f]
    BY <2>1 DEF RecordedUntilExpired
  <2>3. Claim(g) /\ st' = [st EXCEPT ![g] = "admitted"]
    BY <1>1, AdmittingStep
  (* The claim was admitted, so the entry of f was expired at its reading. *)
  <2>4. Expired(at[f], at[g])
    <3>1. st' # [st EXCEPT ![g] = "denied"]
      BY <2>3 DEF TypeOK
    <3> QED
      BY <2>1, <2>2, <2>3, <3>1, ClaimLemma
  <2>5. at[f] \in Nat /\ at[g] \in Nat /\ now \in Nat /\ at[g] <= now
    BY <2>1 DEF TypeOK, Admitted
  <2> QED
    BY <2>1, <2>4, <2>5 DEF Expired
<1>2. IInv /\ [Next]_vars =>
        [\A g \in Frames :
            st[g] = "clock" /\ st'[g] = "admitted" => Replayed(g) \subseteq earlier]_vars
  BY <1>1
<1> QED
  BY Inductive, <1>2, PTL DEF Spec, OncePerWindow

(* A set gains at most one element when one is added. *)
LEMMA OneMore ==
    ASSUME NEW S, IsFiniteSet(S), NEW x
    PROVE  /\ Cardinality(S) \in Nat
           /\ Cardinality(S \cup {x}) \in Nat
           /\ Cardinality(S \cup {x}) <= Cardinality(S) + 1
<1>1. IsFiniteSet(S \cup {x}) /\ Cardinality(S) \in Nat
  BY FS_AddElement, FS_CardinalityType
<1>2. CASE x \in S
  <2>1. S \cup {x} = S
    BY <1>2
  <2> QED
    BY <1>1, <2>1
<1>3. CASE x \notin S
  BY <1>1, <1>3, FS_AddElement
<1> QED
  BY <1>2, <1>3

(* The table is finite at all times. *)
LEMMA FiniteTable == Spec => []IsFiniteSet(DOMAIN seen)
<1>1. Init => IsFiniteSet(DOMAIN seen)
  BY FS_EmptySet DEF Init, EmptyTable
<1>2. TypeOK /\ IsFiniteSet(DOMAIN seen) /\ [Next]_vars => IsFiniteSet(DOMAIN seen)'
  <2> SUFFICES ASSUME TypeOK, IsFiniteSet(DOMAIN seen), [Next]_vars
               PROVE  IsFiniteSet(DOMAIN seen')
    OBVIOUS
  <2>1. ASSUME NEW f \in Frames, Claim(f) PROVE IsFiniteSet(DOMAIN seen')
    <3>1. IsFiniteSet(DOMAIN seen \cup {IdOf[f]})
      BY FS_AddElement
    <3>2. DOMAIN seen' \subseteq DOMAIN seen \cup {IdOf[f]}
      BY <2>1, ClaimLemma
    <3> QED
      BY <3>1, <3>2, FS_Subset
  <2>2. CASE Restart
    BY <2>2, FS_EmptySet DEF Restart, EmptyTable
  <2> QED
    BY <2>1, <2>2 DEF Next, Tick, ReadClock, vars
<1> QED
  BY <1>1, <1>2, TypeCorrect, PTL DEF Spec

(* After a claim the table exceeds its limit by more than the entry just
   recorded only if every entry is still within the window. *)
THEOREM TableIsBounded == Spec => TableBounded
<1>1. ASSUME IInv, IsFiniteSet(DOMAIN seen), [Next]_vars,
             NEW g \in Frames, st[g] = "clock", st'[g] = "admitted"
      PROVE  \/ Cardinality(DOMAIN seen') <= DedupeMaxKeys + 1
             \/ \A id \in DOMAIN seen' : ~Expired(seen'[id], at[g])
  <2> DEFINE table == Pruned(seen, at[g])
  <2>1. TypeOK /\ at[g] \in 0..now /\ now \in Nat
    BY <1>1 DEF IInv, TypeOK
  <2>2. Claim(g) /\ st'[g] # "denied"
    BY <1>1, AdmittingStep
  <2>3. seen' = Recorded(table, IdOf[g], at[g])
    BY <2>1, <2>2 DEF Claim, TypeOK
  <2>4. CASE Cardinality(DOMAIN seen) > DedupeMaxKeys
    <3>1. seen \in [DOMAIN seen -> Int]
      BY <2>1 DEF TypeOK
    <3>2. \A id \in DOMAIN table : ~Expired(table[id], at[g])
      BY <2>1, <2>4, <3>1, PrunedFreshLemma
    <3>3. ~Expired(at[g], at[g])
      BY <2>1, ClaimTableAssumption DEF Expired
    <3> HIDE DEF table
    <3> QED
      BY <2>3, <3>2, <3>3 DEF Recorded
  <2>5. CASE ~(Cardinality(DOMAIN seen) > DedupeMaxKeys)
    <3>1. DOMAIN seen' = DOMAIN seen \cup {IdOf[g]}
      BY <2>3, <2>5 DEF Recorded, Pruned
    <3>2. /\ Cardinality(DOMAIN seen') <= Cardinality(DOMAIN seen) + 1
          /\ Cardinality(DOMAIN seen) \in Nat
          /\ Cardinality(DOMAIN seen') \in Nat
      BY <1>1, <3>1, OneMore
    <3> QED
      BY <2>5, <3>2, ClaimTableAssumption
  <2> QED
    BY <2>4, <2>5
<1>2. IInv /\ IsFiniteSet(DOMAIN seen) /\ [Next]_vars =>
        [\A g \in Frames :
            st[g] = "clock" /\ st'[g] = "admitted" =>
                \/ Cardinality(DOMAIN seen') <= DedupeMaxKeys + 1
                \/ \A id \in DOMAIN seen' : ~Expired(seen'[id], at[g])]_vars
  BY <1>1
<1> QED
  BY Inductive, FiniteTable, <1>2, PTL DEF Spec, TableBounded

================================================================================
