------------------------------ MODULE ClaimTable ------------------------------
(***************************************************************************)
(* The table `seen` of internal/session/session.go: command id -> clock    *)
(* reading of the claim that recorded it, and the pure part of             *)
(* Runner.claim, which is everything it does while it holds r.mu.  Dedupe  *)
(* and Session both build their Claim action from these operators.         *)
(*                                                                         *)
(* A table is a function whose DOMAIN is the set of ids present.  Readings *)
(* are ticks of Go's monotonic clock (time.Now / Time.Sub), so they never  *)
(* go backwards within a process.                                          *)
(*                                                                         *)
(* An operator commented "Fault:" is a broken variant of the definition    *)
(* that follows it.  No specification uses it: putting it in the place of  *)
(* the right one must make a property fail, which shows that the property  *)
(* depends on that definition.  The other modules follow this convention.  *)
(***************************************************************************)
EXTENDS Integers, FiniteSets, Functions

CONSTANTS
    DedupeWindow,   \* dedupeWindow, in ticks
    DedupeMaxKeys   \* dedupeMaxKeys

ASSUME ClaimTableAssumption ==
    /\ DedupeWindow \in Nat
    /\ DedupeMaxKeys \in Nat

EmptyTable == [id \in {} |-> 0]

(* now.Sub(t) > dedupeWindow *)
Expired(t, reading) == reading - t > DedupeWindow

(* Fault: an entry exactly as old as the window is dropped too. *)
FreshShort(seen, reading) == {id \in DOMAIN seen : reading - seen[id] < DedupeWindow}

Fresh(seen, reading) == {id \in DOMAIN seen : ~Expired(seen[id], reading)}

(* Fault: a full table is emptied, whatever the age of its entries. *)
PrunedEmpty(seen, reading) ==
    IF Cardinality(DOMAIN seen) > DedupeMaxKeys THEN EmptyTable ELSE seen

(* Fault: nothing is ever deleted. *)
NeverPruned(seen, reading) == seen

(* Entries are deleted only when the table has outgrown its limit. *)
Pruned(seen, reading) ==
    IF Cardinality(DOMAIN seen) > DedupeMaxKeys
    THEN Restrict(seen, Fresh(seen, reading))
    ELSE seen

(* Fault: any entry makes a duplicate, however old. *)
IsPresent(seen, id, reading) == id \in DOMAIN seen

IsDuplicate(seen, id, reading) ==
    /\ id \in DOMAIN seen
    /\ ~Expired(seen[id], reading)

(* Fault: the entry holds the time it expires instead of the reading. *)
RecordedExpiry(seen, id, reading) ==
    [k \in DOMAIN seen \cup {id} |->
        IF k = id THEN reading + DedupeWindow ELSE seen[k]]

Recorded(seen, id, reading) ==
    [k \in DOMAIN seen \cup {id} |-> IF k = id THEN reading ELSE seen[k]]
================================================================================
