-------------------------------- MODULE Dedupe --------------------------------
(***************************************************************************)
(* Runner.claim (internal/session/session.go) as concurrent handlers call  *)
(* it: each reads the clock BEFORE it takes r.mu, so a claim may decide    *)
(* with a reading that is older than the entries already in the table, or  *)
(* than the pruning another claim has just done.                           *)
(*                                                                         *)
(* A "frame" is one delivery of a command; several frames may carry the    *)
(* same id (a broker that retries, or a replay).  The process may be       *)
(* restarted: `seen` lives in memory only.                                 *)
(***************************************************************************)
EXTENDS ClaimTable

CONSTANTS
    Frames,     \* command frames delivered to the connector
    Ids,        \* command ids
    IdOf,       \* IdOf[f]: the id frame f carries
    MaxNow      \* bound on the clock, for TLC

ASSUME DedupeAssumption ==
    /\ IdOf \in [Frames -> Ids]
    /\ MaxNow \in Nat

VARIABLES
    now,        \* the monotonic clock
    seen,       \* Runner.seen
    st,         \* st[f]: how far the claim of frame f has got
    at,         \* at[f]: the clock reading frame f's claim took
    earlier     \* frames whose claim was settled by an earlier process

vars == <<now, seen, st, at, earlier>>

--------------------------------------------------------------------------------
Init ==
    /\ now = 0
    /\ seen = EmptyTable
    /\ st = [f \in Frames |-> "new"]
    /\ at = [f \in Frames |-> 0]
    /\ earlier = {}

Tick ==
    /\ now < MaxNow
    /\ now' = now + 1
    /\ UNCHANGED <<seen, st, at, earlier>>

(* now := time.Now(), before the lock *)
ReadClock(f) ==
    /\ st[f] = "new"
    /\ st' = [st EXCEPT ![f] = "clock"]
    /\ at' = [at EXCEPT ![f] = now]
    /\ UNCHANGED <<now, seen, earlier>>

(* Everything between r.mu.Lock and r.mu.Unlock *)
Claim(f) ==
    LET table == Pruned(seen, at[f])
        dup   == IsDuplicate(table, IdOf[f], at[f])
    IN  /\ st[f] = "clock"
        /\ st' = [st EXCEPT ![f] = IF dup THEN "denied" ELSE "admitted"]
        /\ seen' = IF dup THEN table ELSE Recorded(table, IdOf[f], at[f])
        /\ UNCHANGED <<now, at, earlier>>

(* The process exits and is started again: New makes an empty table, and
   claims in flight are gone. *)
Restart ==
    /\ seen' = EmptyTable
    /\ st' = [f \in Frames |-> IF st[f] = "clock" THEN "lost" ELSE st[f]]
    /\ earlier' = {f \in Frames : st[f] \in {"admitted", "denied"}}
    /\ UNCHANGED <<now, at>>

Next ==
    \/ Tick
    \/ \E f \in Frames : ReadClock(f) \/ Claim(f)
    \/ Restart

Spec == Init /\ [][Next]_vars

--------------------------------------------------------------------------------
TypeOK ==
    /\ now \in Nat
    /\ DOMAIN seen \subseteq Ids
    /\ seen \in [DOMAIN seen -> 0..now]
    /\ st \in [Frames -> {"new", "clock", "admitted", "denied", "lost"}]
    /\ at \in [Frames -> 0..now]
    /\ earlier \subseteq Frames

Admitted == {f \in Frames : st[f] = "admitted"}

(* Frames with the id of g that were admitted before, for which the window
   has not passed when g's claim is decided. *)
Replayed(g) ==
    {f \in Admitted \ {g} : IdOf[f] = IdOf[g] /\ ~Expired(at[f], now)}

(***************************************************************************)
(* claim: a command id is admitted at most once per sliding window.  When  *)
(* a claim is admitted, the window has passed, in real time, since the     *)
(* reading of every earlier admitted claim of that id by this process,     *)
(* however the readings and the locks of the claims interleaved and        *)
(* whatever was pruned in between.                                         *)
(***************************************************************************)
OncePerWindow ==
    [][\A g \in Frames :
        st[g] = "clock" /\ st'[g] = "admitted" => Replayed(g) \subseteq earlier]_vars

(***************************************************************************)
(* claim: a denial is never spurious.  Every frame denied as a duplicate   *)
(* has a frame with the same id that WAS admitted, not more than a window  *)
(* before the denied frame's reading.                                      *)
(***************************************************************************)
DenialJustified ==
    \A g \in Frames :
        st[g] = "denied" =>
            \E f \in Admitted : IdOf[f] = IdOf[g] /\ ~Expired(at[f], at[g])

(***************************************************************************)
(* claim, pruning: the table is over its limit by more than the entry just *)
(* recorded only while every entry is still needed, i.e. within the window *)
(* of the reading that was just recorded.                                  *)
(***************************************************************************)
TableBounded ==
    [][\A g \in Frames :
        st[g] = "clock" /\ st'[g] = "admitted" =>
            \/ Cardinality(DOMAIN seen') <= DedupeMaxKeys + 1
            \/ \A id \in DOMAIN seen' : ~Expired(seen'[id], at[g])]_vars

(***************************************************************************)
(* PROTOCOL.md:195-197: the connector rejects a duplicate id inside a      *)
(* 10-minute sliding window rather than re-executing it.  Stated of the    *)
(* service, not of one process: a restart empties `seen`, so the code does *)
(* not meet this.                                                          *)
(***************************************************************************)
OncePerWindowAcrossRestarts ==
    [][\A g \in Frames :
        st[g] = "clock" /\ st'[g] = "admitted" => Replayed(g) = {}]_vars

--------------------------------------------------------------------------------
(* The state that makes OncePerWindow inductive: an admitted claim of this
   process is either out of the window or still in the table, with its own
   reading; and the table holds only readings of admitted claims. *)
RecordedUntilExpired ==
    \A f \in Admitted \ earlier :
        \/ Expired(at[f], now)
        \/ IdOf[f] \in DOMAIN seen /\ seen[IdOf[f]] = at[f]

TableJustified ==
    \A id \in DOMAIN seen :
        \E f \in Admitted : IdOf[f] = id /\ at[f] = seen[id]

IInv == TypeOK /\ RecordedUntilExpired /\ TableJustified /\ DenialJustified
================================================================================
