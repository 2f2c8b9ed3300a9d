------------------------------- MODULE AuditLog -------------------------------
(***************************************************************************)
(* Logger (internal/audit/audit.go): JSON lines appended to a file per     *)
(* day, and mirrored to stderr.  Write takes its timestamp BEFORE it takes *)
(* the mutex, so around midnight a line of the old day may come after one  *)
(* of the new day, and rotate goes back to the old file for it.            *)
(*                                                                         *)
(* A line is the call of Write that emits it.  The disk may fail to open a *)
(* file or to append a line.  The process may end, normally or not, and be *)
(* started again: the files stay.                                          *)
(***************************************************************************)
EXTENDS Integers

CONSTANTS
    Lines,      \* the calls of Write
    MaxDay,     \* bound on the days
    NoFile      \* Logger.file is nil

Days == 1..MaxDay

ASSUME AuditLogAssumption ==
    /\ MaxDay \in Nat \ {0}
    /\ NoFile \notin [day : Days, open : BOOLEAN]

VARIABLES
    today,      \* the day of the clock, in UTC
    pc,         \* pc[w]: how far the call has got
    day,        \* day[w]: the day of its timestamp
    file,       \* Logger.file and Logger.day; the handle may be closed
    files,      \* files[d]: the lines in the file of day d
    mirror,     \* the lines on stderr
    lost        \* lost[w]: why the file does not have the line

vars == <<today, pc, day, file, files, mirror, lost>>

Init ==
    /\ today = 1
    /\ pc = [w \in Lines |-> "new"]
    /\ day = [w \in Lines |-> 1]
    /\ file = NoFile
    /\ files = [d \in Days |-> {}]
    /\ mirror = {}
    /\ lost = [w \in Lines |-> "none"]

Midnight ==
    /\ today < MaxDay
    /\ today' = today + 1
    /\ UNCHANGED <<pc, day, file, files, mirror, lost>>

(* now := time.Now().UTC(), and the line is encoded with it. *)
Stamp(w) ==
    /\ pc[w] = "new"
    /\ pc' = [pc EXCEPT ![w] = "stamped"]
    /\ day' = [day EXCEPT ![w] = today]
    /\ UNCHANGED <<today, file, files, mirror, lost>>

--------------------------------------------------------------------------------
(* Fault: an open file is used whatever its day. *)
AnyFile(d) == file # NoFile

(* rotate returns at once: the file at hand is the one of day d. *)
HasFile(d) == file # NoFile /\ file.day = d

(* Fault: a file that exists is truncated when it is opened. *)
OpenTruncates(w, d) ==
    /\ file' = [day |-> d, open |-> TRUE]
    /\ \/ files' = [files EXCEPT ![d] = {w}] /\ lost' = lost
       \/ files' = [files EXCEPT ![d] = {}] /\ lost' = [lost EXCEPT ![w] = "write"]

(* rotate opens the file of day d, for appending, and the line is written to
   it or not. *)
OpenAndAppend(w, d) ==
    /\ file' = [day |-> d, open |-> TRUE]
    /\ \/ files' = [files EXCEPT ![d] = files[d] \cup {w}] /\ lost' = lost
       \/ files' = files /\ lost' = [lost EXCEPT ![w] = "write"]

(* rotate has closed the old file and cannot open the new one: Logger.file and
   Logger.day still name the old one. *)
OpenFails(w) ==
    /\ file' = IF file = NoFile THEN NoFile ELSE [file EXCEPT !.open = FALSE]
    /\ files' = files
    /\ lost' = [lost EXCEPT ![w] = "open"]

(* No rotation: the handle is written to, and an error is ignored. *)
AppendHere(w) ==
    /\ file' = file
    /\ \/ /\ file.open
          /\ files' = [files EXCEPT ![file.day] = files[file.day] \cup {w}]
          /\ lost' = lost
       \/ /\ files' = files
          /\ lost' = [lost EXCEPT ![w] = IF file.open THEN "write" ELSE "stale"]

(* Write from l.mu.Lock to its end *)
Emit(w) ==
    /\ pc[w] = "stamped"
    /\ pc' = [pc EXCEPT ![w] = "done"]
    /\ mirror' = mirror \cup {w}
    /\ \/ HasFile(day[w]) /\ AppendHere(w)
       \/ ~HasFile(day[w]) /\ (OpenAndAppend(w, day[w]) \/ OpenFails(w))
    /\ UNCHANGED <<today, day>>

(* Close, or a crash, and New in the next process. *)
Restart ==
    /\ file' = NoFile
    /\ pc' = [w \in Lines |-> IF pc[w] = "stamped" THEN "gone" ELSE pc[w]]
    /\ UNCHANGED <<today, day, files, mirror, lost>>

Next == \/ Midnight \/ Restart
        \/ \E w \in Lines : Stamp(w) \/ Emit(w)

Spec == Init /\ [][Next]_vars

--------------------------------------------------------------------------------
TypeOK ==
    /\ today \in Days
    /\ pc \in [Lines -> {"new", "stamped", "done", "gone"}]
    /\ day \in [Lines -> Days]
    /\ file \in [day : Days, open : BOOLEAN] \cup {NoFile}
    /\ files \in [Days -> SUBSET Lines]
    /\ mirror \subseteq Lines
    /\ lost \in [Lines -> {"none", "open", "write", "stale"}]

(***************************************************************************)
(* rotate: a line is in the file of the day of its own timestamp and in no *)
(* other, although writers reach the lock in another order than they took  *)
(* the time.                                                               *)
(***************************************************************************)
FiledByDay ==
    \A d \in Days : \A w \in files[d] : day[w] = d

(***************************************************************************)
(* Write, rotate: a line that is not in its file was lost to a failure of  *)
(* the disk, its own or that of an earlier rotation; turning back to the   *)
(* file of an earlier day, or a restart, loses nothing.  stderr has every  *)
(* line.                                                                   *)
(***************************************************************************)
LostOnlyByFailure ==
    \A w \in Lines : pc[w] = "done" =>
        /\ w \in mirror
        /\ lost[w] = "none" => w \in files[day[w]]
        /\ lost[w] = "stale" => \E v \in Lines : lost[v] = "open" /\ day[v] # day[w]

--------------------------------------------------------------------------------
(* The inductive invariant: a closed handle is the trace of a rotation that
   failed, away from the day it is of. *)
HandleInv ==
    file # NoFile /\ ~file.open =>
        \E v \in Lines : lost[v] = "open" /\ day[v] # file.day

LineInv ==
    \A w \in Lines :
        /\ pc[w] \in {"new", "stamped"} => lost[w] = "none"
        /\ lost[w] # "none" => pc[w] = "done"
        /\ \A d \in Days : w \in files[d] => pc[w] = "done"

IInv == TypeOK /\ FiledByDay /\ LostOnlyByFailure /\ HandleInv /\ LineInv
================================================================================
