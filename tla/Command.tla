-------------------------------- MODULE Command --------------------------------
(***************************************************************************)
(* One command after its claim: Runner.handle and execute                  *)
(* (internal/session/session.go) with the Perforce and TeamCity tools      *)
(* (internal/tools), from Resolve to the status of the result.             *)
(*                                                                         *)
(* The p4 child writes its output in chunks, into a cappedBuffer, and may  *)
(* fail or be killed at any moment; the deadline of the command may pass   *)
(* at any step until the result is made.  Output is a number of bytes, a   *)
(* file record of p4.describe the number of bytes it is charged for.  A    *)
(* field of the command, and what a tool has to say, is chosen when the    *)
(* code first looks at it.                                                 *)
(***************************************************************************)
EXTENDS Vocab

CONSTANTS
    Verbs,              \* the verbs asked for
    Inputs,             \* the arguments supplied
    AskedDeadlines,     \* deadline_ms of the command
    AskedBytes,         \* max_bytes of the command
    AskedFiles,         \* max_files of p4.describe, when it is supplied
    HalfRange,          \* 2^63: a time.Duration is in -HalfRange .. HalfRange - 1
    Millisecond,        \* time.Millisecond, in units of a time.Duration
    DefaultDeadline,    \* defaultDeadline, in these units
    MaxDeadline,        \* maxDeadline
    DefaultMaxBytes,    \* DefaultMaxBytes[verb] of the vocabulary
    DefaultMaxFiles,    \* what describe takes when max_files is not supplied
    Ceiling,            \* MaxToolOutputBytes
    MaxOutput,          \* bound on the output of a tool
    Changelists         \* changelists: the costs of their files

ASSUME CommandAssumption ==
    /\ \A args \in Inputs : args # NotAnObject => args \in [DOMAIN args -> Values]
    /\ AskedDeadlines \subseteq Int
    /\ AskedBytes \subseteq Int
    /\ AskedFiles \subseteq Nat \ {0}
    /\ HalfRange \in Nat \ {0}
    /\ Millisecond \in Nat \ {0}
    /\ DefaultDeadline \in Nat \ {0}
    /\ MaxDeadline \in Nat /\ DefaultDeadline <= MaxDeadline
    /\ DefaultMaxBytes \in [Compiled -> Nat \ {0}]
    /\ DefaultMaxFiles \in Nat \ {0}
    /\ Ceiling \in Nat
    /\ MaxOutput \in Nat
    /\ Changelists \subseteq Seq(Nat)

VARIABLES
    \* the command
    verb,       \* cmd.Verb
    args,       \* cmd.Args
    tools,      \* the tools that are configured
    stage,      \* how far handle has got
    deadline,   \* the deadline of its context
    maxBytes,   \* max_bytes after the default and the cap
    expired,    \* the deadline has passed
    \* the output of the tool
    total,      \* the bytes the tool has to say
    written,    \* the bytes it has written
    held,       \* cappedBuffer.Len()
    overflowed, \* cappedBuffer.overflowed
    decoded,    \* p4.changes: how much of it run has decoded into records
    failed,     \* execute returns an error
    \* describeFromRecord
    files,      \* the files of the changelist: what each costs
    maxFiles,   \* the bound on their number
    next,       \* the file it looks at; the ones before it are counted
    returned,   \* out.Files: the files returned
    budget,     \* what is left of maxBytes
    truncated,  \* the response is not complete
    \* the result
    status,     \* its status
    reason      \* its reason

cmdVars    == <<verb, args, tools, deadline, maxBytes>>
outVars    == <<total, written, held, overflowed, decoded>>
shapeVars  == <<files, maxFiles, next, returned, budget>>
resultVars == <<status, reason>>
vars == <<cmdVars, stage, expired, outVars, failed, shapeVars, truncated, resultVars>>

--------------------------------------------------------------------------------
(* The limits of a command *)

(* Two's complement *)
Wrap(x) == ((x + HalfRange) % (2 * HalfRange)) - HalfRange

Lesser(i, j) == IF i < j THEN i ELSE j

(* Fault: what was asked for is tested before it is multiplied. *)
TestedBefore(ms) ==
    IF ms <= 0 THEN DefaultDeadline ELSE Lesser(Wrap(ms * Millisecond), MaxDeadline)

(* time.Duration(cmd.DeadlineMs) * time.Millisecond, the default and the cap *)
Deadline(ms) ==
    LET d == Wrap(ms * Millisecond)
    IN  IF d <= 0 THEN DefaultDeadline ELSE Lesser(d, MaxDeadline)

MaxBytes(v, asked) ==
    IF asked <= 0 THEN DefaultMaxBytes[v] ELSE Lesser(asked, DefaultMaxBytes[v])

Init ==
    /\ verb \in Verbs /\ args \in Inputs /\ tools \in SUBSET Tools
    /\ stage = "resolve" /\ deadline = 0 /\ maxBytes = 0 /\ expired = FALSE
    /\ total = 0 /\ written = 0 /\ held = 0 /\ overflowed = FALSE /\ decoded = 0
    /\ failed = FALSE
    /\ files = <<>> /\ maxFiles = 0 /\ next = 1 /\ returned = <<>> /\ budget = 0
    /\ truncated = FALSE
    /\ status = "none" /\ reason = "none"

Deny ==
    /\ stage = "resolve"
    /\ Resolve(verb, args, tools) # "none"
    /\ stage' = "answered"
    /\ status' = "denied"
    /\ reason' = Resolve(verb, args, tools)
    /\ UNCHANGED <<cmdVars, expired, outVars, failed, shapeVars, truncated>>

Admit ==
    /\ stage = "resolve"
    /\ Resolve(verb, args, tools) = "none"
    /\ stage' = "execute"
    /\ \E ms \in AskedDeadlines : deadline' = Deadline(ms)
    /\ \E n \in AskedBytes : maxBytes' = MaxBytes(verb, n)
    /\ UNCHANGED <<verb, args, tools, expired, outVars, failed, shapeVars, truncated,
                   resultVars>>

(* Fault: a timer answers at the deadline, beside the handler. *)
ExpireAnswers ==
    /\ stage \notin {"resolve", "answered"}
    /\ expired' = TRUE
    /\ status' = "timeout" /\ reason' = "deadline_exceeded"
    /\ UNCHANGED <<cmdVars, stage, outVars, failed, shapeVars, truncated>>

(* The context's deadline passes. *)
Expire ==
    /\ stage \notin {"resolve", "answered"}
    /\ expired' = TRUE
    /\ UNCHANGED <<cmdVars, stage, outVars, failed, shapeVars, truncated, resultVars>>

--------------------------------------------------------------------------------
(* execute: the verbs of the connector itself answer at once. *)

Answer ==
    /\ stage = "execute" /\ verb \in Sys
    /\ stage' = "executed"
    /\ UNCHANGED <<cmdVars, expired, outVars, failed, shapeVars, truncated, resultVars>>

Fail ==
    /\ stage' = "executed"
    /\ failed' = TRUE
    /\ UNCHANGED <<cmdVars, expired, total, written, held, overflowed, decoded, shapeVars,
                   truncated, resultVars>>

(* TeamCity.get: the request fails or has another status than 200. *)
GetFails == stage = "execute" /\ verb \in TeamCity /\ Fail

(* A body over the limit is cut, and what is left of it may be no JSON. *)
GetReturns ==
    /\ stage = "execute" /\ verb \in TeamCity
    /\ stage' = "executed"
    /\ \E n \in 0..MaxOutput :
         /\ total' = n /\ written' = n
         /\ held' = Lesser(n, maxBytes)
         /\ truncated' = (n > maxBytes)
    /\ failed' \in BOOLEAN
    /\ UNCHANGED <<cmdVars, expired, overflowed, decoded, shapeVars, resultVars>>

--------------------------------------------------------------------------------
(* Perforce.run *)

StartP4 ==
    /\ stage = "execute" /\ verb \in Perforce
    /\ stage' = "p4"
    /\ total' \in 0..MaxOutput
    /\ UNCHANGED <<cmdVars, expired, written, held, overflowed, decoded, failed, shapeVars,
                   truncated, resultVars>>

(* Fault: the bytes that still fit are not accounted for. *)
BufferOver(n) ==
    /\ overflowed' = (overflowed \/ held >= Ceiling)
    /\ held' = IF overflowed \/ held >= Ceiling THEN held ELSE held + n

(* cappedBuffer.Write *)
Buffer(n) ==
    /\ overflowed' = (overflowed \/ n > Ceiling - held)
    /\ held' = IF overflowed THEN held ELSE Lesser(held + n, Ceiling)

P4Writes ==
    /\ stage = "p4"
    /\ \E n \in 1..(total - written) : written' = written + n /\ Buffer(n)
    /\ UNCHANGED <<cmdVars, stage, expired, total, decoded, failed, shapeVars, truncated,
                   resultVars>>

(* It exits with an error, or is killed at a deadline. *)
P4Fails == stage = "p4" /\ Fail

Whole == ~overflowed

(* It exits well, with too much output, or without a record for describe; *)
P4Useless ==
    /\ stage = "p4" /\ written = total
    /\ ~Whole \/ verb = "p4.describe"
    /\ Fail

(* The records before the first that cannot be decoded, which is taken for the
   end of the output *)
Decode == decoded' \in 0..total

(* p4.changes returns them, however many bytes they are; *)
ListChanges ==
    /\ stage = "p4" /\ written = total /\ Whole
    /\ verb = "p4.changes"
    /\ stage' = "executed"
    /\ Decode
    /\ UNCHANGED <<cmdVars, expired, total, written, held, overflowed, failed, shapeVars,
                   truncated, resultVars>>

(* and p4.describe shapes its first record, whatever follows it. *)
StartShape ==
    /\ stage = "p4" /\ written = total /\ Whole
    /\ verb = "p4.describe" /\ total > 0
    /\ stage' = "shape"
    /\ files' \in Changelists
    /\ IF "max_files" \in DOMAIN args THEN maxFiles' \in AskedFiles
       ELSE maxFiles' = DefaultMaxFiles
    /\ budget' = maxBytes
    /\ UNCHANGED <<cmdVars, expired, outVars, failed, next, returned, truncated, resultVars>>

--------------------------------------------------------------------------------
(* describeFromRecord, one turn of its loop *)

(* Fault: a later file is returned if it fits. *)
FitsStill == Len(returned) < maxFiles /\ files[next] <= budget

(* Fault: the bound on the bytes is noticed one file too late. *)
FitsBefore == ~truncated /\ Len(returned) < maxFiles /\ budget > 0

Fits == ~truncated /\ Len(returned) < maxFiles /\ files[next] <= budget

ShapeFile ==
    /\ stage = "shape" /\ next <= Len(files)
    /\ next' = next + 1
    /\ IF Fits
       THEN /\ returned' = Append(returned, next)
            /\ budget' = budget - files[next]
            /\ UNCHANGED truncated
       ELSE truncated' = TRUE /\ UNCHANGED <<returned, budget>>
    /\ UNCHANGED <<cmdVars, stage, expired, outVars, failed, files, maxFiles, resultVars>>

Shaped ==
    /\ stage = "shape" /\ next > Len(files)
    /\ stage' = "executed"
    /\ UNCHANGED <<cmdVars, expired, outVars, failed, shapeVars, truncated, resultVars>>

--------------------------------------------------------------------------------
(* The switch at the end of handle.  Only an "ok" result carries a body. *)
Finish ==
    /\ stage = "executed"
    /\ stage' = "answered"
    /\ status' = IF expired THEN "timeout" ELSE IF failed THEN "error" ELSE "ok"
    /\ reason' = IF expired THEN "deadline_exceeded" ELSE IF failed THEN "tool_error" ELSE "none"
    /\ UNCHANGED <<cmdVars, expired, outVars, failed, shapeVars, truncated>>

Answered == stage = "answered" /\ UNCHANGED vars

Execute == \/ Answer \/ GetFails \/ GetReturns
           \/ StartP4 \/ P4Writes \/ P4Fails \/ P4Useless \/ ListChanges
           \/ StartShape \/ ShapeFile \/ Shaped

Next == Deny \/ Admit \/ Execute \/ Expire \/ Finish \/ Answered

Spec == Init /\ [][Next]_vars

--------------------------------------------------------------------------------
Stages   == {"resolve", "execute", "p4", "shape", "executed", "answered"}
Admitted == stage # "resolve" /\ status # "denied"

TypeOK ==
    /\ stage \in Stages
    /\ deadline \in Int /\ maxBytes \in Nat /\ expired \in BOOLEAN
    /\ total \in 0..MaxOutput /\ written \in 0..total /\ held \in 0..total
    /\ decoded \in 0..total
    /\ overflowed \in BOOLEAN /\ failed \in BOOLEAN /\ truncated \in BOOLEAN
    /\ files \in Seq(Nat) /\ maxFiles \in Nat /\ next \in 1 .. Len(files) + 1
    /\ returned \in Seq(Nat) /\ budget \in 0..maxBytes
    /\ status \in {"none", "denied", "timeout", "error", "ok"}

(***************************************************************************)
(* Resolve: "A name that is not in the vocabulary must never reveal        *)
(* whether a tool is configured" (vocab.go:357).  Neither that nor the     *)
(* arguments change the answer to a verb that is not compiled in.          *)
(***************************************************************************)
UnknownRevealsNothing ==
    verb \notin Compiled =>
        \A t \in SUBSET Tools : Resolve(verb, args, t) = Resolve(verb, NotAnObject, {})

(* A valid command, whatever the order of the checks. *)
Permitted ==
    /\ verb \in Compiled \ Content
    /\ NeededTools(verb) \subseteq tools
    /\ Satisfies(verb, args)

(***************************************************************************)
(* Resolve, validateArgs: a command is denied unless its verb is compiled  *)
(* in, its tool is configured, its arguments are all named by the schema,  *)
(* the required ones are there, and each is acceptable; and it is admitted *)
(* then.                                                                   *)
(***************************************************************************)
AdmittedIsValid == stage # "resolve" => (status # "denied" <=> Permitted)

(***************************************************************************)
(* handle: whatever the broker asks for, zero, negative or so large that   *)
(* the multiplication wraps around, the deadline lies ahead and within its *)
(* cap, and max_bytes within that of the verb.                             *)
(***************************************************************************)
LimitsKept ==
    Admitted =>
        /\ 0 < deadline /\ deadline <= MaxDeadline
        /\ 0 < maxBytes /\ maxBytes <= DefaultMaxBytes[verb]

(* The sum of a list, as a recursive function: see SumAppend. *)
SumOf(s) ==
    LET sum[k \in 0..Len(s)] == IF k = 0 THEN 0 ELSE sum[k - 1] + s[k]
    IN  sum[Len(s)]

(* What each file returned was charged for. *)
Costs == [i \in 1..Len(returned) |-> files[returned[i]]]

(***************************************************************************)
(* describeFromRecord: the files returned cost no more than max_bytes, and *)
(* are no more than max_files.                                             *)
(***************************************************************************)
BudgetKept ==
    /\ SumOf(Costs) <= maxBytes
    /\ Len(returned) <= maxFiles

(* The result leaves out something that the tool has. *)
Incomplete ==
    CASE verb = "p4.describe" -> Len(returned) < Len(files)
      [] verb \in TeamCity    -> held < total
      [] verb = "p4.changes"  -> decoded < total
      [] OTHER                -> FALSE

(* changes never says that its result is truncated, although it is of any size
   and run has dropped without a word what follows an undecodable record. *)
Silent == {"p4.changes"}

(***************************************************************************)
(* OK, describeFromRecord, get: but for p4.changes, which never says so, a *)
(* result says that it is truncated exactly when it leaves something out;  *)
(* the files returned are the first of the changelist, and all of it was   *)
(* counted.                                                                *)
(***************************************************************************)
TruncationReported ==
    status = "ok" =>
        /\ truncated <=> Incomplete /\ verb \notin Silent
        /\ returned = [i \in 1..Len(returned) |-> i]
        /\ next - 1 = Len(files)

(***************************************************************************)
(* run, cappedBuffer: nothing that p4 wrote is missing from an "ok"        *)
(* result's input.  Output that was cut at the ceiling is never taken for  *)
(* the whole.                                                              *)
(***************************************************************************)
WholeOutputOnly ==
    status = "ok" /\ verb \in Perforce => held = total /\ total <= Ceiling

--------------------------------------------------------------------------------
(* The inductive invariant *)

(* What Resolve says decides. *)
AdmitInv ==
    stage # "resolve" => (status = "denied" <=> Resolve(verb, args, tools) # "none")

(* The buffer is full once it has overflowed, and has everything before. *)
BufferInv ==
    /\ stage \in {"resolve", "execute"} => total = 0 /\ ~overflowed
    /\ verb \in Perforce =>
         /\ held = IF overflowed THEN Ceiling ELSE written
         /\ held <= Ceiling
         /\ stage \in {"shape", "executed", "answered"} /\ ~failed =>
              ~overflowed /\ written = total

(* The files before `next` are returned, up to the first that did not fit. *)
ShapeInv ==
    /\ returned = [i \in 1..Len(returned) |-> i]
    /\ Len(returned) <= maxFiles
    /\ truncated /\ verb \in Perforce => Len(returned) < next - 1
    /\ ~truncated => Len(returned) = next - 1
    /\ stage = "p4" => verb \in Perforce
    /\ stage = "shape" => verb = "p4.describe"
    /\ stage \notin {"shape", "executed", "answered"} =>
         ~truncated /\ next = 1 /\ files = <<>> /\ budget = 0
    /\ stage \in {"executed", "answered"} /\ ~failed => next = Len(files) + 1
    /\ verb # "p4.describe" => files = <<>> /\ next = 1
    /\ verb \in Sys \cup {"p4.changes"} => ~truncated
    /\ verb \in TeamCity /\ stage \in {"executed", "answered"} /\ ~failed =>
         (truncated <=> held < total)

ResultInv ==
    /\ status # "none" <=> stage = "answered"
    /\ status = "ok" => ~failed
    /\ stage \notin {"executed", "answered"} => ~failed

(* What the files returned cost and what is left are within max_bytes. *)
SpendInv == SumOf(Costs) \in 0 .. maxBytes - budget

CommandInv == TypeOK /\ AdmitInv /\ BufferInv /\ ShapeInv /\ ResultInv /\ LimitsKept

IInv == CommandInv /\ SpendInv

--------------------------------------------------------------------------------
(* Refinement *)

HandlingPhase ==
    CASE stage = "resolve"  -> "waiting"
      [] stage = "answered" -> "settled"
      [] OTHER              -> "running"

(* The one command, before its audit line. *)
It(value) == [f \in {"it"} |-> value]

H == INSTANCE Handling WITH
        Commands  <- {"it"},
        Claimed   <- TRUE,
        permitted <- It(Permitted),
        phase     <- It(HandlingPhase),
        result    <- It(status),
        logged    <- It("none"),
        told      <- It("none")

(***************************************************************************)
(* handle from Resolve on: a command whose claim was granted is denied if  *)
(* and only if it is not valid, before any tool is started; otherwise it   *)
(* runs, and comes to one final result, however its deadline, its tool and *)
(* its budget turn out.  It is what Session takes for granted of execute.  *)
(***************************************************************************)
ImplementsHandling == H!Spec
================================================================================
