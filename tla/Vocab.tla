--------------------------------- MODULE Vocab ---------------------------------
(***************************************************************************)
(* vocab.Resolve (internal/vocab/vocab.go) and the argument schemas of     *)
(* protocol v0: which command is admitted, and with which reason another   *)
(* is denied.                                                              *)
(*                                                                         *)
(* A supplied value is one of the classes of JSON values that validate     *)
(* tells apart (see Values).  Where a depot path lies, which checkScope    *)
(* decides from connector.yml, is a class of the value.  Arguments are a   *)
(* function from the names supplied to their values.                       *)
(***************************************************************************)
EXTENDS Integers, Sequences

CONSTANT NotAnObject    \* args that are no JSON object

--------------------------------------------------------------------------------
(* The vocabulary.  Mutating verbs, and the one of the content class, are all
   among the reserved names. *)
Sys      == {"sys.ping", "sys.version", "sys.capabilities"}
TeamCity == {"teamcity.server.info", "teamcity.build.get"}
Perforce == {"p4.describe", "p4.changes"}
Compiled == Sys \cup TeamCity \cup Perforce
Reserved == {"teamcity.build.queue", "p4.file_contents", "jenkins.build.trigger",
             "ghes.commit.get", "horde.server.info"}
Content  == {"p4.file_contents"}

Tools == {"teamcity", "perforce"}

(* The section of connector.yml a compiled verb needs, if any. *)
NeededTools(verb) ==
    CASE verb \in TeamCity -> {"teamcity"}
      [] verb \in Perforce -> {"perforce"}
      [] OTHER -> {}

Arg(name, kind, required) == [name |-> name, kind |-> kind, required |-> required]

(* The arguments of the compiled verbs, in the order of the source *)
Schema(verb) ==
    CASE verb = "teamcity.build.get" -> <<Arg("build_id", "int", TRUE)>>
      [] verb = "p4.describe" -> <<Arg("change", "int", TRUE),
                                   Arg("max_files", "int", FALSE),
                                   Arg("include_diff", "off", FALSE)>>
      [] verb = "p4.changes" -> <<Arg("path", "path", TRUE), Arg("max", "int", FALSE)>>
      [] OTHER -> <<>>

Names(verb) == {Schema(verb)[i].name : i \in 1..Len(Schema(verb))}

--------------------------------------------------------------------------------
(* Integers in and out of the range of the argument; numbers that are no int64;
   depot paths in scope, outside of it, of bad form, and too long. *)
Values == {"null", "true", "false", "inRange", "outOfRange", "notInt64",
           "path", "outsidePath", "badPath", "longPath"}

IntReason(value) ==
    CASE value = "inRange"    -> "none"
      [] value = "outOfRange" -> "argument_range"
      [] OTHER                -> "argument_type"

(* json.Unmarshal leaves a bool FALSE when it is given null. *)
OffReason(value) ==
    CASE value \in {"false", "null"} -> "none"
      [] value = "true" -> "content_verb_disabled"
      [] OTHER -> "argument_type"

(* A null is the empty string here, which does not begin with "//". *)
PathReason(value) ==
    CASE value = "path"        -> "none"
      [] value = "outsidePath" -> "out_of_scope_path"
      [] value = "longPath"    -> "argument_range"
      [] value \in {"badPath", "null"} -> "argument_pattern"
      [] OTHER -> "argument_type"

(* Arg.validate *)
Reason(kind, value) ==
    CASE kind = "int"  -> IntReason(value)
      [] kind = "off"  -> OffReason(value)
      [] kind = "path" -> PathReason(value)

ArgReason(arg, args) ==
    IF arg.name \in DOMAIN args THEN Reason(arg.kind, args[arg.name])
    ELSE IF arg.required THEN "missing_argument" ELSE "none"

(* The reason of the first check that denies, or "none" *)
First(reasons) ==
    LET denials == {i \in 1..Len(reasons) : reasons[i] # "none"}
    IN  IF denials = {} THEN "none"
        ELSE reasons[CHOOSE i \in denials : \A j \in denials : i <= j]

(* Fault: an argument the schema does not name is ignored. *)
IgnoresUnknown(verb, args) ==
    IF args = NotAnObject THEN "malformed_args"
    ELSE First([i \in 1..Len(Schema(verb)) |-> ArgReason(Schema(verb)[i], args)])

(* Verb.validateArgs: unknown names first, then the schema in its order *)
ArgsReason(verb, args) ==
    IF args = NotAnObject THEN "malformed_args"
    ELSE IF ~(DOMAIN args \subseteq Names(verb)) THEN "unknown_argument"
    ELSE First([i \in 1..Len(Schema(verb)) |-> ArgReason(Schema(verb)[i], args)])

(* Fault: the tool's section is looked for before the name. *)
ToolFirst(verb, args, tools) ==
    First(<<IF tools # {} THEN "none" ELSE "tool_not_configured",
            IF verb \in Compiled \cup Reserved THEN "none" ELSE "unknown_verb",
            IF verb \in Compiled THEN "none" ELSE "verb_not_compiled",
            IF NeededTools(verb) \subseteq tools THEN "none" ELSE "tool_not_configured",
            ArgsReason(verb, args)>>)

(* Resolve: the reason of the denial, or "none" *)
Resolve(verb, args, tools) ==
    First(<<IF verb \in Compiled \cup Reserved THEN "none" ELSE "unknown_verb",
            IF verb \in Compiled THEN "none" ELSE "verb_not_compiled",
            IF verb \in Content THEN "content_verb_disabled" ELSE "none",
            IF NeededTools(verb) \subseteq tools THEN "none" ELSE "tool_not_configured",
            ArgsReason(verb, args)>>)

--------------------------------------------------------------------------------
(* What an argument of each kind may be. *)
Accepted == [int |-> {"inRange"}, off |-> {"false", "null"}, path |-> {"path"}]

(* The arguments satisfy the schema of the verb. *)
Satisfies(verb, args) ==
    /\ args # NotAnObject
    /\ DOMAIN args \subseteq Names(verb)
    /\ \A i \in 1..Len(Schema(verb)) :
         LET arg == Schema(verb)[i]
         IN  IF arg.name \in DOMAIN args
             THEN args[arg.name] \in Accepted[arg.kind]
             ELSE ~arg.required
================================================================================
