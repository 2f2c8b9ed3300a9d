-------------------------------- MODULE Config --------------------------------
(***************************************************************************)
(* config.Load (internal/config/config.go): from what is on the disk to    *)
(* the configuration of a process, or to a refusal to start.  All errors   *)
(* of Load end the process alike, so only success is told from failure.    *)
(*                                                                         *)
(* A document is a record of the classes of values that the checks tell    *)
(* apart: how a file can be read, what is wrong with a URL, whether a      *)
(* secret has the form of one.  A depot path is its segments up to the     *)
(* first wildcard, and the tail after the last of them; only there are     *)
(* withinPrefixList and the normalisation of scopes about more than        *)
(* equality of segments.                                                   *)
(***************************************************************************)
EXTENDS Integers, Sequences, SequencesExt

CONSTANTS
    Longer,     \* <<a, b>> \in Longer: the name a begins, and is not, the name b
    NoConfig    \* Load has failed

--------------------------------------------------------------------------------
(* Depot paths (internal/vocab/vocab.go) *)

(* "" ends in a name, "/" in a slash; "*" and "/*" stand for either wildcard
   and all that follows it.  A path that is rooted begins "//". *)
Tails == {"", "/", "*", "/*"}

Texts == [segs : Seq(STRING), tail : Tails, rooted : BOOLEAN]

Wild(path) == path.tail \in {"*", "/*"}

(* Left out: a "*" between a "." and a later "...", where the cut is at the
   latter.  A name that a wildcard follows directly stays as a name. *)
LiteralPrefix(path) ==
    [path EXCEPT !.tail = IF path.tail \in {"/", "/*"} THEN "/" ELSE ""]

(* strings.HasPrefix(s, p), for texts without wildcards *)
HasPrefix(s, p) ==
    IF p.tail = "/"
    THEN IsPrefix(p.segs, s.segs) /\ (Len(p.segs) < Len(s.segs) \/ s.tail = "/")
    ELSE LET n == Len(p.segs)
         IN  /\ n > 0 /\ n <= Len(s.segs)
             /\ IsPrefix(Front(p.segs), s.segs)
             /\ s.segs[n] = p.segs[n] \/ <<p.segs[n], s.segs[n]>> \in Longer

(* Fault: the bare strings.HasPrefix. *)
WithinBare(s, prefixes) == \E p \in Range(prefixes) : HasPrefix(s, p)

(* withinPrefixList: an entry that does not end in a slash is skipped. *)
Within(s, prefixes) ==
    \E p \in Range(prefixes) :
        /\ p.tail = "/"
        /\ s = [p EXCEPT !.tail = ""] \/ HasPrefix(s, p)

(* Arg.checkScope, for ScopeDepot *)
InScope(path, prefixes) == Within(LiteralPrefix(path), prefixes)

--------------------------------------------------------------------------------
(* Secrets: a value inline, or a file that holds it.  "" is no value, a file
   of blanks gives it too. *)
SecretValues == {"", "malformed", "wellFormed"}
BadFiles == {"missing", "directory", "shared", "unreadable"}
Secret(inline, file) == [inline |-> inline, file |-> file]

(* One turn of resolveSecretFiles; the mode is checked before the file is read. *)
Resolvable(s) ==
    s.file # "none" => s.inline = "" /\ s.file \notin BadFiles
Resolved(s) == IF s.file = "none" THEN s.inline ELSE s.file

SecretTexts == [inline : SecretValues, file : SecretValues \cup BadFiles \cup {"none"}]

Secrets(doc) == {doc.token, doc.p4.ticket, doc.tc.token}

(* Config and its parts, as connector.yml may give them *)
Perforces == [enabled : BOOLEAN, port : BOOLEAN, user : BOOLEAN, timeout : Int,
              ticket : SecretTexts]
TeamCities == [enabled : BOOLEAN, url : {"", "other", "http"}, timeout : Int,
               token : SecretTexts,
               caFile : {"none", "certificates", "blank", "missing"}]
Documents == [file : BadFiles \cup {"private"}, decodes : BOOLEAN,
              endpoint : {"wss", "none", "notWss", "noHost", "query", "userinfo", "fragment"},
              max : Int, token : SecretTexts, scopes : Seq(Texts),
              p4 : Perforces, tc : TeamCities]

--------------------------------------------------------------------------------
(* A zero is replaced, any other number is kept: a negative timeout too. *)
OrDefault(n, default) == IF n = 0 THEN default ELSE n

(* Fault: the scopes are kept as they are written. *)
AsWritten(scopes) == scopes

(* Validate: each scope ends in a slash. *)
Normalised(scopes) == [i \in 1..Len(scopes) |-> [scopes[i] EXCEPT !.tail = "/"]]

(* Validate has nothing to say of a scope. *)
ValidScope(p) == p.rooted /\ ~Wild(p)

ValidPerforce(p4, scopes) ==
    p4.enabled => /\ p4.port /\ p4.user
                  /\ scopes # <<>>
                  /\ \A p \in Range(scopes) : ValidScope(p)

ValidTeamCity(tc) ==
    tc.enabled => tc.url = "http" /\ tc.token # ""

(* Validate, of the configuration in which secrets and defaults are filled *)
Valid(c) ==
    /\ c.endpoint = "wss"
    /\ c.token = "wellFormed"
    /\ c.max >= 1 /\ c.max <= 32
    /\ ValidPerforce(c.p4, c.scopes)
    /\ ValidTeamCity(c.tc)

(* applyDefaults and resolveSecretFiles *)
Filled(doc) ==
    [endpoint |-> doc.endpoint,
     token    |-> Resolved(doc.token),
     max      |-> OrDefault(doc.max, 4),
     scopes   |-> doc.scopes,
     p4       |-> [doc.p4 EXCEPT !.ticket = Resolved(doc.p4.ticket),
                                 !.timeout = OrDefault(doc.p4.timeout, 20)],
     tc       |-> [doc.tc EXCEPT !.token = Resolved(doc.tc.token),
                                 !.timeout = OrDefault(doc.tc.timeout, 10)]]

(* Load.  A key it does not know makes the document one that is not decoded;
   the secrets of a disabled section are resolved all the same. *)
Load(doc) ==
    IF /\ doc.file = "private" /\ doc.decodes
       /\ \A s \in Secrets(doc) : Resolvable(s)
       /\ Valid(Filled(doc))
    THEN LET c == Filled(doc)
         IN  IF c.p4.enabled THEN [c EXCEPT !.scopes = Normalised(@)] ELSE c
    ELSE NoConfig

(* Config.Tools *)
Tools(c) ==
    {t \in {"perforce", "teamcity"} :
        IF t = "perforce" THEN c.p4.enabled ELSE c.tc.enabled}

(* NewTeamCity reads the file of certificates; NewPerforce cannot fail. *)
Builds(c, t) ==
    t = "teamcity" => c.tc.caFile \in {"none", "certificates"}

--------------------------------------------------------------------------------
(* What a list of scopes is meant to be: a path lies in it if its whole names
   lie at or below one of them, name by name; a name that a wildcard follows
   directly is not a whole one. *)
WholeNames(path) == IF path.tail = "*" THEN Front(path.segs) ELSE path.segs

AtOrBelow(path, scopes) == \E p \in Range(scopes) : IsPrefix(p.segs, WholeNames(path))

(* "//depot/game..." for the scope "//depot/game/": the literal part is its
   root, but the path also matches what is beside it. *)
RootThenWild(path, scopes) ==
    path.tail = "*" /\ \E p \in Range(scopes) : p.segs = path.segs
================================================================================
