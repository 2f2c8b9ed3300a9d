------------------------------ MODULE MCProcess ------------------------------
(* A small instance of Process: "game" begins "gamesecret", two segments.  *)
EXTENDS Process, TLC

MCLonger == {<<"game", "gamesecret">>}

SegLists == {<<"depot">>, <<"game">>, <<"depot", "game">>, <<"depot", "gamesecret">>,
             <<"depot", "game", "art">>}

Text(segs, tail) == [segs |-> segs, tail |-> tail, rooted |-> TRUE]
MCPaths == {Text(segs, tail) : segs \in SegLists, tail \in Tails}
             \cup {Text(<<>>, "/"), Text(<<>>, "/*")}

Game == Text(<<"depot", "game">>, "")
Base == [file |-> "private", decodes |-> TRUE, endpoint |-> "wss", max |-> 0,
         token |-> Secret("wellFormed", "none"),
         scopes |-> <<Game>>,
         p4 |-> [enabled |-> TRUE, port |-> TRUE, user |-> TRUE, timeout |-> 0,
                 ticket |-> Secret("", "none")],
         tc |-> [enabled |-> TRUE, url |-> "http", timeout |-> 0,
                 token |-> Secret("", "wellFormed"), caFile |-> "none"]]

(* How the scopes may be written: all of it, or with a slash and without *)
ScopeLists == {<<Text(<<>>, "/")>>, <<Text(<<"game">>, "/"), Game>>}

(* Documents Load accepts: both sections, one, none; a section that is not
   enabled keeps what is wrong with it *)
Accepted ==
    {Base, [Base EXCEPT !.max = 32, !.token = Secret("", "wellFormed")],
     [Base EXCEPT !.p4.enabled = FALSE, !.scopes = <<Text(<<"depot">>, "*")>>],
     [Base EXCEPT !.tc.enabled = FALSE, !.tc.caFile = "blank", !.p4.timeout = -1],
     [Base EXCEPT !.tc.caFile = "blank"], [Base EXCEPT !.tc.caFile = "certificates"]}
    \cup {[Base EXCEPT !.scopes = l] : l \in ScopeLists}

BadSecrets == {Secret("malformed", "none"), Secret("", "none"), Secret("", ""),
               Secret("wellFormed", "wellFormed"), Secret("", "shared")}

Refused ==
    {[Base EXCEPT !.file = f] : f \in BadFiles}
    \cup {[Base EXCEPT !.decodes = FALSE], [Base EXCEPT !.endpoint = "query"]}
    \cup {[Base EXCEPT !.max = n] : n \in {-1, 33}}
    \cup {[Base EXCEPT !.token = s] : s \in BadSecrets}
    \cup {[Base EXCEPT !.tc.token = s] : s \in BadSecrets \ {Secret("malformed", "none")}}
    \cup {[Base EXCEPT !.scopes = l] :
             l \in {<<>>, <<Game, Text(<<"depot">>, "*")>>, <<[Game EXCEPT !.rooted = FALSE]>>}}
    \cup {[Base EXCEPT !.p4.ticket = Secret("", "missing"), !.p4.enabled = FALSE],
          [Base EXCEPT !.p4.port = FALSE]}

(* What is on the disk: every way to write the scopes, a tool that cannot be
   built beside one that is not enabled, and what is no document *)
MCDocs ==
    {[Base EXCEPT !.scopes = l] : l \in ScopeLists}
    \cup {[Base EXCEPT !.tc.caFile = "blank", !.p4.enabled = FALSE,
                       !.scopes = <<Text(<<"depot">>, "*")>>],
          [Base EXCEPT !.decodes = FALSE]}

ASSUME LoadAssumption ==
    /\ \A d \in Accepted : Load(d) # NoConfig
    /\ \A d \in Refused : Load(d) = NoConfig

MCSymmetry == Permutations(MainLines) \cup Permutations(SessionLines)
================================================================================
