------------------------------- MODULE MCWsRead -------------------------------
(* Small instances of WsRead: a tick is half a heartbeat. *)
EXTENDS WsRead

(* One fragment that arrives in two parts, two fragments of which the last is
   split, and a message over the limit of two fragments. *)
MCLayouts == {<<"split">>, <<"whole", "split">>, <<"whole", "whole", "whole">>}

(* A message that the broker sends in two fragments. *)
MCFragmented == {<<"whole", "whole">>}
================================================================================
