-------------------------- MODULE MCClientSessions --------------------------
(* ClientSessions for TLC: which commands clients give to which thread.    *)
EXTENDS ClientSessions, TLC

CONSTANTS w1, w2

MCCommands ==
  (w1 :> {"create", "touch", "open"}) @@ (w2 :> {"close", "delete", "link", "unlink"})
=============================================================================
