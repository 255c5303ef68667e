---------------------------- MODULE MCHeartbeat -----------------------------
(* Model-checking instance of Heartbeat: a responsive browser and a silent   *)
(* one, the shortest heartbeat period the configuration allows (5 s) and a   *)
(* join timeout shorter than it, as in the code.                            *)
EXTENDS Heartbeat

CONSTANTS fast, silent

MCClients == {fast, silent}
MCResponsive == {fast}
=============================================================================
