-------------------------- MODULE MCMessageHistory --------------------------
(* Model-checking instance of MessageHistory: a ring of three messages and   *)
(* seven ids, so that the ring wraps twice within one boot, ids run out, and  *)
(* several restarts fit between.                                            *)
EXTENDS MessageHistory

MCMaxMessages == 3
MCMaxSafeId == 7
=============================================================================
