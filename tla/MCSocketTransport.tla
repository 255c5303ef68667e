------------------------- MODULE MCSocketTransport -------------------------
(* Model-checking instance of SocketTransport: three frames of a header of   *)
(* two bytes and a payload of two, a deadline of three ticks, and a send()   *)
(* that may block for two, so that it can begin before the deadline and end  *)
(* after it.                                                                *)
EXTENDS SocketTransport
=============================================================================
