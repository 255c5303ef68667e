----------------------------- MODULE MCSessions -----------------------------
(* Model-checking instances of Sessions.  There are more descriptors than    *)
(* slots, as the server opens MAX_CLIENTS + 2 sockets, so that handshakes    *)
(* are rejected and descriptors reused.                                      *)
EXTENDS Sessions, TLC

CONSTANTS f1, f2, f3, f4, u1, u2

MCFds == {f1, f2, f3, f4}
MCUsers == {u1, u2}
MCFewFds == {f1, f2}
Symmetry == Permutations(MCFds) \cup Permutations(MCUsers)

\* What the browser of a closing slot still shows distinguishes no states: no
\* property reads it, a closing slot never joins again, and Deletion clears it
\* before the descriptor is used anew.
JoinedView ==
    <<control, client_slots, sock,
      [fd \in JoinedFds(client_slots) |-> <<view[fd], latest[fd]>>]>>
=============================================================================
