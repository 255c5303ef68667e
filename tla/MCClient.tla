------------------------------ MODULE MCClient ------------------------------
(* Model-checking instances of Client.  A socket that is closing outlives    *)
(* the current one, so there are more names than sockets in use.             *)
EXTENDS Client

CONSTANTS s1, s2

MCSockets == {s1, s2}
Symmetry == Permutations(MCSockets)
=============================================================================
