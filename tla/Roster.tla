------------------------------- MODULE Roster -------------------------------
(***************************************************************************)
(* What the server promises about who is online: a relation between users  *)
(* and connections in which a user has one connection and a connection one *)
(* user.  Sessions implements it.                                          *)
(***************************************************************************)
CONSTANTS FDS, USERS

VARIABLE online     \* set of <<user, connection>> pairs

Init == online = {}

\* A user joins on a connection that is nobody else's; an older connection
\* of the same user goes offline in the same step.
Join ==
    \E u \in USERS, c \in FDS :
        /\ \A p \in online : p[2] = c => p[1] = u
        /\ online' = {p \in online : p[1] # u} \cup {<<u, c>>}

\* Any connections go offline: closed, failed, silent or refused.
Leave == online' \in SUBSET online

Next == Join \/ Leave

Spec == Init /\ [][Next]_online
=============================================================================
