----------------------------- MODULE MessageLog -----------------------------
(***************************************************************************)
(* What the message history of the chat server promises, without flash,    *)
(* ring buffer or crashes inside an operation: an ever growing set of      *)
(* published message ids, and a window of the newest ids of the running    *)
(* boot that can still be replayed.  MessageHistory implements it.         *)
(***************************************************************************)
EXTENDS Integers

CONSTANTS
    MAX_MESSAGES,   \* ids the window keeps
    MAX_SAFE_ID     \* the largest id a JSON number carries exactly

VARIABLES
    published,      \* ids some browser may have received
    window          \* ids the server can replay

vars == <<published, window>>

Init == published = {} /\ window = {}

\* A new message gets an id above every id ever published or retained, and
\* pushes out of the window whatever is MAX_MESSAGES or more ids older.
Store ==
    \E id \in 1..MAX_SAFE_ID :
        /\ \A n \in published \cup window : n < id
        /\ window' = {n \in window \cup {id} : n > id - MAX_MESSAGES}
        /\ UNCHANGED published

\* A stored message is published once, after everything published before it.
Publish ==
    \E id \in window :
        /\ \A n \in published : n < id
        /\ published' = published \cup {id}
        /\ UNCHANGED window

\* A restart loses the window (it lives in RAM) and no published id.
Restart == window' = {} /\ UNCHANGED published

\* Formatting the flash forgets which ids were ever used.
Erase == published' = {} /\ window' = {}

Next == Store \/ Publish \/ Restart \/ Erase

Spec == Init /\ [][Next]_vars
=============================================================================
