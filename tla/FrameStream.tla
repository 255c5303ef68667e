---------------------------- MODULE FrameStream ----------------------------
(***************************************************************************)
(* What a WebSocket connection promises the browser at its other end: it   *)
(* reads whole frames, in the order they were sent, each at most once,     *)
(* until the connection ends; and nothing after that.                      *)
(***************************************************************************)
EXTENDS Integers, Sequences

CONSTANT Frames     \* numbers of the frames, in the order of sending

VARIABLES
    received,       \* frames the browser has read
    ended           \* the connection is shut down

vars == <<received, ended>>

Init == received = <<>> /\ ended = FALSE

Receive ==
    /\ ~ ended /\ UNCHANGED ended
    /\ \E f \in Frames :
          /\ \A i \in DOMAIN received : received[i] < f
          /\ received' = Append(received, f)

End == ~ ended /\ ended' = TRUE /\ UNCHANGED received

Next == Receive \/ End

Spec == Init /\ [][Next]_vars
=============================================================================
