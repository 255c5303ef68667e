------------------------------- MODULE Utils --------------------------------
(***************************************************************************)
(* The helpers of common/utils.c together.  Either the clocks run, or a    *)
(* payload is written letter by letter, as bytes or as JSON: the parts     *)
(* share no state, so one of them moves at a time.                         *)
(***************************************************************************)
EXTENDS TimeSync, JsonText

CONSTANTS
    BYTES,                  \* bytes a payload is written in
    MaxBytes, MaxLetters    \* bounds

ASSUME UtilsAssumption ==
    BYTES \subseteq 0..255 /\ MaxBytes \in Nat /\ MaxLetters \in Nat

VARIABLES bytes, letters

text == <<bytes, letters>>

Init == TimeInit /\ bytes = <<>> /\ letters = <<>>

WriteByte ==
    /\ TimeInit /\ letters = <<>> /\ Len(bytes) < MaxBytes
    /\ \E b \in BYTES : bytes' = Append(bytes, b)
    /\ UNCHANGED <<vars, letters>>

WriteLetter ==
    /\ TimeInit /\ bytes = <<>> /\ Len(letters) < MaxLetters
    /\ \E ch \in Letters : letters' = Append(letters, ch)
    /\ UNCHANGED <<vars, bytes>>

Clocks == bytes = <<>> /\ letters = <<>> /\ TimeNext /\ UNCHANGED text

Next == WriteByte \/ WriteLetter \/ Clocks
Spec == Init /\ [][Next]_<<vars, text>>

\* A payload is taken for UTF-8 exactly if it is, and a payload cJSON could
\* read is let through to it exactly if it nests no deeper than the limit and
\* holds neither a NUL, decoded or not, nor a string that does not end.
TextExact ==
    /\ ValidUtf8(bytes) <=> WellFormed(bytes)
    /\ Readable(letters) => (PassesScan(letters) <=> Harmless(letters))
=============================================================================
