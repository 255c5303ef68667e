----------------------------- MODULE MCSettings -----------------------------
(* Model-checking instance of Settings: a factory value, a new one and one   *)
(* the checks refuse; requests that change the network's name and password  *)
(* together, or the admin password; a boot that cannot read the password,    *)
(* or nothing at all.                                                       *)
EXTENDS Settings

CONSTANTS factory, new, invalid

MCValues == {factory, new, invalid}
MCValid == [k \in Keys |-> {factory, new}]
MCFactory == [k \in Keys |-> factory]
MCUnreadable == {{}, {"pass"}, Keys}
MCChanges ==
    {[k \in Keys |-> IF k \in S THEN v ELSE Absent] :
        S \in {{"ssid", "pass"}, {"admin"}}, v \in MCValues}

\* The settings of a save are a local of the handler, and the settings in use
\* are loaded when the board comes up: what the variables still say after the
\* one, or before the other, is read by nothing.
LiveView ==
    <<pc, store, restarting, adopted, acked, failed,
      IF pc \in {"saving", "committing"} THEN <<written, updated, reboot>> ELSE <<>>,
      IF pc # "off" THEN <<settings, unread>> ELSE <<>>>>
=============================================================================
