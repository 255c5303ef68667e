------------------------------ MODULE Settings ------------------------------
(***************************************************************************)
(* The Wi-Fi and admin settings: chat_settings_load at boot, the settings  *)
(* POST of http_server.c, chat_settings_save key by key into NVS, and the  *)
(* restart that may follow.  Flash operations fail, and the power goes,    *)
(* between any two steps.                                                  *)
(*                                                                         *)
(* The HTTPD task runs one POST at a time; restart_task and the power cut  *)
(* in anywhere.  A value stands for an SSID, a password ("" is an open     *)
(* network), an admin password or a channel.                               *)
(***************************************************************************)
EXTENDS Integers, Sequences, FiniteSets

CONSTANTS
    Values,         \* values a field may be given
    ValidValues,    \* for each key, the ones the checks let pass
    Factory,        \* the built-in defaults
    Absent,         \* not in NVS, or not in the request
    Changes,        \* what requests may ask for
    Unreadable,     \* sets of keys whose reads may fail together at boot
    MaxFailed       \* bound: different failed saves since the last good one

KeyOrder == <<"ssid", "pass", "admin", "chan">>
Keys == {"ssid", "pass", "admin", "chan"}

ASSUME SettingsAssumption ==
    /\ Absent \notin Values
    /\ ValidValues \in [Keys -> SUBSET Values]
    /\ Factory \in [Keys -> Values]
    /\ \A k \in Keys : Factory[k] \in ValidValues[k]
    /\ Changes \subseteq [Keys -> Values \cup {Absent}]
    /\ Unreadable \subseteq SUBSET Keys
    /\ MaxFailed \in Nat

VARIABLES
    pc,         \* "off", "serving", "saving" or "committing"
    written,    \* keys of KeyOrder the save in progress has set
    updated,    \* the settings it saves
    reboot,     \* its request asked for a restart
    nvs,        \* what NVS reads return
    flash,      \* what a restart will find
    settings,   \* ctx->settings
    restarting, \* restart_task waits for its second to pass
    unread,     \* history variable: keys this boot could not read
    adopted,    \* history variable: keys saved with the default of such a boot
    acked,      \* history variable: what the last save that succeeded was meant to store
    failed      \* history variable: the same of saves that failed or were cut since

store == <<nvs, flash>>
vars == <<pc, written, updated, reboot, nvs, flash, settings, restarting,
          unread, adopted, acked, failed>>

Absents == [k \in Keys |-> Absent]

-----------------------------------------------------------------------------
(* Pure parts of the code; a Bad... definition is a plausible bug in the    *)
(* one after it.                                                            *)

IsValid(s) == \A k \in Keys : s[k] \in ValidValues[k]

\* chat_settings_load: absent keys keep their default, and one invalid field
\* brings all defaults back.
Merged(stored) == [k \in Keys |-> IF stored[k] = Absent THEN Factory[k] ELSE stored[k]]
Loaded(stored) == IF IsValid(Merged(stored)) THEN Merged(stored) ELSE Factory

\* settings_post_handler: fields that are not given stay, the others are checked.
BadAcceptable(change) == TRUE
Acceptable(change) ==
    \A k \in Keys : change[k] # Absent => change[k] \in ValidValues[k]
Update(change) == [k \in Keys |-> IF change[k] = Absent THEN settings[k] ELSE change[k]]

\* Keys the save in progress takes over from a default nobody chose: a save
\* writes every key, given or not.  The others of its settings are meant.
TakenOver == {k \in unread \cup adopted : updated[k] = settings[k]}
Meant == [k \in Keys |-> IF k \in TakenOver THEN acked[k] ELSE updated[k]]

-----------------------------------------------------------------------------
Init ==
    /\ pc = "off" /\ written = 0 /\ reboot = FALSE /\ restarting = FALSE
    /\ nvs = Absents /\ flash = Absents
    /\ updated = Factory /\ settings = Factory /\ acked = Factory
    /\ failed = {} /\ unread = {} /\ adopted = {}

\* app_main: load, then start the access point with what was loaded.  nvs_open
\* or any nvs_get_... may fail: such a field keeps its default.
PowerOn ==
    /\ pc = "off" /\ pc' = "serving"
    /\ \E lost \in Unreadable :
          LET read == [k \in Keys |-> IF k \in lost THEN Absent ELSE nvs[k]]
          IN  settings' = Loaded(read) /\ unread' = lost
    /\ UNCHANGED <<written, updated, reboot, store, restarting, adopted, acked, failed>>

\* nvs_flash_init asks for an erase, or the user erases the flash.
Erase ==
    /\ pc = "off"
    /\ nvs' = Absents /\ flash' = Absents
    /\ acked' = Factory /\ failed' = {} /\ adopted' = {}
    /\ UNCHANGED <<pc, written, updated, reboot, settings, restarting, unread>>

\* A request with the admin password and acceptable fields.  A request that
\* is refused changes nothing.
Post(change, password, restart) ==
    /\ pc = "serving" /\ pc' = "saving"
    /\ password = settings["admin"]
    /\ Acceptable(change)
    /\ Cardinality(failed) < MaxFailed
    /\ updated' = Update(change) /\ reboot' = restart /\ written' = 0
    /\ UNCHANGED <<store, settings, restarting, unread, adopted, acked, failed>>

\* nvs_set_... of the next key: visible at once, in flash now or at the commit.
SetKey ==
    /\ pc = "saving" /\ written < Len(KeyOrder)
    /\ LET k == KeyOrder[written + 1]
       IN  /\ nvs' = [nvs EXCEPT ![k] = updated[k]]
           /\ \E v \in {flash[k], updated[k]} : flash' = [flash EXCEPT ![k] = v]
           /\ adopted' = adopted \cup ({k} \cap TakenOver)
    /\ written' = written + 1
    /\ pc' = IF written' = Len(KeyOrder) THEN "committing" ELSE "saving"
    /\ UNCHANGED <<updated, reboot, settings, restarting, unread, acked, failed>>

\* What may be in flash after a commit that did not succeed.
PartlyFlushed ==
    {f \in [Keys -> Values \cup {Absent}] : \A k \in Keys : f[k] \in {flash[k], nvs[k]}}

\* nvs_open, a set or the commit fails: the request is answered save_failed
\* and the settings in use stay.  A set that failed may still reach flash.
SaveFails ==
    /\ pc \in {"saving", "committing"} /\ pc' = "serving"
    /\ IF pc = "committing"
       THEN flash' \in PartlyFlushed /\ UNCHANGED adopted
       ELSE LET k == KeyOrder[written + 1]
            IN  /\ \E v \in {flash[k], updated[k]} : flash' = [flash EXCEPT ![k] = v]
                /\ adopted' = adopted \cup ({k} \cap TakenOver)
    /\ failed' = failed \cup {Meant}
    /\ UNCHANGED <<written, updated, reboot, nvs, settings, restarting, unread, acked>>

\* The save succeeded: the settings are in use at once (the access point keeps
\* its network until the restart).  The answer, for which there may be no memory,
\* announces the restart before restart_task is created, and nobody looks at
\* whether it could be: an announced restart may not happen.
BadCommit ==
    /\ pc = "committing" /\ pc' = "serving"
    /\ settings' = updated /\ acked' = Meant /\ failed' = {}
    /\ unread' = {} /\ adopted' = TakenOver
    /\ restarting' \in {restarting, restarting \/ reboot}
    /\ UNCHANGED <<written, updated, reboot, store>>
Commit ==
    /\ pc = "committing" /\ pc' = "serving"
    /\ flash' = nvs
    /\ settings' = updated /\ acked' = Meant /\ failed' = {}
    /\ unread' = {} /\ adopted' = TakenOver
    /\ restarting' \in {restarting, restarting \/ reboot}
    /\ UNCHANGED <<written, updated, reboot, nvs>>

\* The board goes down, a save in progress with it.
Down ==
    /\ pc # "off" /\ pc' = "off"
    /\ \/ pc = "committing" /\ flash' \in PartlyFlushed
       \/ pc # "committing" /\ flash' = flash
    /\ nvs' = flash'
    /\ failed' = IF pc \in {"saving", "committing"} THEN failed \cup {Meant} ELSE failed
    /\ restarting' = FALSE
    /\ UNCHANGED <<written, updated, reboot, settings, unread, adopted, acked>>

PowerLoss == Down
RestartTask == restarting /\ Down

SomePost ==
    \E change \in Changes, password \in Values, restart \in BOOLEAN :
        Post(change, password, restart)

Next ==
    \/ PowerOn \/ Erase \/ SomePost \/ SetKey \/ SaveFails \/ Commit
    \/ PowerLoss \/ RestartTask

Spec == Init /\ [][Next]_vars

-----------------------------------------------------------------------------
(* Properties *)

TypeOK ==
    /\ pc \in {"off", "serving", "saving", "committing"}
    /\ written \in 0..Len(KeyOrder)
    /\ reboot \in BOOLEAN /\ restarting \in BOOLEAN
    /\ {updated, settings, acked} \subseteq [Keys -> Values]
    /\ {nvs, flash} \subseteq [Keys -> Values \cup {Absent}]
    /\ failed \subseteq [Keys -> Values]
    /\ unread \subseteq Keys /\ adopted \subseteq Keys

\* Values of a field that somebody chose: what the last save that succeeded was
\* meant to store, or a failed or interrupted one since.
Chosen(k) == {acked[k]} \cup {s[k] : s \in failed}

\* Whatever mixture of keys failed saves and power cuts leave behind, every
\* field in use is one somebody chose: no mixture makes the load fall back to
\* the factory's network and admin password, and once a save has succeeded
\* nothing of the failed ones before it is left, also after a restart.  The
\* exceptions are a key this boot could not read, and one that a save wrote
\* back after such a boot: it keeps the factory value until a save gives
\* another.
FieldsAreChosen ==
    pc # "off" => \A k \in Keys \ (unread \cup adopted) : settings[k] \in Chosen(k)

\* The settings in use pass the checks, and so would what the next boot finds,
\* whatever a save left there: the load never falls back on all defaults.
UsableSettings == IsValid(settings) /\ IsValid(Merged(nvs)) /\ IsValid(Merged(flash))
=============================================================================
