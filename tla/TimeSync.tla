------------------------------ MODULE TimeSync ------------------------------
(***************************************************************************)
(* The server's clock: common/utils.c and the samples of chat/sessions.c.  *)
(* The board has no battery and no Internet; nothing sets its system clock.*)
(* Each browser's frames carry its time, the server keeps the difference   *)
(* to its uptime, and messages are stamped with the difference that two    *)
(* thirds of the joined browsers agree on, or with the uptime.             *)
(***************************************************************************)
EXTENDS Integers, FiniteSets, FiniteSetsExt, Functions

CONSTANTS
    CLIENTS,                    \* slots
    Honest,                     \* slots of browsers with a right clock
    VALID_EPOCH_START_S, VALID_EPOCH_END_S, TIME_SYNC_TOLERANCE_S,
    PowerOnTime,                \* the time at which the board was started
    Latest,                     \* a frame of a right clock arrives this late
    Claims,                     \* timestamps the others may send
    MaxUptime,                  \* bound
    None                        \* time_offset_valid = false

ASSUME TimeSyncAssumption ==
    /\ IsFiniteSet(CLIENTS) /\ Honest \subseteq CLIENTS
    /\ {VALID_EPOCH_START_S, VALID_EPOCH_END_S, TIME_SYNC_TOLERANCE_S,
        PowerOnTime, Latest, MaxUptime} \subseteq Nat
    /\ Claims \subseteq Nat
    /\ MaxUptime < VALID_EPOCH_START_S
    /\ None \notin Int

VARIABLES
    uptime,         \* seconds since power-on
    joined,         \* slots that are active and joined
    time_offset     \* time_offset_s of each slot, or None

vars == <<uptime, joined, time_offset>>

ValidEpoch(t) == VALID_EPOCH_START_S <= t /\ t <= VALID_EPOCH_END_S
TrueTime == PowerOnTime + uptime

-----------------------------------------------------------------------------
(* The consensus; a Bad... definition is a plausible bug in the one after it. *)

Sampled == {c \in joined : time_offset[c] # None}

BadThreshold(n) == (n * 2) \div 3
Threshold(n) == (n * 2 + 2) \div 3

\* The slots whose offsets lie in the window that begins at that of c.
BadCluster(c) ==
    {d \in Sampled : /\ time_offset[d] >= time_offset[c]
                     /\ time_offset[d] < time_offset[c] + TIME_SYNC_TOLERANCE_S}
Cluster(c) ==
    {d \in Sampled : /\ time_offset[d] >= time_offset[c]
                     /\ time_offset[d] <= time_offset[c] + TIME_SYNC_TOLERANCE_S}

\* The clusters that may be selected: of the largest size, the first slot's
\* in the code; the slots have no order here, so any.
Selected ==
    {c \in Sampled : /\ Cardinality(Cluster(c)) >= Threshold(Cardinality(Sampled))
                     /\ \A d \in Sampled :
                           Cardinality(Cluster(d)) <= Cardinality(Cluster(c))}

\* Integer division in C truncates towards zero.
Quotient(a, n) == IF a >= 0 THEN a \div n ELSE - ((- a) \div n)
ConsensusOffsets ==
    {Quotient(MapThenSumSet(LAMBDA d : time_offset[d], Cluster(c)),
              Cardinality(Cluster(c))) : c \in Selected}

\* current_timestamp_s: what a message may be stamped with.
CurrentTimestamps ==
    IF ValidEpoch(uptime) THEN {uptime}
    ELSE IF ConsensusOffsets = {} THEN {uptime}
    ELSE {IF ValidEpoch(uptime + o) THEN uptime + o ELSE uptime : o \in ConsensusOffsets}

-----------------------------------------------------------------------------
TimeInit ==
    /\ uptime = 0
    /\ joined = {}
    /\ time_offset = [c \in CLIENTS |-> None]

\* chat_sessions_update_time_sample: an impossible timestamp is ignored.
Sample(c, timestamp) ==
    time_offset' = IF ValidEpoch(timestamp)
                   THEN [time_offset EXCEPT ![c] = timestamp - uptime]
                   ELSE time_offset

\* What a frame of c may say the time is: a right clock's time when it was
\* sent, at most Latest ago; of the others, anything.
Timestamps(c) == IF c \in Honest THEN (TrueTime - Latest)..TrueTime ELSE Claims

\* A join registers the browser, without an offset of whoever had the slot,
\* and is its first sample.
JoinAt(c, timestamp) ==
    /\ c \notin joined
    /\ joined' = joined \cup {c}
    /\ Sample(c, timestamp)
    /\ UNCHANGED uptime

\* Any later frame of a joined browser is a sample too.
FrameAt(c, timestamp) ==
    /\ c \in joined
    /\ Sample(c, timestamp)
    /\ UNCHANGED <<uptime, joined>>

\* The slot is marked closing or cleared.
Leave(c) ==
    /\ c \in joined
    /\ joined' = joined \ {c}
    /\ time_offset' = [time_offset EXCEPT ![c] = None]
    /\ UNCHANGED uptime

Second ==
    /\ uptime < MaxUptime
    /\ uptime' = uptime + 1
    /\ UNCHANGED <<joined, time_offset>>

TimeNext ==
    \/ \E c \in CLIENTS : \E t \in Timestamps(c) : JoinAt(c, t) \/ FrameAt(c, t)
    \/ \E c \in CLIENTS : Leave(c)
    \/ Second

TimeSpec == TimeInit /\ [][TimeNext]_vars

-----------------------------------------------------------------------------
(* Properties *)

Lying == Sampled \ Honest

\* As long as fewer than two thirds of the browsers sampled have a wrong
\* clock, they cannot move the server's: a stamp is the uptime, or off by no
\* more than the tolerance and the delay of a frame.  Wrong clocks that all
\* stay near a right one are averaged with it, and so are old samples.
StampNearTruth ==
    3 * Cardinality(Lying) < 2 * Cardinality(Sampled) =>
        \A t \in CurrentTimestamps :
            \/ t = uptime
            \/ /\ t >= TrueTime - TIME_SYNC_TOLERANCE_S - Latest
               /\ t <= TrueTime + TIME_SYNC_TOLERANCE_S

\* When two thirds of the browsers sampled, or more, have a right clock, the
\* server knows the time, however late their frames came within the tolerance.
AgreementDecides ==
    (/\ Sampled # {}
     /\ 3 * Cardinality(Lying) <= Cardinality(Sampled))
    => uptime \notin CurrentTimestamps
=============================================================================
