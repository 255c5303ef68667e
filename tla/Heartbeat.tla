----------------------------- MODULE Heartbeat ------------------------------
(***************************************************************************)
(* The heartbeat of chat/sessions.c with its clock: the heartbeat task,    *)
(* which queues at most one sweep, the HTTPD task, which runs the sweep    *)
(* and reads the sockets when it gets to it, and browsers that answer      *)
(* pings.  Time is counted in seconds (device_uptime_s); the timestamps    *)
(* the code stores are kept as ages, capped where no comparison tells      *)
(* them apart any more.                                                    *)
(***************************************************************************)
EXTENDS Integers, FiniteSets

CONSTANTS
    CLIENTS,                \* client slots, each with its browser
    Responsive,             \* browsers that answer; the others fall silent
    HEARTBEAT_INTERVAL_S,
    WS_JOIN_TIMEOUT_S,
    AnswerTime,             \* a responsive browser answers within this time
    ShortStall,             \* an HTTPD task that is not late serves within it
    MaxQueue                \* bound on the pings or pongs under way per browser

ASSUME HeartbeatAssumption ==
    /\ IsFiniteSet(CLIENTS) /\ Responsive \subseteq CLIENTS
    /\ {HEARTBEAT_INTERVAL_S, WS_JOIN_TIMEOUT_S, MaxQueue} \subseteq Nat \ {0}
    /\ AnswerTime \in Nat /\ ShortStall \in Nat
    /\ AnswerTime + ShortStall < HEARTBEAT_INTERVAL_S
    /\ AnswerTime + ShortStall < WS_JOIN_TIMEOUT_S

VARIABLES
    task,           \* the heartbeat task: "sleep", "due", "queue", "clear"
    server,         \* ctx->server is set
    heartbeat_sweep_pending,
    queued,         \* sweeps in the HTTPD work queue
    httpd,          \* the HTTPD task: "select", or "read" after its work queue
    stalled,        \* seconds the HTTPD task has left work waiting
    sweep_age,      \* now - last_heartbeat_sweep_s
    slot,           \* what the server knows of each client
    net             \* what is under way between it and its browser

vars == <<task, server, heartbeat_sweep_pending, queued, httpd, stalled,
          sweep_age, slot, net>>

H == HEARTBEAT_INTERVAL_S
J == WS_JOIN_TIMEOUT_S

Cap(n, limit) == IF n > limit THEN limit ELSE n

FreeSlot == [state |-> "free", is_alive |-> FALSE, registered_age |-> 0, ping_age |-> 0]
QuietNet == [pings |-> 0, pongs |-> 0, join |-> FALSE, waited |-> 0]

\* Something for the HTTPD task to do: select would return at once.
Work ==
    \/ queued > 0
    \/ \E c \in CLIENTS : \/ net[c].pongs > 0 \/ net[c].join
                          \/ slot[c].state = "closing"

\* The assumption on the HTTPD task: it comes round within ShortStall, or it
\* is so late that the sweep it finds in its queue knows it is delayed.
ServesNow == stalled <= ShortStall \/ sweep_age > H

-----------------------------------------------------------------------------
Init ==
    /\ task = "sleep" /\ server = FALSE
    /\ heartbeat_sweep_pending = FALSE /\ queued = 0
    /\ httpd = "select" /\ stalled = 0 /\ sweep_age = 0
    /\ slot = [c \in CLIENTS |-> FreeSlot]
    /\ net = [c \in CLIENTS |-> QuietNet]

\* chat_http_start_server, after the heartbeat task was created.
StartServer ==
    /\ ~ server /\ server' = TRUE
    /\ UNCHANGED <<task, heartbeat_sweep_pending, queued, httpd, stalled,
                   sweep_age, slot, net>>

\* A second passes.  The heartbeat task must have run (it sleeps one second),
\* and responsive browsers have answered what is older than AnswerTime.
Tick ==
    /\ task = "sleep" /\ httpd = "select"
    /\ \A c \in Responsive :
         /\ net[c].pings > 0 => net[c].waited < AnswerTime
         /\ slot[c].state = "unjoined" /\ ~ net[c].join =>
              slot[c].registered_age < AnswerTime
    /\ task' = "due"
    /\ sweep_age' = Cap(sweep_age + 1, H + 1)
    /\ stalled' = IF Work THEN Cap(stalled + 1, ShortStall + 1) ELSE 0
    /\ slot' = [c \in CLIENTS |->
                  [slot[c] EXCEPT
                     !.registered_age = IF slot[c].state = "unjoined"
                                        THEN Cap(@ + 1, J) ELSE 0,
                     !.ping_age = IF slot[c].state = "joined"
                                  THEN Cap(@ + 1, H) ELSE 0]]
    /\ net' = [c \in CLIENTS |->
                 [net[c] EXCEPT !.waited = IF net[c].pings > 0
                                           THEN Cap(@ + 1, AnswerTime) ELSE 0]]
    /\ UNCHANGED <<server, heartbeat_sweep_pending, queued, httpd>>

-----------------------------------------------------------------------------
(* heartbeat_task *)

\* It wakes, and marks a sweep pending unless one is.
Wake ==
    /\ task = "due"
    /\ IF server /\ ~ heartbeat_sweep_pending
       THEN task' = "queue" /\ heartbeat_sweep_pending' = TRUE
       ELSE task' = "sleep" /\ UNCHANGED heartbeat_sweep_pending
    /\ UNCHANGED <<server, queued, httpd, stalled, sweep_age, slot, net>>

QueueWork ==
    /\ task = "queue" /\ task' = "sleep" /\ queued' = queued + 1
    /\ UNCHANGED <<server, heartbeat_sweep_pending, httpd, stalled, sweep_age,
                   slot, net>>

BadQueueWorkFails ==
    /\ task = "queue" /\ task' = "sleep"
    /\ UNCHANGED <<server, heartbeat_sweep_pending, queued, httpd, stalled,
                   sweep_age, slot, net>>
QueueWorkFails ==
    /\ task = "queue" /\ task' = "clear"
    /\ UNCHANGED <<server, heartbeat_sweep_pending, queued, httpd, stalled,
                   sweep_age, slot, net>>

ClearPending ==
    /\ task = "clear" /\ task' = "sleep" /\ heartbeat_sweep_pending' = FALSE
    /\ UNCHANGED <<server, queued, httpd, stalled, sweep_age, slot, net>>

-----------------------------------------------------------------------------
(* The HTTPD task: a round of its loop runs one queued work item, if there   *)
(* is one, and only then reads every socket that has something.             *)

\* The previous sweep is more than a heartbeat period ago.
BadDelayed == FALSE
Delayed == sweep_age > H

\* heartbeat_sweep_work on one slot.  ping tells whether a ping is sent.
BadSweptNeverAlive(s, delayed) ==
    IF s.state = "joined" /\ s.ping_age >= H
    THEN [slot |-> [s EXCEPT !.ping_age = 0], ping |-> TRUE]
    ELSE [slot |-> s, ping |-> FALSE]
Swept(s, delayed) ==
    LET keep == [slot |-> s, ping |-> FALSE]
        close == [slot |-> [FreeSlot EXCEPT !.state = "closing"], ping |-> FALSE]
        probe == [slot |-> [s EXCEPT !.is_alive = FALSE, !.ping_age = 0], ping |-> TRUE]
    IN  CASE s.state = "unjoined" /\ delayed ->
                 [keep EXCEPT !.slot.registered_age = 0]
          [] s.state = "unjoined" /\ ~ delayed ->
                 IF s.registered_age < J THEN keep ELSE close
          [] s.state = "joined" /\ ~ s.is_alive ->
                 IF delayed THEN probe ELSE IF s.ping_age < H THEN keep ELSE close
          [] s.state = "joined" /\ s.is_alive ->
                 IF s.ping_age < H THEN keep ELSE probe
          [] OTHER -> keep

Sweep ==
    /\ httpd = "select" /\ queued > 0 /\ ServesNow
    /\ httpd' = "read" /\ queued' = queued - 1
    /\ heartbeat_sweep_pending' = FALSE
    /\ sweep_age' = 0
    /\ LET result == [c \in CLIENTS |-> Swept(slot[c], Delayed)]
       IN  /\ slot' = [c \in CLIENTS |-> result[c].slot]
           /\ net' = [c \in CLIENTS |->
                        IF result[c].ping
                        THEN [net[c] EXCEPT !.pings = Cap(@ + 1, MaxQueue)]
                        ELSE net[c]]
    /\ UNCHANGED <<task, server, stalled>>

\* select returned for a socket alone.
NoSweep ==
    /\ httpd = "select" /\ queued = 0 /\ Work /\ ServesNow
    /\ httpd' = "read"
    /\ UNCHANGED <<task, server, heartbeat_sweep_pending, queued, stalled,
                   sweep_age, slot, net>>

\* One request of every readable session: a join, a pong or any other frame
\* of a joined client (ensure_slot), or the end of a closing connection.
Heard(c) ==
    CASE slot[c].state = "unjoined" /\ net[c].join ->
             [FreeSlot EXCEPT !.state = "joined", !.is_alive = TRUE]
      [] slot[c].state = "joined" /\ net[c].pongs > 0 ->
             [slot[c] EXCEPT !.is_alive = TRUE]
      [] slot[c].state = "closing" -> FreeSlot
      [] OTHER -> slot[c]

ReadSockets ==
    /\ httpd = "read" /\ httpd' = "select" /\ stalled' = 0
    /\ slot' = [c \in CLIENTS |-> Heard(c)]
    /\ net' = [c \in CLIENTS |->
                 CASE slot[c].state = "closing" -> QuietNet
                   [] net[c].join -> [net[c] EXCEPT !.join = FALSE]
                   [] ~ net[c].join /\ net[c].pongs > 0 ->
                          [net[c] EXCEPT !.pongs = @ - 1]
                   [] OTHER -> net[c]]
    /\ UNCHANGED <<task, server, heartbeat_sweep_pending, queued, sweep_age>>

\* A handshake: the slot is registered and its join awaited.
Handshake(c) ==
    /\ server /\ httpd = "select" /\ slot[c].state = "free"
    /\ slot' = [slot EXCEPT ![c] = [FreeSlot EXCEPT !.state = "unjoined",
                                                    !.is_alive = TRUE]]
    /\ net' = [net EXCEPT ![c] = QuietNet]
    /\ UNCHANGED <<task, server, heartbeat_sweep_pending, queued, httpd, stalled,
                   sweep_age>>

-----------------------------------------------------------------------------
(* Browsers: script.js sends join when its socket opens and answers a ping.  *)

SendJoin(c) ==
    /\ slot[c].state = "unjoined" /\ ~ net[c].join
    /\ net' = [net EXCEPT ![c].join = TRUE]
    /\ UNCHANGED <<task, server, heartbeat_sweep_pending, queued, httpd, stalled,
                   sweep_age, slot>>

SendPong(c) ==
    /\ c \in Responsive
    /\ net[c].pings > 0 /\ net[c].pongs < MaxQueue
    /\ net' = [net EXCEPT ![c].pings = @ - 1, ![c].pongs = @ + 1,
                          ![c].waited = 0]
    /\ UNCHANGED <<task, server, heartbeat_sweep_pending, queued, httpd, stalled,
                   sweep_age, slot>>

Browser(c) == SendJoin(c) \/ SendPong(c)

Next ==
    \/ StartServer \/ Tick
    \/ Wake \/ QueueWork \/ QueueWorkFails \/ ClearPending
    \/ Sweep \/ NoSweep \/ ReadSockets
    \/ \E c \in CLIENTS : Handshake(c) \/ Browser(c)

Spec == Init /\ [][Next]_vars

\* Time passes, both tasks run, and a responsive browser answers.
Fairness ==
    /\ WF_vars(Tick)
    /\ WF_vars(Wake \/ QueueWork \/ QueueWorkFails \/ ClearPending)
    /\ WF_vars(Sweep \/ NoSweep) /\ WF_vars(ReadSockets)
    /\ \A c \in Responsive : WF_vars(Browser(c))

FairSpec == Spec /\ Fairness

-----------------------------------------------------------------------------
(* Properties *)

TypeOK ==
    /\ task \in {"sleep", "due", "queue", "clear"}
    /\ server \in BOOLEAN /\ heartbeat_sweep_pending \in BOOLEAN
    /\ queued \in 0..1
    /\ httpd \in {"select", "read"}
    /\ stalled \in 0..(ShortStall + 1) /\ sweep_age \in 0..(H + 1)
    /\ slot \in [CLIENTS -> [state : {"free", "unjoined", "joined", "closing"},
                             is_alive : BOOLEAN, registered_age : 0..J,
                             ping_age : 0..H]]
    /\ net \in [CLIENTS -> [pings : 0..MaxQueue, pongs : 0..MaxQueue,
                            join : BOOLEAN, waited : 0..AnswerTime]]

\* The pending flag says exactly whether a sweep is queued or about to be: it
\* can neither get stuck, which would end all sweeps, nor let two pile up.
FlagMatchesQueue ==
    heartbeat_sweep_pending <=> (queued = 1 \/ task \in {"queue", "clear"})

\* A browser that answers in time is never closed, neither for a missing pong
\* nor for a missing join, also when the HTTPD task was held up for longer
\* than a heartbeat period with the answer waiting in the socket.
ResponsiveIsKept == \A c \in Responsive : slot[c].state # "closing"

\* Whatever the sweep found, the flag is cleared again and sweeps go on.
SweepsGoOn == heartbeat_sweep_pending ~> ~ heartbeat_sweep_pending

\* A browser that fell silent, or never joined, loses its slot in the end,
\* unless the HTTPD task is late for its sweeps again and again.
SilentIsClosed ==
    \/ \A c \in CLIENTS \ Responsive :
          (slot[c].state # "free") ~> (slot[c].state = "free")
    \/ []<>(sweep_age > H)
=============================================================================
