------------------------------ MODULE Sessions ------------------------------
(***************************************************************************)
(* Connections, client slots, identities and presence: chat/sessions.c and *)
(* server/websocket_server.c, with the frames of chat/protocol.c reduced   *)
(* to what they do to slots and sockets.                                   *)
(*                                                                         *)
(* Everything runs on the HTTPD task: an action is one handler, one        *)
(* attempt of the presence broadcast, or one session deletion; pc says     *)
(* which is due.  A send may fail at any time, and its client is closed    *)
(* (chat_ws_close_client).  The clock of the sweep is abstracted: any slot *)
(* whose state allows it may time out (the module Heartbeat has the clock).*)
(***************************************************************************)
EXTENDS Integers, FiniteSets, FiniteSetsExt

CONSTANTS
    MAX_CLIENTS,    \* chat_config.h: client slots
    FDS,            \* socket descriptors; the server opens more than slots
    USERS,          \* user ids
    NoFd, NoUser    \* fd = -1 and an empty user_id

ASSUME SessionsAssumption ==
    /\ MAX_CLIENTS \in Nat \ {0}
    /\ NoFd \notin FDS
    /\ NoUser \notin USERS
    /\ IsFiniteSet(FDS)

VARIABLES
    pc,             \* "idle", "presence" or "delete"
    cur,            \* the descriptor whose session ends, or NoFd
    then,           \* what follows the presence broadcast
    attempt,        \* loop counter of broadcast_online_users_now
    client_slots,
    sock,           \* "closed", "http", "ws" (upgraded), "shut" (shut down),
                    \* "stuck" (the slot is closing, but shutdown failed)
    view,           \* the users named by the last list a descriptor could read
    latest          \* its latest list: "whole"; "short", entries are missing;
                    \* or "missed", which was not built or cannot be read

control == <<pc, cur, then, attempt>>
vars == <<control, client_slots, sock, view, latest>>

Slots == 0..(MAX_CLIENTS - 1)
FreeSlot == [fd |-> NoFd, active |-> FALSE, closing |-> FALSE, joined |-> FALSE,
             is_alive |-> FALSE, user_id |-> NoUser]

SlotsOf(s, fd) == {i \in Slots : s[i].active /\ s[i].fd = fd}
FreeSlots(s) == {i \in Slots : ~ s[i].active}
ActiveSlots == {i \in Slots : client_slots[i].active}
JoinedSlots(s) == {i \in Slots : s[i].active /\ ~ s[i].closing /\ s[i].joined}
JoinedFds(s) == {s[i].fd : i \in JoinedSlots(s)}
NamedFds(s) ==
    {s[i].fd : i \in {j \in Slots : s[j].active /\ s[j].joined /\ s[j].user_id # NoUser}}

\* The users who are online: all that a list can name.
Online(s) == {s[i].user_id : i \in JoinedSlots(s)}

\* The user of a joined connection (chat_sessions_check_identity).
BadIdentityOf(s, fd) == NoUser
IdentityOf(s, fd) ==
    LET own == {i \in JoinedSlots(s) : s[i].fd = fd}
    IN  IF own = {} THEN NoUser ELSE s[Min(own)].user_id

-----------------------------------------------------------------------------
(* Slot operations.  A definition called Bad... is a plausible bug in the   *)
(* definition after it; nothing uses it.                                    *)

BadMarkSlotClosing(slot) == [slot EXCEPT !.closing = TRUE, !.is_alive = FALSE]
MarkSlotClosing(slot) ==
    [slot EXCEPT !.closing = TRUE, !.joined = FALSE, !.is_alive = FALSE,
                 !.user_id = NoUser]

\* chat_sessions_mark_closing for each descriptor of F.
MarkClosing(s, F) ==
    [i \in Slots |-> IF s[i].active /\ s[i].fd \in F THEN MarkSlotClosing(s[i])
                     ELSE s[i]]

\* chat_sessions_remove_by_fd
BadRemove(s, fd) ==
    [i \in Slots |-> IF s[i].active /\ ~ s[i].closing /\ s[i].fd = fd
                     THEN FreeSlot ELSE s[i]]
Remove(s, fd) ==
    [i \in Slots |-> IF s[i].active /\ s[i].fd = fd THEN FreeSlot ELSE s[i]]

\* chat_sessions_ensure_slot: its result, and the slots after it.
BadSlotReady(s, fd) == TRUE
SlotReady(s, fd) ==
    IF SlotsOf(s, fd) # {} THEN ~ s[Min(SlotsOf(s, fd))].closing
    ELSE FreeSlots(s) # {}
NewSlot(fd) == [FreeSlot EXCEPT !.fd = fd, !.active = TRUE, !.is_alive = TRUE]
BadEnsureSlot(s, fd) == [s EXCEPT ![Min(FreeSlots(s))] = NewSlot(fd)]
EnsureSlot(s, fd) ==
    IF SlotsOf(s, fd) # {} THEN [s EXCEPT ![Min(SlotsOf(s, fd))].is_alive = TRUE]
    ELSE [s EXCEPT ![Min(FreeSlots(s))] = NewSlot(fd)]

\* chat_sessions_update_identity: the slot it picks (fd_slot, else free_slot),
\* the slots it retires, and the slots after it.
IdentitySlot(s, fd) ==
    LET own == {i \in SlotsOf(s, fd) : ~ s[i].closing}
    IN  IF own # {} THEN Max(own) ELSE Min(FreeSlots(s))
BadReplacedSlots(s, fd, u) == {}
ReplacedSlots(s, fd, u) ==
    {i \in Slots \ {IdentitySlot(s, fd)} : s[i].active /\ s[i].user_id = u}
ReplacedFds(s, fd, u) == {s[i].fd : i \in ReplacedSlots(s, fd, u)} \ {fd}
UpdateIdentity(s, fd, u) ==
    [i \in Slots |->
        IF i = IdentitySlot(s, fd)
        THEN [fd |-> fd, active |-> TRUE, closing |-> FALSE, joined |-> TRUE,
              is_alive |-> TRUE, user_id |-> u]
        ELSE IF i \in ReplacedSlots(s, fd, u) THEN MarkSlotClosing(s[i])
        ELSE s[i]]

\* chat_ws_close_client for each descriptor of F, after its slot was marked:
\* the browser and the HTTP server will see the connection end, unless
\* shutdown fails (G), which is only logged.
BadShutdown(F) == {sock}
Shutdown(F) ==
    {[fd \in FDS |-> IF fd \notin F \/ sock[fd] = "shut" THEN sock[fd]
                     ELSE IF fd \in G THEN "stuck" ELSE "shut"] : G \in SUBSET F}

\* Sends to the joined clients of slots s that fail: any may, and those to a
\* socket that is not an open WebSocket must (chat_ws_send_text).
MayFail(s) == {F \in SUBSET JoinedFds(s) :
                  \A fd \in JoinedFds(s) : sock[fd] # "ws" => fd \in F}

\* chat_sessions_build_online_users_payload for slots s, read by the browsers
\* of R.  An entry, or the id in it, that finds no memory is left out, and the
\* list is sent all the same; without its type no browser reads it.
Misses(R) ==
    /\ latest' = [fd \in FDS |-> IF fd \in R THEN "missed" ELSE latest[fd]]
    /\ UNCHANGED view
Reads(R, s) ==
    \/ \E L \in SUBSET Online(s) :
         /\ view' = [fd \in FDS |-> IF fd \in R THEN L ELSE view[fd]]
         /\ latest' = [fd \in FDS |-> IF fd \notin R THEN latest[fd]
                                      ELSE IF L = Online(s) THEN "whole" ELSE "short"]
    \/ Misses(R)

-----------------------------------------------------------------------------
(* Where the HTTPD task goes next *)

Return == pc' = "idle" /\ cur' = NoFd /\ then' = "return" /\ attempt' = 0

\* A handler returns an error: the HTTP server deletes the session.
DeleteSession(fd) ==
    pc' = "delete" /\ cur' = fd /\ then' = "return" /\ attempt' = 0

\* chat_sessions_broadcast_online_users, followed by what k names.
BroadcastPresence(k, fd) ==
    pc' = "presence" /\ cur' = fd /\ then' = k /\ attempt' = 0

Continue(sockets) ==
    \/ then = "return" /\ Return /\ sock' = sockets
    \/ then = "delete" /\ DeleteSession(cur) /\ sock' = sockets
    \/ then = "close" /\ Return /\ sock' = [sockets EXCEPT ![cur] = "closed"]

-----------------------------------------------------------------------------
Init ==
    /\ pc = "idle" /\ cur = NoFd /\ then = "return" /\ attempt = 0
    /\ client_slots = [i \in Slots |-> FreeSlot]
    /\ sock = [fd \in FDS |-> "closed"]
    /\ view = [fd \in FDS |-> {}]
    /\ latest = [fd \in FDS |-> "missed"]

\* The HTTP server accepts a connection; the lowest free descriptor or any.
Accept(fd) ==
    /\ pc = "idle" /\ sock[fd] = "closed"
    /\ sock' = [sock EXCEPT ![fd] = "http"]
    /\ UNCHANGED <<control, client_slots, view, latest>>

\* A plain HTTP session ends.
HttpEnds(fd) ==
    /\ pc = "idle" /\ sock[fd] = "http"
    /\ DeleteSession(fd)
    /\ UNCHANGED <<client_slots, sock, view, latest>>

\* chat_ws_pre_handshake_handler takes a slot, then the upgrade is answered.
Handshake(fd) ==
    /\ pc = "idle" /\ sock[fd] = "http"
    /\ SlotReady(client_slots, fd)
    /\ client_slots' = EnsureSlot(client_slots, fd)
    /\ \/ sock' = [sock EXCEPT ![fd] = "ws"] /\ UNCHANGED control
       \/ DeleteSession(fd) /\ UNCHANGED sock
    /\ UNCHANGED <<view, latest>>

\* All slots are taken: the handshake is rejected.
HandshakeRejected(fd) ==
    /\ pc = "idle" /\ sock[fd] = "http"
    /\ ~ SlotReady(client_slots, fd)
    /\ DeleteSession(fd)
    /\ UNCHANGED <<client_slots, sock, view, latest>>

-----------------------------------------------------------------------------
(* Frames: chat_ws_handler.  Receives is its ensure_slot; every frame that  *)
(* passes marks its slot alive, which is what Ensured is.                   *)

Readable(fd) == pc = "idle" /\ sock[fd] \in {"ws", "shut", "stuck"}
Receives(fd) == Readable(fd) /\ SlotReady(client_slots, fd)
Ensured(fd) == EnsureSlot(client_slots, fd)
IsJoined(fd) == fd \in JoinedFds(client_slots)

\* The slot is closing already: nothing it sends is looked at any more.
FrameRejected(fd) ==
    /\ Readable(fd) /\ ~ SlotReady(client_slots, fd)
    /\ DeleteSession(fd)
    /\ UNCHANGED <<client_slots, sock, view, latest>>

\* mark_broken_session (a frame that cannot be read) and the payload that is
\* too large: the slot closes, the others hear of it, the session is deleted.
FrameBroken(fd) ==
    /\ Receives(fd)
    /\ client_slots' = MarkClosing(Ensured(fd), {fd})
    /\ IF IsJoined(fd) THEN BroadcastPresence("delete", fd) ELSE DeleteSession(fd)
    /\ UNCHANGED <<sock, view, latest>>

\* No memory for the frame: the session is deleted as it is.
FrameNoMemory(fd) ==
    /\ Receives(fd)
    /\ client_slots' = Ensured(fd)
    /\ DeleteSession(fd)
    /\ UNCHANGED <<sock, view, latest>>

\* A CLOSE frame; the HTTP server ends such a session after the handler.
CloseFrame(fd) ==
    /\ Receives(fd)
    /\ client_slots' = MarkClosing(Ensured(fd), {fd})
    /\ sock' \in Shutdown({fd})
    /\ IF IsJoined(fd) THEN BroadcastPresence("return", NoFd) ELSE UNCHANGED control
    /\ UNCHANGED <<view, latest>>

\* chat_ws_close_client, and ESP_OK: a fragment, a binary frame, a PONG or
\* malformed JSON before join.  Presence follows when the session is reaped.
FrameDropped(fd) ==
    /\ Receives(fd)
    /\ client_slots' = MarkClosing(Ensured(fd), {fd})
    /\ sock' \in Shutdown({fd})
    /\ UNCHANGED <<control, view, latest>>

\* A frame that changes no slot but its own aliveness: a PONG, a JSON pong,
\* malformed JSON of a joined client, whose error reply may fail unnoticed.
FrameIgnored(fd) ==
    /\ Receives(fd) /\ IsJoined(fd)
    /\ client_slots' = Ensured(fd)
    /\ sock' \in {sock, [sock EXCEPT ![fd] = "shut"]}
    /\ UNCHANGED <<control, view, latest>>

\* send_error_and_close: not joined, a wrong sender, a bad join, an id store
\* that cannot be read.  The error it returns deletes the session.
FrameRefused(fd) ==
    /\ Receives(fd)
    /\ client_slots' = MarkClosing(Ensured(fd), {fd})
    /\ sock' \in Shutdown({fd})
    /\ DeleteSession(fd)
    /\ UNCHANGED <<view, latest>>

\* An error reply (unknown type, invalid message, no ids left) that fails.
ReplyFails(fd) ==
    /\ Receives(fd) /\ IsJoined(fd)
    /\ client_slots' = Ensured(fd)
    /\ sock' \in {sock, [sock EXCEPT ![fd] = "shut"]}
    /\ DeleteSession(fd)
    /\ UNCHANGED <<view, latest>>

\* getOnlineUser: the list goes to the client that asked.
GetOnlineUser(fd) ==
    /\ Receives(fd) /\ IsJoined(fd) /\ sock[fd] = "ws"
    /\ client_slots' = Ensured(fd)
    /\ Reads({fd}, client_slots)
    /\ UNCHANGED <<control, sock>>

\* handle_join_message up to update_identity and its session_replaced errors:
\* an older connection of the user is closed.  Then the replay, the history
\* boundary and the online list are sent, and everybody hears of the change.
JoinFrame(fd, u) ==
    LET s == UpdateIdentity(Ensured(fd), fd, u)
    IN  /\ Receives(fd) /\ sock[fd] = "ws"
        /\ IdentityOf(client_slots, fd) \in {NoUser, u}
        /\ client_slots' = MarkClosing(s, ReplacedFds(Ensured(fd), fd, u))
        /\ sock' \in Shutdown(ReplacedFds(Ensured(fd), fd, u))
        /\ Reads({fd}, client_slots')
        /\ BroadcastPresence("return", NoFd)

\* The same when one of those sends fails: the client is closed again.
JoinBreaks(fd, u) ==
    LET s == UpdateIdentity(Ensured(fd), fd, u)
        closed == ReplacedFds(Ensured(fd), fd, u) \cup {fd}
    IN  /\ Receives(fd)
        /\ IdentityOf(client_slots, fd) \in {NoUser, u}
        /\ client_slots' = MarkClosing(s, closed)
        /\ sock' \in Shutdown(closed)
        /\ DeleteSession(fd)
        /\ UNCHANGED <<view, latest>>

\* text, newGroup and historyRequest go to every joined client; those whose
\* send fails are closed, and then the presence list is sent.
BroadcastFrame(fd) ==
    /\ Receives(fd) /\ IsJoined(fd)
    /\ \E F \in MayFail(Ensured(fd)) :
         /\ client_slots' = MarkClosing(Ensured(fd), F)
         /\ sock' \in Shutdown(F)
         /\ IF F # {} THEN BroadcastPresence("return", NoFd) ELSE UNCHANGED control
    /\ UNCHANGED <<view, latest>>

\* historyResponse goes to the targets it names, found by relay_payload_to_
\* targets without a look at closing; F: those whose send fails.  After one
\* that does comes the presence list and then a reply, which may fail too.
RelayFrame(fd) ==
    /\ Receives(fd) /\ IsJoined(fd)
    /\ \E F \in SUBSET NamedFds(Ensured(fd)) :
         /\ client_slots' = MarkClosing(Ensured(fd), F)
         /\ sock' \in Shutdown(F)
         /\ IF F = {} THEN UNCHANGED control
            ELSE \/ BroadcastPresence("return", NoFd)
                 \/ BroadcastPresence("delete", fd)
    /\ UNCHANGED <<view, latest>>

-----------------------------------------------------------------------------
\* broadcast_online_users_now, one attempt: the list is built, sent to every
\* joined client, and the loop ends when no send failed or after its bound.
BadPresenceAttempt ==
    /\ pc = "presence"
    /\ \E F \in MayFail(client_slots) : \E so \in Shutdown(F) :
         /\ client_slots' = MarkClosing(client_slots, F)
         /\ Reads(JoinedFds(client_slots) \ F, client_slots)
         /\ Continue(so)
BadPresenceRetry ==
    /\ pc = "presence"
    /\ \E F \in MayFail(client_slots) :
         IF F # {} THEN attempt' = attempt + 1 /\ UNCHANGED <<pc, cur, then, sock>>
         ELSE Continue(sock)
    /\ UNCHANGED <<client_slots, view, latest>>
PresenceAttempt ==
    /\ pc = "presence"
    /\ \E F \in MayFail(client_slots) : \E so \in Shutdown(F) :
         /\ client_slots' = MarkClosing(client_slots, F)
         /\ Reads(JoinedFds(client_slots) \ F, client_slots)
         /\ IF F # {} /\ attempt < MAX_CLIENTS
            THEN attempt' = attempt + 1 /\ sock' = so /\ UNCHANGED <<pc, cur, then>>
            ELSE Continue(so)

\* The list cannot be built: the broadcast is given up.
PresenceNoMemory ==
    /\ pc = "presence"
    /\ Continue(sock)
    /\ Misses(JoinedFds(client_slots))
    /\ UNCHANGED client_slots

\* chat_ws_session_close_handler: the slot is freed, and the descriptor is
\* closed after the others have been told.  What its browser shows is nobody's
\* concern any more.
Forgets(fd) ==
    /\ view' = [view EXCEPT ![fd] = {}]
    /\ latest' = [latest EXCEPT ![fd] = "missed"]
BadDeletion ==
    /\ pc = "delete"
    /\ client_slots' = Remove(client_slots, cur)
    /\ Return /\ sock' = [sock EXCEPT ![cur] = "closed"]
    /\ Forgets(cur)
Deletion ==
    /\ pc = "delete"
    /\ client_slots' = Remove(client_slots, cur)
    /\ IF SlotsOf(client_slots, cur) # {}
       THEN BroadcastPresence("close", cur) /\ UNCHANGED sock
       ELSE Return /\ sock' = [sock EXCEPT ![cur] = "closed"]
    /\ Forgets(cur)

\* The HTTP server reads the end of a connection the browser closed ...
PeerCloses(fd) ==
    /\ pc = "idle" /\ sock[fd] \in {"ws", "stuck"}
    /\ DeleteSession(fd)
    /\ UNCHANGED <<client_slots, sock, view, latest>>

\* ... or of one that was shut down here.
Reap(fd) ==
    /\ pc = "idle" /\ sock[fd] = "shut"
    /\ DeleteSession(fd)
    /\ UNCHANGED <<client_slots, sock, view, latest>>

\* heartbeat_sweep_work.  C: the slots it closes, which did not join or did
\* not answer their ping.  P: the slots it pings.  F: the pings that fail.
Sweep ==
    /\ pc = "idle"
    /\ \E C \in SUBSET {i \in Slots : /\ client_slots[i].active
                                      /\ ~ client_slots[i].closing
                                      /\ ~ (client_slots[i].joined /\
                                            client_slots[i].is_alive)} :
       \E P \in SUBSET (JoinedSlots(client_slots) \ C) :
       \E F \in SUBSET {client_slots[i].fd : i \in P} :
         LET swept == [i \in Slots |->
                IF i \in C THEN MarkSlotClosing(client_slots[i])
                ELSE [client_slots[i] EXCEPT !.is_alive = @ /\ i \notin P]]
             closed == F \cup {client_slots[i].fd : i \in C}
         IN  /\ \A i \in P : sock[client_slots[i].fd] # "ws" => client_slots[i].fd \in F
             /\ client_slots' = MarkClosing(swept, closed)
             /\ sock' \in Shutdown(closed)
             /\ IF F # {} \/ C \cap JoinedSlots(client_slots) # {}
                THEN BroadcastPresence("return", NoFd) ELSE UNCHANGED control
    /\ UNCHANGED <<view, latest>>

Frame(fd) ==
    \/ FrameRejected(fd) \/ FrameBroken(fd) \/ FrameNoMemory(fd)
    \/ CloseFrame(fd) \/ FrameDropped(fd) \/ FrameIgnored(fd)
    \/ FrameRefused(fd) \/ ReplyFails(fd) \/ GetOnlineUser(fd)
    \/ \E u \in USERS : JoinFrame(fd, u) \/ JoinBreaks(fd, u)
    \/ BroadcastFrame(fd) \/ RelayFrame(fd)

Next ==
    \/ \E fd \in FDS : Accept(fd) \/ HttpEnds(fd) \/ Handshake(fd)
                       \/ HandshakeRejected(fd) \/ PeerCloses(fd) \/ Reap(fd)
    \/ \E fd \in FDS : Frame(fd)
    \/ PresenceAttempt \/ PresenceNoMemory \/ Deletion \/ Sweep

Spec == Init /\ [][Next]_vars

\* The HTTPD task finishes what it started, and its select loop serves every
\* readable descriptor, so an ended connection is noticed however many
\* frames the others send.
Fairness ==
    /\ WF_vars(PresenceAttempt \/ PresenceNoMemory)
    /\ WF_vars(Deletion)
    /\ \A fd \in FDS : SF_vars(Reap(fd))

FairSpec == Spec /\ Fairness

-----------------------------------------------------------------------------
(* Properties *)

\* Slots and sockets agree, whatever fails half-way and however descriptors are
\* reused: a connection occupies one slot; a slot belongs to an upgraded socket
\* or to the deletion under way, so a new connection with the same number
\* inherits nothing; a slot marked closing has lost its identity, which is all
\* the relay looks at, and its socket was told to shut down or its deletion is
\* due (chat_ws_close_client, chat_ws_session_close_handler).
SlotsFollowSockets ==
    /\ \A i, j \in ActiveSlots :
          client_slots[i].fd = client_slots[j].fd => i = j
    /\ \A i \in ActiveSlots :
          \/ sock[client_slots[i].fd] \in {"ws", "shut", "stuck"}
          \/ pc = "delete" /\ cur = client_slots[i].fd
    /\ \A i \in ActiveSlots :
          IF client_slots[i].closing
          THEN /\ ~ client_slots[i].joined /\ client_slots[i].user_id = NoUser
               /\ \/ sock[client_slots[i].fd] \in {"shut", "stuck"}
                  \/ cur = client_slots[i].fd
          ELSE client_slots[i].joined <=> client_slots[i].user_id # NoUser

\* "Online user broadcast did not converge" is unreachable: every attempt
\* that is repeated has closed a client.
PresenceConverges ==
    pc = "presence" =>
        attempt + Cardinality(JoinedSlots(client_slots)) <= MAX_CLIENTS

\* What a browser shows is right as far as its list goes: a whole list names
\* exactly the users online, and one that lost entries nobody who is not.
ListIsRight(s, v, l) ==
    \A fd \in JoinedFds(s) :
        /\ l[fd] = "whole" => v[fd] = Online(s)
        /\ l[fd] = "short" => v[fd] \subseteq Online(s)

\* Between handlers, whatever failed in between, every joined client whose
\* latest list was whole has exactly the users that are online, and one whose
\* list is short names none who left; unless a closing connection is still to
\* be reaped.  A list that was missed for want of memory is not repeated.
PresenceAccurate ==
    (pc = "idle" /\ \A i \in Slots : ~ client_slots[i].closing)
    => ListIsRight(client_slots, view, latest)

\* A presence broadcast does not end with a list that its own failed sends
\* made wrong: nobody still joined is shown a client that the broadcast closed,
\* and whoever got all of the list has it as it is now.
PresenceIsExact ==
    [][pc = "presence" /\ pc' # "presence" =>
          ListIsRight(client_slots', view', latest')]_vars

\* A connection that was given up, even one that was only replaced, never
\* becomes a session again.
ClosingIsFinal ==
    [][\A i \in Slots :
          client_slots[i].active /\ client_slots[i].closing =>
              client_slots'[i] \in {client_slots[i], FreeSlot}]_vars

\* A slot marked closing is freed in the end, so MAX_CLIENTS new browsers
\* can always come in after MAX_CLIENTS failures; except where shutdown failed:
\* the sweep passes over such a slot, and only its browser can free it.
ClosingIsFreed ==
    \A fd \in FDS :
        (\E i \in SlotsOf(client_slots, fd) : client_slots[i].closing)
            ~> SlotsOf(client_slots, fd) = {} \/ sock[fd] = "stuck"

\* A user who left disappears from every list a browser shows, also when the
\* handler that closed the connection did not broadcast; except from a list
\* that was missed, or while a failed shutdown keeps a session from its end.
LeaverDisappears ==
    \A u \in USERS, fd \in FDS :
        (u \in view[fd] /\ u \notin Online(client_slots))
            ~> \/ u \notin view[fd] \/ u \in Online(client_slots)
               \/ ~ IsJoined(fd) \/ latest[fd] = "missed"
               \/ \E d \in FDS : sock[d] = "stuck"

Users == INSTANCE Roster WITH
    online <- {<<client_slots[i].user_id, client_slots[i].fd>> :
                  i \in JoinedSlots(client_slots)}

\* The slot table implements the roster: a user moves to a new connection in
\* one step, and a connection never changes its user while it is online.
ImplementsRoster == Users!Spec
=============================================================================
