------------------------------- MODULE Client -------------------------------
(* The connection of one browser page: main/web/js/script.js.  JavaScript    *)
(* runs one event handler at a time, so every action is a whole handler: a   *)
(* click, a timer, a socket event or a received message.  The page is one    *)
(* record, and the functions of the script are operators from a page to the  *)
(* page, or the set of pages, that they may leave.                           *)
(*                                                                           *)
(* Abstractions.  Chat messages are numbered in the order they are composed. *)
(* Timers may expire in any order.  A socket is free again once its close    *)
(* event was dispatched; readyState CLOSED is never seen by a handler, as    *)
(* the browser changes it in the task that dispatches that event.  A timer   *)
(* that has expired and one that was never armed are not told apart.         *)
EXTENDS Naturals, Sequences, SequencesExt

CONSTANTS SOCKETS,              \* names of WebSocket objects
          None,                 \* null, for ws and the timers
          URLS,                 \* length of websocketUrls()
          MAX_OUTBOX_MESSAGES,
          MaxMessages,          \* bound on the messages composed
          MaxShort,             \* bound on the pending 250 ms timers counted
          Reports,              \* what the server may say of others, boundary
          Writes                \* whether writes to localStorage may succeed

ASSUME ClientConstants ==
    /\ None \notin SOCKETS
    /\ URLS \in Nat \ {0}
    /\ MAX_OUTBOX_MESSAGES \in Nat \ {0}
    /\ MaxMessages \in Nat
    /\ MaxShort \in Nat \ {0}
    /\ Reports \in (SUBSET BOOLEAN) \ {{}}
    /\ Writes \in (SUBSET BOOLEAN) \ {{}}

VARIABLES page,       \* the state of the script and of its sockets
          stream,     \* per socket: what the server has answered so far;
                      \* "lost" and "dead": the connection died unnoticed,
                      \* before or after the answer to the join
          composed,   \* number of messages the user has written
          sent        \* the messages handed to sockets, in order, since
                      \* the last load that found an outdated outbox

vars == <<page, stream, composed, sent>>

(* Fields of page.  login: "form" until the chat is shown.  short: pending   *)
(* setTimeout(connect, 250).  connectTimer, joinTimer, receiveTimer: the     *)
(* socket the armed timer was set for.  opened: of the last socket.          *)
(* others: onlineUsers holds somebody else.  boundary: historyInfo names a   *)
(* boundary above 1.  sock: readyState of each socket, "free" if none.       *)
(* stored: the outbox in localStorage, which writes reach or not.            *)
FreshPage(queued) ==
    [login |-> "form", hasJoined |-> FALSE, reconnectBlocked |-> FALSE,
     ws |-> None, wsJoined |-> FALSE, opened |-> FALSE, wsUrlAttempt |-> 0,
     short |-> 0, reconnectTimer |-> FALSE, connectTimer |-> None,
     joinTimer |-> None, receiveTimer |-> None,
     others |-> FALSE, boundary |-> FALSE, activeRecovery |-> FALSE,
     outbox |-> queued, stored |-> queued, sock |-> [s \in SOCKETS |-> "free"]]

State(p) == IF p.ws = None THEN "none" ELSE p.sock[p.ws]

Least(a, b) == IF a < b THEN a ELSE b

-----------------------------------------------------------------------------
(* Functions of the script.  A definition called Bad... is a plausible bug   *)
(* in the definition after it; nothing uses it.                              *)

\* socket.close()
Close(p, s) == IF p.sock[s] \in {"connecting", "open"}
               THEN [p EXCEPT !.sock[s] = "closing"] ELSE p

ReleaseSocket(p) ==
    [p EXCEPT !.ws = None, !.wsJoined = FALSE, !.connectTimer = None,
              !.joinTimer = None, !.receiveTimer = None, !.others = FALSE,
              !.activeRecovery = FALSE]

ScheduleReconnect(p) ==
    IF p.reconnectBlocked THEN p ELSE [p EXCEPT !.reconnectTimer = TRUE]

ReconnectSocket(p, s) ==
    IF p.ws = s THEN ScheduleReconnect(Close(ReleaseSocket(p), s)) ELSE p

\* The next address after the short delay, or the first one after the long.
BadTryFallback(p) ==
    IF p.wsUrlAttempt < URLS - 1
    THEN [p EXCEPT !.wsUrlAttempt = @ + 1]
    ELSE ScheduleReconnect([p EXCEPT !.wsUrlAttempt = 0])
TryFallback(p) ==
    IF p.wsUrlAttempt < URLS - 1
    THEN [p EXCEPT !.wsUrlAttempt = @ + 1, !.short = Least(@ + 1, MaxShort)]
    ELSE ScheduleReconnect([p EXCEPT !.wsUrlAttempt = 0])

\* A new socket is none that a pending timer or event may still mean.
FreeSockets(p) ==
    {s \in SOCKETS : p.sock[s] = "free"} \ {p.ws, p.joinTimer, p.receiveTimer}

\* connect(): the constructor gives a socket or throws.
BadConnect(p) ==
    IF p.reconnectBlocked \/ State(p) = "open" THEN {p}
    ELSE {TryFallback([p EXCEPT !.ws = None])} \cup
         {[p EXCEPT !.ws = s, !.sock[s] = "connecting", !.opened = FALSE,
                    !.connectTimer = s] : s \in FreeSockets(p)}
BadConnectBlocked(p) ==
    IF State(p) \in {"connecting", "open"} THEN {p}
    ELSE {TryFallback([p EXCEPT !.ws = None])} \cup
         {[p EXCEPT !.ws = s, !.sock[s] = "connecting", !.opened = FALSE,
                    !.connectTimer = s] : s \in FreeSockets(p)}
Connect(p) ==
    IF p.reconnectBlocked \/ State(p) \in {"connecting", "open"} THEN {p}
    ELSE {TryFallback([p EXCEPT !.ws = None])} \cup
         {[p EXCEPT !.ws = s, !.sock[s] = "connecting", !.opened = FALSE,
                    !.connectTimer = s] : s \in FreeSockets(p)}

\* sendRaw: pages after a send that worked, and after one that did not.
Sends(p) == IF State(p) = "open" THEN {p} ELSE {}
SendFails(p) == IF State(p) = "open" THEN {ReconnectSocket(p, p.ws)} ELSE {p}

\* saveOutbox: localStorage takes the outbox, or the write fails unnoticed.
SaveOutbox(p) ==
    {IF w THEN [p EXCEPT !.stored = p.outbox] ELSE p : w \in Writes}

\* queueMessage
BadQueueMessage(p, n) ==
    IF Len(p.outbox) = MAX_OUTBOX_MESSAGES THEN {p}
    ELSE SaveOutbox([p EXCEPT !.outbox = Append(@, n)])
QueueMessage(p, n) ==
    LET q == Append(p.outbox, n)
    IN  SaveOutbox([p EXCEPT !.outbox =
                        IF Len(q) > MAX_OUTBOX_MESSAGES THEN Tail(q) ELSE q])

\* flushOutbox: k messages are sent before the first that fails.
BadAfterFlush(p, k) ==
    SaveOutbox(IF k = Len(p.outbox) THEN [p EXCEPT !.outbox = <<>>]
               ELSE ReconnectSocket(p, p.ws))
AfterFlush(p, k) ==
    LET rest == [p EXCEPT !.outbox = SubSeq(@, k + 1, Len(@))]
    IN  IF p.outbox = <<>> THEN {p}
        ELSE SaveOutbox(IF k = Len(p.outbox) THEN rest
                        ELSE ReconnectSocket(rest, p.ws))

\* confirmSocketJoin up to flushOutbox
BadConfirm(p) == [p EXCEPT !.wsJoined = TRUE, !.joinTimer = None,
                           !.reconnectTimer = FALSE]
ConfirmSocketJoin(p) ==
    [p EXCEPT !.wsJoined = TRUE, !.joinTimer = None, !.reconnectTimer = FALSE,
              !.receiveTimer = p.ws]

-----------------------------------------------------------------------------
(* The user *)

Init ==
    /\ page = FreshPage(<<>>)
    /\ stream = [s \in SOCKETS |-> "silent"]
    /\ composed = 0
    /\ sent = <<>>

\* enterChat, before the form has faded: it may be clicked again.
EnterChat ==
    /\ page.login = "form"
    /\ page.short < MaxShort
    /\ page' = [page EXCEPT !.reconnectBlocked = FALSE, !.hasJoined = TRUE,
                            !.short = @ + 1]
    /\ UNCHANGED <<stream, composed, sent>>

\* sendMessage and createGroup
Compose ==
    /\ page.login = "chat"
    /\ composed < MaxMessages
    /\ composed' = composed + 1
    /\ \/ /\ page.wsJoined
          /\ page' \in Sends(page)
          /\ sent' = Append(sent, composed')
       \/ /\ \E p \in IF page.wsJoined THEN SendFails(page) ELSE {page} :
                page' \in QueueMessage(p, composed')
          /\ sent' = sent
    /\ UNCHANGED stream

StartHistoryRecovery ==
    /\ ~ page.activeRecovery
    /\ State(page) = "open" /\ page.wsJoined
    /\ page.boundary /\ page.others
    /\ page' \in {[p EXCEPT !.activeRecovery = TRUE] : p \in Sends(page)}
                    \cup SendFails(page)
    /\ UNCHANGED <<stream, composed, sent>>

\* saveSettings learns that the server is restarting.
RestartAnnounced ==
    /\ page.login = "chat"
    /\ LET p == [page EXCEPT !.hasJoined = FALSE]
       IN  page' = IF p.ws = None THEN p ELSE Close(p, p.ws)
    /\ UNCHANGED <<stream, composed, sent>>

\* The page is loaded again; loadState finds the outbox in localStorage.
Reload ==
    /\ page.login = "chat"
    /\ page' = FreshPage(page.stored)
    /\ stream' = [s \in SOCKETS |-> "silent"]
    /\ sent' = IF page.stored = page.outbox THEN sent ELSE <<>>
    /\ UNCHANGED composed

-----------------------------------------------------------------------------
(* Timers and network events of the browser *)

ShortTimerFires ==
    /\ page.short > 0
    /\ page' \in Connect([page EXCEPT !.short = @ - 1, !.login = "chat"])
    /\ UNCHANGED <<stream, composed, sent>>

ReconnectFires ==
    /\ page.reconnectTimer
    /\ page' \in Connect([page EXCEPT !.reconnectTimer = FALSE])
    /\ UNCHANGED <<stream, composed, sent>>

\* The "online" listener.  Assumed not to run in the 250 ms the form fades.
Online ==
    /\ page.login = "chat"
    /\ page.hasJoined /\ ~ page.reconnectBlocked /\ page.ws = None
    /\ page' \in Connect([page EXCEPT !.reconnectTimer = FALSE])
    /\ UNCHANGED <<stream, composed, sent>>

ConnectTimerFires ==
    LET s == page.connectTimer
        p == [page EXCEPT !.connectTimer = None]
    IN  /\ s # None
        /\ page' = IF p.ws = s /\ p.sock[s] = "connecting"
                   THEN TryFallback(Close(ReleaseSocket(p), s)) ELSE p
        /\ UNCHANGED <<stream, composed, sent>>

JoinTimerFires ==
    LET s == page.joinTimer
        p == [page EXCEPT !.joinTimer = None]
    IN  /\ s # None
        /\ page' = IF p.wsJoined THEN p ELSE ReconnectSocket(p, s)
        /\ UNCHANGED <<stream, composed, sent>>

ReceiveTimerFires ==
    LET s == page.receiveTimer
        p == [page EXCEPT !.receiveTimer = None]
    IN  /\ s # None
        /\ page' = IF p.wsJoined THEN ReconnectSocket(p, s) ELSE p
        /\ UNCHANGED <<stream, composed, sent>>

RecoveryTimerFires ==
    /\ page.activeRecovery
    /\ page' = [page EXCEPT !.activeRecovery = FALSE]
    /\ UNCHANGED <<stream, composed, sent>>

-----------------------------------------------------------------------------
(* Events of socket s *)

\* onopen.  The join goes out, or its send fails and the socket is closed.
BadOpens(s) ==
    /\ page.sock[s] = "connecting"
    /\ LET q == [page EXCEPT !.sock[s] = "open"]
           p == [q EXCEPT !.connectTimer = None, !.receiveTimer = None,
                          !.opened = TRUE, !.wsUrlAttempt = 0, !.wsJoined = FALSE]
       IN  \/ /\ page.ws # s
              /\ page' = q /\ UNCHANGED stream
           \/ /\ page.ws = s
              /\ page' \in Sends(p)
              /\ stream' = [stream EXCEPT ![s] = "joining"]
           \/ /\ page.ws = s
              /\ page' \in {Close(f, s) : f \in SendFails(p)}
              /\ UNCHANGED stream
    /\ UNCHANGED <<composed, sent>>
Opens(s) ==
    /\ page.sock[s] = "connecting"
    /\ LET q == [page EXCEPT !.sock[s] = "open"]
           p == [q EXCEPT !.connectTimer = None, !.receiveTimer = None,
                          !.opened = TRUE, !.wsUrlAttempt = 0, !.wsJoined = FALSE]
       IN  \/ /\ page.ws # s
              /\ page' = q /\ UNCHANGED stream
           \/ /\ page.ws = s
              /\ page' \in {[f EXCEPT !.joinTimer = s] : f \in Sends(p)}
              /\ stream' = [stream EXCEPT ![s] = "joining"]
           \/ /\ page.ws = s
              /\ page' \in {Close(f, s) : f \in SendFails(p)}
              /\ UNCHANGED stream
    /\ UNCHANGED <<composed, sent>>

\* The connection is ending, its close event still to come.
Closing(s) ==
    /\ page.sock[s] \in {"connecting", "open"}
    /\ page' = Close(page, s)
    /\ UNCHANGED <<stream, composed, sent>>

\* onclose
Closed(s) ==
    /\ page.sock[s] # "free"
    /\ LET q == [page EXCEPT !.sock[s] = "free"]
           p == ReleaseSocket(q)
       IN  page' = IF q.ws # s THEN q
                   ELSE IF p.reconnectBlocked THEN p
                   ELSE IF p.opened THEN ScheduleReconnect([p EXCEPT !.wsUrlAttempt = 0])
                   ELSE TryFallback(p)
    /\ stream' = [stream EXCEPT ![s] = "silent"]
    /\ UNCHANGED <<composed, sent>>

-----------------------------------------------------------------------------
(* Messages received on socket s: onmessage and handleIncoming.  Those of a  *)
(* socket that is not ws are ignored.  Messages that change nothing here     *)
(* (chat, other errors, presence without this user) are left out.            *)

Receives(s) == page.ws = s /\ page.sock[s] = "open"

\* The receive timer is armed anew by every message of a joined connection.
Rearmed(p) == IF p.wsJoined THEN [p EXCEPT !.receiveTimer = p.ws] ELSE p

\* historyInfo: it names a boundary b or none, and counts as progress.
HistoryInfo(s, b) ==
    /\ Receives(s) /\ stream[s] = "joining"
    /\ page' = [Rearmed(page) EXCEPT !.boundary = b,
                    !.joinTimer = IF page.wsJoined THEN @ ELSE s]
    /\ UNCHANGED <<stream, composed, sent>>

\* onlineUsers with this user in it, and others if o.
BadPresence(s, o) ==
    /\ Receives(s) /\ stream[s] \in {"joining", "joined"}
    /\ page' = [ConfirmSocketJoin(page) EXCEPT !.others = o]
    /\ stream' = [stream EXCEPT ![s] = "joined"]
    /\ UNCHANGED <<composed, sent>>
Presence(s, o) ==
    /\ Receives(s) /\ stream[s] \in {"joining", "joined"}
    /\ LET p == ConfirmSocketJoin(page)
       IN  IF page.wsJoined
           THEN page' = [Rearmed(page) EXCEPT !.others = o] /\ sent' = sent
           ELSE \E k \in 0..Len(p.outbox) :
                    /\ page' \in {[q EXCEPT !.others = o] : q \in AfterFlush(p, k)}
                    /\ sent' = sent \o SubSeq(p.outbox, 1, k)
    /\ stream' = [stream EXCEPT ![s] = "joined"]
    /\ UNCHANGED composed

\* The connection dies unnoticed: nothing more arrives, not even its end.
Dies(s) ==
    /\ stream[s] \in {"joining", "joined"}
    /\ stream' = [stream EXCEPT ![s] = IF @ = "joined" THEN "dead" ELSE "lost"]
    /\ UNCHANGED <<page, composed, sent>>

\* ping, answered by a pong
Ping(s) ==
    /\ Receives(s) /\ stream[s] \in {"joining", "joined"}
    /\ page' \in Sends(Rearmed(page)) \cup SendFails(Rearmed(page))
    /\ UNCHANGED <<stream, composed, sent>>

\* error bad_since_id, answered to a join
BadSinceId(s) ==
    /\ Receives(s) /\ stream[s] = "joining"
    /\ page' = ReconnectSocket([Rearmed(page) EXCEPT !.reconnectBlocked = FALSE,
                                    !.wsJoined = FALSE, !.joinTimer = None], s)
    /\ UNCHANGED <<stream, composed, sent>>

\* error session_replaced: another tab of this user has joined.
SessionReplaced(s) ==
    /\ Receives(s) /\ stream[s] \in {"joining", "joined"}
    /\ page' = [page EXCEPT !.reconnectBlocked = TRUE, !.wsJoined = FALSE,
                            !.joinTimer = None, !.receiveTimer = None,
                            !.reconnectTimer = FALSE]
    /\ stream' = [stream EXCEPT ![s] = "replaced"]
    /\ UNCHANGED <<composed, sent>>

-----------------------------------------------------------------------------
User == EnterChat \/ Compose \/ StartHistoryRecovery \/ RestartAnnounced \/ Reload

Timers == \/ ShortTimerFires \/ ReconnectFires \/ ConnectTimerFires
          \/ JoinTimerFires \/ ReceiveTimerFires \/ RecoveryTimerFires

SocketEvent(s) ==
    \/ Opens(s) \/ Closing(s) \/ Closed(s)
    \/ \E b \in Reports : HistoryInfo(s, b) \/ Presence(s, b)
    \/ Dies(s) \/ Ping(s) \/ BadSinceId(s) \/ SessionReplaced(s)

Next == User \/ Timers \/ Online \/ \E s \in SOCKETS : SocketEvent(s)

Spec == Init /\ [][Next]_vars

(* Fairness: the browser dispatches due timers and the close event of a      *)
(* socket that was closed; the receive timer is due only if nothing arrives. *)
(* Strong fairness is the network getting better: a page that tries for ever *)
(* is not refused a socket, a handshake, or the answer to its join for ever. *)
Constructed == page'.ws # None
Silence == \E s \in SOCKETS : page.receiveTimer = s /\ stream[s] = "dead"
Answered(s) == (\E o \in Reports : Presence(s, o)) /\ page'.ws = s
Fairness ==
    /\ WF_vars(ShortTimerFires) /\ WF_vars(ReconnectFires)
    /\ WF_vars(ConnectTimerFires) /\ WF_vars(JoinTimerFires)
    /\ WF_vars(Silence /\ ReceiveTimerFires)
    /\ SF_vars((ShortTimerFires \/ ReconnectFires) /\ Constructed)
    /\ \A s \in SOCKETS :
        /\ WF_vars(page.sock[s] = "closing" /\ Closed(s))
        /\ SF_vars(Opens(s) /\ stream'[s] = "joining")
        /\ SF_vars(Answered(s))
FairSpec == Spec /\ Fairness

-----------------------------------------------------------------------------
(* Properties *)

\* Whatever timers and events race, the page never has two live sockets:
\* every socket that may still open or deliver is the current one (connect,
\* releaseSocket and close keep ws and the sockets together).
OneLiveSocket ==
    \A s \in SOCKETS : page.sock[s] \in {"connecting", "open"} => page.ws = s

\* A page in the chat that was not replaced by another tab has a socket or a
\* timer that will make one: no path of timeouts, failures and stale events
\* leaves it offline with nothing pending.
NeverStranded ==
    page.login = "chat" /\ ~ page.reconnectBlocked =>
        page.ws # None \/ page.reconnectTimer \/ page.short > 0

\* The current socket is always watched by the timer of its phase, so that a
\* server that falls silent is noticed: connect, then join, then receive.
WatchedSocket ==
    /\ State(page) = "connecting" => page.connectTimer = page.ws
    /\ State(page) = "open" /\ ~ page.reconnectBlocked =>
           IF page.wsJoined THEN page.receiveTimer = page.ws
           ELSE page.joinTimer = page.ws

\* What an outbox of before, kept, may still have to do with the queue: what
\* has left since is older than all that is queued, what has joined is newer.
OutboxOfBefore(kept, queue) ==
    /\ \A n \in ToSet(kept) \ ToSet(queue), m \in ToSet(queue) : n < m
    /\ \A m \in ToSet(queue) \ ToSet(kept), n \in ToSet(kept) : n < m

\* Chat messages reach sockets in the order they were written and none twice,
\* across queueing, flushes that stop half-way, reconnects and reloads, until
\* a load finds that a write of the outbox had failed.  Even then it finds an
\* outbox of before, in order, and no mixture.
SentInOrder ==
    /\ LET all == sent \o page.outbox
       IN  \A i, j \in 1..Len(all) : i < j => all[i] < all[j]
    /\ \A i, j \in 1..Len(page.stored) : i < j => page.stored[i] < page.stored[j]
    /\ OutboxOfBefore(page.stored, page.outbox)

\* A message is lost from the outbox only by being sent, or as the oldest of
\* a full outbox; a new one is sent or queued (queueMessage, flushOutbox).  A
\* load after a failed write forgets what was queued since the last that
\* worked, and nothing older.
KeptOrSent ==
    [][\A n \in 1..composed' :
          n \notin ToSet(sent') \cup ToSet(page'.outbox) =>
              \/ n <= composed /\ n \notin ToSet(sent) \cup ToSet(page.outbox)
              \/ Len(page.outbox) = MAX_OUTBOX_MESSAGES /\ n = Head(page.outbox)
              \/ /\ page.login = "chat" /\ page'.login = "form"
                 /\ page.stored # page.outbox
                 /\ n \in ToSet(sent) \/ \A m \in ToSet(page.stored) : m < n
      ]_vars

\* A page replaced by another tab makes no connection until it is loaded
\* again, whatever timers were pending: two tabs of a user do not throw each
\* other out for ever (reconnectBlocked).
ReplacedStaysAway ==
    [][page.reconnectBlocked =>
          \/ page'.login = "form"
          \/ page'.reconnectBlocked /\ page'.ws \in {page.ws, None}]_vars

\* A page in the chat joins and has then sent everything that was queued
\* (flushOutbox runs at every confirmed join), whatever failures came first,
\* unless it is replaced by another tab or loaded again.
JoinsAndSends ==
    page.login = "chat" ~>
        \/ State(page) = "open" /\ page.wsJoined /\ page.outbox = <<>>
        \/ page.reconnectBlocked \/ page.login = "form"

\* A connection that has died without a word is given up: no page waits for
\* ever on a server that is gone (connect, join and receive timers).
DeadIsNoticed ==
    \A s \in SOCKETS :
        page.ws = s /\ page.sock[s] = "open" /\ stream[s] \in {"lost", "dead"}
            ~> page.ws # s \/ page.sock[s] # "open" \/ page.reconnectBlocked
=============================================================================
