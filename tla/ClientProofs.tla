---------------------------- MODULE ClientProofs ----------------------------
(***************************************************************************)
(* Proofs about Client, for any number of sockets, addresses and messages. *)
(***************************************************************************)
EXTENDS Client, TLAPS

SockState == {"free", "connecting", "open", "closing"}
StreamState == {"silent", "joining", "joined", "lost", "dead", "replaced"}
PageType ==
    [login : {"form", "chat"}, hasJoined : BOOLEAN, reconnectBlocked : BOOLEAN,
     ws : SOCKETS \cup {None}, wsJoined : BOOLEAN, opened : BOOLEAN,
     wsUrlAttempt : Nat, short : Nat, reconnectTimer : BOOLEAN,
     connectTimer : SOCKETS \cup {None}, joinTimer : SOCKETS \cup {None},
     receiveTimer : SOCKETS \cup {None}, others : BOOLEAN, boundary : BOOLEAN,
     activeRecovery : BOOLEAN, outbox : Seq(Nat), stored : Seq(Nat),
     sock : [SOCKETS -> SockState]]

TypeOK ==
    /\ page \in PageType
    /\ stream \in [SOCKETS -> StreamState]
    /\ composed \in Nat
    /\ sent \in Seq(Nat)

Live(p, s) == p.sock[s] \in {"connecting", "open"}

\* The invariants of the connection, for a page p and streams st.  Before the
\* chat is entered there is no socket and no attempt to get one.
Connection(p) ==
    /\ \A s \in SOCKETS : Live(p, s) => p.ws = s
    /\ p.login = "chat" /\ ~ p.reconnectBlocked =>
          p.ws # None \/ p.reconnectTimer \/ p.short > 0
    /\ p.login = "form" => p.ws = None /\ ~ p.reconnectTimer /\ ~ p.reconnectBlocked

\* What watches the current socket.
Watched(p) ==
    p.ws # None =>
        /\ p.sock[p.ws] = "connecting" => p.connectTimer = p.ws
        /\ p.sock[p.ws] = "open" /\ ~ p.reconnectBlocked =>
              IF p.wsJoined THEN p.receiveTimer = p.ws ELSE p.joinTimer = p.ws

\* A joined connection has nothing queued: what is written goes out behind
\* what was flushed.
Flushed(p) ==
    p.ws # None /\ p.sock[p.ws] = "open" /\ p.wsJoined => p.outbox = <<>>

\* A page that was replaced is left with the connection it was replaced on.
Replaced(p, st) ==
    /\ \A s \in SOCKETS : p.sock[s] \in {"free", "connecting"} => st[s] = "silent"
    /\ p.reconnectBlocked /\ p.ws # None => st[p.ws] = "replaced"

Good(p, st) == Connection(p) /\ Watched(p) /\ Flushed(p) /\ Replaced(p, st)

\* The messages a page has handed over and those it has queued, in order.
Below(s, n) == \A i \in 1..Len(s) : s[i] \in 1..n
Rising(s) == \A i, j \in 1..Len(s) : i < j => s[i] < s[j]
Before(s, t) == \A i \in 1..Len(s), j \in 1..Len(t) : s[i] < t[j]
Ordered(out, queue, n) ==
    /\ Below(out, n) /\ Below(queue, n)
    /\ Rising(out) /\ Rising(queue) /\ Before(out, queue)

\* What localStorage holds while queue is the outbox.
Backup(kept, queue, n) ==
    /\ Below(kept, n) /\ Rising(kept) /\ Len(kept) <= MAX_OUTBOX_MESSAGES
    /\ OutboxOfBefore(kept, queue)

IInv ==
    /\ TypeOK
    /\ Good(page, stream)
    /\ Ordered(sent, page.outbox, composed)
    /\ Len(page.outbox) <= MAX_OUTBOX_MESSAGES
    /\ Backup(page.stored, page.outbox, composed)

-----------------------------------------------------------------------------
(* The functions of the script *)

\* What no function below changes of a page, and what only some of them do.
SameUser(p, q) ==
    /\ q.login = p.login /\ q.reconnectBlocked = p.reconnectBlocked
    /\ q.outbox = p.outbox /\ q.stored = p.stored

LEMMA CloseIs ==
    ASSUME NEW p \in PageType, NEW s \in SOCKETS
    PROVE  LET q == Close(p, s)
           IN  /\ q \in PageType /\ SameUser(p, q)
               /\ q.ws = p.ws /\ q.wsJoined = p.wsJoined /\ q.short = p.short
               /\ q.reconnectTimer = p.reconnectTimer /\ q.connectTimer = p.connectTimer
               /\ q.joinTimer = p.joinTimer /\ q.receiveTimer = p.receiveTimer
               /\ q.sock[s] \in {"free", "closing"}
               /\ q.sock[s] = "free" => p.sock[s] = "free"
               /\ \A r \in SOCKETS \ {s} : q.sock[r] = p.sock[r]
BY DEF Close, PageType, SockState, SameUser

LEMMA ReleaseIs ==
    ASSUME NEW p \in PageType
    PROVE  LET q == ReleaseSocket(p)
           IN  /\ q \in PageType /\ SameUser(p, q)
               /\ q.ws = None /\ ~ q.wsJoined /\ q.short = p.short
               /\ q.reconnectTimer = p.reconnectTimer /\ q.sock = p.sock
BY DEF ReleaseSocket, PageType, SameUser

LEMMA ScheduleIs ==
    ASSUME NEW p \in PageType
    PROVE  LET q == ScheduleReconnect(p)
           IN  /\ q \in PageType /\ SameUser(p, q)
               /\ q.ws = p.ws /\ q.wsJoined = p.wsJoined /\ q.short = p.short
               /\ p.reconnectBlocked => q = p
               /\ ~ p.reconnectBlocked => q.reconnectTimer = TRUE
               /\ q.connectTimer = p.connectTimer /\ q.joinTimer = p.joinTimer
               /\ q.receiveTimer = p.receiveTimer /\ q.sock = p.sock
<1>1. CASE p.reconnectBlocked
  BY <1>1 DEF ScheduleReconnect, SameUser
<1>2. CASE ~ p.reconnectBlocked
  <2> DEFINE q == [p EXCEPT !.reconnectTimer = TRUE]
  <2>1. q \in PageType
    BY DEF PageType
  <2>2. /\ SameUser(p, q) /\ q.reconnectTimer = TRUE
        /\ q.ws = p.ws /\ q.wsJoined = p.wsJoined /\ q.short = p.short
        /\ q.connectTimer = p.connectTimer /\ q.joinTimer = p.joinTimer
        /\ q.receiveTimer = p.receiveTimer /\ q.sock = p.sock
    BY DEF PageType, SameUser
  <2>3. ScheduleReconnect(p) = q
    BY <1>2 DEF ScheduleReconnect
  <2> HIDE DEF q
  <2> QED BY <1>2, <2>1, <2>2, <2>3
<1> QED BY <1>1, <1>2

\* A page whose socket s was given up: releaseSocket, close, and maybe a timer.
GivenUp(p, q, s) ==
    /\ q \in PageType /\ SameUser(p, q)
    /\ q.ws = None /\ ~ q.wsJoined
    /\ ~ p.reconnectBlocked => q.reconnectTimer \/ q.short > 0
    /\ q.sock[s] \in {"free", "closing"}
    /\ q.sock[s] = "free" => p.sock[s] = "free"
    /\ \A r \in SOCKETS \ {s} : q.sock[r] = p.sock[r]

LEMMA ReconnectIs ==
    ASSUME NEW p \in PageType, NEW s \in SOCKETS
    PROVE  /\ p.ws = s => GivenUp(p, ReconnectSocket(p, s), s)
           /\ p.ws # s => ReconnectSocket(p, s) = p
<1> DEFINE q == ReleaseSocket(p)
           r == Close(q, s)
<1>1. q \in PageType /\ SameUser(p, q) /\ q.ws = None /\ ~ q.wsJoined /\ q.sock = p.sock
  BY ReleaseIs
<1> HIDE DEF q
<1>2. /\ r \in PageType /\ SameUser(q, r) /\ r.ws = q.ws /\ r.wsJoined = q.wsJoined
      /\ r.sock[s] \in {"free", "closing"} /\ (r.sock[s] = "free" => q.sock[s] = "free")
      /\ \A t \in SOCKETS \ {s} : r.sock[t] = q.sock[t]
  BY <1>1, CloseIs
<1> HIDE DEF r
<1>3. LET t == ScheduleReconnect(r)
      IN  /\ t \in PageType /\ SameUser(r, t) /\ t.ws = r.ws /\ t.wsJoined = r.wsJoined
          /\ ~ r.reconnectBlocked => t.reconnectTimer = TRUE
          /\ t.sock = r.sock
  BY <1>2, ScheduleIs
<1>4. GivenUp(p, ScheduleReconnect(r), s)
  BY <1>1, <1>2, <1>3 DEF GivenUp, SameUser
<1> QED BY <1>4 DEF ReconnectSocket, q, r

\* tryFallback: the next attempt is armed, unless the page is blocked.
LEMMA FallbackIs ==
    ASSUME NEW p \in PageType
    PROVE  LET q == TryFallback(p)
           IN  /\ q \in PageType /\ SameUser(p, q)
               /\ q.ws = p.ws /\ q.wsJoined = p.wsJoined
               /\ ~ p.reconnectBlocked => q.reconnectTimer \/ q.short > 0
               /\ q.sock = p.sock
<1> DEFINE zero == [p EXCEPT !.wsUrlAttempt = 0]
<1>1. /\ URLS \in Nat \ {0} /\ MaxShort \in Nat \ {0}
      /\ p.wsUrlAttempt \in Nat /\ p.short \in Nat
  BY ClientConstants DEF PageType
<1>2. CASE p.wsUrlAttempt < URLS - 1
  <2>1. PICK n \in Nat : n = Least(p.short + 1, MaxShort) /\ n > 0
    BY <1>1 DEF Least
  <2>2. PICK a \in Nat : a = p.wsUrlAttempt + 1
    BY <1>1
  <2> DEFINE next == [p EXCEPT !.wsUrlAttempt = a, !.short = n]
  <2>3. next \in PageType
    BY DEF PageType
  <2>4. /\ SameUser(p, next) /\ next.ws = p.ws
        /\ next.wsJoined = p.wsJoined /\ next.sock = p.sock /\ next.short = n
    BY DEF PageType, SameUser
  <2>5. TryFallback(p) = next
    BY <1>2, <2>1, <2>2 DEF TryFallback
  <2> HIDE DEF next
  <2> QED BY <2>1, <2>3, <2>4, <2>5
<1>3. CASE ~ (p.wsUrlAttempt < URLS - 1)
  <2>1. /\ zero \in PageType /\ SameUser(p, zero) /\ zero.ws = p.ws
        /\ zero.wsJoined = p.wsJoined /\ zero.sock = p.sock
    BY DEF PageType, SameUser
  <2>2. TryFallback(p) = ScheduleReconnect(zero)
    BY <1>3 DEF TryFallback
  <2> HIDE DEF zero
  <2> QED BY <2>1, <2>2, ScheduleIs DEF SameUser
<1> QED BY <1>2, <1>3

\* connect(): it leaves a page with a socket or an attempt due.
LEMMA ConnectIs ==
    ASSUME NEW p \in PageType, NEW st,
           p.login = "chat", \A s \in SOCKETS : Live(p, s) => p.ws = s,
           Watched(p), Flushed(p), Replaced(p, st),
           NEW q \in Connect(p)
    PROVE  /\ q \in PageType /\ SameUser(p, q) /\ Good(q, st)
           /\ p.reconnectBlocked => q = p
<1> USE ClientConstants
<1>1. p.ws \in SOCKETS \cup {None} /\ p.reconnectBlocked \in BOOLEAN
      /\ p.sock \in [SOCKETS -> SockState]
  BY DEF PageType
<1>2. CASE p.reconnectBlocked \/ State(p) \in {"connecting", "open"}
  <2>1. q = p
    BY <1>2 DEF Connect
  <2>2. p.reconnectBlocked \/ p.ws # None
    BY <1>2 DEF State
  <2> QED BY <2>1, <2>2 DEF Good, Connection, SameUser
<1>3. CASE ~ (p.reconnectBlocked \/ State(p) \in {"connecting", "open"})
  <2> DEFINE off == [p EXCEPT !.ws = None]
             on(s) == [p EXCEPT !.ws = s, !.sock[s] = "connecting", !.opened = FALSE,
                                !.connectTimer = s]
  <2>1. \A s \in SOCKETS : ~ Live(p, s)
    BY <1>1, <1>3 DEF Live, State
  <2>2. CASE q = TryFallback(off)
    <3>1. off \in PageType /\ SameUser(p, off) /\ off.ws = None /\ off.sock = p.sock
      BY DEF PageType, SameUser
    <3> HIDE DEF off
    <3>2. /\ q \in PageType /\ SameUser(off, q) /\ q.ws = off.ws /\ q.sock = off.sock
          /\ ~ off.reconnectBlocked => q.reconnectTimer \/ q.short > 0
      BY <2>2, <3>1, FallbackIs
    <3>3. Good(q, st)
      BY <1>3, <2>1, <3>1, <3>2
         DEF Good, Connection, Watched, Flushed, Replaced, SameUser, Live
    <3> QED BY <1>3, <3>1, <3>2, <3>3 DEF SameUser
  <2>3. ASSUME NEW s \in FreeSockets(p), q = on(s)
        PROVE  q \in PageType /\ SameUser(p, q) /\ Good(q, st)
    <3>1. s \in SOCKETS /\ p.sock[s] = "free"
      BY DEF FreeSockets
    <3>2. on(s) \in PageType
      BY <1>1, <3>1 DEF PageType, SockState
    <3>3. /\ SameUser(p, on(s)) /\ on(s).ws = s /\ on(s).connectTimer = s
          /\ on(s).sock = [p.sock EXCEPT ![s] = "connecting"]
      BY <3>1 DEF PageType, SameUser
    <3> HIDE DEF on
    <3>4. /\ q.ws = s /\ q.connectTimer = s /\ s # None /\ q.sock[s] = "connecting"
          /\ \A t \in SOCKETS \ {s} : q.sock[t] = p.sock[t]
      BY <1>1, <2>3, <3>1, <3>3
    <3>5. st[s] = "silent" /\ ~ p.reconnectBlocked
      BY <1>3, <3>1 DEF Replaced
    <3>6. Good(q, st)
      BY <2>1, <2>3, <3>1, <3>3, <3>4, <3>5
         DEF Good, Connection, Watched, Flushed, Replaced, SameUser, Live
    <3> QED BY <2>3, <3>2, <3>3, <3>6
  <2>4. q \in {TryFallback(off)} \cup {on(s) : s \in FreeSockets(p)}
    BY <1>3 DEF Connect
  <2> HIDE DEF off, on
  <2> QED BY <1>3, <2>2, <2>3, <2>4
<1> QED BY <1>2, <1>3

\* A page that gives its socket up is in order, whatever the socket was doing.
LEMMA GivenUpIsGood ==
    ASSUME NEW p \in PageType, NEW st, NEW s \in SOCKETS, NEW q,
           p.login = "chat", \A t \in SOCKETS : Live(p, t) => t = s,
           Replaced(p, st), GivenUp(p, q, s)
    PROVE  Good(q, st)
<1>1. \A t \in SOCKETS : ~ Live(q, t)
  BY DEF Live, GivenUp
<1>2. \A t \in SOCKETS : q.sock[t] \in {"free", "connecting"} => st[t] = "silent"
  BY DEF Replaced, GivenUp
<1> QED BY <1>1, <1>2 DEF Good, Connection, Watched, Flushed, Replaced, GivenUp, SameUser
-----------------------------------------------------------------------------
(* The steps.  Quiet ones leave the messages alone. *)

Quiet ==
    /\ sent' = sent /\ composed' = composed
    /\ page'.outbox = page.outbox /\ page'.stored = page.stored
StaysAway ==
    page.reconnectBlocked =>
        \/ page'.login = "form"
        \/ page'.reconnectBlocked /\ page'.ws \in {page.ws, None}
QuietStep ==
    /\ page' \in PageType /\ stream' \in [SOCKETS -> StreamState]
    /\ Good(page', stream') /\ Quiet /\ StaysAway

LEMMA InitInv == Init => IInv
<1> SUFFICES ASSUME Init PROVE IInv
  OBVIOUS
<1>1. FreshPage(<<>>) \in PageType
  BY DEF FreshPage, PageType, SockState
<1>2. /\ page.login = "form" /\ page.ws = None /\ ~ page.reconnectTimer
      /\ ~ page.reconnectBlocked /\ page.outbox = <<>> /\ page.stored = <<>>
      /\ \A s \in SOCKETS : page.sock[s] = "free" /\ stream[s] = "silent"
  BY DEF Init, FreshPage
<1>3. TypeOK
  BY <1>1 DEF Init, TypeOK, StreamState
<1>4. Good(page, stream)
  BY <1>2 DEF Good, Connection, Watched, Flushed, Replaced, Live
<1>5. Ordered(sent, page.outbox, composed)
  BY <1>2 DEF Init, Ordered, Below, Rising, Before
<1>6. Len(page.outbox) <= MAX_OUTBOX_MESSAGES
  BY <1>2, ClientConstants
<1>7. Backup(page.stored, page.outbox, composed)
  BY <1>2, ClientConstants DEF Backup, Below, Rising, OutboxOfBefore
<1> QED BY <1>3, <1>4, <1>5, <1>6, <1>7 DEF IInv

\* A page that differs in nothing the invariants speak of.
SamePage(p, q) ==
    /\ SameUser(p, q)
    /\ q.ws = p.ws /\ q.wsJoined = p.wsJoined /\ q.short = p.short
    /\ q.reconnectTimer = p.reconnectTimer /\ q.connectTimer = p.connectTimer
    /\ q.joinTimer = p.joinTimer /\ q.receiveTimer = p.receiveTimer
    /\ q.sock = p.sock

LEMMA SamePageIsGood ==
    ASSUME NEW p, NEW q, NEW st, Good(p, st), SamePage(p, q)
    PROVE  Good(q, st)
BY DEF Good, Connection, Watched, Flushed, Replaced, Live, SamePage, SameUser

LEMMA UserSteps ==
    ASSUME IInv, EnterChat \/ RestartAnnounced \/ RecoveryTimerFires
    PROVE  QuietStep
<1>1. /\ page \in PageType /\ stream \in [SOCKETS -> StreamState]
      /\ Good(page, stream)
      /\ page.short \in Nat /\ page.outbox \in Seq(Nat) /\ page.ws \in SOCKETS \cup {None}
  BY DEF IInv, TypeOK, PageType
<1>2. CASE EnterChat
  <2>0. PICK n \in Nat : n = page.short + 1
    BY <1>1
  <2> DEFINE q == [page EXCEPT !.reconnectBlocked = FALSE, !.hasJoined = TRUE,
                               !.short = n]
  <2>1. q \in PageType
    BY <1>1 DEF PageType
  <2>2. /\ q.login = page.login /\ q.reconnectBlocked = FALSE /\ q.ws = page.ws
        /\ q.wsJoined = page.wsJoined /\ q.reconnectTimer = page.reconnectTimer
        /\ q.connectTimer = page.connectTimer /\ q.joinTimer = page.joinTimer
        /\ q.receiveTimer = page.receiveTimer /\ q.sock = page.sock
        /\ q.outbox = page.outbox /\ q.stored = page.stored
    BY <1>1 DEF PageType
  <2> HIDE DEF q
  <2>3. page' = q /\ page.login = "form" /\ UNCHANGED <<stream, composed, sent>>
    BY <1>2, <2>0 DEF EnterChat, q
  <2>4. Good(q, stream)
    BY <1>1, <2>2, <2>3 DEF Good, Connection, Watched, Flushed, Replaced, Live
  <2> QED BY <1>1, <2>1, <2>2, <2>3, <2>4 DEF QuietStep, Quiet, StaysAway
<1>3. CASE RestartAnnounced
  <2> DEFINE p == [page EXCEPT !.hasJoined = FALSE]
  <2>1. p \in PageType /\ SamePage(page, p)
    BY <1>1 DEF PageType, SamePage, SameUser
  <2> HIDE DEF p
  <2>2. page' = (IF p.ws = None THEN p ELSE Close(p, p.ws)) /\ page.login = "chat"
        /\ UNCHANGED <<stream, composed, sent>>
    BY <1>3 DEF RestartAnnounced, p
  <2>3. Good(p, stream)
    BY ONLY <1>1, <2>1, SamePageIsGood
  <2>4. CASE p.ws = None
    BY <1>1, <2>1, <2>2, <2>3, <2>4 DEF QuietStep, Quiet, StaysAway, SamePage, SameUser
  <2>5. CASE p.ws # None
    <3> DEFINE q == Close(p, p.ws)
    <3>1. p.ws \in SOCKETS
      BY <1>1, <2>1, <2>5 DEF SamePage
    <3>2. /\ q \in PageType /\ SameUser(p, q)
          /\ q.ws = p.ws /\ q.sock[p.ws] \in {"free", "closing"}
          /\ q.sock[p.ws] = "free" => p.sock[p.ws] = "free"
          /\ \A r \in SOCKETS \ {p.ws} : q.sock[r] = p.sock[r]
      BY <2>1, <3>1, CloseIs
    <3> HIDE DEF q
    <3>3. page' = q
      BY <2>2, <2>5 DEF q
    <3>4. Good(q, stream)
      BY <2>1, <2>2, <2>3, <2>5, <3>1, <3>2
         DEF Good, Connection, Watched, Flushed, Replaced, Live, SameUser, SamePage
    <3> QED BY <1>1, <2>1, <2>2, <3>2, <3>3, <3>4
            DEF QuietStep, Quiet, StaysAway, SamePage, SameUser
  <2> QED BY <2>4, <2>5
<1>4. CASE RecoveryTimerFires
  <2> DEFINE q == [page EXCEPT !.activeRecovery = FALSE]
  <2>1. q \in PageType /\ SamePage(page, q)
    BY <1>1 DEF PageType, SamePage, SameUser
  <2> HIDE DEF q
  <2>2. page' = q /\ UNCHANGED <<stream, composed, sent>>
    BY <1>4 DEF RecoveryTimerFires, q
  <2>3. Good(q, stream)
    BY ONLY <1>1, <2>1, SamePageIsGood
  <2> QED BY <1>1, <2>1, <2>2, <2>3 DEF QuietStep, Quiet, StaysAway, SamePage, SameUser
<1> QED BY <1>2, <1>3, <1>4

\* The events that call connect().
LEMMA ConnectStep ==
    ASSUME IInv, ShortTimerFires \/ ReconnectFires \/ Online
    PROVE  QuietStep
<1>1. /\ page \in PageType /\ stream \in [SOCKETS -> StreamState]
      /\ Good(page, stream) /\ page.login \in {"form", "chat"} /\ page.short \in Nat
  BY DEF IInv, TypeOK, PageType
<1>2. PICK p \in PageType :
         /\ page' \in Connect(p) /\ UNCHANGED <<stream, composed, sent>>
         /\ p.login = "chat" /\ p.reconnectBlocked = page.reconnectBlocked
         /\ p.ws = page.ws /\ p.wsJoined = page.wsJoined
         /\ p.connectTimer = page.connectTimer /\ p.joinTimer = page.joinTimer
         /\ p.receiveTimer = page.receiveTimer /\ p.sock = page.sock
         /\ p.outbox = page.outbox /\ p.stored = page.stored
  <2>1. CASE ShortTimerFires
    <3>1. PICK n \in Nat : n = page.short - 1
      BY <1>1, <2>1 DEF ShortTimerFires
    <3> DEFINE q == [page EXCEPT !.short = n, !.login = "chat"]
    <3>2. page' \in Connect(q) /\ UNCHANGED <<stream, composed, sent>>
      BY <2>1, <3>1 DEF ShortTimerFires
    <3>3. q \in PageType
      BY <1>1 DEF PageType
    <3>4. /\ q.login = "chat" /\ q.reconnectBlocked = page.reconnectBlocked
          /\ q.ws = page.ws /\ q.wsJoined = page.wsJoined
          /\ q.connectTimer = page.connectTimer /\ q.joinTimer = page.joinTimer
          /\ q.receiveTimer = page.receiveTimer /\ q.sock = page.sock
          /\ q.outbox = page.outbox /\ q.stored = page.stored
      BY <1>1 DEF PageType
    <3> HIDE DEF q
    <3> QED BY <3>2, <3>3, <3>4
  <2>2. CASE ReconnectFires \/ Online
    <3> DEFINE q == [page EXCEPT !.reconnectTimer = FALSE]
    <3>1. /\ page' \in Connect(q) /\ UNCHANGED <<stream, composed, sent>>
          /\ page.login = "chat"
      BY <1>1, <2>2 DEF ReconnectFires, Online, Good, Connection
    <3>2. q \in PageType
      BY <1>1 DEF PageType
    <3>3. /\ q.login = page.login /\ q.reconnectBlocked = page.reconnectBlocked
          /\ q.ws = page.ws /\ q.wsJoined = page.wsJoined
          /\ q.connectTimer = page.connectTimer /\ q.joinTimer = page.joinTimer
          /\ q.receiveTimer = page.receiveTimer /\ q.sock = page.sock
          /\ q.outbox = page.outbox /\ q.stored = page.stored
      BY <1>1 DEF PageType
    <3> HIDE DEF q
    <3> QED BY <3>1, <3>2, <3>3
  <2> QED BY <2>1, <2>2
<1>3. /\ \A s \in SOCKETS : Live(p, s) => p.ws = s
      /\ Watched(p) /\ Flushed(p) /\ Replaced(p, stream)
  BY <1>1, <1>2 DEF Good, Connection, Watched, Flushed, Replaced, Live
<1>4. /\ page' \in PageType /\ SameUser(p, page') /\ Good(page', stream)
      /\ p.reconnectBlocked => page' = p
  BY <1>2, <1>3, ConnectIs
<1> QED BY <1>1, <1>2, <1>4 DEF QuietStep, Quiet, StaysAway, SameUser

\* The page gives its current socket up.
LEMMA GivingUp ==
    ASSUME IInv, NEW s \in SOCKETS, page.ws = s, GivenUp(page, page', s),
           UNCHANGED <<stream, composed, sent>>
    PROVE  QuietStep
<1>1. /\ stream \in [SOCKETS -> StreamState] /\ Good(page, stream)
      /\ page.login = "chat"
  BY ClientConstants DEF IInv, TypeOK, PageType, Good, Connection
<1>2. /\ \A t \in SOCKETS : Live(page, t) => t = s
      /\ Replaced(page, stream) /\ page \in PageType
  BY <1>1 DEF Good, Connection, IInv, TypeOK
<1>3. Good(page', stream)
  BY ONLY <1>1, <1>2, GivenUpIsGood, GivenUp(page, page', s), s \in SOCKETS
<1> QED BY <1>1, <1>3 DEF QuietStep, Quiet, StaysAway, GivenUp, SameUser

\* Pages that differ in what the invariants do not speak of are given up alike.
LEMMA GivenUpFrom ==
    ASSUME NEW p, NEW p2, NEW q, NEW s, SameUser(p, p2), p2.sock = p.sock,
           GivenUp(p2, q, s)
    PROVE  GivenUp(p, q, s)
BY DEF GivenUp, SameUser

LEMMA TimerSteps ==
    ASSUME IInv, ConnectTimerFires \/ JoinTimerFires \/ ReceiveTimerFires
    PROVE  QuietStep
<1>1. /\ page \in PageType /\ stream \in [SOCKETS -> StreamState]
      /\ Good(page, stream) /\ page.ws \in SOCKETS \cup {None}
      /\ {page.connectTimer, page.joinTimer, page.receiveTimer} \subseteq SOCKETS \cup {None}
  BY DEF IInv, TypeOK, PageType
<1>2. CASE ConnectTimerFires
  <2> DEFINE p == [page EXCEPT !.connectTimer = None]
             s == page.connectTimer
  <2>1. p \in PageType /\ SameUser(page, p)
    BY <1>1 DEF PageType, SameUser
  <2>2. /\ p.ws = page.ws /\ p.wsJoined = page.wsJoined /\ p.short = page.short
        /\ p.reconnectTimer = page.reconnectTimer /\ p.sock = page.sock
        /\ p.joinTimer = page.joinTimer /\ p.receiveTimer = page.receiveTimer
    BY <1>1 DEF PageType
  <2>3. s \in SOCKETS /\ UNCHANGED <<stream, composed, sent>>
    BY <1>1, <1>2 DEF ConnectTimerFires
  <2>4. page' = IF p.ws = s /\ p.sock[s] = "connecting"
                THEN TryFallback(Close(ReleaseSocket(p), s)) ELSE p
    BY <1>2 DEF ConnectTimerFires
  <2> HIDE DEF p, s
  <2>5. CASE p.ws = s /\ p.sock[s] = "connecting"
    <3> DEFINE q == ReleaseSocket(p)
               r == Close(q, s)
    <3>1. q \in PageType /\ SameUser(p, q) /\ q.ws = None /\ ~ q.wsJoined /\ q.sock = p.sock
      BY <2>1, ReleaseIs
    <3> HIDE DEF q
    <3>2. /\ r \in PageType /\ SameUser(q, r) /\ r.ws = q.ws /\ r.wsJoined = q.wsJoined
          /\ r.sock[s] \in {"free", "closing"} /\ (r.sock[s] = "free" => q.sock[s] = "free")
          /\ \A t \in SOCKETS \ {s} : r.sock[t] = q.sock[t]
      BY <2>3, <3>1, CloseIs
    <3> HIDE DEF r
    <3>3. LET t == TryFallback(r)
          IN  /\ t \in PageType /\ SameUser(r, t) /\ t.ws = r.ws /\ t.wsJoined = r.wsJoined
              /\ ~ r.reconnectBlocked => t.reconnectTimer \/ t.short > 0
              /\ t.sock = r.sock
      BY <3>2, FallbackIs
    <3>4. page' = TryFallback(r)
      BY <2>4, <2>5 DEF q, r
    <3>5. GivenUp(page, page', s)
      BY <2>1, <2>2, <3>1, <3>2, <3>3, <3>4 DEF GivenUp, SameUser
    <3> QED BY <2>2, <2>3, <2>5, <3>5, GivingUp
  <2>6. CASE ~ (p.ws = s /\ p.sock[s] = "connecting")
    <3>1. page' = p /\ ~ (page.ws = s /\ page.sock[s] = "connecting")
      BY <2>2, <2>4, <2>6
    <3>2. Good(p, stream)
      BY <1>1, <2>1, <2>2, <3>1
         DEF Good, Connection, Watched, Flushed, Replaced, Live, SameUser, s
    <3> QED BY <1>1, <2>1, <2>2, <2>3, <3>1, <3>2 DEF QuietStep, Quiet, StaysAway, SameUser
  <2> QED BY <2>5, <2>6
<1>3. CASE JoinTimerFires
  <2> DEFINE p == [page EXCEPT !.joinTimer = None]
             s == page.joinTimer
  <2>1. p \in PageType /\ SameUser(page, p)
    BY <1>1 DEF PageType, SameUser
  <2>2. /\ p.ws = page.ws /\ p.wsJoined = page.wsJoined /\ p.short = page.short
        /\ p.reconnectTimer = page.reconnectTimer /\ p.sock = page.sock
        /\ p.connectTimer = page.connectTimer /\ p.receiveTimer = page.receiveTimer
    BY <1>1 DEF PageType
  <2>3. s \in SOCKETS /\ UNCHANGED <<stream, composed, sent>>
    BY <1>1, <1>3 DEF JoinTimerFires
  <2>4. page' = IF p.wsJoined THEN p ELSE ReconnectSocket(p, s)
    BY <1>3 DEF JoinTimerFires
  <2> HIDE DEF p, s
  <2>5. CASE ~ p.wsJoined /\ p.ws = s
    <3>1. GivenUp(p, page', s)
      BY <2>1, <2>3, <2>4, <2>5, ReconnectIs
    <3>2. GivenUp(page, page', s)
      BY <2>1, <2>2, <3>1, GivenUpFrom
    <3> QED BY <2>2, <2>3, <2>5, <3>2, GivingUp
  <2>6. CASE p.wsJoined \/ p.ws # s
    <3>1. page' = p /\ (page.wsJoined \/ page.ws # s)
      BY <2>1, <2>2, <2>3, <2>4, <2>6, ReconnectIs
    <3>2. Good(p, stream)
      BY <1>1, <2>1, <2>2, <3>1
         DEF Good, Connection, Watched, Flushed, Replaced, Live, SameUser, s
    <3> QED BY <1>1, <2>1, <2>2, <2>3, <3>1, <3>2 DEF QuietStep, Quiet, StaysAway, SameUser
  <2> QED BY <2>5, <2>6
<1>4. CASE ReceiveTimerFires
  <2> DEFINE p == [page EXCEPT !.receiveTimer = None]
             s == page.receiveTimer
  <2>1. p \in PageType /\ SameUser(page, p)
    BY <1>1 DEF PageType, SameUser
  <2>2. /\ p.ws = page.ws /\ p.wsJoined = page.wsJoined /\ p.short = page.short
        /\ p.reconnectTimer = page.reconnectTimer /\ p.sock = page.sock
        /\ p.connectTimer = page.connectTimer /\ p.joinTimer = page.joinTimer
    BY <1>1 DEF PageType
  <2>3. s \in SOCKETS /\ UNCHANGED <<stream, composed, sent>>
    BY <1>1, <1>4 DEF ReceiveTimerFires
  <2>4. page' = IF p.wsJoined THEN ReconnectSocket(p, s) ELSE p
    BY <1>4 DEF ReceiveTimerFires
  <2> HIDE DEF p, s
  <2>5. CASE p.wsJoined /\ p.ws = s
    <3>1. GivenUp(p, page', s)
      BY <2>1, <2>3, <2>4, <2>5, ReconnectIs
    <3>2. GivenUp(page, page', s)
      BY <2>1, <2>2, <3>1, GivenUpFrom
    <3> QED BY <2>2, <2>3, <2>5, <3>2, GivingUp
  <2>6. CASE ~ p.wsJoined \/ p.ws # s
    <3>1. page' = p /\ (~ page.wsJoined \/ page.ws # s)
      BY <2>1, <2>2, <2>3, <2>4, <2>6, ReconnectIs
    <3>2. Good(p, stream)
      BY <1>1, <2>1, <2>2, <3>1
         DEF Good, Connection, Watched, Flushed, Replaced, Live, SameUser, s
    <3> QED BY <1>1, <2>1, <2>2, <2>3, <3>1, <3>2 DEF QuietStep, Quiet, StaysAway, SameUser
  <2> QED BY <2>5, <2>6
<1> QED BY <1>2, <1>3, <1>4

LEMMA RearmedIs ==
    ASSUME NEW p \in PageType
    PROVE  LET q == Rearmed(p)
           IN  /\ q \in PageType /\ SameUser(p, q)
               /\ q.ws = p.ws /\ q.wsJoined = p.wsJoined /\ q.short = p.short
               /\ q.reconnectTimer = p.reconnectTimer /\ q.connectTimer = p.connectTimer
               /\ q.joinTimer = p.joinTimer /\ q.sock = p.sock
               /\ IF p.wsJoined THEN q.receiveTimer = p.ws ELSE q = p
<1>1. CASE p.wsJoined
  <2> DEFINE q == [p EXCEPT !.receiveTimer = p.ws]
  <2>1. q \in PageType
    BY DEF PageType
  <2>2. /\ SameUser(p, q) /\ q.ws = p.ws /\ q.wsJoined = p.wsJoined /\ q.short = p.short
        /\ q.reconnectTimer = p.reconnectTimer /\ q.connectTimer = p.connectTimer
        /\ q.joinTimer = p.joinTimer /\ q.sock = p.sock /\ q.receiveTimer = p.ws
    BY DEF PageType, SameUser
  <2>3. Rearmed(p) = q
    BY <1>1 DEF Rearmed
  <2> HIDE DEF q
  <2> QED BY <1>1, <2>1, <2>2, <2>3
<1>2. CASE ~ p.wsJoined
  BY <1>2 DEF Rearmed, SameUser
<1> QED BY <1>1, <1>2

\* What holds while socket s receives.
LEMMA ReceivesIs ==
    ASSUME IInv, NEW s \in SOCKETS, Receives(s)
    PROVE  /\ page.ws = s /\ page.sock[s] = "open" /\ State(page) = "open" /\ s # None
           /\ page \in PageType /\ stream \in [SOCKETS -> StreamState]
           /\ Good(page, stream) /\ page.login = "chat"
           /\ page.sock \in [SOCKETS -> SockState]
BY ClientConstants DEF IInv, TypeOK, PageType, Receives, State, Good, Connection

LEMMA RecoveryStep ==
    ASSUME IInv, StartHistoryRecovery
    PROVE  QuietStep
<1>1. /\ page \in PageType /\ stream \in [SOCKETS -> StreamState]
      /\ Good(page, stream) /\ page.ws \in SOCKETS \cup {None}
  BY DEF IInv, TypeOK, PageType
<1>2. /\ State(page) = "open" /\ UNCHANGED <<stream, composed, sent>>
      /\ page' \in {[p EXCEPT !.activeRecovery = TRUE] : p \in Sends(page)}
                      \cup SendFails(page)
  BY DEF StartHistoryRecovery
<1>3. page.ws \in SOCKETS
  BY <1>1, <1>2 DEF State
<1>4. CASE page' = [page EXCEPT !.activeRecovery = TRUE]
  <2>1. page' \in PageType /\ SamePage(page, page')
    BY <1>1, <1>4 DEF PageType, SamePage, SameUser
  <2>2. Good(page', stream)
    BY ONLY <1>1, <2>1, SamePageIsGood
  <2> QED BY <1>1, <1>2, <2>1, <2>2 DEF QuietStep, Quiet, StaysAway, SamePage, SameUser
<1>5. CASE page' = ReconnectSocket(page, page.ws)
  <2>1. GivenUp(page, page', page.ws)
    BY <1>1, <1>3, <1>5, ReconnectIs
  <2> QED BY <1>2, <1>3, <2>1, GivingUp
<1> QED BY <1>2, <1>4, <1>5 DEF Sends, SendFails

LEMMA OpensStep ==
    ASSUME IInv, NEW s \in SOCKETS, Opens(s)
    PROVE  QuietStep
<1>1. /\ page \in PageType /\ stream \in [SOCKETS -> StreamState]
      /\ Good(page, stream) /\ page.sock \in [SOCKETS -> SockState]
      /\ page.sock[s] = "connecting" /\ UNCHANGED <<composed, sent>>
  BY DEF IInv, TypeOK, PageType, Opens
<1>2. /\ page.ws = s /\ s # None /\ stream[s] = "silent" /\ ~ page.reconnectBlocked
      /\ page.login = "chat"
  BY <1>1, ClientConstants DEF Good, Connection, Replaced, Live, PageType
<1> DEFINE q == [page EXCEPT !.sock[s] = "open"]
           p == [q EXCEPT !.connectTimer = None, !.receiveTimer = None,
                          !.opened = TRUE, !.wsUrlAttempt = 0, !.wsJoined = FALSE]
<1>3. q \in PageType
  BY <1>1 DEF PageType, SockState
<1>4. /\ SameUser(page, q) /\ q.ws = page.ws /\ q.sock = [page.sock EXCEPT ![s] = "open"]
  BY <1>1 DEF PageType, SameUser
<1>5. CASE page' \in {[f EXCEPT !.joinTimer = s] : f \in Sends(p)}
           /\ stream' = [stream EXCEPT ![s] = "joining"]
  <2> HIDE DEF q
  <2>1. p \in PageType
    BY <1>3 DEF PageType
  <2>2. SameUser(q, p) /\ p.ws = q.ws /\ p.sock = q.sock /\ p.wsJoined = FALSE
    BY <1>3 DEF PageType, SameUser
  <2> HIDE DEF p
  <2>3. page' = [p EXCEPT !.joinTimer = s]
    BY <1>5 DEF Sends
  <2>4. page' \in PageType
    BY <2>1, <2>3 DEF PageType
  <2>5. /\ SameUser(p, page') /\ page'.ws = p.ws /\ page'.sock = p.sock
        /\ page'.wsJoined = p.wsJoined /\ page'.joinTimer = s
    BY <2>1, <2>3 DEF PageType, SameUser
  <2>6. /\ page'.ws = s /\ page'.sock[s] = "open" /\ ~ page'.wsJoined
        /\ SameUser(page, page')
        /\ \A r \in SOCKETS \ {s} : page'.sock[r] = page.sock[r]
    BY <1>1, <1>2, <1>4, <2>2, <2>5 DEF SameUser
  <2>7. Good(page', stream')
    BY <1>1, <1>2, <1>5, <2>5, <2>6
       DEF Good, Connection, Watched, Flushed, Replaced, Live, SameUser
  <2>8. stream' \in [SOCKETS -> StreamState]
    BY <1>1, <1>5 DEF StreamState
  <2> QED BY <1>1, <1>2, <2>4, <2>6, <2>7, <2>8 DEF QuietStep, Quiet, StaysAway, SameUser
<1>6. CASE page' \in {Close(f, s) : f \in SendFails(p)} /\ UNCHANGED stream
  <2> HIDE DEF q
  <2>1. p \in PageType
    BY <1>3 DEF PageType
  <2>2. SameUser(q, p) /\ p.ws = q.ws /\ p.sock = q.sock
    BY <1>3 DEF PageType, SameUser
  <2> HIDE DEF p
  <2>3. State(p) = "open" /\ p.ws = s
    BY <1>1, <1>2, <1>4, <2>2 DEF State
  <2> DEFINE f == ReconnectSocket(p, s)
  <2>4. page' = Close(f, s)
    BY <1>6, <2>3 DEF SendFails
  <2>5. GivenUp(p, f, s)
    BY <2>1, <2>3, ReconnectIs
  <2> HIDE DEF f
  <2>6. f \in PageType /\ f.sock[s] \in {"free", "closing"}
    BY <2>5 DEF GivenUp
  <2>7. Close(f, s) = f
    BY <2>6 DEF Close
  <2>8. GivenUp(page, page', s)
    BY <1>1, <1>2, <1>4, <2>2, <2>4, <2>5, <2>7 DEF GivenUp, SameUser
  <2> QED BY <1>1, <1>2, <1>6, <2>8, GivingUp
<1> QED BY <1>2, <1>5, <1>6 DEF Opens

LEMMA EndingSteps ==
    ASSUME IInv, NEW s \in SOCKETS, Closing(s) \/ Closed(s)
    PROVE  QuietStep
<1>1. /\ page \in PageType /\ stream \in [SOCKETS -> StreamState]
      /\ Good(page, stream) /\ page.sock \in [SOCKETS -> SockState]
      /\ page.ws \in SOCKETS \cup {None} /\ s # None
      /\ page.ws # None => page.login = "chat"
  BY ClientConstants DEF IInv, TypeOK, PageType, Good, Connection
<1>2. CASE Closing(s)
  <2>1. /\ page' \in PageType /\ SameUser(page, page')
        /\ page'.ws = page.ws /\ page'.wsJoined = page.wsJoined
        /\ page'.short = page.short /\ page'.reconnectTimer = page.reconnectTimer
        /\ page'.sock[s] = "closing" /\ page.sock[s] # "free"
        /\ \A r \in SOCKETS \ {s} : page'.sock[r] = page.sock[r]
    BY <1>1, <1>2, CloseIs DEF Closing
  <2>2. UNCHANGED <<stream, composed, sent>> /\ page.ws = s
    BY <1>1, <1>2 DEF Closing, Good, Connection, Live
  <2>3. Good(page', stream)
    BY <1>1, <2>1, <2>2 DEF Good, Connection, Watched, Flushed, Replaced, Live, SameUser
  <2> QED BY <1>1, <2>1, <2>2, <2>3 DEF QuietStep, Quiet, StaysAway, SameUser
<1>3. CASE Closed(s)
  <2> DEFINE q == [page EXCEPT !.sock[s] = "free"]
             p == ReleaseSocket(q)
             first == [p EXCEPT !.wsUrlAttempt = 0]
  <2>1. q \in PageType
    BY <1>1 DEF PageType, SockState
  <2>2. /\ SameUser(page, q) /\ q.ws = page.ws /\ q.wsJoined = page.wsJoined
        /\ q.short = page.short /\ q.reconnectTimer = page.reconnectTimer
        /\ q.connectTimer = page.connectTimer /\ q.joinTimer = page.joinTimer
        /\ q.receiveTimer = page.receiveTimer
        /\ q.sock = [page.sock EXCEPT ![s] = "free"]
    BY <1>1 DEF PageType, SameUser
  <2>3. /\ page' = IF q.ws # s THEN q
                   ELSE IF p.reconnectBlocked THEN p
                   ELSE IF p.opened THEN ScheduleReconnect(first)
                   ELSE TryFallback(p)
        /\ stream' = [stream EXCEPT ![s] = "silent"] /\ UNCHANGED <<composed, sent>>
    BY <1>3 DEF Closed
  <2> HIDE DEF q
  <2>4. /\ p \in PageType /\ SameUser(q, p) /\ p.ws = None /\ ~ p.wsJoined
        /\ p.sock = q.sock
    BY <2>1, ReleaseIs
  <2> HIDE DEF p
  <2>5. /\ first \in PageType /\ SameUser(p, first) /\ first.ws = None
        /\ first.sock = p.sock
    BY <2>4 DEF PageType, SameUser
  <2> HIDE DEF first
  <2>6. stream' \in [SOCKETS -> StreamState]
    BY <1>1, <2>3 DEF StreamState
  <2>7. \A r \in SOCKETS \ {s} : q.sock[r] = page.sock[r] /\ stream'[r] = stream[r]
    BY <1>1, <2>2, <2>3
  <2>8. q.sock[s] = "free" /\ stream'[s] = "silent"
    BY <1>1, <2>2, <2>3
  <2>9. CASE page.ws # s
    <3>1. page' = q
      BY <2>2, <2>3, <2>9
    <3>2. Good(q, stream')
      BY <1>1, <2>2, <2>7, <2>8, <2>9
         DEF Good, Connection, Watched, Flushed, Replaced, Live, SameUser
    <3> QED BY <2>1, <2>2, <2>3, <2>6, <3>1, <3>2 DEF QuietStep, Quiet, StaysAway, SameUser
  <2>10. CASE page.ws = s
    <3>1. /\ page' \in PageType /\ SameUser(q, page') /\ page'.ws = None
          /\ page'.sock = q.sock
          /\ ~ page'.reconnectBlocked => page'.reconnectTimer \/ page'.short > 0
      <4>1. CASE p.reconnectBlocked
        BY <2>2, <2>3, <2>4, <2>10, <4>1
      <4>2. CASE ~ p.reconnectBlocked /\ p.opened
        <5>1. page' = ScheduleReconnect(first)
          BY <2>2, <2>3, <2>10, <4>2
        <5> QED BY <2>4, <2>5, <4>2, <5>1, ScheduleIs DEF SameUser
      <4>3. CASE ~ p.reconnectBlocked /\ ~ p.opened
        <5>1. page' = TryFallback(p)
          BY <2>2, <2>3, <2>10, <4>3
        <5> QED BY <2>4, <4>3, <5>1, FallbackIs DEF SameUser
      <4> QED BY <4>1, <4>2, <4>3
    <3>2. Good(page', stream')
      BY <1>1, <2>2, <2>7, <2>8, <2>10, <3>1
         DEF Good, Connection, Watched, Flushed, Replaced, Live, SameUser
    <3> QED BY <2>2, <2>3, <2>6, <3>1, <3>2 DEF QuietStep, Quiet, StaysAway, SameUser
  <2> QED BY <2>9, <2>10
<1> QED BY <1>2, <1>3

LEMMA ReceivedSteps ==
    ASSUME IInv, NEW s \in SOCKETS, NEW b \in BOOLEAN,
           HistoryInfo(s, b) \/ Ping(s) \/ BadSinceId(s)
    PROVE  QuietStep
<1>1. Receives(s) /\ UNCHANGED <<stream, composed, sent>>
  BY DEF HistoryInfo, Ping, BadSinceId
<1>2. /\ page.ws = s /\ page.sock[s] = "open" /\ s # None
      /\ page \in PageType /\ stream \in [SOCKETS -> StreamState]
      /\ Good(page, stream) /\ page.login = "chat"
  BY <1>1, ReceivesIs
<1> DEFINE p == Rearmed(page)
<1>3. /\ p \in PageType /\ SameUser(page, p)
      /\ p.ws = page.ws /\ p.wsJoined = page.wsJoined /\ p.short = page.short
      /\ p.reconnectTimer = page.reconnectTimer /\ p.connectTimer = page.connectTimer
      /\ p.joinTimer = page.joinTimer /\ p.sock = page.sock
      /\ IF page.wsJoined THEN p.receiveTimer = page.ws ELSE p = page
  BY <1>2, RearmedIs
<1> HIDE DEF p
<1>4. CASE HistoryInfo(s, b)
  <2> DEFINE q == [p EXCEPT !.boundary = b,
                            !.joinTimer = IF page.wsJoined THEN @ ELSE s]
  <2>1. q \in PageType
    BY <1>3 DEF PageType
  <2>2. /\ SameUser(p, q) /\ q.ws = p.ws /\ q.wsJoined = p.wsJoined
        /\ q.short = p.short /\ q.reconnectTimer = p.reconnectTimer
        /\ q.connectTimer = p.connectTimer /\ q.receiveTimer = p.receiveTimer
        /\ q.sock = p.sock /\ (~ page.wsJoined => q.joinTimer = s)
    BY <1>3 DEF PageType, SameUser
  <2>3. page' = q
    BY <1>4 DEF HistoryInfo, p
  <2> HIDE DEF q
  <2>4. Good(q, stream)
    BY <1>2, <1>3, <2>2 DEF Good, Connection, Watched, Flushed, Replaced, Live, SameUser
  <2> QED BY <1>1, <1>2, <1>3, <2>1, <2>2, <2>3, <2>4
          DEF QuietStep, Quiet, StaysAway, SameUser
<1>5. CASE Ping(s)
  <2>1. State(p) = "open"
    BY <1>2, <1>3 DEF State
  <2>2. page' = p \/ page' = ReconnectSocket(p, s)
    BY <1>2, <1>3, <1>5, <2>1 DEF Ping, Sends, SendFails, p
  <2>3. CASE page' = p
    <3>1. Good(p, stream)
      BY <1>2, <1>3 DEF Good, Connection, Watched, Flushed, Replaced, Live, SameUser
    <3> QED BY <1>1, <1>2, <1>3, <2>3, <3>1 DEF QuietStep, Quiet, StaysAway, SameUser
  <2>4. CASE page' = ReconnectSocket(p, s)
    <3>1. GivenUp(p, page', s)
      BY <1>2, <1>3, <2>4, ReconnectIs
    <3>2. GivenUp(page, page', s)
      BY <1>3, <3>1, GivenUpFrom
    <3> QED BY <1>1, <1>2, <3>2, GivingUp
  <2> QED BY <2>2, <2>3, <2>4
<1>6. CASE BadSinceId(s)
  <2> DEFINE q == [p EXCEPT !.reconnectBlocked = FALSE, !.wsJoined = FALSE,
                            !.joinTimer = None]
  <2>1. q \in PageType
    BY <1>3 DEF PageType
  <2>2. /\ q.login = p.login /\ q.outbox = p.outbox /\ q.stored = p.stored
        /\ q.reconnectBlocked = FALSE /\ q.ws = p.ws /\ q.sock = p.sock
    BY <1>3 DEF PageType
  <2>3. page' = ReconnectSocket(q, s)
    BY <1>6 DEF BadSinceId, p
  <2> HIDE DEF q
  <2>4. page.reconnectBlocked = FALSE
    BY <1>2, <1>6 DEF BadSinceId, Good, Replaced, PageType
  <2>5. GivenUp(q, page', s)
    BY <1>2, <1>3, <2>1, <2>2, <2>3, ReconnectIs
  <2>6. GivenUp(page, page', s)
    BY <1>3, <2>2, <2>4, <2>5, GivenUpFrom DEF SameUser
  <2> QED BY <1>1, <1>2, <2>6, GivingUp
<1> QED BY <1>4, <1>5, <1>6

LEMMA DiesStep ==
    ASSUME IInv, NEW s \in SOCKETS, Dies(s)
    PROVE  QuietStep
<1>1. /\ page \in PageType /\ stream \in [SOCKETS -> StreamState]
      /\ Good(page, stream) /\ page' = page /\ UNCHANGED <<composed, sent>>
      /\ stream[s] \in {"joining", "joined"}
  BY DEF IInv, TypeOK, Dies
<1>2. stream' \in [SOCKETS -> StreamState]
  BY <1>1 DEF Dies, StreamState
<1>3. \A r \in SOCKETS \ {s} : stream'[r] = stream[r]
  BY <1>1 DEF Dies
<1>4. page.ws \in SOCKETS \cup {None}
  BY <1>1 DEF PageType
<1>5. Good(page', stream')
  BY <1>1, <1>3, <1>4 DEF Good, Replaced
<1> QED BY <1>1, <1>2, <1>5 DEF QuietStep, Quiet, StaysAway

LEMMA ReplacedStep ==
    ASSUME IInv, NEW s \in SOCKETS, SessionReplaced(s)
    PROVE  QuietStep
<1>1. Receives(s) /\ stream' = [stream EXCEPT ![s] = "replaced"]
      /\ UNCHANGED <<composed, sent>>
  BY DEF SessionReplaced
<1>2. /\ page.ws = s /\ page.sock[s] = "open" /\ s # None
      /\ page \in PageType /\ stream \in [SOCKETS -> StreamState]
      /\ Good(page, stream) /\ page.login = "chat"
  BY <1>1, ReceivesIs
<1>3. /\ stream' \in [SOCKETS -> StreamState] /\ stream'[s] = "replaced"
      /\ \A r \in SOCKETS \ {s} : stream'[r] = stream[r]
  BY <1>1, <1>2 DEF StreamState
<1>4. page' \in PageType
  BY <1>2 DEF SessionReplaced, PageType
<1>5. /\ page'.login = page.login /\ page'.outbox = page.outbox /\ page'.ws = s
      /\ page'.stored = page.stored /\ page'.sock = page.sock /\ page'.reconnectBlocked = TRUE
      /\ page'.wsJoined = FALSE
  BY <1>2 DEF SessionReplaced, PageType
<1>6. Good(page', stream')
  BY <1>2, <1>3, <1>5 DEF Good, Connection, Watched, Flushed, Replaced, Live
<1> QED BY <1>1, <1>2, <1>3, <1>4, <1>5, <1>6 DEF QuietStep, Quiet, StaysAway

-----------------------------------------------------------------------------
(* The messages *)

\* What KeptOrSent says of a step.
Kept ==
    \A n \in 1..composed' :
        n \notin ToSet(sent') \cup ToSet(page'.outbox) =>
            \/ n <= composed /\ n \notin ToSet(sent) \cup ToSet(page.outbox)
            \/ Len(page.outbox) = MAX_OUTBOX_MESSAGES /\ n = Head(page.outbox)
            \/ /\ page.login = "chat" /\ page'.login = "form"
               /\ page.stored # page.outbox
               /\ n \in ToSet(sent) \/ \A m \in ToSet(page.stored) : m < n

\* A message numbered above the others goes behind them.
LEMMA Appended ==
    ASSUME NEW s \in Seq(Nat), NEW n \in Nat, Below(s, n), Rising(s)
    PROVE  LET a == Append(s, n + 1)
           IN  /\ a \in Seq(Nat) /\ Len(a) = Len(s) + 1
               /\ Below(a, n + 1) /\ Rising(a)
               /\ ToSet(a) = ToSet(s) \cup {n + 1}
<1> DEFINE a == Append(s, n + 1)
<1>1. PICK l \in Nat : l = Len(s)
  OBVIOUS
<1>2. /\ a \in Seq(Nat) /\ Len(a) = l + 1 /\ a[l + 1] = n + 1
      /\ \A i \in 1..l : a[i] = s[i]
      /\ DOMAIN a = 1..(l + 1) /\ DOMAIN s = 1..l
  BY <1>1
<1> HIDE DEF a
<1>3. \A i \in 1..l : a[i] \in 1..n
  BY <1>1, <1>2 DEF Below
<1>4. \A i \in 1..(l + 1) : i \in 1..l \/ i = l + 1
  BY <1>1
<1>5. 1..n \subseteq 1..(n + 1) /\ n + 1 \in 1..(n + 1)
  OBVIOUS
<1>6. Below(a, n + 1)
  BY <1>2, <1>3, <1>4, <1>5 DEF Below
<1>7. Rising(a)
  <2> SUFFICES ASSUME NEW i \in 1..(l + 1), NEW j \in 1..(l + 1), i < j
               PROVE  a[i] < a[j]
    BY <1>2 DEF Rising
  <2>1. i \in 1..l
    BY <1>1
  <2>2. CASE j = l + 1
    <3>1. a[i] \in 1..n
      BY <1>3, <2>1
    <3> QED BY <1>2, <2>2, <3>1
  <2>3. CASE j \in 1..l
    <3>1. s[i] < s[j]
      BY <1>1, <2>1, <2>3 DEF Rising
    <3> QED BY <1>2, <2>1, <2>3, <3>1
  <2> QED BY <1>4, <2>2, <2>3
<1>8. ToSet(a) = ToSet(s) \cup {n + 1}
  <2>1. ToSet(a) \subseteq ToSet(s) \cup {n + 1}
    BY <1>2, <1>4 DEF ToSet
  <2>2. 1..l \subseteq 1..(l + 1) /\ l + 1 \in 1..(l + 1)
    BY <1>1
  <2>3. ToSet(s) \cup {n + 1} \subseteq ToSet(a)
    BY <1>2, <2>2 DEF ToSet
  <2> QED BY <2>1, <2>3
<1> QED BY <1>1, <1>2, <1>6, <1>7, <1>8 DEF a

\* A new message is sent while nothing is queued ...
LEMMA OrderedSend ==
    ASSUME NEW out \in Seq(Nat), NEW n \in Nat, Ordered(out, <<>>, n)
    PROVE  LET a == Append(out, n + 1)
           IN  /\ a \in Seq(Nat) /\ Ordered(a, <<>>, n + 1)
               /\ ToSet(a) = ToSet(out) \cup {n + 1}
<1>1. Below(<<>>, n + 1) /\ Rising(<<>>) /\ \A a : Before(a, <<>>)
  BY DEF Below, Rising, Before
<1> QED BY <1>1, Appended DEF Ordered

\* ... or goes behind what is queued already.
LEMMA OrderedQueue ==
    ASSUME NEW out \in Seq(Nat), NEW queue \in Seq(Nat), NEW n \in Nat,
           Ordered(out, queue, n)
    PROVE  LET a == Append(queue, n + 1)
           IN  /\ a \in Seq(Nat) /\ Len(a) = Len(queue) + 1
               /\ Ordered(out, a, n + 1)
               /\ ToSet(a) = ToSet(queue) \cup {n + 1}
<1> DEFINE a == Append(queue, n + 1)
<1>1. /\ a \in Seq(Nat) /\ Len(a) = Len(queue) + 1
      /\ Below(a, n + 1) /\ Rising(a)
      /\ ToSet(a) = ToSet(queue) \cup {n + 1}
  BY Appended DEF Ordered
<1>2. PICK l \in Nat : l = Len(queue)
  OBVIOUS
<1>3. a[l + 1] = n + 1 /\ \A j \in 1..l : a[j] = queue[j]
  BY <1>2
<1> HIDE DEF a
<1>4. \A j \in 1..(l + 1) : j \in 1..l \/ j = l + 1
  OBVIOUS
<1>5. \A i \in 1..Len(out) : out[i] \in 1..n
  BY DEF Ordered, Below
<1>6. Before(out, a)
  <2> SUFFICES ASSUME NEW i \in 1..Len(out), NEW j \in 1..(l + 1)
               PROVE  out[i] < a[j]
    BY <1>1, <1>2 DEF Before
  <2>1. out[i] \in 1..n
    BY <1>5
  <2>2. CASE j = l + 1
    BY <1>3, <2>1, <2>2
  <2>3. CASE j \in 1..l
    BY <1>2, <1>3, <2>3 DEF Ordered, Before
  <2> QED BY <1>4, <2>2, <2>3
<1>7. Below(out, n + 1)
  <2>1. 1..n \subseteq 1..(n + 1)
    OBVIOUS
  <2> QED BY <1>5, <2>1 DEF Below
<1> QED BY <1>1, <1>6, <1>7 DEF Ordered, a

\* The oldest one may be dropped.
LEMMA OrderedDrop ==
    ASSUME NEW out \in Seq(Nat), NEW queue \in Seq(Nat), NEW n \in Nat,
           Ordered(out, queue, n), queue # <<>>
    PROVE  LET a == Tail(queue)
           IN  /\ a \in Seq(Nat) /\ Len(a) = Len(queue) - 1
               /\ Ordered(out, a, n)
               /\ ToSet(queue) = {Head(queue)} \cup ToSet(a)
               /\ \A x \in ToSet(a) : Head(queue) < x
<1> DEFINE a == Tail(queue)
<1>1. PICK l \in Nat : l = Len(queue) - 1
  OBVIOUS
<1>2. Len(queue) = l + 1
  BY <1>1
<1>3. /\ a \in Seq(Nat) /\ Len(a) = l
      /\ \A i \in 1..l : a[i] = queue[i + 1]
      /\ DOMAIN a = 1..l /\ DOMAIN queue = 1..(l + 1)
      /\ Head(queue) = queue[1]
  BY <1>1, <1>2
<1> HIDE DEF a
<1>4. \A i \in 1..l : i + 1 \in 1..(l + 1)
  OBVIOUS
<1>5. Below(a, n)
  BY <1>2, <1>3, <1>4 DEF Ordered, Below
<1>6. Rising(a)
  <2> SUFFICES ASSUME NEW i \in 1..l, NEW j \in 1..l, i < j
               PROVE  a[i] < a[j]
    BY <1>3 DEF Rising
  <2>1. i + 1 < j + 1 /\ i + 1 \in 1..(l + 1) /\ j + 1 \in 1..(l + 1)
    OBVIOUS
  <2>2. queue[i + 1] < queue[j + 1]
    BY <1>2, <2>1 DEF Ordered, Rising
  <2> QED BY <1>3, <2>2
<1>7. Before(out, a)
  BY <1>2, <1>3, <1>4 DEF Ordered, Before
<1>8. \A i \in 1..(l + 1) : i = 1 \/ \E j \in 1..l : i = j + 1
  <2> SUFFICES ASSUME NEW i \in 1..(l + 1), i # 1 PROVE \E j \in 1..l : i = j + 1
    OBVIOUS
  <2>1. i - 1 \in 1..l /\ i = (i - 1) + 1
    OBVIOUS
  <2> QED BY <2>1
<1>9. ASSUME NEW i \in 1..(l + 1) PROVE queue[i] \in {queue[1]} \cup ToSet(a)
  <2>1. CASE i = 1
    BY <2>1
  <2>2. ASSUME NEW j \in 1..l, i = j + 1 PROVE queue[i] \in ToSet(a)
    BY <1>3, <2>2 DEF ToSet
  <2> QED BY <1>8, <2>1, <2>2
<1>10. ASSUME NEW j \in 1..l PROVE a[j] \in ToSet(queue)
  <2>1. j + 1 \in 1..(l + 1) /\ a[j] = queue[j + 1]
    BY <1>3, <1>4
  <2> QED BY <1>3, <2>1 DEF ToSet
<1>11. queue[1] \in ToSet(queue)
  <2>1. 1 \in 1..(l + 1)
    OBVIOUS
  <2> QED BY <1>3, <2>1 DEF ToSet
<1>12. ToSet(queue) = {queue[1]} \cup ToSet(a)
  <2>1. ToSet(queue) = {queue[i] : i \in 1..(l + 1)} /\ ToSet(a) = {a[j] : j \in 1..l}
    BY <1>3 DEF ToSet
  <2> QED BY <1>9, <1>10, <1>11, <2>1
<1>13. ASSUME NEW j \in 1..l PROVE queue[1] < a[j]
  <2>1. 1 < j + 1 /\ 1 \in 1..(l + 1) /\ j + 1 \in 1..(l + 1)
    OBVIOUS
  <2>2. queue[1] < queue[j + 1]
    BY <1>2, <2>1 DEF Ordered, Rising
  <2> QED BY <1>3, <2>2
<1>14. \A x \in ToSet(a) : Head(queue) < x
  BY <1>3, <1>13 DEF ToSet
<1> QED BY <1>1, <1>3, <1>5, <1>6, <1>7, <1>12, <1>14 DEF a, Ordered

\* The first k of the queue may be sent.
LEMMA OrderedFlush ==
    ASSUME NEW out \in Seq(Nat), NEW queue \in Seq(Nat), NEW n \in Nat,
           Ordered(out, queue, n), NEW k \in 0..Len(queue)
    PROVE  LET o == out \o SubSeq(queue, 1, k)
               q == SubSeq(queue, k + 1, Len(queue))
           IN  /\ o \in Seq(Nat) /\ q \in Seq(Nat) /\ Len(q) <= Len(queue)
               /\ Ordered(o, q, n)
               /\ ToSet(o) \cup ToSet(q) = ToSet(out) \cup ToSet(queue)
               /\ ToSet(q) \subseteq ToSet(queue)
               /\ \A x \in ToSet(o), y \in ToSet(q) : x < y
               /\ k = Len(queue) => q = <<>>
<1> DEFINE f == SubSeq(queue, 1, k)
           o == out \o f
           q == SubSeq(queue, k + 1, Len(queue))
<1>1. PICK l \in Nat : l = Len(out)
  OBVIOUS
<1>2. PICK m \in Nat : m = Len(queue)
  OBVIOUS
<1>3. PICK r \in Nat : r = m - k
  <2>1. m - k \in Nat
    BY <1>2
  <2> QED BY <2>1
<1>4. k \in Nat /\ k + r = m
  BY <1>2, <1>3
<1>5. f \in Seq(Nat) /\ Len(f) = k /\ \A i \in 1..k : f[i] = queue[i]
  BY <1>2, <1>4
<1>6. q \in Seq(Nat) /\ Len(q) = r /\ \A i \in 1..r : q[i] = queue[k + i]
  BY <1>2, <1>4
<1> HIDE DEF f, q
<1>7. /\ o \in Seq(Nat) /\ Len(o) = l + k
      /\ \A i \in 1..l : o[i] = out[i]
      /\ \A i \in 1..k : o[l + i] = f[i]
  BY <1>1, <1>4, <1>5
<1> HIDE DEF o
\* The places of the three sequences.
<1>8. /\ DOMAIN out = 1..l /\ DOMAIN queue = 1..m
      /\ DOMAIN o = 1..(l + k) /\ DOMAIN q = 1..r
  BY <1>1, <1>2, <1>6, <1>7
<1>9. \A i \in 1..(l + k) : i \in 1..l \/ \E h \in 1..k : i = l + h
  <2> SUFFICES ASSUME NEW i \in 1..(l + k), i \notin 1..l
               PROVE  \E h \in 1..k : i = l + h
    OBVIOUS
  <2>1. i - l \in 1..k /\ i = l + (i - l)
    BY <1>4
  <2> QED BY <2>1
<1>10. \A i \in 1..k : i \in 1..m /\ l + i \in 1..(l + k) /\ o[l + i] = queue[i]
  <2>1. \A i \in 1..k : i \in 1..m /\ l + i \in 1..(l + k)
    BY <1>4
  <2> QED BY <1>5, <1>7, <2>1
<1>11. \A i \in 1..r : k + i \in 1..m /\ q[i] = queue[k + i]
  BY <1>4, <1>6
<1>12. \A i \in 1..m : i \in 1..k \/ \E h \in 1..r : i = k + h
  <2> SUFFICES ASSUME NEW i \in 1..m, i \notin 1..k
               PROVE  \E h \in 1..r : i = k + h
    OBVIOUS
  <2>1. i - k \in 1..r /\ i = k + (i - k)
    BY <1>4
  <2> QED BY <2>1
<1>13. 1..l \subseteq 1..(l + k)
  BY <1>4
\* What Ordered says of the old ones.
<1>14. /\ \A i \in 1..l : out[i] \in 1..n
       /\ \A i \in 1..m : queue[i] \in 1..n
       /\ \A i \in 1..l, j \in 1..l : i < j => out[i] < out[j]
       /\ \A i \in 1..m, j \in 1..m : i < j => queue[i] < queue[j]
       /\ \A i \in 1..l, j \in 1..m : out[i] < queue[j]
  BY <1>1, <1>2 DEF Ordered, Below, Rising, Before
<1>15. Below(o, n)
  <2>1. ASSUME NEW i \in 1..(l + k) PROVE o[i] \in 1..n
    <3>1. CASE i \in 1..l
      BY <1>7, <1>14, <3>1
    <3>2. ASSUME NEW h \in 1..k, i = l + h PROVE o[i] \in 1..n
      BY <1>10, <1>14, <3>2
    <3> QED BY <1>9, <3>1, <3>2
  <2> QED BY <1>7, <2>1 DEF Below
<1>16. Below(q, n)
  BY <1>6, <1>11, <1>14 DEF Below
<1>17. Rising(o)
  <2> SUFFICES ASSUME NEW i \in 1..(l + k), NEW j \in 1..(l + k), i < j
               PROVE  o[i] < o[j]
    BY <1>7 DEF Rising
  <2>1. CASE i \in 1..l /\ j \in 1..l
    BY <1>7, <1>14, <2>1
  <2>2. ASSUME i \in 1..l, NEW h \in 1..k, j = l + h PROVE o[i] < o[j]
    BY <1>7, <1>10, <1>14, <2>2
  <2>3. ASSUME NEW g \in 1..k, i = l + g, NEW h \in 1..k, j = l + h
        PROVE  o[i] < o[j]
    <3>1. g < h
      BY <2>3
    <3> QED BY <1>10, <1>14, <2>3, <3>1
  <2>4. ASSUME NEW g \in 1..k, i = l + g PROVE j \notin 1..l
    BY <2>4
  <2> QED BY <1>9, <2>1, <2>2, <2>3, <2>4
<1>18. Rising(q)
  <2> SUFFICES ASSUME NEW i \in 1..r, NEW j \in 1..r, i < j
               PROVE  q[i] < q[j]
    BY <1>6 DEF Rising
  <2>1. k + i < k + j
    BY <1>4
  <2> QED BY <1>11, <1>14, <2>1
<1>19. Before(o, q)
  <2> SUFFICES ASSUME NEW i \in 1..(l + k), NEW j \in 1..r
               PROVE  o[i] < q[j]
    BY <1>6, <1>7 DEF Before
  <2>1. CASE i \in 1..l
    BY <1>7, <1>11, <1>14, <2>1
  <2>2. ASSUME NEW h \in 1..k, i = l + h PROVE o[i] < q[j]
    <3>1. h < k + j
      BY <1>4
    <3> QED BY <1>10, <1>11, <1>14, <2>2, <3>1
  <2> QED BY <1>9, <2>1, <2>2
<1>20. Ordered(o, q, n)
  BY <1>15, <1>16, <1>17, <1>18, <1>19 DEF Ordered
<1>21. ToSet(o) \cup ToSet(q) = ToSet(out) \cup ToSet(queue)
  <2>1. /\ ToSet(o) = {o[i] : i \in 1..(l + k)} /\ ToSet(q) = {q[i] : i \in 1..r}
        /\ ToSet(out) = {out[i] : i \in 1..l} /\ ToSet(queue) = {queue[i] : i \in 1..m}
    BY <1>8 DEF ToSet
  <2>2. ASSUME NEW i \in 1..(l + k) PROVE o[i] \in ToSet(out) \cup ToSet(queue)
    <3>1. CASE i \in 1..l
      BY <1>7, <2>1, <3>1
    <3>2. ASSUME NEW h \in 1..k, i = l + h PROVE o[i] \in ToSet(queue)
      BY <1>10, <2>1, <3>2
    <3> QED BY <1>9, <3>1, <3>2
  <2>3. \A i \in 1..r : q[i] \in ToSet(queue)
    BY <1>11, <2>1
  <2>4. \A i \in 1..l : out[i] \in ToSet(o)
    BY <1>7, <1>13, <2>1
  <2>5. ASSUME NEW i \in 1..m PROVE queue[i] \in ToSet(o) \cup ToSet(q)
    <3>1. CASE i \in 1..k
      BY <1>10, <2>1, <3>1
    <3>2. ASSUME NEW h \in 1..r, i = k + h PROVE queue[i] \in ToSet(q)
      BY <1>11, <2>1, <3>2
    <3> QED BY <1>12, <3>1, <3>2
  <2> QED BY <2>1, <2>2, <2>3, <2>4, <2>5
<1>22. k = Len(queue) => q = <<>>
  BY <1>2, <1>4, <1>6
<1>23. Len(q) <= Len(queue)
  BY <1>2, <1>4, <1>6
<1>24. ToSet(q) \subseteq ToSet(queue)
  BY <1>8, <1>11 DEF ToSet
<1>25. \A x \in ToSet(o), y \in ToSet(q) : x < y
  <2>1. \A i \in 1..(l + k), j \in 1..r : o[i] < q[j]
    BY <1>6, <1>7, <1>19 DEF Before
  <2> QED BY <1>8, <2>1 DEF ToSet
<1> QED BY <1>6, <1>7, <1>20, <1>21, <1>22, <1>23, <1>24, <1>25 DEF f, o, q

\* The members of a sequence that is below a bound.
LEMMA BelowSet ==
    ASSUME NEW s \in Seq(Nat), NEW n \in Nat, Below(s, n)
    PROVE  ToSet(s) \subseteq 1..n
BY DEF Below, ToSet

\* What localStorage held stays a backup when a message is queued ...
LEMMA BackupQueue ==
    ASSUME NEW kept \in Seq(Nat), NEW queue \in Seq(Nat), NEW n \in Nat, NEW more,
           Backup(kept, queue, n), Below(queue, n),
           ToSet(more) = ToSet(queue) \cup {n + 1}
    PROVE  Backup(kept, more, n + 1)
<1>1. ToSet(kept) \subseteq 1..n /\ ToSet(queue) \subseteq 1..n
  BY BelowSet DEF Backup
<1>2. \A x \in 1..n : x < n + 1
  OBVIOUS
<1>3. OutboxOfBefore(kept, more)
  BY <1>1, <1>2 DEF Backup, OutboxOfBefore
<1>4. Below(kept, n + 1)
  <2>1. 1..n \subseteq 1..(n + 1)
    OBVIOUS
  <2> QED BY <2>1 DEF Backup, Below
<1> QED BY <1>3, <1>4 DEF Backup

\* ... and when the oldest leave the queue.
LEMMA BackupDrop ==
    ASSUME NEW kept, NEW queue, NEW n, NEW rest, Backup(kept, queue, n),
           ToSet(rest) \subseteq ToSet(queue),
           \A x \in ToSet(queue) \ ToSet(rest), y \in ToSet(rest) : x < y
    PROVE  Backup(kept, rest, n)
BY DEF Backup, OutboxOfBefore

\* What is saved is a backup.
LEMMA BackupNow ==
    ASSUME NEW out, NEW queue, NEW n, Ordered(out, queue, n),
           Len(queue) <= MAX_OUTBOX_MESSAGES
    PROVE  Backup(queue, queue, n)
BY DEF Backup, OutboxOfBefore, Ordered

\* A page of which saveOutbox may have stored the outbox, and nothing else.
Saved(p, q) ==
    /\ q.stored \in {p.stored, p.outbox} /\ q.outbox = p.outbox
    /\ q.login = p.login /\ q.reconnectBlocked = p.reconnectBlocked
    /\ q.ws = p.ws /\ q.wsJoined = p.wsJoined /\ q.short = p.short
    /\ q.reconnectTimer = p.reconnectTimer /\ q.connectTimer = p.connectTimer
    /\ q.joinTimer = p.joinTimer /\ q.receiveTimer = p.receiveTimer
    /\ q.sock = p.sock

LEMMA SaveIs ==
    ASSUME NEW p \in PageType, NEW q \in SaveOutbox(p)
    PROVE  q \in PageType /\ Saved(p, q)
<1> DEFINE f == [p EXCEPT !.stored = p.outbox]
<1>1. f \in PageType /\ Saved(p, f)
  BY DEF PageType, Saved
<1>2. Saved(p, p)
  BY DEF Saved
<1>3. q \in {p, f}
  BY DEF SaveOutbox
<1> HIDE DEF f
<1> QED BY <1>1, <1>2, <1>3

LEMMA SavedIsGood ==
    ASSUME NEW p, NEW q, NEW st, Good(p, st), Saved(p, q)
    PROVE  Good(q, st)
BY DEF Good, Connection, Watched, Flushed, Replaced, Live, Saved

\* A page that has queued message x, may have stored the outbox, and has
\* changed nothing else.
Queued(p, q, x) ==
    LET a == Append(p.outbox, x)
    IN  /\ q \in PageType
        /\ q.stored \in {p.stored, q.outbox}
        /\ q.outbox = IF Len(a) > MAX_OUTBOX_MESSAGES THEN Tail(a) ELSE a
        /\ q.login = p.login /\ q.reconnectBlocked = p.reconnectBlocked
        /\ q.ws = p.ws /\ q.wsJoined = p.wsJoined /\ q.short = p.short
        /\ q.reconnectTimer = p.reconnectTimer /\ q.connectTimer = p.connectTimer
        /\ q.joinTimer = p.joinTimer /\ q.receiveTimer = p.receiveTimer
        /\ q.sock = p.sock

LEMMA QueueIs ==
    ASSUME NEW p \in PageType, NEW x \in Nat, NEW r \in QueueMessage(p, x)
    PROVE  Queued(p, r, x)
<1> DEFINE a == Append(p.outbox, x)
           b == IF Len(a) > MAX_OUTBOX_MESSAGES THEN Tail(a) ELSE a
           q == [p EXCEPT !.outbox = b]
<1>1. p.outbox \in Seq(Nat)
  BY DEF PageType
<1>2. a \in Seq(Nat) /\ Len(a) = Len(p.outbox) + 1 /\ Len(p.outbox) \in Nat
  BY <1>1
<1> HIDE DEF a
<1>3. b \in Seq(Nat)
  <2>1. a # <<>>
    BY <1>2
  <2> QED BY <1>2, <2>1
<1> HIDE DEF b
<1>4. q \in PageType
  BY <1>3 DEF PageType
<1>5. /\ q.outbox = b /\ q.login = p.login /\ q.reconnectBlocked = p.reconnectBlocked
      /\ q.ws = p.ws /\ q.wsJoined = p.wsJoined /\ q.short = p.short
      /\ q.reconnectTimer = p.reconnectTimer /\ q.connectTimer = p.connectTimer
      /\ q.joinTimer = p.joinTimer /\ q.receiveTimer = p.receiveTimer
      /\ q.sock = p.sock /\ q.stored = p.stored
  BY DEF PageType
<1>6. r \in SaveOutbox(q)
  BY DEF QueueMessage, q, b, a
<1> HIDE DEF q
<1>7. r \in PageType /\ Saved(q, r)
  BY <1>4, <1>6, SaveIs
<1> QED BY <1>5, <1>7 DEF Queued, Saved, a, b

\* What every step keeps and what it may do.
StepOK == IInv' /\ Kept /\ StaysAway

LEMMA QuietIsOK ==
    ASSUME IInv, QuietStep
    PROVE  StepOK
<1>1. TypeOK'
  BY DEF IInv, TypeOK, QuietStep, Quiet
<1>2. IInv'
  BY <1>1 DEF IInv, QuietStep, Quiet
<1>3. composed \in Nat
  BY DEF IInv, TypeOK
<1>4. Kept
  BY <1>3 DEF Kept, QuietStep, Quiet
<1> QED BY <1>2, <1>4 DEF StepOK, QuietStep

LEMMA ComposeStep ==
    ASSUME IInv, Compose
    PROVE  StepOK
<1>1. /\ page \in PageType /\ stream \in [SOCKETS -> StreamState]
      /\ sent \in Seq(Nat) /\ page.outbox \in Seq(Nat) /\ Good(page, stream)
      /\ Ordered(sent, page.outbox, composed)
      /\ Len(page.outbox) \in Nat /\ Len(page.outbox) <= MAX_OUTBOX_MESSAGES
      /\ page.ws \in SOCKETS \cup {None} /\ None \notin SOCKETS
      /\ MAX_OUTBOX_MESSAGES \in Nat \ {0}
      /\ page.stored \in Seq(Nat) /\ Backup(page.stored, page.outbox, composed)
  BY ClientConstants DEF IInv, TypeOK, PageType
<1>2. PICK n \in Nat : n = composed
  BY DEF IInv, TypeOK
<1>3. /\ page.login = "chat" /\ stream' = stream /\ composed' = n + 1
      /\ n + 1 \in Nat
  BY <1>2 DEF Compose
<1>4. \A m \in 1..(n + 1) : m = n + 1 \/ m <= n
  OBVIOUS
<1>5. CASE page.wsJoined /\ page' \in Sends(page) /\ sent' = Append(sent, composed')
  <2>1. page' = page /\ State(page) = "open"
    BY <1>5 DEF Sends
  <2>2. page.outbox = <<>>
    BY <1>1, <1>5, <2>1 DEF State, Good, Flushed
  <2>3. /\ sent' \in Seq(Nat) /\ Ordered(sent', <<>>, n + 1)
        /\ ToSet(sent') = ToSet(sent) \cup {n + 1}
    BY <1>1, <1>2, <1>3, <1>5, <2>2, OrderedSend
  <2>4. IInv'
    <3>1. Backup(page.stored, <<>>, n + 1)
      <4>1. 1..n \subseteq 1..(n + 1) /\ ToSet(<<>>) = {}
        BY DEF ToSet
      <4>2. Below(page.stored, n + 1)
        BY <1>1, <1>2, <4>1 DEF Backup, Below
      <4> QED BY <1>1, <4>1, <4>2 DEF Backup, OutboxOfBefore
    <3> QED BY <1>1, <1>3, <2>1, <2>2, <2>3, <3>1 DEF IInv, TypeOK
  <2>5. Kept
    BY <1>2, <1>3, <1>4, <2>1, <2>3 DEF Kept
  <2>6. StaysAway
    BY <2>1 DEF StaysAway
  <2> QED BY <2>4, <2>5, <2>6 DEF StepOK
<1>6. ASSUME NEW p \in IF page.wsJoined THEN SendFails(page) ELSE {page},
             page' \in QueueMessage(p, composed'), sent' = sent
      PROVE  StepOK
  <2>1. /\ p \in PageType /\ SameUser(page, p) /\ Good(p, stream)
        /\ p.ws \in {page.ws, None}
        /\ ~ (p.ws # None /\ p.sock[p.ws] = "open" /\ p.wsJoined)
    <3>1. CASE p = page /\ (~ page.wsJoined \/ State(page) # "open")
      BY <1>1, <3>1 DEF State, SameUser
    <3>2. CASE p = ReconnectSocket(page, page.ws) /\ State(page) = "open"
      <4>1. page.ws \in SOCKETS
        BY <1>1, <3>2 DEF State
      <4>2. GivenUp(page, p, page.ws)
        BY <1>1, <3>2, <4>1, ReconnectIs
      <4>3. /\ \A t \in SOCKETS : Live(page, t) => t = page.ws
            /\ Replaced(page, stream)
        BY <1>1 DEF Good, Connection
      <4>4. Good(p, stream)
        BY ONLY <1>1, <1>3, <4>1, <4>2, <4>3, GivenUpIsGood
      <4> QED BY <4>2, <4>4 DEF GivenUp
    <3> QED BY <1>6, <3>1, <3>2 DEF SendFails
  <2> DEFINE a == Append(page.outbox, n + 1)
  <2>2. /\ page' \in PageType
        /\ page'.outbox = IF Len(a) > MAX_OUTBOX_MESSAGES THEN Tail(a) ELSE a
        /\ page'.login = p.login /\ page'.reconnectBlocked = p.reconnectBlocked
        /\ page'.ws = p.ws /\ page'.wsJoined = p.wsJoined /\ page'.short = p.short
        /\ page'.reconnectTimer = p.reconnectTimer
        /\ page'.connectTimer = p.connectTimer /\ page'.joinTimer = p.joinTimer
        /\ page'.receiveTimer = p.receiveTimer /\ page'.sock = p.sock
        /\ page'.stored \in {page.stored, page'.outbox}
    <3>1. /\ page' \in QueueMessage(p, n + 1) /\ p.outbox = page.outbox
          /\ p.stored = page.stored
      BY <1>3, <1>6, <2>1 DEF SameUser
    <3>2. Queued(p, page', n + 1)
      BY <1>3, <2>1, <3>1, QueueIs
    <3> QED BY <3>1, <3>2 DEF Queued
  <2>3. /\ a \in Seq(Nat) /\ Len(a) = Len(page.outbox) + 1
        /\ Ordered(sent, a, n + 1)
        /\ ToSet(a) = ToSet(page.outbox) \cup {n + 1}
    BY <1>1, <1>2, OrderedQueue
  <2>4. page.outbox # <<>> => Head(a) = Head(page.outbox)
    BY <1>1, <1>3
  <2> HIDE DEF a
  <2>5. a # <<>>
    BY <1>1, <2>3
  <2>6. Good(page', stream')
    BY <1>3, <2>1, <2>2 DEF Good, Connection, Watched, Flushed, Replaced, Live
  <2>7. StaysAway
    BY <2>1, <2>2 DEF StaysAway, SameUser
  <2>8. /\ page'.outbox \in Seq(Nat) /\ Ordered(sent, page'.outbox, n + 1)
        /\ Len(page'.outbox) <= MAX_OUTBOX_MESSAGES
        /\ \A m \in ToSet(a) \ ToSet(page'.outbox) :
              m = Head(page.outbox) /\ Len(page.outbox) = MAX_OUTBOX_MESSAGES
        /\ ToSet(page'.outbox) \subseteq ToSet(a)
        /\ \A x \in ToSet(a) \ ToSet(page'.outbox), y \in ToSet(page'.outbox) : x < y
    <3>1. CASE Len(a) > MAX_OUTBOX_MESSAGES
      <4>1. Len(page.outbox) = MAX_OUTBOX_MESSAGES /\ page.outbox # <<>>
        BY <1>1, <2>3, <3>1
      <4>2. LET c == Tail(a)
            IN  /\ c \in Seq(Nat) /\ Len(c) = Len(a) - 1 /\ Ordered(sent, c, n + 1)
                /\ ToSet(a) = {Head(a)} \cup ToSet(c)
                /\ \A y \in ToSet(c) : Head(a) < y
        BY <1>1, <1>3, <2>3, <2>5, OrderedDrop
      <4>3. page'.outbox = Tail(a)
        BY <2>2, <3>1
      <4>4. Len(a) - 1 = MAX_OUTBOX_MESSAGES
        BY <1>1, <2>3, <4>1
      <4> QED BY <1>1, <2>4, <4>1, <4>2, <4>3, <4>4
    <3>2. CASE ~ (Len(a) > MAX_OUTBOX_MESSAGES)
      BY <1>1, <2>2, <2>3, <3>2
    <3> QED BY <3>1, <3>2
  <2>9. IInv'
    <3>1. Backup(page.stored, a, n + 1)
      BY <1>1, <1>2, <2>3, BackupQueue DEF Ordered
    <3>2. Backup(page.stored, page'.outbox, n + 1)
      BY ONLY <2>8, <3>1, BackupDrop
    <3>3. Backup(page'.outbox, page'.outbox, n + 1)
      BY ONLY <2>8, BackupNow
    <3>4. Backup(page'.stored, page'.outbox, n + 1)
      BY <2>2, <3>2, <3>3
    <3> QED BY <1>1, <1>3, <1>6, <2>2, <2>6, <2>8, <3>4 DEF IInv, TypeOK
  <2>10. Kept
    BY <1>2, <1>3, <1>4, <1>6, <2>3, <2>8 DEF Kept
  <2> QED BY <2>7, <2>9, <2>10 DEF StepOK
<1>7. \/ page.wsJoined /\ page' \in Sends(page) /\ sent' = Append(sent, composed')
      \/ /\ sent' = sent
         /\ \E p \in IF page.wsJoined THEN SendFails(page) ELSE {page} :
                page' \in QueueMessage(p, composed')
  BY DEF Compose
<1> QED BY <1>5, <1>6, <1>7

LEMMA PresenceStep ==
    ASSUME IInv, NEW s \in SOCKETS, NEW o \in BOOLEAN, Presence(s, o)
    PROVE  StepOK
<1>1. /\ Receives(s) /\ stream[s] \in {"joining", "joined"}
      /\ stream' = [stream EXCEPT ![s] = "joined"] /\ composed' = composed
  BY DEF Presence
<1>2. /\ page.ws = s /\ page.sock[s] = "open" /\ s # None
      /\ page \in PageType /\ stream \in [SOCKETS -> StreamState]
      /\ Good(page, stream) /\ page.login = "chat"
  BY <1>1, ReceivesIs
<1>3. /\ stream' \in [SOCKETS -> StreamState]
      /\ \A r \in SOCKETS \ {s} : stream'[r] = stream[r]
  BY <1>1, <1>2 DEF StreamState
<1>4. page.reconnectBlocked = FALSE
  BY <1>1, <1>2 DEF Good, Replaced, PageType
<1>5. CASE page.wsJoined
  <2> DEFINE p == Rearmed(page)
  <2>1. /\ p \in PageType /\ SameUser(page, p)
        /\ p.ws = page.ws /\ p.wsJoined = page.wsJoined /\ p.short = page.short
        /\ p.reconnectTimer = page.reconnectTimer
        /\ p.connectTimer = page.connectTimer
        /\ p.joinTimer = page.joinTimer /\ p.sock = page.sock
        /\ p.receiveTimer = page.ws
    BY <1>2, <1>5, RearmedIs
  <2>2. page' = [p EXCEPT !.others = o] /\ sent' = sent
    BY <1>5 DEF Presence
  <2> HIDE DEF p
  <2>3. page' \in PageType /\ SamePage(p, page')
    BY <2>1, <2>2 DEF PageType, SamePage, SameUser
  <2>4. Good(p, stream')
    BY <1>2, <1>3, <1>4, <2>1
       DEF Good, Connection, Watched, Flushed, Replaced, Live, SameUser
  <2>5. Good(page', stream')
    BY ONLY <2>3, <2>4, SamePageIsGood
  <2>6. QuietStep
    BY <1>1, <1>3, <2>1, <2>2, <2>3, <2>5
       DEF QuietStep, Quiet, StaysAway, SamePage, SameUser
  <2> QED BY <2>6, QuietIsOK
<1>6. CASE ~ page.wsJoined
  <2> DEFINE p == ConfirmSocketJoin(page)
  <2>1. p \in PageType
    BY <1>2 DEF ConfirmSocketJoin, PageType
  <2>2. /\ SameUser(page, p) /\ p.ws = s /\ p.wsJoined = TRUE
        /\ p.receiveTimer = s /\ p.sock = page.sock
    BY <1>2 DEF ConfirmSocketJoin, PageType, SameUser
  <2>3. PICK k \in 0..Len(p.outbox) :
            /\ \E f \in AfterFlush(p, k) : page' = [f EXCEPT !.others = o]
            /\ sent' = sent \o SubSeq(p.outbox, 1, k)
    BY <1>6 DEF Presence
  <2> HIDE DEF p
  <2>4. p.outbox = page.outbox /\ page.outbox \in Seq(Nat) /\ sent \in Seq(Nat)
        /\ composed \in Nat /\ Ordered(sent, page.outbox, composed)
        /\ Len(page.outbox) <= MAX_OUTBOX_MESSAGES /\ MAX_OUTBOX_MESSAGES \in Nat
        /\ p.stored = page.stored /\ Backup(page.stored, page.outbox, composed)
    BY <2>2, ClientConstants DEF SameUser, IInv, TypeOK, PageType
  <2>5. k \in 0..Len(page.outbox) /\ sent' = sent \o SubSeq(page.outbox, 1, k)
    BY <2>3, <2>4
  <2> DEFINE r == SubSeq(page.outbox, k + 1, Len(page.outbox))
             rest == [p EXCEPT !.outbox = r]
             flushed == IF p.outbox = <<>> THEN p
                        ELSE IF k = Len(p.outbox) THEN rest
                        ELSE ReconnectSocket(rest, s)
  <2>6. /\ sent' \in Seq(Nat) /\ r \in Seq(Nat) /\ Len(r) <= Len(page.outbox)
        /\ Ordered(sent', r, composed)
        /\ ToSet(sent') \cup ToSet(r) = ToSet(sent) \cup ToSet(page.outbox)
        /\ ToSet(r) \subseteq ToSet(page.outbox)
        /\ \A x \in ToSet(sent'), y \in ToSet(r) : x < y
        /\ k = Len(page.outbox) => r = <<>>
    BY <2>4, <2>5, OrderedFlush
  <2>7. PICK f : /\ f \in {flushed} \cup SaveOutbox(flushed)
                 /\ page' = [f EXCEPT !.others = o]
    <3>1. AfterFlush(p, k) \subseteq {flushed} \cup SaveOutbox(flushed)
      BY <2>2, <2>4 DEF AfterFlush
    <3> QED BY <2>3, <3>1
  <2>8. Len(r) \in Nat /\ Len(page.outbox) \in Nat
    BY <2>4, <2>6
  <2>9. p.outbox = <<>> => r = <<>> /\ k = Len(page.outbox)
    BY <2>4, <2>5, <2>6
  <2> HIDE DEF r
  <2>10. /\ rest \in PageType /\ rest.outbox = r /\ rest.login = p.login
         /\ rest.reconnectBlocked = p.reconnectBlocked /\ rest.stored = p.stored
         /\ rest.ws = p.ws /\ rest.wsJoined = p.wsJoined
         /\ rest.receiveTimer = p.receiveTimer /\ rest.sock = p.sock
    BY <2>1, <2>6 DEF PageType
  <2>11. /\ flushed \in PageType /\ flushed.outbox = r
         /\ flushed.stored = page.stored /\ Good(flushed, stream')
    <3>1. ASSUME NEW h \in {p, rest}
          PROVE  /\ h.login = "chat" /\ h.reconnectBlocked = FALSE
                 /\ h.ws = s /\ h.wsJoined = TRUE /\ h.receiveTimer = s
                 /\ h.sock[s] = "open"
                 /\ \A t \in SOCKETS : Live(h, t) => t = s
                 /\ Replaced(h, stream')
      BY <1>2, <1>3, <1>4, <2>2, <2>10
         DEF Good, Connection, Live, Replaced, SameUser
    <3> HIDE DEF rest
    <3>2. CASE k = Len(page.outbox)
      <4>1. flushed \in {p, rest} /\ r = <<>> /\ flushed.outbox = r
        BY <2>4, <2>6, <2>9, <2>10, <3>2
      <4> HIDE DEF flushed
      <4>2. Good(flushed, stream')
        BY <1>2, <3>1, <4>1 DEF Good, Connection, Watched, Flushed
      <4> QED BY <2>1, <2>4, <2>10, <4>1, <4>2
    <3>3. CASE k # Len(page.outbox)
      <4>1. flushed = ReconnectSocket(rest, s)
        BY <2>4, <2>9, <3>3
      <4> HIDE DEF flushed
      <4>2. GivenUp(rest, flushed, s)
        BY <2>10, <3>1, <4>1, ReconnectIs
      <4>3. Good(flushed, stream')
        BY ONLY s \in SOCKETS, <2>10, <3>1, <4>2, GivenUpIsGood
      <4> QED BY <2>4, <2>10, <4>2, <4>3 DEF GivenUp, SameUser
    <3> QED BY <3>2, <3>3
  <2> HIDE DEF rest, flushed
  <2>12. f \in PageType /\ Saved(flushed, f)
    <3>1. Saved(flushed, flushed)
      BY DEF Saved
    <3> QED BY <2>7, <2>11, <3>1, SaveIs
  <2>13. Good(f, stream')
    BY ONLY <2>11, <2>12, SavedIsGood
  <2>14. page' \in PageType /\ SamePage(f, page')
    BY <2>7, <2>12 DEF PageType, SamePage, SameUser
  <2>15. Good(page', stream')
    BY ONLY <2>13, <2>14, SamePageIsGood
  <2>16. page'.outbox = r /\ page'.stored \in {page.stored, r}
    BY <2>11, <2>12, <2>14 DEF SamePage, SameUser, Saved
  <2>17. Backup(page'.stored, r, composed)
    <3>1. \A x \in ToSet(page.outbox) \ ToSet(r), y \in ToSet(r) : x < y
      BY <2>6
    <3>2. Backup(page.stored, r, composed)
      BY ONLY <2>4, <2>6, <3>1, BackupDrop
    <3>3. Len(r) <= MAX_OUTBOX_MESSAGES
      BY <2>4, <2>6, <2>8
    <3>4. Backup(r, r, composed)
      BY ONLY <2>6, <3>3, BackupNow
    <3> QED BY <2>16, <3>2, <3>4
  <2>18. IInv'
    BY <1>1, <1>3, <2>4, <2>6, <2>8, <2>14, <2>15, <2>16, <2>17 DEF IInv, TypeOK
  <2>19. Kept
    BY <1>1, <2>4, <2>6, <2>16 DEF Kept
  <2>20. StaysAway
    BY <1>4 DEF StaysAway
  <2> QED BY <2>18, <2>19, <2>20 DEF StepOK
<1> QED BY <1>5, <1>6

\* A load forgets the sockets, and what was queued since the outbox was last
\* stored.
LEMMA ReloadStep ==
    ASSUME IInv, Reload
    PROVE  StepOK
<1> DEFINE q == FreshPage(page.stored)
<1>1. /\ page \in PageType /\ page.stored \in Seq(Nat) /\ sent \in Seq(Nat)
      /\ composed \in Nat /\ Ordered(sent, page.outbox, composed)
      /\ Backup(page.stored, page.outbox, composed)
  BY DEF IInv, TypeOK, PageType
<1>2. q \in PageType
  BY <1>1 DEF FreshPage, PageType, SockState
<1>3. /\ q.login = "form" /\ q.ws = None /\ ~ q.reconnectTimer
      /\ ~ q.reconnectBlocked /\ q.outbox = page.stored /\ q.stored = page.stored
      /\ \A s \in SOCKETS : q.sock[s] = "free"
  BY DEF FreshPage
<1> HIDE DEF q
<1>4. /\ page' = q /\ page.login = "chat" /\ composed' = composed
      /\ stream' = [s \in SOCKETS |-> "silent"]
      /\ sent' = IF page.stored = page.outbox THEN sent ELSE <<>>
  BY DEF Reload, q
<1>5. Good(page', stream')
  BY <1>3, <1>4 DEF Good, Connection, Watched, Flushed, Replaced, Live
<1>6. sent' \in Seq(Nat) /\ Ordered(sent', page.stored, composed)
  <2>1. CASE page.stored = page.outbox
    BY <1>1, <1>4, <2>1
  <2>2. CASE page.stored # page.outbox
    BY <1>1, <1>4, <2>2 DEF Ordered, Backup, Below, Rising, Before
  <2> QED BY <2>1, <2>2
<1>7. Backup(page.stored, page.stored, composed)
  BY <1>1 DEF Backup, OutboxOfBefore
<1>8. IInv'
  <2>1. TypeOK'
    BY <1>1, <1>2, <1>4, <1>6 DEF TypeOK, StreamState
  <2>2. Len(page.stored) <= MAX_OUTBOX_MESSAGES
    BY <1>1 DEF Backup
  <2> QED BY <1>3, <1>4, <1>5, <1>6, <1>7, <2>1, <2>2 DEF IInv
<1>9. Kept
  <2>1. \A m \in ToSet(page.outbox) \ ToSet(page.stored), x \in ToSet(page.stored) : x < m
    BY <1>1 DEF Backup, OutboxOfBefore
  <2> QED BY <1>1, <1>3, <1>4, <2>1 DEF Kept
<1>10. StaysAway
  BY <1>3, <1>4 DEF StaysAway
<1> QED BY <1>8, <1>9, <1>10 DEF StepOK

LEMMA Stutter ==
    ASSUME IInv, UNCHANGED vars
    PROVE  StepOK
<1>1. QuietStep
  BY DEF IInv, TypeOK, vars, QuietStep, Quiet, StaysAway
<1> QED BY <1>1, QuietIsOK

LEMMA Step ==
    ASSUME IInv, [Next]_vars
    PROVE  StepOK
<1>1. CASE User
  BY <1>1, UserSteps, ComposeStep, RecoveryStep, ReloadStep, QuietIsOK DEF User
<1>2. CASE Timers
  BY <1>2, UserSteps, ConnectStep, TimerSteps, QuietIsOK DEF Timers
<1>3. CASE Online
  BY <1>3, ConnectStep, QuietIsOK
<1>4. ASSUME NEW s \in SOCKETS, SocketEvent(s)
      PROVE  StepOK
  <2>1. CASE Opens(s)
    BY <2>1, OpensStep, QuietIsOK
  <2>2. CASE Closing(s) \/ Closed(s)
    BY <2>2, EndingSteps, QuietIsOK
  <2>3. ASSUME NEW b \in Reports, HistoryInfo(s, b) \/ Presence(s, b)
        PROVE  StepOK
    <3>1. b \in BOOLEAN
      BY ClientConstants
    <3> QED BY <2>3, <3>1, ReceivedSteps, PresenceStep, QuietIsOK
  <2>4. CASE Dies(s)
    BY <2>4, DiesStep, QuietIsOK
  <2>5. CASE Ping(s) \/ BadSinceId(s)
    <3>1. TRUE \in BOOLEAN
      OBVIOUS
    <3> QED BY <2>5, <3>1, ReceivedSteps, QuietIsOK
  <2>6. CASE SessionReplaced(s)
    BY <2>6, ReplacedStep, QuietIsOK
  <2> QED BY <1>4, <2>1, <2>2, <2>3, <2>4, <2>5, <2>6 DEF SocketEvent
<1> QED BY <1>1, <1>2, <1>3, <1>4, Stutter DEF Next

-----------------------------------------------------------------------------
(* The theorems *)

\* The inductive invariant: the page has its types, sockets, timers and
\* streams fit each other, and messages are in the order they were written.
THEOREM SpecIInv == Spec => []IInv
<1>1. Init => IInv
  BY InitInv
<1>2. IInv /\ [Next]_vars => IInv'
  BY Step DEF StepOK
<1> QED BY <1>1, <1>2, PTL DEF Spec

\* Whatever timers and events race, the page has at most one live socket, and
\* it is the current one (connect, releaseSocket, reconnectSocket).
THEOREM OneLiveSocketHolds == Spec => []OneLiveSocket
<1>1. IInv => OneLiveSocket
  BY DEF IInv, Good, Connection, OneLiveSocket, Live
<1> QED BY <1>1, SpecIInv, PTL

\* A page in the chat that was not replaced has a socket, or a timer pending
\* that will make one (tryFallback, scheduleReconnect, onclose).
THEOREM NeverStrandedHolds == Spec => []NeverStranded
<1>1. IInv => NeverStranded
  BY DEF IInv, Good, Connection, NeverStranded
<1> QED BY <1>1, SpecIInv, PTL

\* The current socket is watched by the timer of its phase: connect, join or
\* receive (onopen, confirmSocketJoin, armReceiveTimer).
THEOREM WatchedSocketHolds == Spec => []WatchedSocket
<1>1. IInv => WatchedSocket
  BY DEF IInv, Good, Watched, WatchedSocket, State
<1> QED BY <1>1, SpecIInv, PTL

\* What was sent, followed by what is queued, is in the order of writing and
\* holds nothing twice (sendMessage, queueMessage, flushOutbox, loadState).
THEOREM SentInOrderHolds == Spec => []SentInOrder
<1>1. ASSUME IInv PROVE SentInOrder
  <2> DEFINE all == sent \o page.outbox
  <2>1. /\ sent \in Seq(Nat) /\ page.outbox \in Seq(Nat)
        /\ Rising(sent) /\ Rising(page.outbox) /\ Before(sent, page.outbox)
    BY <1>1 DEF IInv, TypeOK, PageType, Ordered
  <2>0. /\ \A i, j \in 1..Len(page.stored) : i < j => page.stored[i] < page.stored[j]
        /\ OutboxOfBefore(page.stored, page.outbox)
    BY <1>1 DEF IInv, Backup, Rising
  <2>2. PICK l \in Nat : l = Len(sent)
    BY <2>1
  <2>3. PICK m \in Nat : m = Len(page.outbox)
    BY <2>1
  <2>4. /\ Len(all) = l + m
        /\ \A i \in 1..l : all[i] = sent[i]
        /\ \A h \in 1..m : all[l + h] = page.outbox[h]
    BY <2>1, <2>2, <2>3
  <2> HIDE DEF all
  <2>5. \A i \in 1..(l + m) : i \in 1..l \/ \E h \in 1..m : i = l + h
    <3> SUFFICES ASSUME NEW i \in 1..(l + m), i \notin 1..l
                 PROVE  \E h \in 1..m : i = l + h
      OBVIOUS
    <3>1. i - l \in 1..m /\ i = l + (i - l)
      OBVIOUS
    <3> QED BY <3>1
  <2>6. ASSUME NEW i \in 1..(l + m), NEW j \in 1..(l + m), i < j
        PROVE  all[i] < all[j]
    <3>1. CASE i \in 1..l /\ j \in 1..l
      BY <2>1, <2>2, <2>4, <2>6, <3>1 DEF Rising
    <3>2. ASSUME i \in 1..l, NEW h \in 1..m, j = l + h PROVE all[i] < all[j]
      BY <2>1, <2>2, <2>3, <2>4, <3>2 DEF Before
    <3>3. ASSUME NEW g \in 1..m, i = l + g, NEW h \in 1..m, j = l + h
          PROVE  all[i] < all[j]
      <4>1. g < h
        BY <2>6, <3>3
      <4>2. page.outbox[g] < page.outbox[h]
        BY <2>1, <2>3, <4>1 DEF Rising
      <4> QED BY <2>4, <3>3, <4>2
    <3>4. ASSUME NEW g \in 1..m, i = l + g PROVE j \notin 1..l
      BY <2>6, <3>4
    <3> QED BY <2>5, <3>1, <3>2, <3>3, <3>4
  <2> QED BY <2>0, <2>4, <2>6 DEF SentInOrder, all
<1> QED BY <1>1, SpecIInv, PTL

\* A message leaves the outbox only by being sent or as the oldest of a full
\* outbox, and a new one is sent or queued, in every step.
THEOREM KeptOrSentHolds == Spec => KeptOrSent
<1>1. IInv /\ [Next]_vars => [Kept]_vars
  BY Step DEF StepOK
<1> QED BY <1>1, SpecIInv, PTL DEF Spec, KeptOrSent, Kept

\* A replaced page makes no connection until it is loaded again.
THEOREM ReplacedStaysAwayHolds == Spec => ReplacedStaysAway
<1>1. IInv /\ [Next]_vars => [StaysAway]_vars
  BY Step DEF StepOK
<1> QED BY <1>1, SpecIInv, PTL DEF Spec, ReplacedStaysAway, StaysAway

=============================================================================
