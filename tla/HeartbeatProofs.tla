-------------------------- MODULE HeartbeatProofs ---------------------------
(***************************************************************************)
(* Proofs about Heartbeat, for any number of browsers, any period, any     *)
(* join timeout and any answer time that leaves room for them.             *)
(***************************************************************************)
EXTENDS Heartbeat, TLAPS

SlotType == [state : {"free", "unjoined", "joined", "closing"},
             is_alive : BOOLEAN, registered_age : 0..J, ping_age : 0..H]
NetType == [pings : 0..MaxQueue, pongs : 0..MaxQueue,
            join : BOOLEAN, waited : 0..AnswerTime]

\* While the pong of c is awaited, either the browser still has the time it
\* may take, or the pong waits in the socket for no longer than HTTPD does;
\* and the same for its join.
AnswerInTime(s, n, late) ==
    /\ s.state = "joined" /\ ~ s.is_alive /\ n.pongs = 0 =>
          n.pings > 0 /\ s.ping_age <= n.waited
    /\ s.state = "joined" /\ ~ s.is_alive /\ n.pongs > 0 /\ late <= ShortStall =>
          s.ping_age <= AnswerTime + late
    /\ s.state = "unjoined" /\ ~ n.join => s.registered_age <= AnswerTime
    /\ s.state = "unjoined" /\ n.join /\ late <= ShortStall =>
          s.registered_age <= AnswerTime + late

AnswerInv == \A c \in Responsive : AnswerInTime(slot[c], net[c], stalled)

\* The heartbeat task queues nothing while a sweep is queued.
OneSweep == queued = 0 \/ task \in {"sleep", "due"}

IInv == TypeOK /\ FlagMatchesQueue /\ OneSweep /\ ResponsiveIsKept /\ AnswerInv

LEMMA Times ==
    /\ H \in Nat \ {0} /\ J \in Nat \ {0} /\ MaxQueue \in Nat \ {0}
    /\ AnswerTime \in Nat /\ ShortStall \in Nat
    /\ AnswerTime + ShortStall < H /\ AnswerTime + ShortStall < J
    /\ Responsive \subseteq CLIENTS
BY HeartbeatAssumption DEF H, J

LEMMA Types ==
    ASSUME TypeOK
    PROVE  /\ slot \in [CLIENTS -> SlotType] /\ net \in [CLIENTS -> NetType]
           /\ \A c \in CLIENTS : slot[c] \in SlotType /\ net[c] \in NetType
           /\ stalled \in 0..(ShortStall + 1) /\ sweep_age \in 0..(H + 1)
BY DEF TypeOK, SlotType, NetType

LEMMA CapFacts ==
    ASSUME NEW n \in Nat, NEW limit \in Nat
    PROVE  /\ Cap(n, limit) \in 0..limit /\ Cap(n, limit) <= n
           /\ n <= limit => Cap(n, limit) = n
           /\ n > 0 /\ limit > 0 => Cap(n, limit) > 0
BY DEF Cap

LEMMA Zeros == 0 \in 0..J /\ 0 \in 0..H /\ 0 \in 0..MaxQueue /\ 0 \in 0..AnswerTime
BY Times

Probed(s) == [s EXCEPT !.is_alive = FALSE, !.ping_age = 0]
Forgiven(s) == [s EXCEPT !.registered_age = 0]
Closing == [FreeSlot EXCEPT !.state = "closing"]

LEMMA SlotFacts ==
    /\ FreeSlot \in SlotType /\ Closing \in SlotType
    /\ \A s \in SlotType :
         /\ Probed(s) \in SlotType
         /\ Probed(s).state = s.state /\ Probed(s).ping_age = 0
         /\ Forgiven(s) \in SlotType
         /\ Forgiven(s).state = s.state /\ Forgiven(s).registered_age = 0
<1>1. FreeSlot \in SlotType
  BY Zeros DEF FreeSlot, SlotType
<1>2. Closing \in SlotType
  BY <1>1 DEF Closing, SlotType
<1>3. ASSUME NEW s \in SlotType PROVE Probed(s) \in SlotType
  BY Zeros DEF Probed, SlotType
<1>4. ASSUME NEW s \in SlotType PROVE Probed(s).state = s.state /\ Probed(s).ping_age = 0
  BY Zeros DEF Probed, SlotType
<1>5. ASSUME NEW s \in SlotType PROVE Forgiven(s) \in SlotType
  BY Zeros DEF Forgiven, SlotType
<1>6. ASSUME NEW s \in SlotType PROVE Forgiven(s).state = s.state /\ Forgiven(s).registered_age = 0
  BY Zeros DEF Forgiven, SlotType
<1> QED BY <1>1, <1>2, <1>3, <1>4, <1>5, <1>6

\* What one sweep does to a slot: it leaves it, forgives a join that may have
\* been held up, closes it for a reason, or pings its browser.
Result(s, ping) == [slot |-> s, ping |-> ping]
LEMMA SweptFacts ==
    ASSUME NEW s \in SlotType, NEW delayed \in BOOLEAN
    PROVE  \/ Swept(s, delayed) = Result(s, FALSE)
           \/ s.state = "unjoined" /\ Swept(s, delayed) = Result(Forgiven(s), FALSE)
           \/ /\ s.state = "unjoined" /\ ~ delayed /\ s.registered_age >= J
              /\ Swept(s, delayed) = Result(Closing, FALSE)
           \/ /\ s.state = "joined" /\ ~ delayed /\ ~ s.is_alive /\ s.ping_age >= H
              /\ Swept(s, delayed) = Result(Closing, FALSE)
           \/ s.state = "joined" /\ Swept(s, delayed) = Result(Probed(s), TRUE)
<1>0. /\ s.registered_age \in Nat /\ s.ping_age \in Nat /\ J \in Nat /\ H \in Nat
      /\ s.state \in {"free", "unjoined", "joined", "closing"}
  BY Times DEF SlotType
<1>1. CASE s.state = "unjoined" /\ delayed
  <2>1. Swept(s, delayed) = [Result(s, FALSE) EXCEPT !.slot.registered_age = 0]
    BY <1>1 DEF Swept, Result
  <2>2. Swept(s, delayed) = Result(Forgiven(s), FALSE)
    BY <2>1 DEF Result, Forgiven
  <2> QED BY <1>1, <2>2
<1>2. CASE s.state = "unjoined" /\ ~ delayed
  <2>1. Swept(s, delayed) = IF s.registered_age < J THEN Result(s, FALSE)
                            ELSE Result(Closing, FALSE)
    BY <1>2 DEF Swept, Result, Closing
  <2>2. CASE s.registered_age < J
    BY <2>1, <2>2
  <2>3. CASE ~ (s.registered_age < J)
    <3>1. s.registered_age >= J
      BY <2>3, <1>0
    <3> QED BY <1>2, <2>1, <2>3, <3>1
  <2> QED BY <2>2, <2>3
<1>3. CASE s.state = "joined"
  <2>1. Swept(s, delayed) =
          IF s.is_alive
          THEN IF s.ping_age < H THEN Result(s, FALSE) ELSE Result(Probed(s), TRUE)
          ELSE IF delayed THEN Result(Probed(s), TRUE)
               ELSE IF s.ping_age < H THEN Result(s, FALSE) ELSE Result(Closing, FALSE)
    BY <1>3 DEF Swept, Result, Closing, Probed
  <2>2. CASE s.ping_age < H /\ (s.is_alive \/ ~ delayed)
    BY <2>1, <2>2
  <2>3. CASE s.is_alive /\ ~ (s.ping_age < H)
    BY <1>3, <2>1, <2>3
  <2>4. CASE ~ s.is_alive /\ delayed
    BY <1>3, <2>1, <2>4
  <2>5. CASE ~ s.is_alive /\ ~ delayed /\ ~ (s.ping_age < H)
    <3>1. s.ping_age >= H
      BY <2>5, <1>0
    <3> QED BY <1>3, <2>1, <2>5, <3>1
  <2> QED BY <2>2, <2>3, <2>4, <2>5
<1>4. CASE s.state \in {"free", "closing"}
  BY <1>4 DEF Swept, Result
<1> QED BY <1>0, <1>1, <1>2, <1>3, <1>4

LEMMA ResultFacts ==
    ASSUME NEW s \in SlotType
    PROVE  /\ Result(s, TRUE).slot = s /\ Result(s, TRUE).ping
           /\ Result(s, FALSE).slot = s /\ ~ Result(s, FALSE).ping
BY DEF Result

LEMMA InitInv == Init => IInv
<1> SUFFICES ASSUME Init PROVE IInv
  OBVIOUS
<1> USE Times
<1>1. FreeSlot \in SlotType /\ QuietNet \in NetType
  BY Zeros, SlotFacts DEF QuietNet, NetType
<1>2. slot \in [CLIENTS -> SlotType] /\ net \in [CLIENTS -> NetType]
  BY <1>1 DEF Init
<1>3. TypeOK
  <2>1. /\ task = "sleep" /\ server \in BOOLEAN /\ heartbeat_sweep_pending \in BOOLEAN
        /\ queued \in 0..1 /\ httpd = "select"
        /\ stalled \in 0..(ShortStall + 1) /\ sweep_age \in 0..(H + 1)
    <3>1. stalled = 0 /\ sweep_age = 0 /\ queued = 0 /\ server = FALSE
          /\ heartbeat_sweep_pending = FALSE /\ task = "sleep" /\ httpd = "select"
      BY DEF Init
    <3>2. queued \in 0..1 /\ stalled \in 0..(ShortStall + 1) /\ sweep_age \in 0..(H + 1)
      BY <3>1
    <3> QED BY <3>1, <3>2, Zenon
  <2> QED BY <1>2, <2>1 DEF TypeOK, SlotType, NetType
<1>4. FlagMatchesQueue /\ OneSweep
  BY DEF Init, FlagMatchesQueue, OneSweep
<1>5. \A c \in Responsive : slot[c].state = "free"
  BY DEF Init, FreeSlot
<1> QED BY <1>3, <1>4, <1>5 DEF IInv, ResponsiveIsKept, AnswerInv, AnswerInTime

\* Steps of the heartbeat task and of the server's start touch no browser.
LEMMA TaskStep ==
    ASSUME IInv, StartServer \/ Wake \/ QueueWork \/ QueueWorkFails \/ ClearPending
    PROVE  IInv'
<1>1. UNCHANGED <<slot, net, stalled, sweep_age, httpd>>
  BY DEF StartServer, Wake, QueueWork, QueueWorkFails, ClearPending
<1>2. ResponsiveIsKept' /\ AnswerInv'
  BY <1>1 DEF IInv, ResponsiveIsKept, AnswerInv, AnswerInTime
<1>3. /\ task \in {"sleep", "due", "queue", "clear"} /\ server \in BOOLEAN
      /\ heartbeat_sweep_pending \in BOOLEAN /\ queued \in {0, 1}
      /\ FlagMatchesQueue /\ OneSweep
  BY DEF IInv, TypeOK
<1>4. /\ task' \in {"sleep", "due", "queue", "clear"} /\ server' \in BOOLEAN
      /\ heartbeat_sweep_pending' \in BOOLEAN
  BY <1>3 DEF StartServer, Wake, QueueWork, QueueWorkFails, ClearPending
<1>5. queued' \in {0, 1} /\ FlagMatchesQueue' /\ OneSweep'
  <2>1. CASE StartServer
    BY <2>1, <1>3 DEF StartServer, FlagMatchesQueue, OneSweep
  <2>2. CASE Wake /\ server /\ ~ heartbeat_sweep_pending
    BY <2>2, <1>3 DEF Wake, FlagMatchesQueue, OneSweep
  <2>3. CASE Wake /\ ~ (server /\ ~ heartbeat_sweep_pending)
    BY <2>3, <1>3 DEF Wake, FlagMatchesQueue, OneSweep
  <2>4. CASE QueueWork
    <3>1. queued = 0 /\ queued' = 1
      BY <2>4, <1>3 DEF QueueWork, OneSweep
    <3> QED BY <3>1, <2>4, <1>3 DEF QueueWork, FlagMatchesQueue, OneSweep
  <2>5. CASE QueueWorkFails
    BY <2>5, <1>3 DEF QueueWorkFails, FlagMatchesQueue, OneSweep
  <2>6. CASE ClearPending
    BY <2>6, <1>3 DEF ClearPending, FlagMatchesQueue, OneSweep
  <2> QED BY <2>1, <2>2, <2>3, <2>4, <2>5, <2>6
<1>6. TypeOK'
  BY <1>1, <1>4, <1>5 DEF IInv, TypeOK
<1> QED BY <1>2, <1>5, <1>6 DEF IInv

\* A second passes: what a browser may still take shrinks with it.
LEMMA TickStep == IInv /\ Tick => IInv'
<1> SUFFICES ASSUME IInv, Tick PROVE IInv'
  OBVIOUS
<1>1. /\ \A c \in CLIENTS : slot[c] \in SlotType /\ net[c] \in NetType
      /\ stalled \in 0..(ShortStall + 1) /\ sweep_age \in 0..(H + 1)
  BY Types DEF IInv
<1> DEFINE Aged(s) == [s EXCEPT !.registered_age = IF s.state = "unjoined"
                                                   THEN Cap(@ + 1, J) ELSE 0,
                                !.ping_age = IF s.state = "joined"
                                             THEN Cap(@ + 1, H) ELSE 0]
           Waited(n) == [n EXCEPT !.waited = IF n.pings > 0
                                             THEN Cap(@ + 1, AnswerTime) ELSE 0]
<1>2. /\ slot' = [c \in CLIENTS |-> Aged(slot[c])]
      /\ net' = [c \in CLIENTS |-> Waited(net[c])]
  BY DEF Tick
<1>3. ASSUME NEW s \in SlotType
      PROVE  /\ Aged(s) \in SlotType /\ Aged(s).state = s.state
             /\ Aged(s).is_alive = s.is_alive
             /\ s.state = "unjoined" => Aged(s).registered_age <= s.registered_age + 1
             /\ s.state = "joined" => Aged(s).ping_age <= s.ping_age + 1
  <2> DEFINE r == IF s.state = "unjoined" THEN Cap(s.registered_age + 1, J) ELSE 0
             q == IF s.state = "joined" THEN Cap(s.ping_age + 1, H) ELSE 0
  <2>1. /\ r \in 0..J /\ q \in 0..H
        /\ s.state = "unjoined" => r <= s.registered_age + 1
        /\ s.state = "joined" => q <= s.ping_age + 1
    <3>1. s.registered_age + 1 \in Nat /\ s.ping_age + 1 \in Nat
      BY Times DEF SlotType
    <3> QED BY <3>1, CapFacts, Times, Zeros
  <2>2. Aged(s) = [s EXCEPT !.registered_age = r, !.ping_age = q]
    OBVIOUS
  <2> HIDE DEF r, q, Aged
  <2>3. /\ Aged(s) \in SlotType /\ Aged(s).state = s.state
        /\ Aged(s).registered_age = r /\ Aged(s).ping_age = q
    BY <2>1, <2>2 DEF SlotType
  <2>4. Aged(s).is_alive = s.is_alive
    BY <2>2, Zenon DEF SlotType
  <2> QED BY <2>1, <2>3, <2>4
<1>4. ASSUME NEW n \in NetType
      PROVE  /\ Waited(n) \in NetType
             /\ Waited(n).pings = n.pings /\ Waited(n).pongs = n.pongs
             /\ Waited(n).join = n.join
             /\ n.pings > 0 /\ n.waited < AnswerTime => Waited(n).waited = n.waited + 1
  <2> DEFINE w == IF n.pings > 0 THEN Cap(n.waited + 1, AnswerTime) ELSE 0
  <2>1. /\ w \in 0..AnswerTime
        /\ n.pings > 0 /\ n.waited < AnswerTime => w = n.waited + 1
    <3>1. n.waited \in Nat /\ n.waited + 1 \in Nat
      BY Times DEF NetType
    <3>2. n.waited < AnswerTime => n.waited + 1 <= AnswerTime
      BY <3>1, Times
    <3> QED BY <3>1, <3>2, CapFacts, Times, Zeros
  <2>2. Waited(n) = [n EXCEPT !.waited = w]
    OBVIOUS
  <2> HIDE DEF w, Waited
  <2>3. /\ Waited(n) \in NetType /\ Waited(n).waited = w
        /\ Waited(n).pings = n.pings /\ Waited(n).pongs = n.pongs
    BY <2>1, <2>2 DEF NetType
  <2>4. Waited(n).join = n.join
    BY <2>2, Zenon DEF NetType
  <2> QED BY <2>1, <2>3, <2>4
<1> HIDE DEF Aged, Waited
<1>5. TypeOK'
  <2>1. slot' \in [CLIENTS -> SlotType] /\ net' \in [CLIENTS -> NetType]
    BY <1>1, <1>2, <1>3, <1>4
  <2>2. sweep_age' \in 0..(H + 1) /\ stalled' \in 0..(ShortStall + 1)
    <3>1. sweep_age + 1 \in Nat /\ stalled + 1 \in Nat
      BY <1>1, Times
    <3>2. 0 \in 0..(ShortStall + 1) /\ H + 1 \in Nat /\ ShortStall + 1 \in Nat
      BY Times
    <3> QED BY <3>1, <3>2, CapFacts DEF Tick
  <2>3. /\ task' \in {"sleep", "due", "queue", "clear"}
        /\ UNCHANGED <<server, heartbeat_sweep_pending, queued, httpd>>
    BY DEF Tick
  <2> QED BY <2>1, <2>2, <2>3 DEF IInv, TypeOK, SlotType, NetType
<1>6. FlagMatchesQueue' /\ OneSweep'
  BY DEF IInv, Tick, FlagMatchesQueue, OneSweep
<1>7. ResponsiveIsKept'
  BY <1>1, <1>2, <1>3, Times DEF IInv, ResponsiveIsKept
<1>8. AnswerInv'
  <2> SUFFICES ASSUME NEW c \in Responsive PROVE AnswerInTime(slot'[c], net'[c], stalled')
    BY DEF AnswerInv
  <2> DEFINE s == slot[c]
             n == net[c]
  <2>1. /\ s \in SlotType /\ n \in NetType
        /\ slot'[c] = Aged(s) /\ net'[c] = Waited(n)
        /\ n.pings > 0 => n.waited < AnswerTime
        /\ s.state = "unjoined" /\ ~ n.join => s.registered_age < AnswerTime
        /\ AnswerInTime(s, n, stalled)
    BY <1>1, <1>2, Times DEF Tick, IInv, AnswerInv
  <2>2. n.pongs > 0 \/ n.join => stalled' = Cap(stalled + 1, ShortStall + 1)
    BY Times DEF Tick, Work
  <2>3. /\ s.registered_age \in Nat /\ s.ping_age \in Nat /\ n.waited \in Nat
        /\ n.pings \in Nat /\ n.pongs \in Nat
        /\ Aged(s).registered_age \in Nat /\ Aged(s).ping_age \in Nat
    BY <2>1, <1>3, Times DEF SlotType, NetType
  <2>4. n.pongs > 0 \/ n.join =>
           (stalled' <= ShortStall => stalled' = stalled + 1 /\ stalled <= ShortStall)
    <3>1. stalled \in Nat /\ ShortStall \in Nat
      BY <1>1, Times
    <3> QED BY <3>1, <2>2 DEF Cap
  <2>5. stalled \in Nat /\ AnswerTime \in Nat
    BY <1>1, Times
  <2> HIDE DEF s, n
  <2>6. AnswerInTime(Aged(s), Waited(n), stalled')
    <3>1. /\ Aged(s).state = s.state /\ Aged(s).is_alive = s.is_alive
          /\ Waited(n).pings = n.pings /\ Waited(n).pongs = n.pongs
          /\ Waited(n).join = n.join
      BY <2>1, <1>3, <1>4
    <3> QED BY <2>1, <2>3, <2>4, <2>5, <3>1, <1>3, <1>4 DEF AnswerInTime
  <2> QED BY <2>1, <2>6 DEF s, n
<1> QED BY <1>5, <1>6, <1>7, <1>8 DEF IInv

LEMMA PingedFacts ==
    ASSUME NEW n \in NetType,
           NEW p, p = [n EXCEPT !.pings = Cap(@ + 1, MaxQueue)]
    PROVE  /\ p \in NetType /\ p.pings > 0
           /\ p.pongs = n.pongs /\ p.waited = n.waited /\ p.join = n.join
<1>1. Cap(n.pings + 1, MaxQueue) \in 0..MaxQueue /\ Cap(n.pings + 1, MaxQueue) > 0
  <2>1. n.pings \in Nat /\ n.pings + 1 \in Nat /\ n.pings + 1 > 0
    BY Times DEF NetType
  <2> QED BY <2>1, CapFacts, Times
<1> DEFINE k == Cap(n.pings + 1, MaxQueue)
<1>2. p = [n EXCEPT !.pings = k]
  OBVIOUS
<1> HIDE DEF k
<1>3. p \in NetType /\ p.pings = k /\ p.pongs = n.pongs /\ p.waited = n.waited
  BY <1>1, <1>2 DEF NetType, k
<1>4. p.join = n.join
  BY <1>2, Zenon DEF NetType
<1> QED BY <1>1, <1>3, <1>4 DEF k

\* The sweep finds a browser without its pong or join only when it is delayed,
\* and then forgives it; any other sweep comes while the answer is in time.
LEMMA SweepStep == IInv /\ Sweep => IInv'
<1> SUFFICES ASSUME IInv, Sweep PROVE IInv'
  OBVIOUS
<1>1. /\ \A c \in CLIENTS : slot[c] \in SlotType /\ net[c] \in NetType
      /\ stalled \in 0..(ShortStall + 1) /\ sweep_age \in 0..(H + 1)
  BY Types DEF IInv
<1> DEFINE Found(c) == Swept(slot[c], Delayed)
           Asked(n) == [n EXCEPT !.pings = Cap(@ + 1, MaxQueue)]
<1>2. \A c \in CLIENTS :
         /\ slot'[c] = Found(c).slot
         /\ net'[c] = IF Found(c).ping THEN Asked(net[c]) ELSE net[c]
  BY DEF Sweep
<1>3. /\ Delayed \in BOOLEAN
      /\ ~ Delayed => stalled <= ShortStall
  BY DEF Delayed, Sweep, ServesNow
<1>4. ASSUME NEW c \in CLIENTS
      PROVE  \/ slot'[c] = slot[c] /\ net'[c] = net[c]
             \/ slot[c].state = "unjoined" /\ slot'[c] = Forgiven(slot[c]) /\ net'[c] = net[c]
             \/ /\ slot[c].state = "unjoined" /\ ~ Delayed /\ slot[c].registered_age >= J
                /\ slot'[c] = Closing /\ net'[c] = net[c]
             \/ /\ slot[c].state = "joined" /\ ~ Delayed /\ ~ slot[c].is_alive
                /\ slot[c].ping_age >= H /\ slot'[c] = Closing /\ net'[c] = net[c]
             \/ /\ slot[c].state = "joined"
                /\ slot'[c] = Probed(slot[c]) /\ net'[c] = Asked(net[c])
  <2> DEFINE f == Found(c)
  <2>1. /\ slot'[c] = f.slot
        /\ net'[c] = IF f.ping THEN Asked(net[c]) ELSE net[c]
    BY <1>2
  <2> HIDE DEF Asked
  <2>2. \/ f = Result(slot[c], FALSE)
        \/ slot[c].state = "unjoined" /\ f = Result(Forgiven(slot[c]), FALSE)
        \/ /\ slot[c].state = "unjoined" /\ ~ Delayed /\ slot[c].registered_age >= J
           /\ f = Result(Closing, FALSE)
        \/ /\ slot[c].state = "joined" /\ ~ Delayed /\ ~ slot[c].is_alive
           /\ slot[c].ping_age >= H /\ f = Result(Closing, FALSE)
        \/ slot[c].state = "joined" /\ f = Result(Probed(slot[c]), TRUE)
    BY <1>1, <1>3, SweptFacts
  <2>3. slot[c] \in SlotType /\ Forgiven(slot[c]) \in SlotType
        /\ Closing \in SlotType /\ Probed(slot[c]) \in SlotType
    BY <1>1, SlotFacts
  <2> HIDE DEF f
  <2>4. CASE f = Result(slot[c], FALSE)
    BY <2>1, <2>3, <2>4, ResultFacts
  <2>5. CASE slot[c].state = "unjoined" /\ f = Result(Forgiven(slot[c]), FALSE)
    BY <2>1, <2>3, <2>5, ResultFacts
  <2>6. CASE /\ slot[c].state = "unjoined" /\ ~ Delayed /\ slot[c].registered_age >= J
             /\ f = Result(Closing, FALSE)
    BY <2>1, <2>3, <2>6, ResultFacts
  <2>7. CASE /\ slot[c].state = "joined" /\ ~ Delayed /\ ~ slot[c].is_alive
             /\ slot[c].ping_age >= H /\ f = Result(Closing, FALSE)
    BY <2>1, <2>3, <2>7, ResultFacts
  <2>8. CASE slot[c].state = "joined" /\ f = Result(Probed(slot[c]), TRUE)
    BY <2>1, <2>3, <2>8, ResultFacts
  <2> QED BY <2>2, <2>4, <2>5, <2>6, <2>7, <2>8
<1>5. ASSUME NEW c \in CLIENTS PROVE Asked(net[c]) \in NetType
  BY <1>1, PingedFacts
<1>6. TypeOK'
  <2>1. \A c \in CLIENTS : slot'[c] \in SlotType /\ net'[c] \in NetType
    BY <1>1, <1>4, <1>5, SlotFacts
  <2>2. slot' \in [CLIENTS -> SlotType] /\ net' \in [CLIENTS -> NetType]
    <3>1. /\ slot' = [c \in CLIENTS |-> Found(c).slot]
          /\ net' = [c \in CLIENTS |-> IF Found(c).ping THEN Asked(net[c]) ELSE net[c]]
      BY DEF Sweep
    <3> HIDE DEF Found, Asked
    <3>2. slot' = [c \in CLIENTS |-> slot'[c]] /\ net' = [c \in CLIENTS |-> net'[c]]
      BY <3>1
    <3> QED BY <2>1, <3>2
  <2>3. /\ queued' \in 0..1 /\ sweep_age' \in 0..(H + 1)
        /\ heartbeat_sweep_pending' = FALSE /\ httpd' = "read"
        /\ UNCHANGED <<task, server, stalled>>
    BY Times DEF Sweep, IInv, TypeOK
  <2> QED BY <2>2, <2>3 DEF IInv, TypeOK, SlotType, NetType
<1>7. FlagMatchesQueue' /\ OneSweep'
  <2>1. queued = 1 /\ queued' = 0 /\ UNCHANGED task /\ heartbeat_sweep_pending' = FALSE
    BY DEF Sweep, IInv, TypeOK
  <2> QED BY <2>1 DEF IInv, FlagMatchesQueue, OneSweep
<1>8. ASSUME NEW c \in Responsive
      PROVE  slot'[c].state # "closing" /\ AnswerInTime(slot'[c], net'[c], stalled')
  <2>1. /\ c \in CLIENTS /\ slot[c] \in SlotType /\ net[c] \in NetType
        /\ AnswerInTime(slot[c], net[c], stalled) /\ slot[c].state # "closing"
        /\ stalled' = stalled
    BY <1>1, Times DEF IInv, AnswerInv, ResponsiveIsKept, Sweep
  <2>2. /\ slot[c].registered_age \in Nat /\ slot[c].ping_age \in Nat
        /\ net[c].waited \in 0..AnswerTime /\ stalled \in Nat
        /\ net[c].pongs \in Nat
    BY <2>1, <1>1, Times DEF SlotType, NetType
  <2>3. ~ Delayed => ~ (slot[c].state = "unjoined" /\ slot[c].registered_age >= J)
    BY <2>1, <2>2, <1>3, Times DEF AnswerInTime
  <2>4. ~ Delayed => ~ (slot[c].state = "joined" /\ ~ slot[c].is_alive /\ slot[c].ping_age >= H)
    BY <2>1, <2>2, <1>3, Times DEF AnswerInTime
  <2>5. CASE slot'[c] = slot[c] /\ net'[c] = net[c]
    BY <2>1, <2>5
  <2>6. CASE slot[c].state = "unjoined" /\ slot'[c] = Forgiven(slot[c]) /\ net'[c] = net[c]
    BY <2>1, <2>2, <2>6, SlotFacts, Times DEF AnswerInTime
  <2>7. CASE slot[c].state = "joined" /\ slot'[c] = Probed(slot[c]) /\ net'[c] = Asked(net[c])
    <3>1. slot'[c].state = "joined" /\ slot'[c].ping_age = 0
      BY <2>1, <2>7, SlotFacts
    <3>2. net'[c].pings > 0 /\ net'[c].waited = net[c].waited
      BY <2>1, <2>7, PingedFacts
    <3> QED BY <2>1, <2>2, <3>1, <3>2, Times DEF AnswerInTime
  <2> QED BY <2>1, <2>3, <2>4, <2>5, <2>6, <2>7, <1>4
<1> QED BY <1>6, <1>7, <1>8 DEF IInv, ResponsiveIsKept, AnswerInv

LEMMA NoSweepStep == IInv /\ NoSweep => IInv'
BY DEF IInv, NoSweep, TypeOK, FlagMatchesQueue, OneSweep, ResponsiveIsKept,
       AnswerInv, AnswerInTime

\* Reading the sockets ends every wait for what has arrived in them.
LEMMA ReadStep == IInv /\ ReadSockets => IInv'
<1> SUFFICES ASSUME IInv, ReadSockets PROVE IInv'
  OBVIOUS
<1>1. \A c \in CLIENTS : slot[c] \in SlotType /\ net[c] \in NetType
  BY Types DEF IInv
<1> DEFINE Consumed(c) == CASE slot[c].state = "closing" -> QuietNet
                            [] net[c].join -> [net[c] EXCEPT !.join = FALSE]
                            [] ~ net[c].join /\ net[c].pongs > 0 ->
                                   [net[c] EXCEPT !.pongs = @ - 1]
                            [] OTHER -> net[c]
<1>2. /\ slot' = [c \in CLIENTS |-> Heard(c)]
      /\ net' = [c \in CLIENTS |-> Consumed(c)]
      /\ stalled' = 0
  BY DEF ReadSockets
<1>3. FreeSlot \in SlotType /\ QuietNet \in NetType
  BY SlotFacts, Zeros DEF QuietNet, NetType
<1>4. ASSUME NEW c \in CLIENTS PROVE Heard(c) \in SlotType
  <2>1. [FreeSlot EXCEPT !.state = "joined", !.is_alive = TRUE] \in SlotType
    BY <1>3 DEF SlotType
  <2>2. [slot[c] EXCEPT !.is_alive = TRUE] \in SlotType
    BY <1>1 DEF SlotType
  <2> QED BY <1>1, <1>3, <2>1, <2>2 DEF Heard
<1>5. ASSUME NEW c \in CLIENTS PROVE Consumed(c) \in NetType
  <2>1. [net[c] EXCEPT !.join = FALSE] \in NetType
    BY <1>1 DEF NetType
  <2>2. net[c].pongs > 0 => [net[c] EXCEPT !.pongs = @ - 1] \in NetType
    BY <1>1, Times DEF NetType
  <2> QED BY <1>1, <1>3, <2>1, <2>2
<1> HIDE DEF Consumed
<1>6. TypeOK'
  <2>1. slot' \in [CLIENTS -> SlotType] /\ net' \in [CLIENTS -> NetType]
    BY <1>2, <1>4, <1>5
  <2>2. stalled' \in 0..(ShortStall + 1)
    BY <1>2, Times
  <2>3. /\ httpd' = "select"
        /\ UNCHANGED <<task, server, heartbeat_sweep_pending, queued, sweep_age>>
    BY DEF ReadSockets
  <2> QED BY <2>1, <2>2, <2>3 DEF IInv, TypeOK, SlotType, NetType
<1>7. FlagMatchesQueue' /\ OneSweep'
  BY DEF IInv, ReadSockets, FlagMatchesQueue, OneSweep
<1>8. ASSUME NEW c \in Responsive
      PROVE  slot'[c].state # "closing" /\ AnswerInTime(slot'[c], net'[c], stalled')
  <2>1. /\ c \in CLIENTS /\ slot[c] \in SlotType /\ net[c] \in NetType
        /\ AnswerInTime(slot[c], net[c], stalled) /\ slot[c].state # "closing"
        /\ slot'[c] = Heard(c) /\ net'[c] = Consumed(c) /\ stalled' = 0
    BY <1>1, <1>2, Times DEF IInv, AnswerInv, ResponsiveIsKept
  <2>2. CASE slot[c].state = "unjoined" /\ net[c].join
    <3>1. slot'[c] = [FreeSlot EXCEPT !.state = "joined", !.is_alive = TRUE]
      BY <2>1, <2>2 DEF Heard
    <3>2. slot'[c].state = "joined" /\ slot'[c].is_alive
      BY <3>1, <1>3 DEF SlotType
    <3> QED BY <3>2 DEF AnswerInTime
  <2>3. CASE slot[c].state = "joined" /\ net[c].pongs > 0
    <3>1. slot'[c] = [slot[c] EXCEPT !.is_alive = TRUE]
      BY <2>1, <2>3 DEF Heard
    <3>2. slot'[c].state = "joined" /\ slot'[c].is_alive
      BY <2>1, <2>3, <3>1 DEF SlotType
    <3> QED BY <3>2 DEF AnswerInTime
  <2>4. CASE ~ (slot[c].state = "unjoined" /\ net[c].join)
             /\ ~ (slot[c].state = "joined" /\ net[c].pongs > 0)
    <3>1. slot'[c] = slot[c]
      BY <2>1, <2>4 DEF Heard
    <3>2. CASE slot[c].state = "joined"
      <4>1. net[c].pongs = 0
        BY <2>1, <2>4, <3>2, Times DEF NetType
      <4>2. net'[c].pongs = 0 /\ net'[c].pings = net[c].pings
            /\ net'[c].waited = net[c].waited
        BY <2>1, <3>2, <4>1 DEF Consumed, NetType
      <4> QED BY <2>1, <3>1, <3>2, <4>1, <4>2 DEF AnswerInTime
    <3>3. CASE slot[c].state = "unjoined"
      <4>1. slot'[c].registered_age <= AnswerTime
        BY <2>1, <2>4, <3>1, <3>3 DEF AnswerInTime
      <4> QED BY <2>1, <3>1, <3>3, <4>1, Times DEF AnswerInTime
    <3>4. CASE slot[c].state = "free"
      BY <3>1, <3>4 DEF AnswerInTime
    <3> QED BY <2>1, <3>2, <3>3, <3>4 DEF SlotType
  <2> QED BY <2>2, <2>3, <2>4
<1> QED BY <1>6, <1>7, <1>8 DEF IInv, ResponsiveIsKept, AnswerInv

LEMMA HandshakeStep == ASSUME IInv, NEW c \in CLIENTS, Handshake(c) PROVE IInv'
<1>1. /\ slot \in [CLIENTS -> SlotType] /\ net \in [CLIENTS -> NetType]
  BY Types DEF IInv
<1> DEFINE new == [FreeSlot EXCEPT !.state = "unjoined", !.is_alive = TRUE]
<1>2. /\ slot' = [slot EXCEPT ![c] = new] /\ net' = [net EXCEPT ![c] = QuietNet]
      /\ UNCHANGED <<task, server, heartbeat_sweep_pending, queued, httpd, stalled, sweep_age>>
  BY DEF Handshake
<1>3. new \in SlotType /\ new.state = "unjoined" /\ new.registered_age = 0
      /\ QuietNet \in NetType
  <2>1. FreeSlot \in SlotType /\ FreeSlot.registered_age = 0
    BY SlotFacts DEF FreeSlot
  <2>2. new \in SlotType /\ new.state = "unjoined" /\ new.registered_age = 0
    BY <2>1 DEF SlotType
  <2> QED BY <2>2, Zeros DEF QuietNet, NetType
<1> HIDE DEF new
<1>4. TypeOK'
  <2>1. slot' \in [CLIENTS -> SlotType] /\ net' \in [CLIENTS -> NetType]
    BY <1>1, <1>2, <1>3
  <2> QED BY <1>2, <2>1 DEF IInv, TypeOK, SlotType, NetType
<1>5. FlagMatchesQueue' /\ OneSweep'
  BY <1>2 DEF IInv, FlagMatchesQueue, OneSweep
<1>6. ASSUME NEW d \in Responsive
      PROVE  slot'[d].state # "closing" /\ AnswerInTime(slot'[d], net'[d], stalled')
  <2>1. d \in CLIENTS /\ stalled \in Nat
    BY Times, Types DEF IInv
  <2>2. CASE d = c
    BY <1>1, <1>2, <1>3, <2>1, <2>2, Times DEF AnswerInTime
  <2>3. CASE d # c
    BY <1>1, <1>2, <2>1, <2>3 DEF IInv, ResponsiveIsKept, AnswerInv
  <2> QED BY <2>2, <2>3
<1> QED BY <1>4, <1>5, <1>6 DEF IInv, ResponsiveIsKept, AnswerInv

\* A join or a pong on its way: the time left to answer becomes time in the
\* socket.
LEMMA BrowserStep == ASSUME IInv, NEW c \in CLIENTS, Browser(c) PROVE IInv'
<1>1. /\ slot \in [CLIENTS -> SlotType] /\ net \in [CLIENTS -> NetType]
      /\ net[c] \in NetType /\ slot[c] \in SlotType
  BY Types DEF IInv
<1>2. UNCHANGED <<task, server, heartbeat_sweep_pending, queued, httpd, stalled,
                  sweep_age, slot>>
  BY DEF Browser, SendJoin, SendPong
<1> DEFINE joined == [net[c] EXCEPT !.join = TRUE]
           answered == [net[c] EXCEPT !.pings = @ - 1, !.pongs = @ + 1, !.waited = 0]
<1>3. \/ /\ slot[c].state = "unjoined" /\ ~ net[c].join
         /\ net' = [net EXCEPT ![c] = joined]
      \/ /\ net[c].pings > 0 /\ net[c].pongs < MaxQueue
         /\ net' = [net EXCEPT ![c] = answered]
  BY <1>1 DEF Browser, SendJoin, SendPong
<1>4. joined \in NetType /\ joined.join
  BY <1>1 DEF NetType
<1>5. net[c].pings > 0 /\ net[c].pongs < MaxQueue =>
         answered \in NetType /\ answered.pongs > 0
  <2>1. SUFFICES ASSUME net[c].pings > 0, net[c].pongs < MaxQueue
                 PROVE  answered \in NetType /\ answered.pongs > 0
    OBVIOUS
  <2>2. /\ net[c].pings - 1 \in 0..MaxQueue
        /\ net[c].pongs + 1 \in 0..MaxQueue /\ net[c].pongs + 1 > 0
    BY <2>1, <1>1, Times DEF NetType
  <2> DEFINE a == net[c].pings - 1
             b == net[c].pongs + 1
  <2>3. answered = [net[c] EXCEPT !.pings = a, !.pongs = b, !.waited = 0]
    OBVIOUS
  <2> HIDE DEF a, b, answered
  <2>4. answered \in NetType /\ answered.pongs = b
    BY <2>2, <2>3, <1>1, Zeros DEF NetType, a, b
  <2> QED BY <2>2, <2>4 DEF b
<1>6. answered.join = net[c].join
  BY <1>1, Zenon DEF NetType
<1> HIDE DEF joined, answered
<1>7. TypeOK'
  <2>1. net' \in [CLIENTS -> NetType]
    BY <1>1, <1>3, <1>4, <1>5
  <2> QED BY <1>1, <1>2, <2>1 DEF IInv, TypeOK, SlotType, NetType
<1>8. FlagMatchesQueue' /\ OneSweep'
  BY <1>2 DEF IInv, FlagMatchesQueue, OneSweep
<1>9. ResponsiveIsKept'
  BY <1>2 DEF IInv, ResponsiveIsKept
<1>10. ASSUME NEW d \in Responsive PROVE AnswerInTime(slot'[d], net'[d], stalled')
  <2>1. /\ d \in CLIENTS /\ AnswerInTime(slot[d], net[d], stalled) /\ stalled \in Nat
        /\ slot' = slot /\ stalled' = stalled
    BY <1>2, Times, Types DEF IInv, AnswerInv
  <2>2. CASE d # c
    BY <1>1, <1>3, <2>1, <2>2
  <2>3. CASE d = c /\ slot[c].state = "unjoined" /\ ~ net[c].join /\ net'[c] = joined
    <3>1. slot[c].registered_age <= AnswerTime /\ slot[c].registered_age \in Nat
      BY <2>1, <2>3, <1>1, Times DEF AnswerInTime, SlotType
    <3> QED BY <2>1, <2>3, <3>1, <1>4, Times DEF AnswerInTime
  <2>4. CASE /\ d = c /\ net[c].pings > 0 /\ net[c].pongs < MaxQueue /\ net'[c] = answered
    <3>1. /\ net[c].waited \in 0..AnswerTime /\ net[c].pongs \in Nat
          /\ slot[c].ping_age \in Nat /\ slot[c].registered_age \in Nat
      BY <1>1, Times DEF NetType, SlotType
    <3>2. slot[c].state = "joined" /\ ~ slot[c].is_alive /\ stalled <= ShortStall =>
             slot[c].ping_age <= AnswerTime + stalled
      BY <2>1, <2>4, <3>1, Times DEF AnswerInTime
    <3>3. answered.pongs > 0 /\ answered.pongs # 0
      BY <1>5, <2>4
    <3> QED BY <2>1, <2>4, <3>2, <3>3, <1>6 DEF AnswerInTime
  <2>5. \/ net'[c] = joined /\ slot[c].state = "unjoined" /\ ~ net[c].join
        \/ net'[c] = answered /\ net[c].pings > 0 /\ net[c].pongs < MaxQueue
    BY <1>1, <1>3
  <2> QED BY <2>2, <2>3, <2>4, <2>5
<1> QED BY <1>7, <1>8, <1>9, <1>10 DEF IInv, AnswerInv

LEMMA Step == IInv /\ [Next]_vars => IInv'
<1>1. IInv /\ UNCHANGED vars => IInv'
  BY DEF IInv, vars, TypeOK, FlagMatchesQueue, OneSweep, ResponsiveIsKept,
         AnswerInv, AnswerInTime
<1> QED BY <1>1, TaskStep, TickStep, SweepStep, NoSweepStep, ReadStep,
           HandshakeStep, BrowserStep DEF Next

-----------------------------------------------------------------------------
(* The theorems *)

\* The inductive invariant: types, the flag with its queue, and the time left
\* of every awaited pong and join.
THEOREM HeartbeatCorrect == Spec => []IInv
<1>1. Init => IInv
  BY InitInv
<1>2. IInv /\ [Next]_vars => IInv'
  BY Step
<1> QED BY <1>1, <1>2, PTL DEF Spec

\* The times the code keeps stay in their ranges.
THEOREM HeartbeatTypes == Spec => []TypeOK
<1>1. IInv => TypeOK
  BY DEF IInv
<1> QED BY <1>1, HeartbeatCorrect, PTL

\* heartbeat_sweep_pending is set exactly while a sweep is queued or about to
\* be, whichever way the two tasks interleave and queueing fails.
THEOREM FlagCorrect == Spec => []FlagMatchesQueue
<1>1. IInv => FlagMatchesQueue
  BY DEF IInv
<1> QED BY <1>1, HeartbeatCorrect, PTL

\* heartbeat_sweep_work never closes a browser that answers in time, for any
\* number of browsers, any period and any join timeout that leaves it room.
THEOREM ResponsiveKept == Spec => []ResponsiveIsKept
<1>1. IInv => ResponsiveIsKept
  BY DEF IInv
<1> QED BY <1>1, HeartbeatCorrect, PTL
=============================================================================
