--------------------------- MODULE SessionsProofs ---------------------------
(***************************************************************************)
(* Proofs about Sessions, for any number of slots, descriptors and users.  *)
(***************************************************************************)
EXTENDS Sessions, FiniteSetTheorems, WellFoundedInduction, TLAPS

SockState == {"closed", "http", "ws", "shut", "stuck"}
Open == {"ws", "shut", "stuck"}     \* may have a slot
Ended == {"shut", "stuck"}          \* was told to shut down
SlotType ==
    [fd : FDS \cup {NoFd}, active : BOOLEAN, closing : BOOLEAN,
     joined : BOOLEAN, is_alive : BOOLEAN, user_id : USERS \cup {NoUser}]

TypeOK ==
    /\ pc \in {"idle", "presence", "delete"}
    /\ cur \in FDS \cup {NoFd}
    /\ then \in {"return", "delete", "close"}
    /\ attempt \in Nat
    /\ client_slots \in [Slots -> SlotType]
    /\ sock \in [FDS -> SockState]
    /\ view \in [FDS -> SUBSET USERS]
    /\ latest \in [FDS -> {"whole", "short", "missed"}]

\* What the HTTPD task holds at each of its places.
ControlOK ==
    /\ pc = "idle" => cur = NoFd /\ then = "return" /\ attempt = 0
    /\ pc = "delete" => cur \in FDS
    /\ pc = "presence" /\ then = "return" => cur = NoFd
    /\ pc = "presence" /\ then # "return" => cur \in FDS
    /\ pc = "presence" /\ then = "close" => SlotsOf(client_slots, cur) = {}

\* SlotsFollowSockets for slots s, sockets so, place p and descriptor c, with
\* what makes it inductive: a free slot is clean, a slot holds a descriptor,
\* and one that is closing is as chat_sessions_mark_closing left it.
SlotsFit(s, so, p, c) ==
    /\ \A i \in Slots : ~ s[i].active => s[i] = FreeSlot
    /\ \A i, j \in Slots :
          s[i].active /\ s[j].active /\ s[i].fd = s[j].fd => i = j
    /\ \A i \in Slots : s[i].active =>
          /\ s[i].fd \in FDS
          /\ \/ so[s[i].fd] \in Open
             \/ p = "delete" /\ c = s[i].fd
    /\ \A i \in Slots : s[i].active /\ s[i].closing =>
          /\ ~ s[i].joined /\ ~ s[i].is_alive /\ s[i].user_id = NoUser
          /\ so[s[i].fd] \in Ended \/ c = s[i].fd
    /\ \A i \in Slots : s[i].active /\ ~ s[i].closing =>
          (s[i].joined <=> s[i].user_id # NoUser)

\* PresenceAccurate, also while a session without a slot is being deleted.
ListsRight ==
    (/\ pc = "idle" \/ (pc = "delete" /\ SlotsOf(client_slots, cur) = {})
     /\ \A i \in Slots : ~ client_slots[i].closing)
    => ListIsRight(client_slots, view, latest)

IInv ==
    /\ TypeOK /\ ControlOK
    /\ SlotsFit(client_slots, sock, pc, cur)
    /\ PresenceConverges /\ ListsRight

-----------------------------------------------------------------------------
(* The slot operations *)

LEMMA Facts ==
    /\ MAX_CLIENTS \in Nat \ {0} /\ NoFd \notin FDS /\ NoUser \notin USERS
    /\ Slots \subseteq Nat
BY SessionsAssumption DEF Slots

\* The least number of a set: what the loops that stop at the first hit find.
LEMMA MinFound ==
    ASSUME NEW S \in SUBSET Nat, S # {}
    PROVE  Min(S) \in S
<1> DEFINE less == OpToRel(<, Nat)
<1>1. PICK x \in S : \A y \in S : ~ (<<y, x>> \in less)
  <2>1. IsWellFoundedOn(less, Nat)
    BY NatLessThanWellFounded
  <2> HIDE DEF less
  <2> QED BY <2>1, WFMin
<1>2. ASSUME NEW y \in S PROVE x =< y
  <2>1. <<y, x>> \in less <=> y < x
    BY DEF OpToRel
  <2> HIDE DEF less
  <2> QED BY <1>1, <2>1
<1> QED BY <1>2 DEF Min

LEMMA OnlyOne ==
    ASSUME NEW k \in Nat
    PROVE  Min({k}) = k /\ Max({k}) = k
BY DEF Min, Max

\* The three ways a slot changes by itself.
LEMMA MarkedSlot ==
    ASSUME NEW slot \in SlotType
    PROVE  /\ MarkSlotClosing(slot) \in SlotType
           /\ MarkSlotClosing(slot) =
                [fd |-> slot.fd, active |-> slot.active, closing |-> TRUE,
                 joined |-> FALSE, is_alive |-> FALSE, user_id |-> NoUser]
<1>1. MarkSlotClosing(slot) \in SlotType
  BY DEF MarkSlotClosing, SlotType
<1>2. MarkSlotClosing(slot) =
        [fd |-> slot.fd, active |-> slot.active, closing |-> TRUE,
         joined |-> FALSE, is_alive |-> FALSE, user_id |-> NoUser]
  <2> DEFINE new == MarkSlotClosing(slot)
  <2>1. /\ new.fd = slot.fd /\ new.active = slot.active /\ new.closing = TRUE
        /\ new.joined = FALSE /\ new.is_alive = FALSE /\ new.user_id = NoUser
    BY DEF MarkSlotClosing, SlotType
  <2> HIDE DEF new
  <2>2. new \in SlotType
    BY <1>1 DEF new
  <2> QED BY <2>1, <2>2 DEF SlotType, new
<1> QED BY <1>1, <1>2

LEMMA NewSlotIs ==
    ASSUME NEW fd \in FDS
    PROVE  /\ NewSlot(fd) \in SlotType
           /\ NewSlot(fd).fd = fd /\ NewSlot(fd).active /\ NewSlot(fd).is_alive
           /\ ~ NewSlot(fd).closing /\ ~ NewSlot(fd).joined
           /\ NewSlot(fd).user_id = NoUser
BY DEF NewSlot, FreeSlot, SlotType

LEMMA FreeSlotIs ==
    /\ FreeSlot \in SlotType
    /\ FreeSlot.fd = NoFd /\ ~ FreeSlot.active /\ ~ FreeSlot.closing
    /\ ~ FreeSlot.joined /\ ~ FreeSlot.is_alive /\ FreeSlot.user_id = NoUser
BY DEF FreeSlot, SlotType

\* A slot after ensure_slot: taken over alive, or new.
Alive(slot) == [slot EXCEPT !.is_alive = TRUE]

LEMMA EnsureOne ==
    ASSUME NEW s \in [Slots -> SlotType], NEW fd \in FDS,
           \A i, j \in SlotsOf(s, fd) : i = j,
           SlotReady(s, fd)
    PROVE  \E k \in Slots :
              \/ /\ SlotsOf(s, fd) = {k} /\ ~ s[k].closing
                 /\ EnsureSlot(s, fd) = [s EXCEPT ![k] = Alive(s[k])]
              \/ /\ SlotsOf(s, fd) = {} /\ ~ s[k].active
                 /\ EnsureSlot(s, fd) = [s EXCEPT ![k] = NewSlot(fd)]
<1>1. CASE SlotsOf(s, fd) # {}
  <2>1. PICK k \in Slots : SlotsOf(s, fd) = {k}
    BY <1>1 DEF SlotsOf
  <2>2. Min(SlotsOf(s, fd)) = k
    BY <2>1, OnlyOne, Facts
  <2> QED BY <1>1, <2>1, <2>2 DEF EnsureSlot, SlotReady, Alive
<1>2. CASE SlotsOf(s, fd) = {}
  <2>1. FreeSlots(s) # {} /\ FreeSlots(s) \in SUBSET Nat
    BY <1>2, Facts DEF SlotReady, FreeSlots
  <2>2. Min(FreeSlots(s)) \in FreeSlots(s)
    BY <2>1, MinFound
  <2> QED BY <1>2, <2>2 DEF EnsureSlot, FreeSlots
<1> QED BY <1>1, <1>2

\* What no slot operation but a join does to the slots that are joined.
SameJoined(s, t) ==
    /\ JoinedSlots(t) = JoinedSlots(s)
    /\ \A i \in JoinedSlots(s) : t[i].fd = s[i].fd /\ t[i].user_id = s[i].user_id
OnlyLeaves(s, t) ==
    /\ JoinedSlots(t) \subseteq JoinedSlots(s)
    /\ \A i \in JoinedSlots(t) : t[i].fd = s[i].fd /\ t[i].user_id = s[i].user_id
KeepsClosing(s, t) ==
    \A i \in Slots : s[i].active /\ s[i].closing => t[i] = s[i]

LEMMA SameLists ==
    ASSUME NEW s, NEW t, SameJoined(s, t)
    PROVE  JoinedFds(t) = JoinedFds(s) /\ Online(t) = Online(s) /\ OnlyLeaves(s, t)
BY DEF SameJoined, OnlyLeaves, JoinedFds, Online

LEMMA JoinedBound ==
    ASSUME NEW s
    PROVE  /\ IsFiniteSet(JoinedSlots(s))
           /\ Cardinality(JoinedSlots(s)) \in Nat
           /\ Cardinality(JoinedSlots(s)) <= MAX_CLIENTS
<1>1. IsFiniteSet(Slots) /\ Cardinality(Slots) = MAX_CLIENTS
  BY Facts, FS_Interval DEF Slots
<1>2. JoinedSlots(s) \subseteq Slots
  BY DEF JoinedSlots
<1> QED BY <1>1, <1>2, FS_Subset, FS_CardinalityType

LEMMA EnsureEffect ==
    ASSUME NEW s \in [Slots -> SlotType], NEW so, NEW p, NEW c, NEW fd \in FDS,
           SlotsFit(s, so, p, c), SlotReady(s, fd)
    PROVE  LET t == EnsureSlot(s, fd)
           IN  /\ t \in [Slots -> SlotType]
               /\ SameJoined(s, t) /\ KeepsClosing(s, t)
               /\ \A i \in Slots : t[i].closing = s[i].closing
               /\ \E k \in Slots : SlotsOf(t, fd) = {k} /\ ~ t[k].closing
               /\ so[fd] \in Open \/ (p = "delete" /\ c = fd)
                     => SlotsFit(t, so, p, c)
<1> DEFINE t == EnsureSlot(s, fd)
<1>1. \A i, j \in SlotsOf(s, fd) : i = j
  BY DEF SlotsFit, SlotsOf
<1>2. PICK k \in Slots :
         \/ /\ SlotsOf(s, fd) = {k} /\ ~ s[k].closing
            /\ t = [s EXCEPT ![k] = Alive(s[k])]
         \/ /\ SlotsOf(s, fd) = {} /\ ~ s[k].active
            /\ t = [s EXCEPT ![k] = NewSlot(fd)]
  BY <1>1, EnsureOne
<1> HIDE DEF t
<1>3. CASE SlotsOf(s, fd) = {k}
  <2>1. s[k].active /\ s[k].fd = fd /\ ~ s[k].closing /\ t = [s EXCEPT ![k] = Alive(s[k])]
    BY <1>2, <1>3 DEF SlotsOf
  <2>2. /\ t \in [Slots -> SlotType]
        /\ t[k] = Alive(s[k]) /\ \A i \in Slots \ {k} : t[i] = s[i]
    BY <2>1 DEF Alive, SlotType
  <2>3. \A i \in Slots : /\ t[i].fd = s[i].fd /\ t[i].active = s[i].active
                         /\ t[i].closing = s[i].closing /\ t[i].joined = s[i].joined
                         /\ t[i].user_id = s[i].user_id
                         /\ s[i].closing \/ ~ s[i].active => t[i] = s[i]
    BY <2>1, <2>2 DEF Alive, SlotType
  <2>4. SlotsOf(t, fd) = {k}
    BY <1>3, <2>3 DEF SlotsOf
  <2>5. SameJoined(s, t) /\ KeepsClosing(s, t)
    BY <2>3 DEF SameJoined, KeepsClosing, JoinedSlots
  <2>6. SlotsFit(t, so, p, c)
    BY <2>3 DEF SlotsFit
  <2> QED BY <2>1, <2>2, <2>3, <2>4, <2>5, <2>6 DEF t
<1>4. CASE SlotsOf(s, fd) # {k}
  <2>1. ~ s[k].active /\ t = [s EXCEPT ![k] = NewSlot(fd)] /\ SlotsOf(s, fd) = {}
    BY <1>2, <1>4
  <2>2. /\ NewSlot(fd).fd = fd /\ NewSlot(fd).active /\ NewSlot(fd).is_alive
        /\ NewSlot(fd).closing = FALSE /\ ~ NewSlot(fd).joined
        /\ NewSlot(fd).user_id = NoUser /\ NewSlot(fd) \in SlotType
    BY NewSlotIs, FreeSlotIs DEF SlotType
  <2>3. /\ t \in [Slots -> SlotType]
        /\ t[k] = NewSlot(fd) /\ \A i \in Slots \ {k} : t[i] = s[i]
    BY <2>1, <2>2
  <2>4. s[k].closing = FALSE
    BY <2>1, FreeSlotIs DEF SlotsFit, SlotType
  <2>5. SlotsOf(t, fd) = {k}
    BY <2>1, <2>2, <2>3 DEF SlotsOf
  <2>6. SameJoined(s, t) /\ KeepsClosing(s, t)
    BY <2>1, <2>2, <2>3 DEF SameJoined, KeepsClosing, JoinedSlots
  <2>7. \A i \in Slots : t[i].closing = s[i].closing
    BY <2>2, <2>3, <2>4
  <2>8. ASSUME so[fd] \in Open \/ (p = "delete" /\ c = fd)
        PROVE  SlotsFit(t, so, p, c)
    BY <2>1, <2>2, <2>3, <2>8 DEF SlotsFit, SlotsOf
  <2> QED BY <2>2, <2>3, <2>5, <2>6, <2>7, <2>8 DEF t
<1> QED BY <1>3, <1>4

LEMMA MarkEffect ==
    ASSUME NEW s \in [Slots -> SlotType], NEW F
    PROVE  LET t == MarkClosing(s, F)
           IN  /\ t \in [Slots -> SlotType]
               /\ OnlyLeaves(s, t)
               /\ JoinedSlots(t) = {i \in JoinedSlots(s) : s[i].fd \notin F}
               /\ \A i \in Slots :
                     /\ t[i].fd = s[i].fd /\ t[i].active = s[i].active
                     /\ s[i].closing => t[i].closing
                     /\ s[i].active /\ s[i].fd \in F => t[i] = MarkSlotClosing(s[i])
                     /\ ~ s[i].active \/ s[i].fd \notin F => t[i] = s[i]
<1> DEFINE t == MarkClosing(s, F)
<1>1. \A i \in Slots :
         MarkSlotClosing(s[i]) =
            [fd |-> s[i].fd, active |-> s[i].active, closing |-> TRUE,
             joined |-> FALSE, is_alive |-> FALSE, user_id |-> NoUser]
  BY MarkedSlot
<1>2. t \in [Slots -> SlotType]
  <2>1. \A i \in Slots : MarkSlotClosing(s[i]) \in SlotType
    BY MarkedSlot
  <2> QED BY <2>1 DEF MarkClosing
<1>3. \A i \in Slots :
         /\ s[i].active /\ s[i].fd \in F => t[i] = MarkSlotClosing(s[i])
         /\ ~ s[i].active \/ s[i].fd \notin F => t[i] = s[i]
  BY DEF MarkClosing
<1> HIDE DEF t
<1>4. \A i \in Slots : /\ t[i].fd = s[i].fd /\ t[i].active = s[i].active
                       /\ s[i].closing => t[i].closing
  BY <1>1, <1>3
<1>5. JoinedSlots(t) = {i \in JoinedSlots(s) : s[i].fd \notin F}
  BY <1>1, <1>3 DEF JoinedSlots
<1>6. OnlyLeaves(s, t)
  BY <1>3, <1>5 DEF OnlyLeaves, JoinedSlots
<1> QED BY <1>2, <1>3, <1>4, <1>5, <1>6 DEF t

LEMMA MarkNone ==
    ASSUME NEW s \in [Slots -> SlotType]
    PROVE  MarkClosing(s, {}) = s
BY DEF MarkClosing

\* Between two states no socket that has a slot is given up but by a shutdown,
\* and the deletion that is due stays due.
Follow(s, so, p, c, so2, p2, c2) ==
    \A i \in Slots : s[i].active =>
        /\ so[s[i].fd] \in Open => so2[s[i].fd] \in Open
        /\ so[s[i].fd] \in Ended => so2[s[i].fd] \in Ended
        /\ c = s[i].fd => c2 = s[i].fd /\ (p = "delete" => p2 = "delete")
Ending(F, so2, c2) == \A fd \in F : so2[fd] \in Ended \/ c2 = fd

\* Closing the slots of F keeps the table fit, when their sockets were shut
\* down or their deletion is due.
LEMMA MarkFits ==
    ASSUME NEW s \in [Slots -> SlotType], NEW F,
           NEW so, NEW p, NEW c, NEW so2, NEW p2, NEW c2,
           SlotsFit(s, so, p, c),
           Follow(s, so, p, c, so2, p2, c2), Ending(F, so2, c2)
    PROVE  /\ SlotsFit(MarkClosing(s, F), so2, p2, c2)
           /\ KeepsClosing(s, MarkClosing(s, F))
<1> DEFINE t == MarkClosing(s, F)
<1>1. \A i \in Slots :
         MarkSlotClosing(s[i]) =
            [fd |-> s[i].fd, active |-> s[i].active, closing |-> TRUE,
             joined |-> FALSE, is_alive |-> FALSE, user_id |-> NoUser]
  BY MarkedSlot
<1>2. \A i \in Slots :
         /\ t[i].fd = s[i].fd /\ t[i].active = s[i].active
         /\ s[i].active /\ s[i].fd \in F => t[i] = MarkSlotClosing(s[i])
         /\ ~ s[i].active \/ s[i].fd \notin F => t[i] = s[i]
  BY MarkEffect
<1> HIDE DEF t
<1>3. KeepsClosing(s, t)
  <2> SUFFICES ASSUME NEW i \in Slots, s[i].active, s[i].closing, s[i].fd \in F
               PROVE  t[i] = s[i]
    BY <1>2 DEF KeepsClosing
  <2>1. /\ s[i].closing = TRUE /\ s[i].joined = FALSE /\ s[i].is_alive = FALSE
        /\ s[i].user_id = NoUser
    BY DEF SlotsFit, SlotType
  <2>2. s[i] = [fd |-> s[i].fd, active |-> s[i].active, closing |-> TRUE,
                joined |-> FALSE, is_alive |-> FALSE, user_id |-> NoUser]
    BY <2>1 DEF SlotType
  <2> QED BY <1>1, <1>2, <2>2
<1>4. \A i \in Slots : ~ t[i].active => t[i] = FreeSlot
  BY <1>2 DEF SlotsFit
<1>5. \A i, j \in Slots : t[i].active /\ t[j].active /\ t[i].fd = t[j].fd => i = j
  BY <1>2 DEF SlotsFit
<1>6. ASSUME NEW i \in Slots, t[i].active
      PROVE  /\ t[i].fd \in FDS
             /\ \/ so2[t[i].fd] \in Open
                \/ p2 = "delete" /\ c2 = t[i].fd
             /\ t[i].closing =>
                  /\ ~ t[i].joined /\ ~ t[i].is_alive /\ t[i].user_id = NoUser
                  /\ so2[t[i].fd] \in Ended \/ c2 = t[i].fd
             /\ ~ t[i].closing => (t[i].joined <=> t[i].user_id # NoUser)
  <2>1. s[i].active /\ s[i].fd \in FDS /\ t[i].fd = s[i].fd
    BY <1>2, <1>6 DEF SlotsFit
  <2>2. so[s[i].fd] \in Open \/ (p = "delete" /\ c = s[i].fd)
    BY <2>1 DEF SlotsFit
  <2>3. so2[t[i].fd] \in Open \/ (p2 = "delete" /\ c2 = t[i].fd)
    BY <2>1, <2>2 DEF Follow
  <2>4. CASE s[i].fd \in F
    BY <1>1, <1>2, <2>1, <2>3, <2>4 DEF Ending
  <2>5. CASE s[i].fd \notin F
    BY <1>2, <2>1, <2>3, <2>5 DEF SlotsFit, Follow
  <2> QED BY <2>4, <2>5
<1>7. SlotsFit(t, so2, p2, c2)
  BY <1>4, <1>5, <1>6 DEF SlotsFit
<1> QED BY <1>3, <1>7 DEF t

-----------------------------------------------------------------------------
(* The steps *)

\* What every step but a join keeps of the slots.
Keeps == \A i \in Slots :
    client_slots[i].active /\ client_slots[i].closing =>
        client_slots'[i] \in {client_slots[i], FreeSlot}
Leaves == OnlyLeaves(client_slots, client_slots')

LEMMA InitInv == Init => IInv
<1> SUFFICES ASSUME Init PROVE IInv
  OBVIOUS
<1> USE Facts DEF Init
<1>1. \A i \in Slots : client_slots[i] = FreeSlot
  OBVIOUS
<1>2. JoinedSlots(client_slots) = {} /\ JoinedFds(client_slots) = {}
  BY <1>1, FreeSlotIs DEF JoinedSlots, JoinedFds
<1>3. TypeOK
  BY FreeSlotIs DEF TypeOK, SockState
<1>4. ControlOK
  BY DEF ControlOK
<1>5. SlotsFit(client_slots, sock, pc, cur)
  BY <1>1, FreeSlotIs DEF SlotsFit
<1>6. PresenceConverges
  BY DEF PresenceConverges
<1>7. ListsRight
  BY <1>2 DEF ListsRight, ListIsRight
<1> QED BY <1>3, <1>4, <1>5, <1>6, <1>7 DEF IInv

\* A broadcast that begins has not failed yet.
LEMMA BroadcastBegins ==
    ASSUME attempt' = 0
    PROVE  PresenceConverges'
BY JoinedBound, Facts DEF PresenceConverges

\* Closing the descriptors of F: each is told to shut down, and no other.
Closes(F, so) ==
    /\ so \in [FDS -> SockState]
    /\ \A d \in FDS : IF d \in F THEN so[d] \in Ended ELSE so[d] = sock[d]

LEMMA ShutdownIs ==
    ASSUME TypeOK, NEW F, NEW so \in Shutdown(F)
    PROVE  Closes(F, so)
BY DEF TypeOK, Shutdown, SockState, Ended, Closes

\* What a list does to what the browsers of R show, when slots s name users.
LEMMA ReadsEffect ==
    ASSUME TypeOK, NEW s, Online(s) \subseteq USERS, NEW R, Reads(R, s)
    PROVE  /\ view' \in [FDS -> SUBSET USERS]
           /\ latest' \in [FDS -> {"whole", "short", "missed"}]
           /\ \A fd \in FDS :
                 IF fd \in R
                 THEN /\ latest'[fd] = "whole" => view'[fd] = Online(s)
                      /\ latest'[fd] = "short" => view'[fd] \subseteq Online(s)
                 ELSE view'[fd] = view[fd] /\ latest'[fd] = latest[fd]
<1>1. /\ view \in [FDS -> SUBSET USERS]
      /\ latest \in [FDS -> {"whole", "short", "missed"}]
  BY DEF TypeOK
<1>2. CASE Misses(R)
  BY <1>1, <1>2 DEF Misses
<1>3. CASE ~ Misses(R)
  <2>1. PICK L \in SUBSET Online(s) :
           /\ view' = [fd \in FDS |-> IF fd \in R THEN L ELSE view[fd]]
           /\ latest' = [fd \in FDS |-> IF fd \notin R THEN latest[fd]
                                        ELSE IF L = Online(s) THEN "whole" ELSE "short"]
    BY <1>3 DEF Reads
  <2> QED BY <1>1, <2>1
<1> QED BY <1>2, <1>3

\* All that a frame other than a join can do: its slot is ensured, the slots
\* of F close, and a session is deleted or the others hear of it.
FrameShape(fd, F) ==
    /\ Receives(fd)
    /\ client_slots' = MarkClosing(Ensured(fd), F)
    /\ sock' \in [FDS -> SockState]
    /\ \A d \in FDS : sock'[d] = sock[d] \/ sock'[d] \in Ended
    /\ Ending(F, sock', cur')
    /\ Reads({fd}, client_slots) \/ UNCHANGED <<view, latest>>
    /\ \/ UNCHANGED control \/ DeleteSession(fd)
       \/ BroadcastPresence("delete", fd) \/ BroadcastPresence("return", NoFd)
    /\ pc' # "presence" => F = {} \/ F = {fd}

LEMMA FrameStep ==
    ASSUME IInv, NEW fd \in FDS, NEW F \in SUBSET FDS, FrameShape(fd, F)
    PROVE  IInv' /\ Keeps /\ Leaves
<1> DEFINE s == client_slots
           t == Ensured(fd)
<1> USE Facts DEF FrameShape
<1>1. /\ TypeOK /\ ControlOK /\ SlotsFit(s, sock, pc, cur) /\ ListsRight
      /\ s \in [Slots -> SlotType] /\ sock \in [FDS -> SockState]
  BY DEF IInv, TypeOK
<1>2. /\ pc = "idle" /\ cur = NoFd /\ then = "return" /\ attempt = 0
      /\ sock[fd] \in Open /\ SlotReady(s, fd)
  BY <1>1 DEF ControlOK, Receives, Readable, Open
<1>3. /\ t \in [Slots -> SlotType] /\ SameJoined(s, t) /\ KeepsClosing(s, t)
      /\ \A i \in Slots : t[i].closing = s[i].closing
      /\ SlotsFit(t, sock, pc, cur)
      /\ \E k \in Slots : SlotsOf(t, fd) = {k} /\ ~ t[k].closing
  <2> HIDE DEF s, t
  <2>1. t = EnsureSlot(s, fd)
    BY DEF s, t, Ensured
  <2> QED BY ONLY <1>1, <1>2, <2>1, EnsureEffect, fd \in FDS
<1> HIDE DEF t
<1>4. /\ client_slots' \in [Slots -> SlotType]
      /\ OnlyLeaves(t, client_slots')
      /\ JoinedSlots(client_slots') = {i \in JoinedSlots(t) : t[i].fd \notin F}
      /\ \A i \in Slots :
            /\ client_slots'[i].fd = t[i].fd /\ client_slots'[i].active = t[i].active
            /\ t[i].closing => client_slots'[i].closing
            /\ t[i].active /\ t[i].fd \in F => client_slots'[i] = MarkSlotClosing(t[i])
            /\ ~ t[i].active \/ t[i].fd \notin F => client_slots'[i] = t[i]
  BY <1>3, MarkEffect DEF t
<1>5. /\ SlotsFit(client_slots', sock', pc', cur')
      /\ KeepsClosing(t, client_slots')
  <2>1. \A i \in Slots : t[i].active => t[i].fd \in FDS
    BY <1>3 DEF SlotsFit
  <2>a. Follow(t, sock, pc, cur, sock', pc', cur') /\ Ending(F, sock', cur')
    BY <1>2, <2>1 DEF Follow, Ending, Open, Ended
  <2>2. /\ SlotsFit(MarkClosing(t, F), sock', pc', cur')
        /\ KeepsClosing(t, MarkClosing(t, F))
    BY ONLY <1>3, <2>a, MarkFits
  <2> QED BY <2>2 DEF t
<1>6. Keeps
  BY <1>3, <1>5 DEF Keeps, KeepsClosing
<1>7. Leaves
  BY <1>3, <1>4 DEF Leaves, SameJoined, OnlyLeaves
<1>8. ControlOK' /\ pc' \in {"idle", "presence", "delete"} /\ cur' \in FDS \cup {NoFd}
      /\ then' \in {"return", "delete", "close"} /\ attempt' = 0
  BY <1>1, <1>2 DEF ControlOK, control, DeleteSession, BroadcastPresence
<1>9. TypeOK'
  <2>1. Online(client_slots) \subseteq USERS
    BY <1>1 DEF Online, JoinedSlots, SlotsFit, SlotType
  <2>2. /\ view' \in [FDS -> SUBSET USERS]
        /\ latest' \in [FDS -> {"whole", "short", "missed"}]
    <3>1. CASE Reads({fd}, client_slots)
      BY <1>1, <2>1, <3>1, ReadsEffect
    <3>2. CASE UNCHANGED <<view, latest>>
      BY <1>1, <3>2 DEF TypeOK
    <3> QED BY <3>1, <3>2
  <2> QED BY <1>1, <1>4, <1>8, <2>2 DEF TypeOK
<1>10. PresenceConverges'
  BY <1>8, BroadcastBegins
<1>11. ListsRight'
  <2> SUFFICES ASSUME pc' # "presence",
                      \A i \in Slots : ~ client_slots'[i].closing
               PROVE  ListIsRight(client_slots', view', latest')
    BY <1>8 DEF ListsRight
  <2>1. F = {}
    <3>1. PICK k \in Slots : SlotsOf(t, fd) = {k}
      BY <1>3
    <3>2. t[k].active /\ t[k].fd = fd
      BY <3>1 DEF SlotsOf
    <3>3. fd \in F => client_slots'[k].closing
      BY <1>3, <1>4, <3>2, MarkedSlot
    <3> QED BY <3>3
  <2>2. client_slots' = t
    BY <1>3, <2>1, MarkNone DEF t
  <2>3. JoinedFds(t) = JoinedFds(s) /\ Online(t) = Online(s)
    BY ONLY <1>3, SameLists
  <2>4. ListIsRight(s, view, latest)
    BY <1>1, <1>2, <1>3, <2>2 DEF ListsRight
  <2>5. JoinedFds(s) \subseteq FDS /\ Online(s) \subseteq USERS
    BY <1>1 DEF JoinedFds, Online, JoinedSlots, SlotsFit, SlotType
  <2>6. ListIsRight(s, view', latest')
    <3>1. CASE UNCHANGED <<view, latest>>
      BY <2>4, <3>1
    <3>2. CASE Reads({fd}, s)
      <4>1. \A d \in FDS :
               IF d = fd
               THEN /\ latest'[d] = "whole" => view'[d] = Online(s)
                    /\ latest'[d] = "short" => view'[d] \subseteq Online(s)
               ELSE view'[d] = view[d] /\ latest'[d] = latest[d]
        <5>1. \A d \in FDS : d \in {fd} <=> d = fd
          OBVIOUS
        <5> HIDE DEF s
        <5> QED BY <1>1, <2>5, <3>2, <5>1, ReadsEffect
      <4> QED BY <2>4, <2>5, <4>1 DEF ListIsRight
    <3> QED BY <3>1, <3>2
  <2> QED BY <2>2, <2>3, <2>6 DEF ListIsRight
<1> QED BY <1>1, <1>5, <1>6, <1>7, <1>9, <1>8, <1>10, <1>11 DEF IInv

\* The frames that are no join.
LEMMA PlainFrameStep ==
    ASSUME IInv, NEW fd \in FDS,
           \/ FrameBroken(fd) \/ FrameNoMemory(fd) \/ CloseFrame(fd)
           \/ FrameDropped(fd) \/ FrameIgnored(fd) \/ FrameRefused(fd)
           \/ ReplyFails(fd) \/ GetOnlineUser(fd)
           \/ BroadcastFrame(fd) \/ RelayFrame(fd)
    PROVE  IInv' /\ Keeps /\ Leaves
<1>1. /\ TypeOK /\ ControlOK /\ SlotsFit(client_slots, sock, pc, cur)
      /\ sock \in [FDS -> SockState]
  BY DEF IInv, TypeOK
<1> SUFFICES ASSUME Receives(fd)
             PROVE  \E F \in SUBSET FDS : FrameShape(fd, F)
  BY FrameStep
     DEF FrameBroken, FrameNoMemory, CloseFrame, FrameDropped, FrameIgnored,
         FrameRefused, ReplyFails, GetOnlineUser, BroadcastFrame, RelayFrame
<1>2. pc = "idle" /\ sock[fd] \in Open /\ SlotReady(client_slots, fd)
  BY DEF Receives, Readable, Open
<1>3. /\ Ensured(fd) \in [Slots -> SlotType]
      /\ SlotsFit(Ensured(fd), sock, pc, cur)
  BY <1>1, <1>2, EnsureEffect DEF IInv, TypeOK, Ensured
<1>4. MarkClosing(Ensured(fd), {}) = Ensured(fd)
  BY <1>3, MarkNone
<1>5. \A F : \A so \in Shutdown(F) : Closes(F, so)
  BY <1>1, ShutdownIs
<1>7. LET so == [sock EXCEPT ![fd] = "shut"]
      IN  so \in [FDS -> SockState] /\ \A d \in FDS : so[d] = sock[d] \/ so[d] \in Ended
  BY <1>1 DEF SockState, Ended
<1>6. /\ JoinedFds(Ensured(fd)) \subseteq FDS
      /\ NamedFds(Ensured(fd)) \subseteq FDS
  BY <1>3 DEF JoinedFds, NamedFds, JoinedSlots, SlotsFit
<1> USE <1>2 DEF FrameShape, Ending, Closes, control
<1>a. CASE FrameBroken(fd)
  <2>1. FrameShape(fd, {fd})
    BY <1>1, <1>a DEF FrameBroken, DeleteSession, BroadcastPresence
  <2> QED BY <2>1
<1>b. CASE FrameNoMemory(fd)
  <2>1. FrameShape(fd, {})
    BY <1>1, <1>4, <1>b DEF FrameNoMemory
  <2> QED BY <2>1
<1>c. CASE CloseFrame(fd)
  <2>1. FrameShape(fd, {fd})
    BY <1>5, <1>c DEF CloseFrame
  <2> QED BY <2>1
<1>d. CASE FrameDropped(fd)
  <2>1. FrameShape(fd, {fd})
    BY <1>5, <1>d DEF FrameDropped
  <2> QED BY <2>1
<1>e. CASE FrameIgnored(fd)
  <2>1. FrameShape(fd, {})
    BY <1>1, <1>4, <1>7, <1>e DEF FrameIgnored
  <2> QED BY <2>1
<1>f. CASE FrameRefused(fd)
  <2>1. FrameShape(fd, {fd})
    BY <1>5, <1>f DEF FrameRefused
  <2> QED BY <2>1
<1>g. CASE ReplyFails(fd)
  <2>1. FrameShape(fd, {})
    BY <1>1, <1>4, <1>7, <1>g DEF ReplyFails
  <2> QED BY <2>1
<1>h. CASE GetOnlineUser(fd)
  <2>1. FrameShape(fd, {})
    BY <1>1, <1>4, <1>h DEF GetOnlineUser
  <2> QED BY <2>1
<1>i. CASE BroadcastFrame(fd)
  <2>1. PICK F \in MayFail(Ensured(fd)) :
           /\ client_slots' = MarkClosing(Ensured(fd), F)
           /\ sock' \in Shutdown(F)
           /\ IF F # {} THEN BroadcastPresence("return", NoFd) ELSE UNCHANGED control
    BY <1>i DEF BroadcastFrame
  <2>2. F \in SUBSET FDS
    BY <1>6 DEF MayFail
  <2>3. FrameShape(fd, F)
    BY <1>5, <1>i, <2>1, <2>2 DEF BroadcastFrame, BroadcastPresence
  <2> QED BY <2>2, <2>3
<1>j. CASE RelayFrame(fd)
  <2>1. PICK F \in SUBSET NamedFds(Ensured(fd)) :
           /\ client_slots' = MarkClosing(Ensured(fd), F)
           /\ sock' \in Shutdown(F)
           /\ IF F = {} THEN UNCHANGED control
              ELSE \/ BroadcastPresence("return", NoFd)
                   \/ BroadcastPresence("delete", fd)
    BY <1>j DEF RelayFrame
  <2>2. F \in SUBSET FDS
    BY <1>6
  <2>3. FrameShape(fd, F)
    BY <1>5, <1>j, <2>1, <2>2 DEF RelayFrame, BroadcastPresence
  <2> QED BY <2>2, <2>3
<1> QED BY <1>a, <1>b, <1>c, <1>d, <1>e, <1>f, <1>g, <1>h, <1>i, <1>j

\* Steps that leave the slots alone.
LEMMA QuietStep ==
    ASSUME IInv, NEW fd \in FDS,
           \/ Accept(fd) \/ HttpEnds(fd) \/ HandshakeRejected(fd)
           \/ PeerCloses(fd) \/ Reap(fd) \/ FrameRejected(fd)
    PROVE  IInv' /\ Keeps /\ Leaves
<1>1. /\ TypeOK /\ ControlOK /\ SlotsFit(client_slots, sock, pc, cur) /\ ListsRight
      /\ PresenceConverges /\ client_slots \in [Slots -> SlotType]
      /\ sock \in [FDS -> SockState]
  BY DEF IInv, TypeOK
<1>2. /\ pc = "idle" /\ UNCHANGED <<client_slots, view, latest>>
      /\ UNCHANGED control \/ DeleteSession(fd)
      /\ sock' = sock \/ (sock[fd] = "closed" /\ sock' = [sock EXCEPT ![fd] = "http"])
  BY DEF Accept, HttpEnds, HandshakeRejected, PeerCloses, Reap, FrameRejected, Readable,
         DeleteSession
<1>3. cur = NoFd /\ then = "return" /\ attempt = 0 /\ pc' \in {"idle", "delete"}
      /\ (pc' = "delete" => cur' = fd)
      /\ (pc' = "idle" => cur' = NoFd) /\ then' = "return" /\ attempt' = 0
  BY <1>1, <1>2 DEF ControlOK, control, DeleteSession
<1>4. SlotsFit(client_slots', sock', pc', cur')
  <2>1. \A i \in Slots : client_slots[i].active => client_slots[i].fd \in FDS
    BY <1>1 DEF SlotsFit
  <2>2. /\ Follow(client_slots, sock, pc, cur, sock', pc', cur')
        /\ Ending({}, sock', cur')
    BY <1>1, <1>2, <1>3, <2>1, Facts DEF Follow, Ending, Open, Ended
  <2>3. SlotsFit(MarkClosing(client_slots, {}), sock', pc', cur')
    BY ONLY <1>1, <2>2, MarkFits
  <2> QED BY <1>1, <1>2, <2>3, MarkNone
<1>5. TypeOK' /\ ControlOK'
  BY <1>1, <1>2, <1>3 DEF TypeOK, ControlOK, SockState
<1>6. PresenceConverges'
  BY <1>3, BroadcastBegins
<1>7. ListsRight'
  BY <1>1, <1>2 DEF ListsRight
<1>8. Keeps /\ Leaves
  BY <1>2 DEF Keeps, Leaves, OnlyLeaves
<1> QED BY <1>2, <1>4, <1>5, <1>6, <1>7, <1>8 DEF IInv

LEMMA HandshakeStep ==
    ASSUME IInv, NEW fd \in FDS, Handshake(fd)
    PROVE  IInv' /\ Keeps /\ Leaves
<1> DEFINE s == client_slots
<1>1. /\ TypeOK /\ ControlOK /\ SlotsFit(s, sock, pc, cur) /\ ListsRight
      /\ s \in [Slots -> SlotType] /\ sock \in [FDS -> SockState]
  BY DEF IInv, TypeOK
<1>2. /\ pc = "idle" /\ cur = NoFd /\ sock[fd] = "http" /\ SlotReady(s, fd)
      /\ client_slots' = EnsureSlot(s, fd) /\ UNCHANGED <<view, latest>>
      /\ then = "return" /\ attempt = 0
      /\ \/ sock' = [sock EXCEPT ![fd] = "ws"] /\ UNCHANGED control
         \/ DeleteSession(fd) /\ UNCHANGED sock
  BY <1>1 DEF ControlOK, Handshake
<1>3. /\ pc' \in {"idle", "delete"} /\ then' = "return" /\ attempt' = 0
      /\ pc' = "idle" => cur' = NoFd /\ sock'[fd] = "ws"
      /\ pc' = "delete" => cur' = fd
      /\ sock' \in [FDS -> SockState]
      /\ \A d \in FDS : sock'[d] = sock[d] \/ d = fd
  BY <1>1, <1>2 DEF control, DeleteSession, SockState
<1>4. SlotsFit(s, sock', pc', cur')
  <2>1. \A i \in Slots : s[i].active => s[i].fd \in FDS /\ s[i].fd # fd
    BY <1>1, <1>2 DEF SlotsFit, Open
  <2>2. Follow(s, sock, pc, cur, sock', pc', cur') /\ Ending({}, sock', cur')
    BY <1>2, <1>3, <2>1, Facts DEF Follow, Ending
  <2>3. SlotsFit(MarkClosing(s, {}), sock', pc', cur')
    BY ONLY <1>1, <2>2, MarkFits
  <2> QED BY <1>1, <2>3, MarkNone
<1>5. /\ client_slots' \in [Slots -> SlotType]
      /\ SameJoined(s, client_slots') /\ KeepsClosing(s, client_slots')
      /\ \A i \in Slots : client_slots'[i].closing = s[i].closing
      /\ sock'[fd] \in Open \/ (pc' = "delete" /\ cur' = fd)
            => SlotsFit(client_slots', sock', pc', cur')
      /\ \E k \in Slots : SlotsOf(client_slots', fd) = {k}
  <2> HIDE DEF s
  <2>1. client_slots' = EnsureSlot(s, fd)
    BY <1>2
  <2>2. SlotReady(s, fd)
    BY <1>2
  <2>3. LET t == EnsureSlot(s, fd)
        IN  /\ t \in [Slots -> SlotType]
            /\ SameJoined(s, t) /\ KeepsClosing(s, t)
            /\ \A i \in Slots : t[i].closing = s[i].closing
            /\ \E k \in Slots : SlotsOf(t, fd) = {k} /\ ~ t[k].closing
            /\ sock'[fd] \in Open \/ (pc' = "delete" /\ cur' = fd)
                  => SlotsFit(t, sock', pc', cur')
    BY ONLY <1>1, <1>4, <2>2, EnsureEffect, fd \in FDS
  <2> QED BY ONLY <2>1, <2>3
<1>6. SlotsFit(client_slots', sock', pc', cur')
  BY <1>3, <1>5 DEF Open
<1>7. TypeOK' /\ ControlOK'
  BY <1>1, <1>2, <1>3, <1>5 DEF TypeOK, ControlOK
<1>8. PresenceConverges'
  BY <1>3, BroadcastBegins
<1>9. ListsRight'
  <2> SUFFICES ASSUME \A i \in Slots : ~ client_slots'[i].closing
               PROVE  ListIsRight(client_slots', view', latest')
    BY DEF ListsRight
  <2>1. ListIsRight(s, view, latest)
    BY <1>1, <1>2, <1>5 DEF ListsRight
  <2>2. /\ JoinedFds(client_slots') = JoinedFds(s)
        /\ Online(client_slots') = Online(s)
    BY ONLY <1>5, SameLists
  <2> QED BY <1>2, <2>1, <2>2 DEF ListIsRight
<1>10. Keeps
  BY <1>5 DEF Keeps, KeepsClosing
<1>11. Leaves
  BY <1>5 DEF Leaves, SameJoined, OnlyLeaves
<1> QED BY <1>6, <1>7, <1>8, <1>9, <1>10, <1>11 DEF IInv

\* chat_ws_session_close_handler: no slot but those of the session changes.
LEMMA DeletionStep ==
    ASSUME IInv, Deletion
    PROVE  IInv' /\ Keeps /\ Leaves
<1> DEFINE s == client_slots
<1>1. /\ TypeOK /\ ControlOK /\ SlotsFit(s, sock, pc, cur) /\ ListsRight
      /\ s \in [Slots -> SlotType] /\ sock \in [FDS -> SockState]
  BY DEF IInv, TypeOK
<1>2. /\ pc = "delete" /\ cur \in FDS
      /\ view' = [view EXCEPT ![cur] = {}] /\ latest' = [latest EXCEPT ![cur] = "missed"]
      /\ client_slots' = Remove(s, cur) /\ attempt' = 0
      /\ \/ /\ SlotsOf(s, cur) # {} /\ sock' = sock
            /\ pc' = "presence" /\ cur' = cur /\ then' = "close"
         \/ /\ SlotsOf(s, cur) = {} /\ sock' = [sock EXCEPT ![cur] = "closed"]
            /\ pc' = "idle" /\ cur' = NoFd /\ then' = "return"
  BY <1>1 DEF ControlOK, Deletion, BroadcastPresence, Return, Forgets
<1>3. \A i \in Slots : client_slots'[i] = IF s[i].active /\ s[i].fd = cur
                                          THEN FreeSlot ELSE s[i]
  BY <1>2 DEF Remove
<1>4. client_slots' \in [Slots -> SlotType]
  BY <1>1, <1>2, FreeSlotIs DEF Remove
<1>5. \A i \in Slots : client_slots'[i].active =>
         s[i].active /\ client_slots'[i] = s[i] /\ s[i].fd # cur
  BY <1>3, FreeSlotIs
<1>6. SlotsFit(client_slots', sock', pc', cur')
  <2>1. \A i \in Slots : ~ client_slots'[i].active => client_slots'[i] = FreeSlot
    BY <1>1, <1>3 DEF SlotsFit
  <2>2. \A i, j \in Slots : client_slots'[i].active /\ client_slots'[j].active
           /\ client_slots'[i].fd = client_slots'[j].fd => i = j
    BY <1>1, <1>5 DEF SlotsFit
  <2>3. \A i \in Slots : client_slots'[i].active =>
           /\ s[i].fd \in FDS /\ s[i].fd # cur /\ sock'[s[i].fd] = sock[s[i].fd]
           /\ sock[s[i].fd] \in Open
           /\ s[i].closing => sock[s[i].fd] \in Ended
    BY <1>1, <1>2, <1>5 DEF SlotsFit
  <2> QED BY <1>1, <1>5, <2>1, <2>2, <2>3 DEF SlotsFit
<1>7. Keeps
  BY <1>3 DEF Keeps
<1>8. Leaves
  BY <1>5 DEF Leaves, OnlyLeaves, JoinedSlots
<1>9. ControlOK'
  <2>1. SlotsOf(client_slots', cur) = {}
    BY <1>5 DEF SlotsOf
  <2> QED BY <1>2, <2>1 DEF ControlOK
<1>10. TypeOK'
  BY <1>1, <1>2, <1>4 DEF TypeOK, SockState
<1>11. PresenceConverges'
  BY <1>2, BroadcastBegins
<1>12. ListsRight'
  <2> SUFFICES ASSUME SlotsOf(s, cur) = {}, \A i \in Slots : ~ client_slots'[i].closing
               PROVE  ListIsRight(client_slots', view', latest')
    BY <1>2 DEF ListsRight
  <2>1. \A i \in Slots : client_slots'[i] = s[i]
    BY <1>3 DEF SlotsOf
  <2>2. client_slots' = s
    BY <1>1, <1>4, <2>1
  <2>3. ListIsRight(s, view, latest)
    BY <1>1, <1>2, <2>2 DEF ListsRight
  <2>4. \A d \in JoinedFds(s) : d \in FDS /\ d # cur
    BY <1>1 DEF JoinedFds, JoinedSlots, SlotsFit, SlotsOf
  <2>5. \A d \in JoinedFds(s) : view'[d] = view[d] /\ latest'[d] = latest[d]
    BY <1>1, <1>2, <2>4 DEF TypeOK
  <2> QED BY <2>2, <2>3, <2>5 DEF ListIsRight
<1> QED BY <1>6, <1>7, <1>8, <1>9, <1>10, <1>11, <1>12 DEF IInv

\* A failed attempt takes a joined client with it: the loop cannot use up its
\* bound before it runs out of clients.
LEMMA FewerJoined ==
    ASSUME NEW s \in [Slots -> SlotType], NEW F \in MayFail(s), F # {}
    PROVE  /\ Cardinality(JoinedSlots(s)) >= 1
           /\ Cardinality(JoinedSlots(MarkClosing(s, F))) <= Cardinality(JoinedSlots(s)) - 1
<1>1. PICK k \in JoinedSlots(s) : s[k].fd \in F
  BY DEF MayFail, JoinedFds
<1>2. JoinedSlots(MarkClosing(s, F)) \subseteq JoinedSlots(s) \ {k}
  BY <1>1, MarkEffect
<1>3. IsFiniteSet(JoinedSlots(s)) /\ Cardinality(JoinedSlots(s)) \in Nat
  BY JoinedBound
<1>4. /\ Cardinality(JoinedSlots(s) \ {k}) = Cardinality(JoinedSlots(s)) - 1
      /\ IsFiniteSet(JoinedSlots(s) \ {k})
  BY <1>1, <1>3, FS_RemoveElement
<1>5. Cardinality(JoinedSlots(MarkClosing(s, F))) <= Cardinality(JoinedSlots(s) \ {k})
  BY <1>2, <1>4, FS_Subset
<1>6. Cardinality(JoinedSlots(s) \ {k}) \in Nat
  BY <1>4, FS_CardinalityType
<1>7. Cardinality(JoinedSlots(MarkClosing(s, F))) \in Nat
  BY JoinedBound
<1> QED BY <1>3, <1>4, <1>5, <1>6, <1>7

\* The broadcast ends only when nothing failed or no list could be built; the
\* lists it leaves are right.
LEMMA PresenceEnds ==
    ASSUME IInv, PresenceAttempt \/ PresenceNoMemory, pc' # "presence"
    PROVE  ListIsRight(client_slots', view', latest')
<1> DEFINE s == client_slots
<1>1. /\ TypeOK /\ s \in [Slots -> SlotType] /\ SlotsFit(s, sock, pc, cur)
      /\ PresenceConverges /\ attempt \in Nat /\ pc = "presence"
  BY DEF IInv, TypeOK, PresenceAttempt, PresenceNoMemory
<1>2. JoinedFds(s) \subseteq FDS /\ Online(s) \subseteq USERS
  BY <1>1 DEF JoinedFds, Online, JoinedSlots, SlotsFit, SlotType
<1>3. client_slots' = s /\ Reads(JoinedFds(s), s)
  <2>1. CASE PresenceNoMemory
    BY <2>1 DEF PresenceNoMemory, Reads
  <2>2. CASE PresenceAttempt
    <3>1. PICK F \in MayFail(s) :
             /\ client_slots' = MarkClosing(s, F)
             /\ Reads(JoinedFds(s) \ F, s)
             /\ F # {} /\ attempt < MAX_CLIENTS => UNCHANGED pc
      BY <2>2 DEF PresenceAttempt
    <3>2. F = {}
      <4> SUFFICES ASSUME F # {} PROVE FALSE
        OBVIOUS
      <4>1. Cardinality(JoinedSlots(s)) >= 1
        BY <1>1, FewerJoined
      <4>2. Cardinality(JoinedSlots(s)) \in Nat
        BY JoinedBound
      <4> QED BY <1>1, <3>1, <4>1, <4>2, Facts DEF PresenceConverges
    <3>3. JoinedFds(s) \ F = JoinedFds(s)
      BY <3>2
    <3> QED BY <1>1, <3>1, <3>2, <3>3, MarkNone
  <2> QED BY <2>1, <2>2
<1> HIDE DEF s
<1>4. \A fd \in JoinedFds(s) :
         /\ latest'[fd] = "whole" => view'[fd] = Online(s)
         /\ latest'[fd] = "short" => view'[fd] \subseteq Online(s)
  <2>1. \A fd \in FDS :
           IF fd \in JoinedFds(s)
           THEN /\ latest'[fd] = "whole" => view'[fd] = Online(s)
                /\ latest'[fd] = "short" => view'[fd] \subseteq Online(s)
           ELSE view'[fd] = view[fd] /\ latest'[fd] = latest[fd]
    BY ONLY <1>1, <1>2, <1>3, ReadsEffect
  <2> QED BY <1>2, <2>1
<1> QED BY <1>3, <1>4 DEF ListIsRight

LEMMA PresenceStep ==
    ASSUME IInv, PresenceAttempt \/ PresenceNoMemory
    PROVE  IInv' /\ Keeps /\ Leaves
<1> DEFINE s == client_slots
<1>1. /\ TypeOK /\ ControlOK /\ SlotsFit(s, sock, pc, cur) /\ PresenceConverges
      /\ s \in [Slots -> SlotType] /\ sock \in [FDS -> SockState]
      /\ attempt \in Nat /\ pc = "presence"
  BY DEF IInv, TypeOK, PresenceAttempt, PresenceNoMemory
<1>2. PICK F \in MayFail(s) \cup {{}} : \E so \in Shutdown(F) :
         /\ client_slots' = MarkClosing(s, F)
         /\ \/ /\ F # {} /\ F \in MayFail(s) /\ attempt < MAX_CLIENTS
               /\ attempt' = attempt + 1 /\ sock' = so
               /\ UNCHANGED <<pc, cur, then>>
            \/ Continue(so)
         /\ Reads(JoinedFds(s) \ F, s)
  <2>1. CASE PresenceAttempt
    BY <2>1 DEF PresenceAttempt
  <2>2. CASE PresenceNoMemory
    <3>1. sock \in Shutdown({})
      <4>1. [fd \in FDS |-> IF fd \notin {} \/ sock[fd] = "shut" THEN sock[fd]
                            ELSE IF fd \in {} THEN "stuck" ELSE "shut"] = sock
        BY <1>1
      <4> QED BY <4>1 DEF Shutdown
    <3>2. JoinedFds(s) \ {} = JoinedFds(s) /\ {} \in MayFail(s) \cup {{}}
      OBVIOUS
    <3>3. Continue(sock) /\ client_slots' = MarkClosing(s, {}) /\ Reads(JoinedFds(s) \ {}, s)
      BY <1>1, <2>2, <3>2, MarkNone DEF PresenceNoMemory, Reads
    <3> QED BY <3>1, <3>2, <3>3
  <2> QED BY <2>1, <2>2
<1>a. PICK so \in Shutdown(F) :
         \/ /\ F # {} /\ F \in MayFail(s) /\ attempt < MAX_CLIENTS
            /\ attempt' = attempt + 1 /\ sock' = so
            /\ UNCHANGED <<pc, cur, then>>
         \/ Continue(so)
  BY <1>2
<1>3. /\ so \in [FDS -> SockState]
      /\ \A d \in FDS : IF d \in F THEN so[d] \in Ended ELSE so[d] = sock[d]
  BY <1>1, ShutdownIs DEF Closes
<1>4. JoinedFds(s) \subseteq FDS /\ Online(s) \subseteq USERS /\ F \subseteq JoinedFds(s)
  BY <1>1 DEF JoinedFds, Online, JoinedSlots, SlotsFit, SlotType, MayFail
<1>5. /\ client_slots' \in [Slots -> SlotType] /\ OnlyLeaves(s, client_slots')
      /\ \A i \in Slots : /\ client_slots'[i].fd = s[i].fd
                          /\ client_slots'[i].active = s[i].active
  BY <1>1, <1>2, MarkEffect
<1>6. \/ /\ F \in MayFail(s) /\ F # {} /\ attempt' = attempt + 1
         /\ sock' = so /\ pc' = pc /\ cur' = cur /\ then' = then
      \/ /\ then = "return" /\ sock' = so /\ attempt' = 0
         /\ pc' = "idle" /\ cur' = NoFd /\ then' = "return"
      \/ /\ then = "delete" /\ sock' = so /\ attempt' = 0
         /\ pc' = "delete" /\ cur' = cur /\ then' = "return"
      \/ /\ then = "close" /\ sock' = [so EXCEPT ![cur] = "closed"]
         /\ attempt' = 0 /\ pc' = "idle" /\ cur' = NoFd /\ then' = "return"
  BY <1>a DEF Continue, DeleteSession, Return
<1>7. /\ then = "return" => cur = NoFd
      /\ then # "return" => cur \in FDS
      /\ then = "close" => \A i \in Slots : s[i].active => s[i].fd # cur
  BY <1>1 DEF ControlOK, SlotsOf
<1>8. SlotsFit(client_slots', sock', pc', cur') /\ KeepsClosing(s, client_slots')
  <2>1. \A i \in Slots : s[i].active => s[i].fd \in FDS
    BY <1>1 DEF SlotsFit
  <2>2. \A d \in FDS : d # cur \/ then # "close" => sock'[d] = so[d]
    BY <1>3, <1>6
  <2>3. Follow(s, sock, pc, cur, sock', pc', cur')
    <3> SUFFICES ASSUME NEW i \in Slots, s[i].active
                 PROVE  /\ sock[s[i].fd] \in Open => sock'[s[i].fd] \in Open
                        /\ sock[s[i].fd] \in Ended => sock'[s[i].fd] \in Ended
                        /\ cur = s[i].fd => cur' = s[i].fd /\ (pc = "delete" => pc' = "delete")
      BY DEF Follow
    <3>1. s[i].fd \in FDS /\ (s[i].fd # cur \/ then # "close") /\ s[i].fd # NoFd
      BY <1>7, <2>1, Facts
    <3>2. sock'[s[i].fd] = so[s[i].fd]
      BY <2>2, <3>1
    <3>3. cur = s[i].fd => cur' = s[i].fd
      BY <1>6, <1>7, <3>1
    <3> QED BY <1>1, <1>3, <3>1, <3>2, <3>3 DEF Open, Ended
  <2>4. Ending(F, sock', cur')
    <3>1. \A d \in F : d \in FDS /\ (d # cur \/ then # "close")
      BY <1>4, <1>7 DEF JoinedFds, JoinedSlots
    <3> QED BY <1>3, <2>2, <3>1 DEF Ending
  <2>5. SlotsFit(MarkClosing(s, F), sock', pc', cur') /\ KeepsClosing(s, MarkClosing(s, F))
    <3> HIDE DEF s
    <3> QED BY ONLY <1>1, <2>3, <2>4, MarkFits
  <2> QED BY <1>2, <2>5
<1>9. TypeOK'
  <2>1. sock' \in [FDS -> SockState]
    BY <1>3, <1>6, <1>7 DEF SockState
  <2>2. /\ view' \in [FDS -> SUBSET USERS]
        /\ latest' \in [FDS -> {"whole", "short", "missed"}]
    <3> HIDE DEF s
    <3> QED BY ONLY <1>1, <1>2, <1>4, ReadsEffect
  <2> QED BY <1>1, <1>5, <1>6, <2>1, <2>2 DEF TypeOK
<1>10. ControlOK'
  <2>1. SlotsOf(client_slots', cur) = SlotsOf(s, cur)
    BY <1>5 DEF SlotsOf
  <2> QED BY <1>1, <1>6, <2>1 DEF ControlOK
<1>11. PresenceConverges'
  <2>1. CASE attempt' = 0
    BY <2>1, BroadcastBegins
  <2>2. CASE F \in MayFail(s) /\ F # {} /\ attempt' = attempt + 1
    <3>1. Cardinality(JoinedSlots(client_slots')) <= Cardinality(JoinedSlots(s)) - 1
      BY <1>1, <1>2, <2>2, FewerJoined
    <3>2. /\ Cardinality(JoinedSlots(client_slots')) \in Nat
          /\ Cardinality(JoinedSlots(s)) \in Nat
      BY JoinedBound
    <3>3. attempt + Cardinality(JoinedSlots(s)) <= MAX_CLIENTS
      BY <1>1 DEF PresenceConverges
    <3> QED BY <1>1, <2>2, <3>1, <3>2, <3>3, Facts DEF PresenceConverges
  <2> QED BY <1>6, <2>1, <2>2
<1>12. ListsRight'
  <2>1. pc' = "presence" \/ ListIsRight(client_slots', view', latest')
    BY PresenceEnds
  <2> QED BY <2>1 DEF ListsRight
<1>13. Keeps
  BY <1>8 DEF Keeps, KeepsClosing
<1>14. Leaves
  BY <1>5 DEF Leaves
<1> QED BY <1>8, <1>9, <1>10, <1>11, <1>12, <1>13, <1>14 DEF IInv

\* A round of the heartbeat: the slots of C close, those of P are pinged.
LEMMA SweepStep ==
    ASSUME IInv, Sweep
    PROVE  IInv' /\ Keeps /\ Leaves
<1> DEFINE s == client_slots
<1>1. /\ TypeOK /\ ControlOK /\ SlotsFit(s, sock, pc, cur) /\ ListsRight
      /\ s \in [Slots -> SlotType] /\ sock \in [FDS -> SockState]
      /\ pc = "idle" /\ cur = NoFd /\ then = "return" /\ attempt = 0
      /\ UNCHANGED <<view, latest>>
  BY DEF IInv, TypeOK, Sweep, ControlOK
<1> DEFINE Due == {i \in Slots : s[i].active /\ ~ s[i].closing /\ ~ (s[i].joined /\ s[i].is_alive)}
           Swept(C, P) == [i \in Slots |->
                              IF i \in C THEN MarkSlotClosing(s[i])
                              ELSE [s[i] EXCEPT !.is_alive = @ /\ i \notin P]]
           Closed(C, F) == F \cup {s[i].fd : i \in C}
<1>2. PICK C \in SUBSET Due, P \in SUBSET JoinedSlots(s), F \in SUBSET FDS :
         /\ F \subseteq {s[i].fd : i \in P}
         /\ client_slots' = MarkClosing(Swept(C, P), Closed(C, F))
         /\ sock' \in Shutdown(Closed(C, F))
         /\ IF F # {} \/ C \cap JoinedSlots(s) # {}
            THEN BroadcastPresence("return", NoFd) ELSE UNCHANGED control
  <2>1. PICK C \in SUBSET Due : \E P \in SUBSET (JoinedSlots(s) \ C) :
           \E F \in SUBSET {s[i].fd : i \in P} :
              /\ client_slots' = MarkClosing(Swept(C, P), Closed(C, F))
              /\ sock' \in Shutdown(Closed(C, F))
              /\ IF F # {} \/ C \cap JoinedSlots(s) # {}
                 THEN BroadcastPresence("return", NoFd) ELSE UNCHANGED control
    BY DEF Sweep
  <2>2. \A i \in JoinedSlots(s) : s[i].fd \in FDS
    BY <1>1 DEF JoinedSlots, SlotsFit
  <2>3. PICK P \in SUBSET (JoinedSlots(s) \ C) : \E F \in SUBSET {s[i].fd : i \in P} :
              /\ client_slots' = MarkClosing(Swept(C, P), Closed(C, F))
              /\ sock' \in Shutdown(Closed(C, F))
              /\ IF F # {} \/ C \cap JoinedSlots(s) # {}
                 THEN BroadcastPresence("return", NoFd) ELSE UNCHANGED control
    BY <2>1
  <2> HIDE DEF s, Due, Swept, Closed
  <2>4. PICK F \in SUBSET {s[i].fd : i \in P} :
              /\ client_slots' = MarkClosing(Swept(C, P), Closed(C, F))
              /\ sock' \in Shutdown(Closed(C, F))
              /\ IF F # {} \/ C \cap JoinedSlots(s) # {}
                 THEN BroadcastPresence("return", NoFd) ELSE UNCHANGED control
    BY <2>3
  <2>5. F \in SUBSET FDS /\ P \in SUBSET JoinedSlots(s)
    BY <2>2
  <2> USE <2>5
  <2> WITNESS C \in SUBSET Due, P \in SUBSET JoinedSlots(s), F \in SUBSET FDS
  <2> QED BY <2>4
<1> DEFINE t == Swept(C, P)
           closed == Closed(C, F)
<1>3. closed \subseteq FDS
  BY <1>1 DEF SlotsFit, JoinedSlots
<1>4. /\ sock' \in [FDS -> SockState]
      /\ \A d \in FDS : IF d \in closed THEN sock'[d] \in Ended ELSE sock'[d] = sock[d]
  BY <1>1, <1>2, ShutdownIs DEF Closes
<1>5. /\ pc' \in {"idle", "presence"} /\ cur' = NoFd /\ then' = "return" /\ attempt' = 0
      /\ pc' = "idle" => F = {} /\ C \cap JoinedSlots(s) = {}
  BY <1>1, <1>2 DEF BroadcastPresence, control
<1>6. t \in [Slots -> SlotType]
  <2>1. \A i \in Slots : MarkSlotClosing(s[i]) \in SlotType
    BY <1>1, MarkedSlot
  <2>2. \A i \in Slots : [s[i] EXCEPT !.is_alive = @ /\ i \notin P] \in SlotType
    BY <1>1 DEF SlotType
  <2> QED BY <2>1, <2>2
<1>7. \A i \in C : /\ t[i].fd = s[i].fd /\ t[i].active /\ t[i].closing
                   /\ ~ t[i].joined /\ ~ t[i].is_alive /\ t[i].user_id = NoUser
                   /\ s[i].active /\ ~ s[i].closing /\ s[i].fd \in closed
  BY <1>1, MarkedSlot
<1>8. \A i \in Slots \ C :
         /\ t[i].fd = s[i].fd /\ t[i].active = s[i].active
         /\ t[i].closing = s[i].closing /\ t[i].joined = s[i].joined
         /\ t[i].user_id = s[i].user_id /\ (t[i].is_alive => s[i].is_alive)
  BY <1>1 DEF SlotType
<1>9. \A i \in Slots \ C : ~ s[i].is_alive => t[i] = s[i]
  <2> SUFFICES ASSUME NEW i \in Slots \ C, ~ s[i].is_alive
               PROVE  [s[i] EXCEPT !.is_alive = @ /\ i \notin P] = s[i]
    OBVIOUS
  <2>1. s[i] \in SlotType /\ s[i].is_alive = FALSE
    BY <1>1 DEF SlotType
  <2>2. (s[i].is_alive /\ i \notin P) = s[i].is_alive
    BY <2>1
  <2> QED BY <2>1, <2>2 DEF SlotType
<1> HIDE DEF t, closed
<1>10. KeepsClosing(s, t)
  BY <1>1, <1>7, <1>9 DEF KeepsClosing, SlotsFit
<1>11. SlotsFit(t, sock', pc', cur')
  <2>1. \A i \in Slots : ~ t[i].active => t[i] = FreeSlot
    BY <1>1, <1>7, <1>8, <1>9, FreeSlotIs DEF SlotsFit
  <2>2. \A i, j \in Slots : t[i].active /\ t[j].active /\ t[i].fd = t[j].fd => i = j
    BY <1>1, <1>7, <1>8 DEF SlotsFit
  <2>3. \A i \in Slots : t[i].active => s[i].active /\ t[i].fd = s[i].fd
    BY <1>7, <1>8
  <2>4. \A i \in Slots : s[i].active =>
           /\ s[i].fd \in FDS /\ sock[s[i].fd] \in Open
           /\ s[i].closing => sock[s[i].fd] \in Ended
    BY <1>1, Facts DEF SlotsFit
  <2>5. \A i \in Slots : s[i].active =>
           /\ sock'[s[i].fd] \in Open
           /\ s[i].closing => sock'[s[i].fd] \in Ended
           /\ i \in C => sock'[s[i].fd] \in Ended
    BY <1>4, <1>7, <2>4 DEF Open, Ended
  <2>6. ASSUME NEW i \in Slots, t[i].active
        PROVE  /\ t[i].closing =>
                    /\ ~ t[i].joined /\ ~ t[i].is_alive /\ t[i].user_id = NoUser
                    /\ sock'[t[i].fd] \in Ended
               /\ ~ t[i].closing => (t[i].joined <=> t[i].user_id # NoUser)
    <3>1. CASE i \in C
      BY <1>7, <2>3, <2>5, <2>6, <3>1
    <3>2. CASE i \notin C
      BY <1>1, <1>8, <2>3, <2>5, <2>6, <3>2 DEF SlotsFit
    <3> QED BY <3>1, <3>2
  <2> QED BY <2>1, <2>2, <2>3, <2>4, <2>5, <2>6 DEF SlotsFit
<1>12. /\ SlotsFit(client_slots', sock', pc', cur')
       /\ KeepsClosing(t, client_slots')
  <2>1. Follow(t, sock', pc', cur', sock', pc', cur') /\ Ending(closed, sock', cur')
    BY <1>3, <1>4 DEF Follow, Ending
  <2>2. SlotsFit(MarkClosing(t, closed), sock', pc', cur') /\ KeepsClosing(t, MarkClosing(t, closed))
    BY ONLY <1>6, <1>11, <2>1, MarkFits
  <2>3. client_slots' = MarkClosing(t, closed)
    BY <1>2 DEF t, closed
  <2> QED BY <2>2, <2>3
<1>13. /\ client_slots' \in [Slots -> SlotType]
       /\ OnlyLeaves(t, client_slots')
       /\ \A i \in Slots : t[i].closing => client_slots'[i].closing
  <2>1. client_slots' = MarkClosing(t, closed)
    BY <1>2 DEF t, closed
  <2> QED BY <1>6, <2>1, MarkEffect
<1>14. OnlyLeaves(s, t)
  BY <1>7, <1>8 DEF OnlyLeaves, JoinedSlots
<1>15. Keeps
  BY <1>10, <1>12 DEF Keeps, KeepsClosing
<1>16. Leaves
  BY <1>13, <1>14 DEF Leaves, OnlyLeaves
<1>17. TypeOK' /\ ControlOK'
  BY <1>1, <1>4, <1>5, <1>13 DEF TypeOK, ControlOK
<1>18. PresenceConverges'
  BY <1>5, BroadcastBegins
<1>19. ListsRight'
  <2> SUFFICES ASSUME pc' = "idle", \A i \in Slots : ~ client_slots'[i].closing
               PROVE  ListIsRight(client_slots', view', latest')
    BY <1>5 DEF ListsRight
  <2>1. C = {} /\ F = {}
    BY <1>5, <1>7, <1>13
  <2>2. closed = {}
    BY <2>1 DEF closed
  <2>3. client_slots' = t
    BY <1>2, <1>6, <2>2, MarkNone DEF t, closed
  <2>4. SameJoined(s, t) /\ \A i \in Slots : ~ s[i].closing
    BY <1>8, <2>1, <2>3 DEF SameJoined, JoinedSlots
  <2>5. JoinedFds(t) = JoinedFds(s) /\ Online(t) = Online(s)
    BY ONLY <2>4, SameLists
  <2> QED BY <1>1, <2>3, <2>4, <2>5 DEF ListsRight, ListIsRight
<1> QED BY <1>12, <1>15, <1>16, <1>17, <1>18, <1>19 DEF IInv

\* chat_sessions_update_identity on a connection that has its slot k: it takes
\* that slot, and every other slot of the user is retired.
LEMMA IdentityEffect ==
    ASSUME NEW s \in [Slots -> SlotType], NEW fd \in FDS, NEW u \in USERS,
           NEW k \in Slots, SlotsOf(s, fd) = {k}, ~ s[k].closing
    PROVE  LET r == UpdateIdentity(s, fd, u)
               R == ReplacedSlots(s, fd, u)
           IN  /\ R = {i \in Slots : i # k /\ s[i].active /\ s[i].user_id = u}
               /\ ReplacedFds(s, fd, u) = {s[i].fd : i \in R}
               /\ r \in [Slots -> SlotType]
               /\ r[k] = [fd |-> fd, active |-> TRUE, closing |-> FALSE, joined |-> TRUE,
                          is_alive |-> TRUE, user_id |-> u]
               /\ \A i \in Slots : i \in R => r[i] = MarkSlotClosing(s[i])
               /\ \A i \in Slots : i # k /\ i \notin R => r[i] = s[i]
<1> DEFINE R == ReplacedSlots(s, fd, u)
           r == UpdateIdentity(s, fd, u)
           own == {i \in SlotsOf(s, fd) : ~ s[i].closing}
<1>1. IdentitySlot(s, fd) = k
  <2>1. own = {k}
    OBVIOUS
  <2>2. k \in Nat
    BY Facts
  <2> HIDE DEF own
  <2>3. Max(own) = k /\ own # {}
    BY <2>1, <2>2, OnlyOne
  <2>4. IdentitySlot(s, fd) = IF own # {} THEN Max(own) ELSE Min(FreeSlots(s))
    BY DEF IdentitySlot, own
  <2> QED BY <2>3, <2>4
<1>2. R = {i \in Slots : i # k /\ s[i].active /\ s[i].user_id = u}
  BY <1>1 DEF ReplacedSlots
<1>3. ReplacedFds(s, fd, u) = {s[i].fd : i \in R}
  <2>1. \A i \in R : s[i].fd # fd
    BY <1>2 DEF SlotsOf
  <2> QED BY <2>1 DEF ReplacedFds
<1>4. /\ r[k] = [fd |-> fd, active |-> TRUE, closing |-> FALSE, joined |-> TRUE,
                 is_alive |-> TRUE, user_id |-> u]
      /\ \A i \in Slots : i \in R => r[i] = MarkSlotClosing(s[i])
      /\ \A i \in Slots : i # k /\ i \notin R => r[i] = s[i]
  BY <1>1, <1>2 DEF UpdateIdentity
<1>5. r \in [Slots -> SlotType]
  <2>1. \A i \in Slots : r[i] \in SlotType
    <3> SUFFICES ASSUME NEW i \in Slots PROVE r[i] \in SlotType
      OBVIOUS
    <3> HIDE DEF r, R
    <3>1. CASE i = k
      <4>1. [fd |-> fd, active |-> TRUE, closing |-> FALSE, joined |-> TRUE,
             is_alive |-> TRUE, user_id |-> u] \in SlotType
        BY DEF SlotType
      <4> QED BY <1>4, <3>1, <4>1
    <3>2. CASE i \in R
      BY <1>4, <3>2, MarkedSlot
    <3>3. CASE i # k /\ i \notin R
      BY <1>4, <3>3
    <3> QED BY <3>1, <3>2, <3>3
  <2>2. r = [i \in Slots |-> r[i]]
    BY DEF UpdateIdentity
  <2> HIDE DEF r
  <2> QED BY <2>1, <2>2
<1> QED BY <1>2, <1>3, <1>4, <1>5

\* What a join on fd, in slot k, makes of the joined slots of s.
Joining(s, v, closed, fd, u, k) ==
    /\ \A i \in JoinedSlots(s) : s[i].fd = fd <=> i = k
    /\ JoinedSlots(v) = {i \in JoinedSlots(s) : i # k /\ s[i].user_id # u}
                           \cup (IF fd \in closed THEN {} ELSE {k})
    /\ \A i \in JoinedSlots(v) :
          /\ i = k => v[i].fd = fd /\ v[i].user_id = u
          /\ i # k => v[i].fd = s[i].fd /\ v[i].user_id = s[i].user_id
    /\ fd \in closed => v[k].closing

\* handle_join_message, whether the join stands or breaks.
LEMMA JoinEffect ==
    ASSUME IInv, NEW fd \in FDS, NEW u \in USERS, Receives(fd),
           NEW closed,
           \/ closed = ReplacedFds(Ensured(fd), fd, u)
           \/ closed = ReplacedFds(Ensured(fd), fd, u) \cup {fd} /\ cur' = fd,
           client_slots' = MarkClosing(UpdateIdentity(Ensured(fd), fd, u), closed),
           sock' \in Shutdown(closed)
    PROVE  /\ client_slots' \in [Slots -> SlotType]
           /\ sock' \in [FDS -> SockState]
           /\ SlotsFit(client_slots', sock', pc', cur')
           /\ Keeps
           /\ \E k \in Slots : Joining(client_slots, client_slots', closed, fd, u, k)
<1> DEFINE s == client_slots
           t == Ensured(fd)
           r == UpdateIdentity(t, fd, u)
           R == ReplacedSlots(t, fd, u)
<1>1. /\ TypeOK /\ ControlOK /\ SlotsFit(s, sock, pc, cur)
      /\ s \in [Slots -> SlotType] /\ sock \in [FDS -> SockState]
      /\ pc = "idle" /\ cur = NoFd /\ sock[fd] \in Open /\ SlotReady(s, fd)
  BY DEF IInv, TypeOK, ControlOK, Receives, Readable, Open
<1>2. /\ t \in [Slots -> SlotType] /\ SameJoined(s, t) /\ KeepsClosing(s, t)
      /\ SlotsFit(t, sock, pc, cur)
      /\ \E k \in Slots : SlotsOf(t, fd) = {k} /\ ~ t[k].closing
  <2> HIDE DEF s, t
  <2>1. t = EnsureSlot(s, fd)
    BY DEF s, t, Ensured
  <2> QED BY ONLY <1>1, <2>1, EnsureEffect, fd \in FDS
<1>3. PICK k \in Slots : SlotsOf(t, fd) = {k} /\ ~ t[k].closing
  BY <1>2
<1> HIDE DEF t
<1>4. /\ R = {i \in Slots : i # k /\ t[i].active /\ t[i].user_id = u}
      /\ ReplacedFds(t, fd, u) = {t[i].fd : i \in R}
      /\ r \in [Slots -> SlotType]
      /\ r[k] = [fd |-> fd, active |-> TRUE, closing |-> FALSE, joined |-> TRUE,
                 is_alive |-> TRUE, user_id |-> u]
      /\ \A i \in Slots : i \in R => r[i] = MarkSlotClosing(t[i])
      /\ \A i \in Slots : i # k /\ i \notin R => r[i] = t[i]
  BY <1>2, <1>3, IdentityEffect
<1>5. /\ closed = {t[i].fd : i \in R} \/ (closed = {t[i].fd : i \in R} \cup {fd} /\ cur' = fd)
      /\ client_slots' = MarkClosing(r, closed)
  BY <1>4 DEF t
<1> HIDE DEF r, R
<1>6. /\ t[k].active /\ t[k].fd = fd
      /\ \A i \in Slots : t[i].active => t[i].fd \in FDS /\ (t[i].fd = fd <=> i = k)
  BY <1>2, <1>3 DEF SlotsOf, SlotsFit
<1>7. /\ sock' \in [FDS -> SockState]
      /\ \A d \in FDS : IF d \in closed THEN sock'[d] \in Ended ELSE sock'[d] = sock[d]
  BY <1>1, ShutdownIs DEF Closes
<1>8. \A i \in R :
         /\ i \in Slots /\ i # k /\ t[i].active /\ t[i].user_id = u /\ ~ t[i].closing
         /\ t[i].fd # fd /\ t[i].fd \in closed /\ t[i].fd \in FDS
         /\ r[i].fd = t[i].fd /\ r[i].active /\ r[i].closing
         /\ ~ r[i].joined /\ ~ r[i].is_alive /\ r[i].user_id = NoUser
  <2>1. \A i \in R : i \in Slots /\ i # k /\ t[i].active /\ t[i].user_id = u
    BY <1>4
  <2>2. \A i \in R : ~ t[i].closing
    BY <1>2, <2>1, Facts DEF SlotsFit
  <2>3. \A i \in R :
           /\ r[i].fd = t[i].fd /\ r[i].active /\ r[i].closing
           /\ ~ r[i].joined /\ ~ r[i].is_alive /\ r[i].user_id = NoUser
    BY <1>2, <1>4, <2>1, MarkedSlot
  <2> QED BY <1>5, <1>6, <2>1, <2>2, <2>3
<1>9. \A i \in Slots : r[i].active =>
         /\ t[i].active /\ r[i].fd = t[i].fd /\ t[i].fd \in FDS
         /\ sock[t[i].fd] \in Open /\ sock'[t[i].fd] \in Open
  <2>1. \A i \in Slots : r[i].active => t[i].active /\ r[i].fd = t[i].fd
    BY <1>4, <1>6, <1>8
  <2>2. \A i \in Slots : t[i].active => t[i].fd \in FDS /\ sock[t[i].fd] \in Open
    BY <1>1, <1>2, Facts DEF SlotsFit
  <2> QED BY <1>7, <2>1, <2>2 DEF Open, Ended
<1>10. SlotsFit(r, sock', pc', cur')
  <2>1. \A i \in Slots : ~ r[i].active => r[i] = FreeSlot
    BY <1>2, <1>4, <1>8 DEF SlotsFit
  <2>2. \A i, j \in Slots : r[i].active /\ r[j].active /\ r[i].fd = r[j].fd => i = j
    BY <1>2, <1>9 DEF SlotsFit
  <2>3. ASSUME NEW i \in Slots, r[i].active
        PROVE  /\ r[i].closing =>
                    /\ ~ r[i].joined /\ ~ r[i].is_alive /\ r[i].user_id = NoUser
                    /\ sock'[r[i].fd] \in Ended
               /\ ~ r[i].closing => (r[i].joined <=> r[i].user_id # NoUser)
    <3>1. CASE i = k
      BY <1>4, <3>1, Facts
    <3>2. CASE i \in R
      BY <1>7, <1>8, <3>2
    <3>3. CASE i # k /\ i \notin R
      <4>1. r[i] = t[i] /\ t[i].active /\ t[i].fd # NoFd /\ t[i].fd \in FDS
        BY <1>4, <1>9, <2>3, <3>3, Facts
      <4>2. t[i].closing => sock[t[i].fd] \in Ended
        BY <1>1, <1>2, <4>1 DEF SlotsFit
      <4>3. t[i].closing => sock'[t[i].fd] \in Ended
        BY <1>7, <4>1, <4>2
      <4> QED BY <1>2, <4>1, <4>3 DEF SlotsFit
    <3> QED BY <3>1, <3>2, <3>3
  <2> QED BY <1>9, <2>1, <2>2, <2>3 DEF SlotsFit
<1>11. /\ SlotsFit(client_slots', sock', pc', cur')
       /\ KeepsClosing(r, client_slots')
  <2>1. Follow(r, sock', pc', cur', sock', pc', cur')
    BY DEF Follow
  <2>2. Ending(closed, sock', cur')
    BY <1>5, <1>7, <1>8 DEF Ending
  <2>3. SlotsFit(MarkClosing(r, closed), sock', pc', cur') /\ KeepsClosing(r, MarkClosing(r, closed))
    BY ONLY <1>4, <1>10, <2>1, <2>2, MarkFits
  <2> QED BY <1>5, <2>3
<1>12. KeepsClosing(t, r)
  BY <1>3, <1>4, <1>8 DEF KeepsClosing
<1>13. Keeps
  BY <1>2, <1>11, <1>12 DEF Keeps, KeepsClosing
<1>14. /\ client_slots' \in [Slots -> SlotType]
       /\ OnlyLeaves(r, client_slots')
       /\ JoinedSlots(client_slots') = {i \in JoinedSlots(r) : r[i].fd \notin closed}
       /\ \A i \in Slots : r[i].active /\ r[i].fd \in closed =>
             client_slots'[i] = MarkSlotClosing(r[i])
  BY <1>4, <1>5, MarkEffect
<1>15. fd \in closed => client_slots'[k].closing
  BY <1>4, <1>14, MarkedSlot
<1>16. JoinedSlots(r) = {i \in JoinedSlots(t) : i # k /\ t[i].user_id # u} \cup {k}
  <2> SUFFICES ASSUME NEW i \in Slots
               PROVE  i \in JoinedSlots(r) <=>
                         i \in {j \in JoinedSlots(t) : j # k /\ t[j].user_id # u} \cup {k}
    BY DEF JoinedSlots
  <2>1. CASE i = k
    BY <1>4, <2>1 DEF JoinedSlots
  <2>2. CASE i \in R
    BY <1>8, <2>2 DEF JoinedSlots
  <2>3. CASE i # k /\ i \notin R
    BY <1>4, <2>3 DEF JoinedSlots
  <2> QED BY <2>1, <2>2, <2>3
<1>17. \A i \in JoinedSlots(t) : i # k /\ t[i].user_id # u =>
          r[i] = t[i] /\ t[i].fd \notin closed
  <2> SUFFICES ASSUME NEW i \in JoinedSlots(t), i # k, t[i].user_id # u
               PROVE  r[i] = t[i] /\ t[i].fd \notin closed
    OBVIOUS
  <2>1. i \in Slots /\ t[i].active /\ i \notin R
    BY <1>8 DEF JoinedSlots
  <2>2. \A j \in R : t[j].fd # t[i].fd
    BY <1>2, <1>8, <2>1 DEF SlotsFit
  <2>3. t[i].fd # fd
    BY <1>6, <2>1
  <2> QED BY <1>4, <1>5, <2>1, <2>2, <2>3
<1>18. JoinedSlots(client_slots') =
          {i \in JoinedSlots(t) : i # k /\ t[i].user_id # u}
             \cup (IF fd \in closed THEN {} ELSE {k})
  BY <1>4, <1>14, <1>16, <1>17
<1>19. /\ JoinedSlots(t) = JoinedSlots(s)
       /\ \A i \in JoinedSlots(s) : t[i].fd = s[i].fd /\ t[i].user_id = s[i].user_id
  BY <1>2 DEF SameJoined
<1>20. \A i \in JoinedSlots(s) : s[i].fd = fd <=> i = k
  BY <1>6, <1>19 DEF JoinedSlots
<1>21. \A i \in JoinedSlots(client_slots') :
          /\ i = k => client_slots'[i].fd = fd /\ client_slots'[i].user_id = u
          /\ i # k => /\ client_slots'[i].fd = s[i].fd
                      /\ client_slots'[i].user_id = s[i].user_id
  BY <1>4, <1>14, <1>16, <1>17, <1>19 DEF OnlyLeaves
<1>22. Joining(s, client_slots', closed, fd, u, k)
  BY <1>15, <1>18, <1>19, <1>20, <1>21 DEF Joining
<1> QED BY <1>7, <1>11, <1>13, <1>14, <1>22

\* The older connections of the user end, and the join is announced.
LEMMA JoinStep ==
    ASSUME IInv, NEW fd \in FDS, NEW u \in USERS, JoinFrame(fd, u)
    PROVE  IInv' /\ Keeps
<1> DEFINE closed == ReplacedFds(Ensured(fd), fd, u)
<1>1. /\ Receives(fd)
      /\ client_slots' = MarkClosing(UpdateIdentity(Ensured(fd), fd, u), closed)
      /\ sock' \in Shutdown(closed)
      /\ Reads({fd}, client_slots')
      /\ pc' = "presence" /\ cur' = NoFd /\ then' = "return" /\ attempt' = 0
  BY DEF JoinFrame, BroadcastPresence
<1> HIDE DEF closed
<1>2. /\ client_slots' \in [Slots -> SlotType] /\ sock' \in [FDS -> SockState]
      /\ SlotsFit(client_slots', sock', pc', cur') /\ Keeps
  BY <1>1, JoinEffect DEF closed
<1>3. Online(client_slots') \subseteq USERS
  BY <1>2 DEF Online, JoinedSlots, SlotsFit, SlotType
<1>4. TypeOK' /\ ControlOK'
  <2>1. TypeOK
    BY DEF IInv
  <2>2. /\ view' \in [FDS -> SUBSET USERS]
        /\ latest' \in [FDS -> {"whole", "short", "missed"}]
    BY ONLY <1>1, <1>3, <2>1, ReadsEffect
  <2> QED BY <1>1, <1>2, <2>2 DEF IInv, TypeOK, ControlOK
<1>5. PresenceConverges'
  BY <1>1, BroadcastBegins
<1>6. ListsRight'
  BY <1>1 DEF ListsRight
<1> QED BY <1>2, <1>4, <1>5, <1>6 DEF IInv

\* A join whose replay or whose list fails gives the connection up again.
LEMMA JoinBreaksStep ==
    ASSUME IInv, NEW fd \in FDS, NEW u \in USERS, JoinBreaks(fd, u)
    PROVE  IInv' /\ Keeps /\ Leaves
<1> DEFINE closed == ReplacedFds(Ensured(fd), fd, u) \cup {fd}
<1>1. /\ Receives(fd)
      /\ client_slots' = MarkClosing(UpdateIdentity(Ensured(fd), fd, u), closed)
      /\ sock' \in Shutdown(closed)
      /\ pc' = "delete" /\ cur' = fd /\ then' = "return" /\ attempt' = 0
      /\ UNCHANGED <<view, latest>>
  BY DEF JoinBreaks, DeleteSession
<1> HIDE DEF closed
<1>2. /\ client_slots' \in [Slots -> SlotType] /\ sock' \in [FDS -> SockState]
      /\ SlotsFit(client_slots', sock', pc', cur') /\ Keeps
      /\ \E k \in Slots :
            /\ JoinedSlots(client_slots') \subseteq JoinedSlots(client_slots) \ {k}
            /\ \A i \in JoinedSlots(client_slots') : i # k =>
                  /\ client_slots'[i].fd = client_slots[i].fd
                  /\ client_slots'[i].user_id = client_slots[i].user_id
            /\ client_slots'[k].closing
  <2>1. fd \in closed
    BY DEF closed
  <2>2. closed = ReplacedFds(Ensured(fd), fd, u) \cup {fd} /\ cur' = fd
    BY <1>1 DEF closed
  <2>3. /\ client_slots' \in [Slots -> SlotType] /\ sock' \in [FDS -> SockState]
        /\ SlotsFit(client_slots', sock', pc', cur') /\ Keeps
    BY <1>1, <2>2, JoinEffect
  <2>4. PICK k \in Slots : Joining(client_slots, client_slots', closed, fd, u, k)
    BY <1>1, <2>2, JoinEffect
  <2> QED BY <2>1, <2>3, <2>4 DEF Joining
<1>3. Leaves
  BY <1>2 DEF Leaves, OnlyLeaves
<1>4. TypeOK' /\ ControlOK'
  BY <1>1, <1>2 DEF IInv, TypeOK, ControlOK
<1>5. PresenceConverges'
  BY <1>1, BroadcastBegins
<1>6. ListsRight'
  BY <1>2 DEF ListsRight
<1> QED BY <1>2, <1>3, <1>4, <1>5, <1>6 DEF IInv

-----------------------------------------------------------------------------
(* Theorems *)

OtherStep ==
    \/ \E fd \in FDS :
          \/ Accept(fd) \/ HttpEnds(fd) \/ Handshake(fd) \/ HandshakeRejected(fd)
          \/ PeerCloses(fd) \/ Reap(fd) \/ FrameRejected(fd) \/ FrameBroken(fd)
          \/ FrameNoMemory(fd) \/ CloseFrame(fd) \/ FrameDropped(fd)
          \/ FrameIgnored(fd) \/ FrameRefused(fd) \/ ReplyFails(fd)
          \/ GetOnlineUser(fd) \/ BroadcastFrame(fd) \/ RelayFrame(fd)
          \/ \E u \in USERS : JoinBreaks(fd, u)
    \/ PresenceAttempt \/ PresenceNoMemory \/ Deletion \/ Sweep

LEMMA NextIs == Next => OtherStep \/ \E fd \in FDS, u \in USERS : JoinFrame(fd, u)
BY DEF Next, Frame, OtherStep

LEMMA OtherSteps == IInv /\ OtherStep => IInv' /\ Keeps /\ Leaves
<1> SUFFICES ASSUME IInv, OtherStep PROVE IInv' /\ Keeps /\ Leaves
  OBVIOUS
<1>1. CASE PresenceAttempt \/ PresenceNoMemory
  BY <1>1, PresenceStep
<1>2. CASE Deletion
  BY <1>2, DeletionStep
<1>3. CASE Sweep
  BY <1>3, SweepStep
<1>4. ASSUME NEW fd \in FDS,
             \/ Accept(fd) \/ HttpEnds(fd) \/ HandshakeRejected(fd)
             \/ PeerCloses(fd) \/ Reap(fd) \/ FrameRejected(fd)
      PROVE  IInv' /\ Keeps /\ Leaves
  BY <1>4, QuietStep
<1>5. ASSUME NEW fd \in FDS,
             \/ FrameBroken(fd) \/ FrameNoMemory(fd) \/ CloseFrame(fd)
             \/ FrameDropped(fd) \/ FrameIgnored(fd) \/ FrameRefused(fd)
             \/ ReplyFails(fd) \/ GetOnlineUser(fd)
             \/ BroadcastFrame(fd) \/ RelayFrame(fd)
      PROVE  IInv' /\ Keeps /\ Leaves
  BY <1>5, PlainFrameStep
<1>6. ASSUME NEW fd \in FDS, Handshake(fd)
      PROVE  IInv' /\ Keeps /\ Leaves
  BY <1>6, HandshakeStep
<1>7. ASSUME NEW fd \in FDS, NEW u \in USERS, JoinBreaks(fd, u)
      PROVE  IInv' /\ Keeps /\ Leaves
  BY <1>7, JoinBreaksStep
<1> QED BY <1>1, <1>2, <1>3, <1>4, <1>5, <1>6, <1>7 DEF OtherStep

LEMMA StutterStep == IInv /\ UNCHANGED vars => IInv' /\ Keeps /\ Leaves
<1> SUFFICES ASSUME IInv, UNCHANGED vars PROVE IInv' /\ Keeps /\ Leaves
  OBVIOUS
<1> USE DEF vars, control
<1>1. IInv'
  <2>1. TypeOK' /\ ControlOK'
    BY DEF IInv, TypeOK, ControlOK
  <2>2. SlotsFit(client_slots', sock', pc', cur')
    BY DEF IInv
  <2>3. PresenceConverges' /\ ListsRight'
    BY DEF IInv, PresenceConverges, ListsRight
  <2> QED BY <2>1, <2>2, <2>3 DEF IInv
<1>2. Keeps /\ Leaves
  BY DEF Keeps, Leaves, OnlyLeaves
<1> QED BY <1>1, <1>2

LEMMA Step == IInv /\ [Next]_vars => IInv' /\ Keeps
BY NextIs, OtherSteps, StutterStep, JoinStep

\* The inductive invariant holds of every behaviour: what the task holds where
\* it is, a table that fits the sockets, and lists that are exact.
THEOREM SpecIInv == Spec => []IInv
<1>1. IInv /\ [Next]_vars => IInv'
  BY Step
<1> QED BY InitInv, <1>1, PTL DEF Spec

\* A connection occupies one slot, a slot belongs to an open connection or to
\* the deletion under way, and a closing slot has no identity and cannot leak:
\* whatever frames, failures, joins and sweeps do, for any number of slots.
THEOREM SlotsFollowSocketsHolds == Spec => []SlotsFollowSockets
<1>1. IInv => SlotsFollowSockets
  BY DEF IInv, SlotsFit, SlotsFollowSockets, ActiveSlots, Open, Ended
<1> QED BY <1>1, SpecIInv, PTL

\* The bound of broadcast_online_users_now is never what ends it.
THEOREM PresenceConvergesHolds == Spec => []PresenceConverges
<1>1. IInv => PresenceConverges
  BY DEF IInv
<1> QED BY <1>1, SpecIInv, PTL

\* Between handlers every joined client whose latest list was whole has exactly
\* the users online, and one whose list lost entries is shown nobody who left.
THEOREM PresenceAccurateHolds == Spec => []PresenceAccurate
<1>1. IInv => PresenceAccurate
  BY DEF IInv, ListsRight, PresenceAccurate
<1> QED BY <1>1, SpecIInv, PTL

\* A closing slot only ever becomes a free one (chat_sessions_mark_closing is
\* undone by nothing but chat_sessions_remove_by_fd).
THEOREM ClosingIsFinalHolds == Spec => ClosingIsFinal
<1>1. IInv /\ [Next]_vars => Keeps
  BY Step
<1>2. IInv /\ [Next]_vars => [Keeps]_vars
  BY <1>1
<1> QED BY <1>2, SpecIInv, PTL DEF Spec, ClosingIsFinal, Keeps

\* When a presence broadcast ends, every client still joined that could read
\* all of its latest list has the users online then, and one whose list lost
\* entries is shown nobody who is not, whichever sends and allocations failed.
THEOREM PresenceIsExactHolds == Spec => PresenceIsExact
<1> DEFINE Ends == pc = "presence" /\ pc' # "presence" =>
          ListIsRight(client_slots', view', latest')
<1>1. IInv /\ Next => Ends
  <2> SUFFICES ASSUME IInv, Next, pc = "presence", pc' # "presence"
               PROVE  ListIsRight(client_slots', view', latest')
    OBVIOUS
  <2>1. PresenceAttempt \/ PresenceNoMemory
    BY DEF Next, Frame, Accept, HttpEnds, Handshake, HandshakeRejected, PeerCloses, Reap,
           FrameRejected, FrameBroken, FrameNoMemory, CloseFrame, FrameDropped,
           FrameIgnored, FrameRefused, ReplyFails, GetOnlineUser, JoinFrame, JoinBreaks,
           BroadcastFrame, RelayFrame, Receives, Readable, Deletion, Sweep
  <2> QED BY <2>1, PresenceEnds
<1>2. IInv /\ [Next]_vars => [Ends]_vars
  BY <1>1
<1> QED BY <1>2, SpecIInv, PTL DEF Spec, PresenceIsExact, Ends

-----------------------------------------------------------------------------
(* The slot table implements the roster. *)

OnlineOf(s) == {<<s[i].user_id, s[i].fd>> : i \in JoinedSlots(s)}

LEMMA LeavesIsLeave == Leaves => Users!Leave
<1> SUFFICES ASSUME Leaves PROVE OnlineOf(client_slots') \in SUBSET OnlineOf(client_slots)
  BY DEF OnlineOf, Users!Leave
<1>1. \A i \in JoinedSlots(client_slots') :
         /\ i \in JoinedSlots(client_slots)
         /\ client_slots'[i].fd = client_slots[i].fd
         /\ client_slots'[i].user_id = client_slots[i].user_id
  BY DEF Leaves, OnlyLeaves
<1> QED BY <1>1 DEF OnlineOf

\* A join replaces the user's connection in one step, on a connection that is
\* nobody else's: the identity check has seen to that.
LEMMA JoinIsJoin ==
    ASSUME IInv, NEW fd \in FDS, NEW u \in USERS, JoinFrame(fd, u)
    PROVE  Users!Join
<1> DEFINE s == client_slots
           v == client_slots'
           closed == ReplacedFds(Ensured(fd), fd, u)
<1>1. PICK k \in Slots : Joining(s, v, closed, fd, u, k)
  <2>1. /\ Receives(fd) /\ sock' \in Shutdown(closed)
        /\ v = MarkClosing(UpdateIdentity(Ensured(fd), fd, u), closed)
    BY DEF JoinFrame
  <2> HIDE DEF closed
  <2>2. closed = ReplacedFds(Ensured(fd), fd, u)
    BY DEF closed
  <2> QED BY <2>1, <2>2, JoinEffect
<1>2. fd \notin closed
  BY DEF ReplacedFds
<1> HIDE DEF closed
<1>3. /\ \A i \in JoinedSlots(s) : s[i].fd = fd <=> i = k
      /\ JoinedSlots(v) = {i \in JoinedSlots(s) : i # k /\ s[i].user_id # u} \cup {k}
      /\ v[k].fd = fd /\ v[k].user_id = u
      /\ \A i \in JoinedSlots(v) : i # k => v[i].fd = s[i].fd /\ v[i].user_id = s[i].user_id
  BY <1>1, <1>2 DEF Joining
<1>4. k \in JoinedSlots(s) => s[k].user_id = u
  <2> SUFFICES ASSUME k \in JoinedSlots(s) PROVE s[k].user_id = u
    OBVIOUS
  <2>1. {i \in JoinedSlots(s) : s[i].fd = fd} = {k}
    BY <1>3
  <2>2. Min({k}) = k
    BY Facts, OnlyOne
  <2>3. IdentityOf(s, fd) = s[k].user_id
    BY <2>1, <2>2 DEF IdentityOf
  <2>4. s[k].user_id # NoUser
    BY DEF IInv, SlotsFit, JoinedSlots
  <2> QED BY <2>3, <2>4 DEF JoinFrame
<1> HIDE DEF s, v
<1>5. \A p \in OnlineOf(s) : p[2] = fd => p[1] = u
  BY <1>3, <1>4 DEF OnlineOf
<1>6. OnlineOf(v) = {p \in OnlineOf(s) : p[1] # u} \cup {<<u, fd>>}
  <2>1. ASSUME NEW p \in OnlineOf(v)
        PROVE  p \in {q \in OnlineOf(s) : q[1] # u} \cup {<<u, fd>>}
    <3>1. PICK i \in JoinedSlots(v) : p = <<v[i].user_id, v[i].fd>>
      BY DEF OnlineOf
    <3>2. CASE i = k
      BY <1>3, <3>1, <3>2
    <3>3. CASE i # k
      <4>1. i \in JoinedSlots(s) /\ s[i].user_id # u /\ p = <<s[i].user_id, s[i].fd>>
        BY <1>3, <3>1, <3>3
      <4> QED BY <4>1 DEF OnlineOf
    <3> QED BY <3>2, <3>3
  <2>2. ASSUME NEW p \in OnlineOf(s), p[1] # u
        PROVE  p \in OnlineOf(v)
    <3>1. PICK i \in JoinedSlots(s) : p = <<s[i].user_id, s[i].fd>>
      BY DEF OnlineOf
    <3>2. s[i].user_id # u /\ i # k
      BY <1>4, <2>2, <3>1
    <3>3. i \in JoinedSlots(v) /\ p = <<v[i].user_id, v[i].fd>>
      BY <1>3, <3>1, <3>2
    <3> QED BY <3>3 DEF OnlineOf
  <2>3. <<u, fd>> \in OnlineOf(v)
    <3>1. k \in JoinedSlots(v) /\ <<u, fd>> = <<v[k].user_id, v[k].fd>>
      BY <1>3
    <3> QED BY <3>1 DEF OnlineOf
  <2> QED BY <2>1, <2>2, <2>3
<1> QED BY <1>5, <1>6 DEF Users!Join, OnlineOf, s, v

\* Every step of the table is a step of the roster: a join moves its user to
\* the new connection at once, and anything else only takes pairs away.
THEOREM ImplementsRosterHolds == Spec => ImplementsRoster
<1>1. Init => Users!Init
  <2> SUFFICES ASSUME Init PROVE JoinedSlots(client_slots) = {}
    BY DEF Users!Init
  <2> QED BY FreeSlotIs DEF Init, JoinedSlots
<1>2. IInv /\ [Next]_vars => Users!Next
  <2>1. IInv /\ Next => Users!Next
    BY NextIs, OtherSteps, LeavesIsLeave, JoinIsJoin DEF Users!Next
  <2>2. IInv /\ UNCHANGED vars => Users!Next
    BY StutterStep, LeavesIsLeave DEF Users!Next
  <2> QED BY <2>1, <2>2
<1> QED BY <1>1, <1>2, SpecIInv, PTL DEF Spec, ImplementsRoster, Users!Spec

=============================================================================
