------------------------ MODULE MessageHistoryProofs ------------------------
(***************************************************************************)
(* Proofs about MessageHistory for every ring size and every id limit.     *)
(***************************************************************************)
EXTENDS MessageHistory, TLAPS

\* How many messages ago slot i was written, the ring being full.
Age(i) == IF i < message_buffer_head THEN message_buffer_head - 1 - i
          ELSE message_buffer_head - 1 - i + MAX_MESSAGES

\* The id slot i must hold: the one Age(i) before the newest, if this boot
\* assigned it.
SlotId(i) == IF message_id_counter - Age(i) >= boot_start_id
             THEN message_id_counter - Age(i) ELSE 0

RingInv ==
    \/ \A i \in Slots : message_buffer[i] = SlotId(i)
    \/ /\ message_id_counter = MAX_SAFE_ID /\ boot_start_id = MAX_SAFE_ID
       /\ \A i \in Slots : message_buffer[i] = 0

\* What is known of the ids in RAM, by whether they were loaded.
CounterInv ==
    /\ \A n \in published : n <= nvs_current
    /\ message_id_counter_valid =>
         /\ message_id_counter <= nvs_current
         /\ boot_start_id <= message_id_counter + 1
         /\ \A n \in published : n <= message_id_counter
    /\ ~ message_id_counter_valid =>
         /\ message_id_counter = 0 /\ boot_start_id = 1
         /\ message_buffer_head = 0
         /\ \A i \in Slots : message_buffer[i] = 0

\* What is known at each place of the code.
ControlInv ==
    /\ pc \in {"off", "load"} => ~ message_id_counter_valid
    /\ pc \in Writing /\ caller \in Loaders =>
         /\ ~ message_id_counter_valid
         /\ arg <= nvs_current
         /\ \A n \in published : n <= arg
    /\ pc \in Writing /\ caller = "store" =>
         message_id_counter_valid /\ arg = message_id_counter + 1
    /\ pc = "load" => caller \in Loaders
    /\ pc \in {"finalize", "deliver", "replay", "info"} => message_id_counter_valid
    /\ pc = "deliver" =>
         /\ message_id_counter \in Retained
         /\ \A n \in published : n < message_id_counter

\* The loop invariant of the replay; the bound on replayed is why
\* MAX_MESSAGES iterations are enough.
ReplayInv ==
    /\ pc \in {"off", "idle", "finalize", "deliver"} => replay = NoReplay
    /\ pc \in {"load"} \cup Writing =>
         /\ replay.sent = {} /\ replay.replayed = 0
         /\ caller # "join" => replay = NoReplay
    /\ pc = "replay" =>
         /\ replay.until = message_id_counter
         /\ replay.since <= replay.cursor
         /\ replay.replayed = 0 => replay.cursor = replay.since
         /\ replay.replayed > 0 =>
              replay.cursor >= message_id_counter - MAX_MESSAGES + replay.replayed
         /\ replay.sent = {n \in Retained : n > replay.since /\ n <= replay.cursor}
    /\ pc = "info" => replay.sent = {n \in Retained : n > replay.since}

IInv == TypeOK /\ RingInv /\ CounterInv /\ ControlInv /\ ReplayInv

-----------------------------------------------------------------------------
(* Lemmas about the operators *)

\* (head + 1) % MAX_MESSAGES is the next slot, or slot 0 after the last.
LEMMA NextHead ==
    ASSUME NEW h \in Slots
    PROVE  (h + 1) % MAX_MESSAGES = IF h + 1 = MAX_MESSAGES THEN 0 ELSE h + 1
  BY SizeAssumption, Z3T(30) DEF Slots

\* A least element is what Min returns.
LEMMA MinIs ==
    ASSUME NEW S \in SUBSET Int, NEW m \in S, \A n \in S : m <= n
    PROVE  Min(S) = m
  <1>1. \A x \in S : (\A n \in S : x <= n) => x = m
    OBVIOUS
  <1> QED
    BY <1>1 DEF Min

\* The ids the ring should hold.
Window == {n \in boot_start_id..message_id_counter :
               n > message_id_counter - MAX_MESSAGES}

\* The slot formula of RingInv means that the ring holds the window.
LEMMA RetainedIsWindow ==
    ASSUME TypeOK, \A i \in Slots : message_buffer[i] = SlotId(i)
    PROVE  Retained = Window
  <1>1. ASSUME NEW n \in Retained PROVE n \in Window
    <2>1. PICK i \in Slots : n = message_buffer[i] /\ n # 0
      BY DEF Retained
    <2>2. n = SlotId(i) /\ n # 0
      BY <2>1
    <2>3. Age(i) \in 0..(MAX_MESSAGES - 1)
      BY SizeAssumption DEF Age, TypeOK, Slots
    <2>4. message_id_counter \in Nat /\ boot_start_id \in Nat
      BY SizeAssumption DEF TypeOK, Ids
    <2> QED
      BY <2>2, <2>3, <2>4, SizeAssumption DEF Window, SlotId
  <1>2. ASSUME NEW n \in Window PROVE n \in Retained
    <2> DEFINE d == message_buffer_head - 1 - (message_id_counter - n)
               i == IF d >= 0 THEN d ELSE d + MAX_MESSAGES
    <2>1. i \in Slots /\ SlotId(i) = n /\ n # 0
      BY SizeAssumption DEF Window, SlotId, Age, TypeOK, Slots, Ids
    <2> QED
      BY <2>1 DEF Retained
  <1> QED
    BY <1>1, <1>2

\* The ring is the window, or it is empty and no id is left.
LEMMA RetainedCases ==
    ASSUME TypeOK, RingInv
    PROVE  Retained = Window \/ BootedExhausted
  <1>1. CASE \A i \in Slots : message_buffer[i] = SlotId(i)
    BY <1>1, RetainedIsWindow
  <1>2. CASE /\ message_id_counter = MAX_SAFE_ID /\ boot_start_id = MAX_SAFE_ID
             /\ \A i \in Slots : message_buffer[i] = 0
    BY <1>2 DEF BootedExhausted, Retained
  <1> QED
    BY <1>1, <1>2 DEF RingInv

\* Storing the next id shifts every age by one and keeps the slot formula.
LEMMA StoreKeepsRing ==
    ASSUME TypeOK, RingInv, StoreMessage, message_id_counter < MAX_SAFE_ID,
           arg = message_id_counter + 1, boot_start_id <= arg
    PROVE  \A i \in Slots : message_buffer'[i] = SlotId(i)'
  <1> SUFFICES ASSUME NEW i \in Slots
               PROVE  message_buffer'[i] = SlotId(i)'
    OBVIOUS
  <1>1. message_buffer[i] = SlotId(i)
    BY DEF RingInv, TypeOK
  <1>2. message_buffer_head' = IF message_buffer_head + 1 = MAX_MESSAGES
                               THEN 0 ELSE message_buffer_head + 1
    BY NextHead DEF StoreMessage, TypeOK
  <1>3. /\ message_id_counter' = message_id_counter + 1
        /\ boot_start_id' = boot_start_id
        /\ message_buffer'[i] = IF i = message_buffer_head
                                THEN message_id_counter + 1 ELSE message_buffer[i]
    BY DEF StoreMessage, TypeOK
  <1>4. Age(i)' = IF i = message_buffer_head THEN 0 ELSE Age(i) + 1
    BY <1>2, SizeAssumption DEF Age, TypeOK, Slots
  <1>5. Age(i) \in Int
    BY SizeAssumption DEF Age, TypeOK, Slots
  <1>6. i # message_buffer_head =>
           message_id_counter' - Age(i)' = message_id_counter - Age(i)
    BY <1>3, <1>4, <1>5 DEF TypeOK
  <1>7. CASE i = message_buffer_head
    BY <1>3, <1>4, <1>7 DEF SlotId, TypeOK, Ids
  <1>8. CASE i # message_buffer_head
    BY <1>1, <1>3, <1>6, <1>8 DEF SlotId
  <1> QED
    BY <1>7, <1>8

-----------------------------------------------------------------------------
(* The inductive invariant *)

\* During a replay the loop picks the next id above its cursor, and that id
\* is above what the ring has already dropped.
LEMMA NextCandidate ==
    ASSUME IInv, pc = "replay", ReplayCandidates # {}
    PROVE  /\ Min(ReplayCandidates) \in ReplayCandidates
           /\ \A n \in ReplayCandidates : Min(ReplayCandidates) <= n
           /\ Min(ReplayCandidates) \in Ids
           /\ Min(ReplayCandidates) > message_id_counter - MAX_MESSAGES
  <1>1. TypeOK /\ RingInv /\ replay.until = message_id_counter
    BY DEF IInv, ReplayInv
  <1>2. Retained = Window
    BY <1>1, RetainedCases DEF BootedExhausted, ReplayCandidates
  <1>3. /\ message_id_counter \in Nat /\ boot_start_id \in Nat \ {0}
        /\ replay.cursor \in Nat
        /\ message_id_counter <= MAX_SAFE_ID /\ MAX_SAFE_ID \in Nat
        /\ MAX_MESSAGES \in Nat
    BY <1>1, SizeAssumption DEF TypeOK, Ids
  <1> DEFINE lo == IF boot_start_id > message_id_counter - MAX_MESSAGES
                   THEN boot_start_id ELSE message_id_counter - MAX_MESSAGES + 1
             m == IF lo > replay.cursor THEN lo ELSE replay.cursor + 1
  <1>4. ReplayCandidates = {n \in Int : m <= n /\ n <= message_id_counter}
    BY <1>1, <1>2, <1>3 DEF ReplayCandidates, Window
  <1>5. m \in ReplayCandidates /\ \A n \in ReplayCandidates : m <= n
    BY <1>3, <1>4
  <1>6. Min(ReplayCandidates) = m
    <2> HIDE DEF m
    <2> QED BY <1>4, <1>5, MinIs
  <1>7. m \in Ids /\ m > message_id_counter - MAX_MESSAGES
    BY <1>3, <1>4, <1>5 DEF Ids
  <1> QED
    BY <1>5, <1>6, <1>7

LEMMA InitIInv == Init => IInv
  <1> SUFFICES ASSUME Init PROVE IInv
    OBVIOUS
  <1>1. TypeOK
    <2>1. /\ message_buffer \in [Slots -> 0..MAX_SAFE_ID]
          /\ message_buffer_head \in Slots
      BY SizeAssumption DEF Init, Slots
    <2>2. replay \in [since : 0..MAX_SAFE_ID, cursor : 0..MAX_SAFE_ID,
                     until : 0..MAX_SAFE_ID, replayed : 0..MAX_MESSAGES,
                     sent : SUBSET Ids]
      BY SizeAssumption DEF Init, NoReplay
    <2>3. arg \in 0..MAX_SAFE_ID /\ message_id_counter \in 0..MAX_SAFE_ID
          /\ boot_start_id \in Ids
      BY SizeAssumption DEF Init, Ids
    <2> QED
      BY <2>1, <2>2, <2>3 DEF Init, TypeOK, Loaders
  <1>2. RingInv
    BY SizeAssumption DEF Init, RingInv, SlotId, Age, Slots
  <1>3. CounterInv /\ ControlInv /\ ReplayInv
    BY DEF Init, CounterInv, ControlInv, ReplayInv, Writing
  <1> QED
    BY <1>1, <1>2, <1>3 DEF IInv

\* Every action keeps the types.
LEMMA TypeStep == IInv /\ [Next]_vars => TypeOK'
  <1> SUFFICES ASSUME IInv, [Next]_vars PROVE TypeOK'
    OBVIOUS
  <1> USE SizeAssumption DEF TypeOK, Slots, Ids, Loaders, Writing
  <1>1. TypeOK
    BY DEF IInv
  <1>2. NoReplay \in [since : 0..MAX_SAFE_ID, cursor : 0..MAX_SAFE_ID,
                      until : 0..MAX_SAFE_ID, replayed : 0..MAX_MESSAGES,
                      sent : SUBSET Ids]
    BY DEF NoReplay
  <1>3. CASE PowerOn
    <2>1. nvs_current' \in 0..(MAX_SAFE_ID + 1)
      BY <1>1, <1>3 DEF PowerOn
    <2>2. published' \in SUBSET Ids
      BY <1>1, <1>3 DEF PowerOn
    <2> QED
      BY <1>1, <1>3, <2>1, <2>2 DEF PowerOn, ctx
  <1>4. CASE LoadReads
    BY <1>1, <1>4 DEF LoadReads, LoadedId, ctx
  <1>5. CASE LoadReadError
    BY <1>1, <1>2, <1>5 DEF LoadReadError, ctx
  <1>6. CASE SetCurrent
    BY <1>1, <1>6 DEF SetCurrent, ctx
  <1>7. CASE SetBootStart
    BY <1>1, <1>7 DEF SetBootStart, ctx
  <1>8. ASSUME LoadReturns, nvs_current' \in {nvs_current, arg} PROVE TypeOK'
    <2>1. BootStart(arg) \in Ids
      BY <1>1 DEF BootStart
    <2>2. replay' = replay \/ StartReplay(arg)
      BY <1>8 DEF LoadReturns
    <2>3. pc' \in {"idle", "replay", "finalize"}
      BY <1>8 DEF LoadReturns, StartReplay
    <2>4. replay' \in [since : 0..MAX_SAFE_ID, cursor : 0..MAX_SAFE_ID,
                       until : 0..MAX_SAFE_ID, replayed : 0..MAX_MESSAGES,
                       sent : SUBSET Ids]
      BY <1>1, <2>2 DEF StartReplay
    <2>5. nvs_current' \in 0..(MAX_SAFE_ID + 1)
      BY <1>1, <1>8
    <2>6. /\ message_id_counter' = arg /\ message_id_counter_valid' = TRUE
          /\ boot_start_id' = BootStart(arg)
          /\ UNCHANGED <<message_buffer, message_buffer_head, caller, arg, published>>
      BY <1>8 DEF LoadReturns
    <2> QED
      BY <1>1, <2>1, <2>3, <2>4, <2>5, <2>6
  <1>9. CASE Commit
    <2>1. CASE caller \in Loaders /\ LoadReturns
      BY <1>8, <1>9, <2>1 DEF Commit
    <2>2. CASE caller = "store" /\ StoreMessage /\ pc' = "deliver"
               /\ UNCHANGED <<caller, arg, replay, published>>
      <3>1. message_buffer_head' \in Slots
        BY <1>1, <2>2, NextHead DEF StoreMessage
      <3> QED
        BY <1>1, <1>9, <2>2, <3>1 DEF Commit, StoreMessage
    <2> QED
      BY <1>9, <2>1, <2>2 DEF Commit
  <1>10. CASE PersistFails
    <2>1. CASE caller \in Loaders /\ LoadReturns
      BY <1>8, <1>10, <2>1 DEF PersistFails
    <2>2. CASE caller = "store" /\ pc' = "idle"
               /\ UNCHANGED <<caller, arg, ctx, replay, published>>
      BY <1>1, <1>10, <2>2 DEF PersistFails, ctx
    <2> QED
      BY <1>10, <2>1, <2>2 DEF PersistFails
  <1>11. CASE Join
    <2>1. PICK since \in 0..MAX_SAFE_ID :
            \/ /\ pc' = "replay"
               /\ replay' = [NoReplay EXCEPT !.since = since, !.cursor = since,
                                             !.until = message_id_counter]
            \/ pc' = "load" /\ replay' = [NoReplay EXCEPT !.since = since]
      BY <1>11 DEF Join
    <2>2. replay' \in [since : 0..MAX_SAFE_ID, cursor : 0..MAX_SAFE_ID,
                       until : 0..MAX_SAFE_ID, replayed : 0..MAX_MESSAGES,
                       sent : SUBSET Ids]
      BY <1>1, <1>2, <2>1
    <2> QED
      BY <1>1, <1>11, <2>1, <2>2 DEF Join, ctx
  <1>12. CASE Chat
    BY <1>1, <1>12 DEF Chat, ctx
  <1>13. CASE Finalize
    BY <1>1, <1>13 DEF Finalize, ctx
  <1>14. CASE FinalizeFails
    BY <1>1, <1>14 DEF FinalizeFails, ctx
  <1>15. CASE Deliver
    <2>1. message_id_counter \in Ids
      BY <1>1, <1>15 DEF Deliver, IInv, ControlInv, Retained
    <2> QED
      BY <1>1, <1>15, <2>1 DEF Deliver, ctx
  <1>16. CASE ReplayStep
    <2>1. Min(ReplayCandidates) \in Ids
      BY <1>1, <1>16, NextCandidate DEF ReplayStep, ReplayContinues
    <2>2. /\ replay.replayed + 1 \in 0..MAX_MESSAGES
          /\ Min(ReplayCandidates) \in 0..MAX_SAFE_ID
          /\ replay.sent \cup {Min(ReplayCandidates)} \in SUBSET Ids
      <3>1. replay.replayed + 1 \in 0..MAX_MESSAGES
        BY <1>1, <1>16 DEF ReplayStep, ReplayContinues
      <3> QED
        BY <1>1, <2>1, <3>1
    <2>3. replay' \in [since : 0..MAX_SAFE_ID, cursor : 0..MAX_SAFE_ID,
                       until : 0..MAX_SAFE_ID, replayed : 0..MAX_MESSAGES,
                       sent : SUBSET Ids]
      <3> HIDE DEF Ids
      <3> QED BY <1>1, <1>16, <2>2 DEF ReplayStep, ReplayContinues
    <2> QED
      BY <1>1, <1>16, <2>3 DEF ReplayStep, ReplayContinues, ctx
  <1>17. CASE ReplayDone
    BY <1>1, <1>17 DEF ReplayDone, ctx
  <1>18. CASE ReplayFails
    BY <1>1, <1>2, <1>18 DEF ReplayFails, ctx
  <1>19. CASE SendInfo
    BY <1>1, <1>2, <1>19 DEF SendInfo, ctx
  <1>20. CASE Crash
    <2>1. nvs_current' \in 0..(MAX_SAFE_ID + 1)
      BY <1>1, <1>20 DEF Crash
    <2>2. message_buffer' \in [Slots -> 0..MAX_SAFE_ID] /\ message_buffer_head' \in Slots
      BY <1>20 DEF Crash
    <2>3. /\ replay' \in [since : 0..MAX_SAFE_ID, cursor : 0..MAX_SAFE_ID,
                          until : 0..MAX_SAFE_ID, replayed : 0..MAX_MESSAGES,
                          sent : SUBSET Ids]
          /\ published' \in SUBSET Ids
      BY <1>1, <1>2, <1>20 DEF Crash
    <2>4. /\ arg' \in 0..MAX_SAFE_ID /\ message_id_counter' \in 0..MAX_SAFE_ID
          /\ boot_start_id' \in Ids
      BY <1>20 DEF Crash
    <2> QED
      BY <1>20, <2>1, <2>2, <2>3, <2>4 DEF Crash
  <1>21. CASE UNCHANGED vars
    BY <1>1, <1>21 DEF vars, ctx
  <1> QED
    BY <1>3, <1>4, <1>5, <1>6, <1>7, <1>9, <1>10, <1>11, <1>12, <1>13, <1>14,
       <1>15, <1>16, <1>17, <1>18, <1>19, <1>20, <1>21 DEF Next

\* A step that leaves the ring, the counter and boot_start_id alone.
LEMMA RingUnchanged ==
    ASSUME RingInv, UNCHANGED ctx
    PROVE  RingInv' /\ Retained' = Retained
  BY DEF RingInv, SlotId, Age, Retained, ctx

\* The ring after a load: empty, and nothing assigned in this boot yet.
LEMMA LoadRing ==
    ASSUME TypeOK, CounterInv, ~ message_id_counter_valid, LoadReturns
    PROVE  RingInv' /\ Retained' = {}
  <1>1. \A i \in Slots : message_buffer'[i] = 0
    BY DEF CounterInv, LoadReturns
  <1>2. Retained' = {}
    BY <1>1 DEF Retained
  <1>3. message_buffer_head' = 0
    BY DEF CounterInv, LoadReturns
  <1>4. arg \in 0..MAX_SAFE_ID
    BY DEF TypeOK
  <1>5. CASE arg < MAX_SAFE_ID
    <2>1. message_id_counter' = arg /\ boot_start_id' = arg + 1
      BY <1>5 DEF LoadReturns, BootStart
    <2>2. \A i \in Slots : SlotId(i)' = 0
      BY <1>3, <1>4, <2>1, SizeAssumption DEF SlotId, Age, Slots
    <2> QED
      BY <1>1, <1>2, <2>2 DEF RingInv
  <1>6. CASE arg = MAX_SAFE_ID
    BY <1>1, <1>2, <1>6, SizeAssumption DEF RingInv, LoadReturns, BootStart
  <1> QED
    BY <1>4, <1>5, <1>6, SizeAssumption

\* Every action keeps the ring formula.
LEMMA RingStep == IInv /\ [Next]_vars => RingInv'
  <1> SUFFICES ASSUME IInv, [Next]_vars PROVE RingInv'
    OBVIOUS
  <1>1. TypeOK /\ RingInv /\ CounterInv /\ ControlInv
    BY DEF IInv
  <1>2. CASE UNCHANGED ctx
    BY <1>1, <1>2, RingUnchanged
  <1>3. CASE Commit \/ PersistFails
    <2>1. CASE caller \in Loaders /\ LoadReturns
      <3>1. ~ message_id_counter_valid
        BY <1>1, <1>3, <2>1 DEF ControlInv, Commit, PersistFails, Writing
      <3> QED
        BY <1>1, <2>1, <3>1, LoadRing
    <2>2. CASE caller = "store" /\ Commit /\ StoreMessage
      <3>1. /\ arg = message_id_counter + 1
            /\ boot_start_id <= message_id_counter + 1
        BY <1>1, <2>2 DEF ControlInv, CounterInv, Commit, Writing
      <3>2. message_id_counter < MAX_SAFE_ID
        BY <1>1, <3>1, SizeAssumption DEF TypeOK
      <3> QED
        BY <1>1, <2>2, <3>1, <3>2, StoreKeepsRing DEF RingInv
    <2>3. CASE caller = "store" /\ PersistFails
      BY <1>2, <2>3 DEF PersistFails, Loaders
    <2> QED
      BY <1>3, <2>1, <2>2, <2>3 DEF Commit, PersistFails
  <1>4. CASE Crash
    <2>1. /\ message_id_counter' = 0 /\ boot_start_id' = 1
          /\ message_buffer_head' = 0
          /\ \A i \in Slots : message_buffer'[i] = 0
      BY <1>4 DEF Crash
    <2>2. \A i \in Slots : SlotId(i)' = 0
      BY <2>1, SizeAssumption DEF SlotId, Age, Slots
    <2> QED
      BY <2>1, <2>2 DEF RingInv
  <1> QED
    BY <1>2, <1>3, <1>4 DEF Next, vars, PowerOn, LoadReads, LoadReadError,
       SetCurrent, SetBootStart, Join, Chat, Finalize, FinalizeFails, Deliver,
       ReplayStep, ReplayDone, ReplayFails, SendInfo

\* Every action keeps flash, counter and published ids in order.
LEMMA CounterStep == IInv /\ [Next]_vars => CounterInv'
  <1> SUFFICES ASSUME IInv, [Next]_vars PROVE CounterInv'
    OBVIOUS
  <1>1. TypeOK /\ CounterInv /\ ControlInv
    BY DEF IInv
  <1>2. CASE UNCHANGED <<nvs_current, ctx, published>>
    BY <1>1, <1>2 DEF CounterInv, ctx
  <1>3. CASE PowerOn
    BY <1>1, <1>3 DEF CounterInv, ControlInv, PowerOn, ctx
  <1>4. CASE Commit \/ PersistFails
    <2>1. CASE caller \in Loaders /\ LoadReturns
      <3>1. /\ arg <= nvs_current /\ \A n \in published : n <= arg
            /\ nvs_current' \in {nvs_current, arg}
        BY <1>1, <1>4, <2>1 DEF ControlInv, Commit, PersistFails, Writing
      <3>2. BootStart(arg) <= arg + 1
        BY <1>1, SizeAssumption DEF TypeOK, BootStart
      <3>3. arg \in Nat /\ nvs_current \in Nat
        BY <1>1, SizeAssumption DEF TypeOK
      <3>4. /\ message_id_counter' = arg /\ message_id_counter_valid' = TRUE
            /\ boot_start_id' = BootStart(arg) /\ published' = published
        BY <2>1 DEF LoadReturns
      <3>5. arg <= nvs_current' /\ \A n \in published : n <= nvs_current'
        BY <1>1, <3>1, <3>3 DEF CounterInv
      <3> QED
        BY <3>1, <3>2, <3>4, <3>5 DEF CounterInv
    <2>2. CASE caller = "store" /\ Commit /\ StoreMessage /\ UNCHANGED published
      <3>1. /\ message_id_counter_valid /\ arg = message_id_counter + 1
            /\ boot_start_id <= message_id_counter + 1
            /\ \A n \in published : n <= message_id_counter
        BY <1>1, <2>2 DEF ControlInv, CounterInv, Commit, Writing
      <3>2. /\ message_id_counter' = arg /\ nvs_current' = arg
            /\ boot_start_id' = boot_start_id /\ published' = published
            /\ message_id_counter_valid' = message_id_counter_valid
        BY <2>2 DEF Commit, StoreMessage
      <3>3. \A n \in published : n <= arg
        BY <1>1, <3>1, SizeAssumption DEF TypeOK, Ids
      <3>4. arg <= arg /\ boot_start_id <= arg + 1
        BY <1>1, <3>1, SizeAssumption DEF TypeOK, Ids
      <3> QED
        BY <3>1, <3>2, <3>3, <3>4 DEF CounterInv
    <2>3. CASE caller = "store" /\ PersistFails
      <3>1. /\ message_id_counter_valid /\ arg = message_id_counter + 1
            /\ message_id_counter <= nvs_current
            /\ boot_start_id <= message_id_counter + 1
            /\ \A n \in published : n <= message_id_counter
        BY <1>1, <2>3 DEF ControlInv, CounterInv, PersistFails
      <3>2. nvs_current' \in {nvs_current, arg} /\ UNCHANGED <<ctx, published>>
        BY <2>3 DEF PersistFails, Loaders
      <3>3. message_id_counter <= nvs_current' /\ \A n \in published : n <= nvs_current'
        BY <1>1, <3>1, <3>2, SizeAssumption DEF TypeOK, Ids
      <3> QED
        BY <3>1, <3>2, <3>3 DEF CounterInv, ctx
    <2> QED
      BY <1>4, <2>1, <2>2, <2>3 DEF Commit, PersistFails
  <1>5. CASE Deliver
    <2>1. /\ message_id_counter_valid /\ message_id_counter <= nvs_current
          /\ boot_start_id <= message_id_counter + 1
          /\ \A n \in published : n <= message_id_counter /\ n <= nvs_current
      BY <1>1, <1>5 DEF CounterInv, ControlInv, Deliver
    <2>2. message_id_counter <= message_id_counter
      BY <1>1, SizeAssumption DEF TypeOK
    <2> QED
      BY <1>5, <2>1, <2>2 DEF CounterInv, Deliver, ctx
  <1>6. CASE Crash
    <2>1. nvs_current' \in {nvs_current, arg}
      BY <1>6 DEF Crash
    <2>2. \A n \in published : n <= nvs_current'
      <3>1. CASE nvs_current' = nvs_current
        BY <1>1, <3>1 DEF CounterInv
      <3>2. CASE nvs_current' = arg /\ pc \in Writing
        BY <1>1, <3>2, SizeAssumption DEF CounterInv, ControlInv, TypeOK, Ids, Loaders
      <3> QED
        BY <1>6, <3>1, <3>2 DEF Crash
    <2> QED
      BY <1>6, <2>2 DEF Crash, CounterInv
  <1> QED
    BY <1>2, <1>3, <1>4, <1>5, <1>6 DEF Next, vars, LoadReads, LoadReadError,
       SetCurrent, SetBootStart, Join, Chat, Finalize, FinalizeFails,
       ReplayStep, ReplayDone, ReplayFails, SendInfo

\* A freshly stored id is the newest of the ring.
LEMMA StoredIsRetained ==
    ASSUME TypeOK, StoreMessage, arg # 0
    PROVE  message_id_counter' \in Retained'
  <1>1. message_buffer'[message_buffer_head] = arg /\ message_buffer_head \in Slots
    BY DEF StoreMessage, TypeOK
  <1> QED
    BY <1>1 DEF StoreMessage, Retained

\* Every action keeps what is known at each place of the code.
LEMMA ControlStep == IInv /\ [Next]_vars => ControlInv'
  <1> SUFFICES ASSUME IInv, [Next]_vars PROVE ControlInv'
    OBVIOUS
  <1>1. TypeOK /\ CounterInv /\ ControlInv
    BY DEF IInv
  <1>2. CASE PowerOn
    BY <1>1, <1>2 DEF ControlInv, PowerOn, ctx, Writing, Loaders
  <1>3. CASE LoadReads
    <2>1. caller \in Loaders /\ ~ message_id_counter_valid
      BY <1>1, <1>3 DEF LoadReads, ControlInv
    <2>2. LoadedId <= nvs_current /\ \A n \in published : n <= LoadedId
      BY <1>1, SizeAssumption DEF LoadedId, TypeOK, Ids, CounterInv
    <2> QED
      BY <1>3, <2>1, <2>2 DEF ControlInv, LoadReads, ctx, Writing, Loaders
  <1>4. CASE LoadReadError \/ FinalizeFails \/ Deliver \/ ReplayFails \/ SendInfo
    BY <1>4 DEF ControlInv, LoadReadError, FinalizeFails, Deliver, ReplayFails,
       SendInfo, Writing
  <1>5. CASE SetCurrent \/ SetBootStart
    BY <1>1, <1>5 DEF ControlInv, SetCurrent, SetBootStart, ctx, Writing
  <1>6. CASE Commit \/ PersistFails
    <2>1. CASE LoadReturns
      BY <2>1 DEF ControlInv, LoadReturns, StartReplay, Writing
    <2>2. CASE caller = "store" /\ Commit /\ StoreMessage /\ pc' = "deliver"
               /\ UNCHANGED published
      <3>1. message_id_counter_valid /\ arg = message_id_counter + 1
        BY <1>1, <2>2 DEF ControlInv, Commit, Writing
      <3>2. message_id_counter' \in Retained'
        BY <1>1, <2>2, <3>1, StoredIsRetained, SizeAssumption DEF TypeOK
      <3>3. \A n \in published : n < arg
        BY <1>1, <3>1, SizeAssumption DEF CounterInv, TypeOK, Ids
      <3> QED
        BY <2>2, <3>1, <3>2, <3>3 DEF ControlInv, StoreMessage, Writing
    <2>3. CASE pc' = "idle"
      BY <2>3 DEF ControlInv, Writing
    <2> QED
      BY <1>6, <2>1, <2>2, <2>3 DEF Commit, PersistFails
  <1>7. CASE Join
    BY <1>1, <1>7 DEF ControlInv, Join, ctx, Writing, Loaders
  <1>8. CASE Chat
    BY <1>1, <1>8 DEF ControlInv, Chat, ctx, Writing, Loaders
  <1>9. CASE Finalize
    BY <1>1, <1>9 DEF ControlInv, Finalize, ctx, Writing, Loaders
  <1>10. CASE ReplayStep \/ ReplayDone
    BY <1>1, <1>10 DEF ControlInv, ReplayStep, ReplayDone, ctx, Writing
  <1>11. CASE Crash
    BY <1>11 DEF ControlInv, Crash, Writing
  <1>12. CASE UNCHANGED vars
    BY <1>1, <1>12 DEF ControlInv, vars, ctx, Retained
  <1> QED
    BY <1>2, <1>3, <1>4, <1>5, <1>6, <1>7, <1>8, <1>9, <1>10, <1>11, <1>12
       DEF Next

\* The ring never holds an id above the counter.
LEMMA RetainedBelowCounter ==
    ASSUME TypeOK, RingInv
    PROVE  Retained \subseteq Ids /\ \A n \in Retained : n <= message_id_counter
  <1>1. Retained = Window \/ Retained = {}
    BY RetainedCases DEF BootedExhausted
  <1> QED
    BY <1>1, SizeAssumption DEF Window, TypeOK, Ids

\* Every action keeps the loop invariant of the replay.
LEMMA ReplayStepInv == IInv /\ [Next]_vars => ReplayInv'
  <1> SUFFICES ASSUME IInv, [Next]_vars PROVE ReplayInv'
    OBVIOUS
  <1>1. TypeOK /\ RingInv /\ CounterInv /\ ControlInv /\ ReplayInv
    BY DEF IInv
  <1>2. CASE PowerOn \/ LoadReads \/ SetCurrent \/ SetBootStart \/ Chat \/ Finalize
    BY <1>1, <1>2 DEF ReplayInv, PowerOn, LoadReads, SetCurrent, SetBootStart,
       Chat, Finalize, Writing, NoReplay
  <1>3. CASE \/ LoadReadError \/ FinalizeFails \/ Deliver \/ ReplayFails
             \/ SendInfo \/ Crash
    BY <1>1, <1>3 DEF ReplayInv, LoadReadError, FinalizeFails, Deliver,
       ReplayFails, SendInfo, Crash, Writing
  <1>4. CASE Commit \/ PersistFails
    <2>1. /\ replay.sent = {} /\ replay.replayed = 0
          /\ caller # "join" => replay = NoReplay
      BY <1>1, <1>4 DEF ReplayInv, Commit, PersistFails, Writing
    <2>2. CASE caller = "join" /\ StartReplay(arg) /\ LoadReturns
      <3>1. /\ pc' = "replay" /\ message_id_counter' = arg
            /\ replay'.until = arg /\ replay'.since = replay.since
            /\ replay'.cursor = replay.since /\ replay'.replayed = 0
            /\ replay'.sent = {}
        BY <1>1, <2>1, <2>2 DEF StartReplay, LoadReturns, TypeOK
      <3>2. caller \in Loaders /\ ~ message_id_counter_valid
        BY <1>1, <1>4, <2>2 DEF ControlInv, Commit, PersistFails, Writing, Loaders
      <3>3. Retained' = {}
        BY <1>1, <2>2, <3>2, LoadRing
      <3>4. replay.since <= replay.since
        BY <1>1, SizeAssumption DEF TypeOK
      <3> QED
        BY <3>1, <3>3, <3>4 DEF ReplayInv, Writing
    <2>3. CASE caller # "join" /\ UNCHANGED replay
               /\ pc' \in {"idle", "finalize", "deliver"}
      BY <2>1, <2>3 DEF ReplayInv, Writing
    <2> QED
      BY <1>4, <2>2, <2>3 DEF Commit, PersistFails, LoadReturns
  <1>5. CASE Join
    <2>1. PICK since \in 0..MAX_SAFE_ID :
            IF message_id_counter_valid
            THEN /\ pc' = "replay"
                 /\ replay' = [NoReplay EXCEPT !.since = since, !.cursor = since,
                                               !.until = message_id_counter]
            ELSE /\ pc' = "load"
                 /\ replay' = [NoReplay EXCEPT !.since = since]
      BY <1>5 DEF Join
    <2>2. CASE message_id_counter_valid
      <3>1. /\ replay'.since = since /\ replay'.cursor = since
            /\ replay'.until = message_id_counter /\ replay'.replayed = 0
            /\ replay'.sent = {}
        BY <2>1, <2>2 DEF NoReplay
      <3>2. Retained' = Retained /\ message_id_counter' = message_id_counter
        BY <1>1, <1>5, RingUnchanged DEF Join, ctx
      <3>3. {n \in Retained : n > since /\ n <= since} = {}
        BY <1>1, RetainedBelowCounter, SizeAssumption DEF Ids
      <3>4. since <= since
        BY SizeAssumption
      <3> QED
        BY <2>1, <2>2, <3>1, <3>2, <3>3, <3>4 DEF ReplayInv, Writing
    <2>3. CASE ~ message_id_counter_valid
      BY <1>5, <2>1, <2>3 DEF Join, ReplayInv, NoReplay, Writing
    <2> QED
      BY <2>2, <2>3
  <1>6. CASE ReplayStep
    <2> DEFINE m == Min(ReplayCandidates)
    <2>1. /\ pc = "replay" /\ ReplayCandidates # {} /\ pc' = "replay"
          /\ replay' = [replay EXCEPT !.cursor = m, !.replayed = @ + 1,
                                      !.sent = @ \cup {m}]
      BY <1>6 DEF ReplayStep, ReplayContinues
    <2>2. /\ m \in ReplayCandidates /\ m \in Ids
          /\ \A n \in ReplayCandidates : m <= n
          /\ m > message_id_counter - MAX_MESSAGES
      BY <2>1, NextCandidate
    <2> HIDE DEF m
    <2>3. /\ replay'.since = replay.since /\ replay'.cursor = m
          /\ replay'.until = replay.until /\ replay'.replayed = replay.replayed + 1
          /\ replay'.sent = replay.sent \cup {m}
      BY <1>1, <2>1 DEF TypeOK
    <2>4. Retained' = Retained /\ message_id_counter' = message_id_counter
      BY <1>1, <1>6, RingUnchanged DEF ReplayStep, ReplayContinues, ctx
    <2>5. /\ replay.until = message_id_counter /\ replay.since <= replay.cursor
          /\ replay.replayed > 0 =>
               replay.cursor >= message_id_counter - MAX_MESSAGES + replay.replayed
          /\ replay.sent = {n \in Retained : n > replay.since /\ n <= replay.cursor}
      BY <1>1, <2>1 DEF ReplayInv
    <2>6. /\ replay.since \in Nat /\ replay.cursor \in Nat
          /\ replay.replayed \in Nat /\ message_id_counter \in Nat
          /\ MAX_MESSAGES \in Nat /\ m \in Nat
      BY <1>1, <2>2, SizeAssumption DEF TypeOK, Ids
    <2>7. m > replay.cursor /\ m <= message_id_counter /\ m \in Retained
      BY <2>2, <2>5 DEF ReplayCandidates
    <2>8. /\ replay.since <= m /\ replay.replayed + 1 # 0
          /\ m >= message_id_counter - MAX_MESSAGES + (replay.replayed + 1)
      BY <2>2, <2>5, <2>6, <2>7
    <2>9. replay.sent \cup {m} = {n \in Retained : n > replay.since /\ n <= m}
      <3>1. Retained \subseteq Nat /\ \A n \in Retained : n <= message_id_counter
        BY <1>1, RetainedBelowCounter DEF Ids
      <3>2. \A n \in Retained : n > replay.cursor /\ n <= m => n = m
        BY <2>2, <2>5, <2>6, <3>1 DEF ReplayCandidates
      <3>3. \A n \in Retained : n <= m <=> n <= replay.cursor \/ n = m
        BY <2>6, <2>7, <3>1, <3>2
      <3>4. m > replay.since
        BY <2>5, <2>6, <2>7
      <3> QED
        BY <2>5, <2>7, <3>3, <3>4
    <2> QED
      BY <2>1, <2>3, <2>4, <2>5, <2>8, <2>9 DEF ReplayInv, Writing
  <1>7. CASE ReplayDone
    <2>1. /\ pc = "replay" /\ pc' = "info" /\ UNCHANGED replay
          /\ \/ ~ (replay.replayed < MAX_MESSAGES)
             \/ ~ (replay.cursor < replay.until)
             \/ ReplayCandidates = {}
      BY <1>7 DEF ReplayDone, ReplayContinues
    <2>2. Retained' = Retained
      BY <1>1, <1>7, RingUnchanged DEF ReplayDone, ReplayContinues
    <2>3. /\ replay.until = message_id_counter /\ replay.since <= replay.cursor
          /\ replay.replayed > 0 =>
               replay.cursor >= message_id_counter - MAX_MESSAGES + replay.replayed
          /\ replay.sent = {n \in Retained : n > replay.since /\ n <= replay.cursor}
      BY <1>1, <2>1 DEF ReplayInv
    <2>4. Retained \subseteq Nat /\ \A n \in Retained : n <= message_id_counter
      BY <1>1, RetainedBelowCounter DEF Ids
    <2>5. /\ replay.since \in Nat /\ replay.cursor \in Nat
          /\ replay.replayed \in Nat /\ message_id_counter \in Nat
          /\ MAX_MESSAGES \in Nat \ {0}
      BY <1>1, SizeAssumption DEF TypeOK
    <2>6. \A n \in Retained : n <= replay.cursor
      BY <2>1, <2>3, <2>4, <2>5 DEF ReplayCandidates
    <2>7. replay.sent = {n \in Retained : n > replay.since}
      BY <2>3, <2>6
    <2> QED
      BY <2>1, <2>2, <2>7 DEF ReplayInv, Writing
  <1>8. CASE UNCHANGED vars
    BY <1>1, <1>8 DEF ReplayInv, vars, ctx, Retained
  <1> QED
    BY <1>2, <1>3, <1>4, <1>5, <1>6, <1>7, <1>8 DEF Next

\* IInv holds in every reachable state.
THEOREM Inductive == Spec => []IInv
  <1>1. IInv /\ [Next]_vars => IInv'
    BY TypeStep, RingStep, CounterStep, ControlStep, ReplayStepInv DEF IInv
  <1> QED
    BY InitIInv, <1>1, PTL DEF Spec

-----------------------------------------------------------------------------
(* The properties the runs check, for every ring size and id limit *)

\* Types are kept.
THEOREM TypeCorrect == Spec => []TypeOK
  BY Inductive, PTL DEF IInv

\* The flash covers every id a browser has seen.
THEOREM Durable == Spec => []DurableCoversPublished
  <1>1. IInv => DurableCoversPublished
    BY DEF IInv, CounterInv, DurableCoversPublished
  <1> QED
    BY <1>1, Inductive, PTL

\* No two slots hold the same id.
LEMMA SlotsDiffer ==
    ASSUME TypeOK, RingInv
    PROVE  \A i, j \in Slots :
              message_buffer[i] = message_buffer[j] /\ message_buffer[i] # 0 => i = j
  <1> SUFFICES ASSUME NEW i \in Slots, NEW j \in Slots,
                      message_buffer[i] = message_buffer[j], message_buffer[i] # 0
               PROVE  i = j
    OBVIOUS
  <1>1. message_buffer[i] = SlotId(i) /\ message_buffer[j] = SlotId(j)
    BY DEF RingInv
  <1>2. SlotId(i) = SlotId(j) /\ SlotId(i) # 0
    BY <1>1
  <1>3. Age(i) \in Int /\ Age(j) \in Int /\ message_id_counter \in Int
    BY SizeAssumption DEF Age, TypeOK, Slots
  <1>4. Age(i) = Age(j)
    BY <1>2, <1>3 DEF SlotId
  <1> QED
    BY <1>4, SizeAssumption DEF Age, TypeOK, Slots

\* The ring holds the newest messages of this boot, once each.
THEOREM RingCorrect == Spec => []RingHoldsRecent
  <1>1. IInv => RingHoldsRecent
    BY RetainedCases, SlotsDiffer DEF IInv, RingHoldsRecent, Window
  <1> QED
    BY <1>1, Inductive, PTL

\* Where the boundary of historyInfo lies when the ring is the window.
LEMMA RestoreBound ==
    ASSUME TypeOK, RingInv, boot_start_id <= message_id_counter + 1,
           Retained = Window, NEW n \in Ids, n <= message_id_counter
    PROVE  n \in Retained \/ n < Bounds.restore_before_id
  <1>1. Bounds.restore_before_id =
           IF Retained = {} THEN boot_start_id ELSE Min(Retained)
    BY DEF Bounds
  <1>2. /\ message_id_counter \in Nat /\ boot_start_id \in Nat \ {0}
        /\ MAX_MESSAGES \in Nat \ {0} /\ n \in Nat
    BY SizeAssumption DEF TypeOK, Ids
  <1>3. CASE message_id_counter < boot_start_id
    <2>1. Retained = {}
      BY <1>2, <1>3 DEF Window
    <2> QED
      BY <1>1, <1>2, <1>3, <2>1
  <1>4. CASE message_id_counter >= boot_start_id
    <2> DEFINE m == IF boot_start_id > message_id_counter - MAX_MESSAGES
                    THEN boot_start_id ELSE message_id_counter - MAX_MESSAGES + 1
    <2>1. m \in Retained /\ Retained \in SUBSET Int /\ \A k \in Retained : m <= k
      BY <1>2, <1>4 DEF Window
    <2>2. n \in Retained \/ n < m
      BY <1>2 DEF Window
    <2>3. Min(Retained) = m
      <3> HIDE DEF m
      <3> QED BY <2>1, MinIs
    <2> HIDE DEF m
    <2> QED
      BY <1>1, <2>1, <2>2, <2>3
  <1> QED
    BY <1>2, <1>3, <1>4

\* historyInfo never hides a published message.
LEMMA RestorableInv == IInv => RestorableOrRetained
  <1> SUFFICES ASSUME IInv, message_id_counter_valid, NEW n \in published
               PROVE  \/ n \in Retained
                      \/ n < Bounds.restore_before_id
                      \/ n = MAX_SAFE_ID /\ BootedExhausted
    BY DEF RestorableOrRetained
  <1>1. /\ TypeOK /\ RingInv /\ n \in Ids /\ n <= message_id_counter
        /\ boot_start_id <= message_id_counter + 1
    BY DEF IInv, TypeOK, CounterInv
  <1>2. CASE Retained = Window
    BY <1>1, <1>2, RestoreBound
  <1>3. CASE BootedExhausted
    <2>1. Bounds.restore_before_id = MAX_SAFE_ID
      BY <1>3 DEF BootedExhausted, Bounds
    <2> QED
      BY <1>1, <1>3, <2>1, SizeAssumption DEF Ids
  <1> QED
    BY <1>1, <1>2, <1>3, RetainedCases

\* historyInfo never hides a published message, in every reachable state.
THEOREM Restorable == Spec => []RestorableOrRetained
  BY RestorableInv, Inductive, PTL

\* An interrupted replay has sent a gap-free prefix.
THEOREM ReplayPrefix == Spec => []ReplayIsPrefix
  <1>1. IInv => ReplayIsPrefix
    BY DEF IInv, ReplayInv, ReplayIsPrefix
  <1> QED
    BY <1>1, Inductive, PTL

\* A completed join accounts for every published id.
THEOREM NoGap == Spec => []JoinLeavesNoGap
  <1>1. IInv => JoinLeavesNoGap
    <2> SUFFICES ASSUME IInv, pc = "info", NEW n \in published
                 PROVE  \/ n <= replay.since
                        \/ n \in replay.sent
                        \/ n < Bounds.restore_before_id
                        \/ n = MAX_SAFE_ID /\ BootedExhausted
      BY DEF JoinLeavesNoGap
    <2>1. /\ message_id_counter_valid
          /\ replay.sent = {k \in Retained : k > replay.since}
      BY DEF IInv, ControlInv, ReplayInv
    <2>2. n \in Nat /\ replay.since \in Nat
      BY SizeAssumption DEF IInv, TypeOK, Ids
    <2>3. \/ n \in Retained
          \/ n < Bounds.restore_before_id
          \/ n = MAX_SAFE_ID /\ BootedExhausted
      BY <2>1, RestorableInv DEF RestorableOrRetained
    <2> QED
      BY <2>1, <2>2, <2>3
  <1> QED
    BY <1>1, Inductive, PTL

\* RetainedCases for a state of the specification, so that it can be primed.
RingIsWindow == Retained = Window \/ BootedExhausted

\* It follows from the invariant.
LEMMA RetainedInv == IInv => RingIsWindow
  BY RetainedCases DEF IInv, RingIsWindow

\* The commit of a new message is a Store of the abstract log.
LEMMA CommitIsStore ==
    ASSUME IInv, IInv', Commit, caller = "store"
    PROVE  Log!Store
  <1>1. /\ StoreMessage /\ published' = published
        /\ message_id_counter_valid /\ arg = message_id_counter + 1
        /\ boot_start_id <= message_id_counter + 1
        /\ \A n \in published : n <= message_id_counter
    BY DEF Commit, IInv, ControlInv, CounterInv, Writing, Loaders
  <1>2. /\ message_id_counter \in Nat /\ boot_start_id \in Nat
        /\ MAX_MESSAGES \in Nat \ {0} /\ MAX_SAFE_ID \in Nat /\ arg \in Nat
        /\ arg <= MAX_SAFE_ID /\ message_id_counter < MAX_SAFE_ID
        /\ published \subseteq Ids
    BY <1>1, SizeAssumption DEF IInv, TypeOK, Ids
  <1>3. Retained = Window
    BY <1>2, RetainedCases DEF IInv, BootedExhausted
  <1>4. Retained' = Window'
    <2>1. message_id_counter' \in Retained'
      BY <1>1, <1>2, StoredIsRetained DEF IInv
    <2>2. RingIsWindow'
      BY RetainedInv, PTL
    <2> QED
      BY <2>1, <2>2 DEF RingIsWindow, BootedExhausted
  <1>5. message_id_counter' = arg /\ boot_start_id' = boot_start_id
    BY <1>1 DEF StoreMessage
  <1>6. arg \in 1..MAX_SAFE_ID
    BY <1>1, <1>2
  <1>7. \A n \in published \cup Retained : n < arg
    BY <1>1, <1>2, <1>3 DEF Window, Ids
  <1>8. Retained' = {n \in Retained \cup {arg} : n > arg - MAX_MESSAGES}
    BY <1>1, <1>2, <1>3, <1>4, <1>5 DEF Window
  <1> QED
    BY <1>1, <1>6, <1>7, <1>8 DEF Log!Store

\* Every step of the server is a step of the abstract log or leaves it alone.
LEMMA StepRefines ==
    ASSUME IInv, IInv', [Next]_vars
    PROVE  [Log!Next]_(Log!vars)
  <1>1. CASE UNCHANGED <<ctx, published>>
    BY <1>1 DEF Log!vars, Retained, ctx
  <1>2. CASE PowerOn
    <2>1. Retained = {} /\ Retained' = {}
      BY <1>2 DEF IInv, ControlInv, CounterInv, PowerOn, Retained, ctx
    <2> QED
      BY <1>2, <2>1 DEF PowerOn, Log!Next, Log!Erase, Log!vars
  <1>3. CASE Commit /\ caller = "store"
    BY <1>3, CommitIsStore DEF Log!Next
  <1>4. CASE (Commit \/ PersistFails) /\ caller \in Loaders
    <2>1. LoadReturns /\ ~ message_id_counter_valid
      BY <1>4 DEF Commit, PersistFails, IInv, ControlInv, Writing, Loaders
    <2>2. Retained' = {} /\ Retained = {}
      BY <2>1, LoadRing DEF IInv, CounterInv, Retained
    <2> QED
      BY <2>1, <2>2 DEF LoadReturns, Log!vars
  <1>5. CASE PersistFails /\ caller = "store"
    BY <1>1, <1>5 DEF PersistFails, Loaders
  <1>6. CASE Deliver
    <2>1. message_id_counter \in Retained
          /\ \A n \in published : n < message_id_counter
      BY <1>6 DEF Deliver, IInv, ControlInv
    <2>2. Retained' = Retained
      BY <1>6 DEF Deliver, ctx, Retained
    <2> QED
      BY <1>6, <2>1, <2>2 DEF Deliver, Log!Next, Log!Publish
  <1>7. CASE Crash
    <2>1. Retained' = {} /\ published' = published
      BY <1>7 DEF Crash, Retained
    <2> QED
      BY <2>1 DEF Log!Next, Log!Restart
  <1>8. caller \in Loaders \cup {"store"}
    BY DEF IInv, TypeOK
  <1> QED
    BY <1>1, <1>2, <1>3, <1>4, <1>5, <1>6, <1>7, <1>8 DEF Next, vars, LoadReads,
       LoadReadError, SetCurrent, SetBootStart, Join, Chat, Finalize,
       FinalizeFails, ReplayStep, ReplayDone, ReplayFails, SendInfo

\* The detailed store with its flash, ring and crashes implements the log.
THEOREM Refinement == Spec => ImplementsLog
  <1>1. Init => Log!Init
    BY DEF Init, Log!Init, Retained
  <1>2. IInv /\ IInv' /\ [Next]_vars => [Log!Next]_(Log!vars)
    BY StepRefines
  <1> QED
    BY <1>1, <1>2, Inductive, PTL DEF Spec, ImplementsLog, Log!Spec
=============================================================================
