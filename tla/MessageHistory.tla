--------------------------- MODULE MessageHistory ---------------------------
(***************************************************************************)
(* The server's message ids and message history: the persistent id store   *)
(* (storage/message_id_store.c), the RAM ring buffer of recent messages    *)
(* and its replay to a joining browser (chat/history.c), with power loss   *)
(* or restart between any two steps and flash operations that fail.        *)
(*                                                                         *)
(* Every operation runs on the HTTPD task, so at most one is in progress:  *)
(* pc is where that task stands.  A message is its id; 0 is a NULL payload.*)
(***************************************************************************)
EXTENDS Integers, FiniteSets, FiniteSetsExt

CONSTANTS
    MAX_MESSAGES,   \* chat_config.h: slots of the ring buffer
    MAX_SAFE_ID     \* chat_config.h: CHAT_MESSAGE_MAX_SAFE_ID

ASSUME SizeAssumption ==
    /\ MAX_MESSAGES \in Nat \ {0}
    /\ MAX_SAFE_ID \in Nat \ {0}

VARIABLES
    pc,             \* where the HTTPD task (or app_main) stands
    caller,         \* who waits for load or persist to return
    arg,            \* current_id handed to chat_message_ids_persist
    nvs_current,    \* key "current" in flash; an absent key reads as 0
    message_id_counter, message_id_counter_valid, boot_start_id,
    message_buffer, message_buffer_head,
    replay,         \* the locals of chat_history_send_to_client
    published       \* history variable: ids broadcast since the last erase

ctx == <<message_id_counter, message_id_counter_valid, boot_start_id,
         message_buffer, message_buffer_head>>
vars == <<pc, caller, arg, nvs_current, ctx, replay, published>>

Slots == 0..(MAX_MESSAGES - 1)
Ids == 1..MAX_SAFE_ID
NoReplay == [since |-> 0, cursor |-> 0, until |-> 0, replayed |-> 0, sent |-> {}]

Writing == {"set_current", "set_boot_start", "commit"}
Loaders == {"app_main", "join", "chat"}

\* Ids that have a payload in the ring.
Retained == {message_buffer[i] : i \in Slots} \ {0}

-----------------------------------------------------------------------------
(* Pure parts of the code.  A definition called Bad... is a plausible bug   *)
(* in the definition after it; nothing uses it.                             *)

\* chat_message_ids_load clamps what it read to the largest safe id.
BadLoadedId == nvs_current
LoadedId == IF nvs_current > MAX_SAFE_ID THEN MAX_SAFE_ID ELSE nvs_current

\* First id this boot can assign; stuck at the limit once ids are used up.
BootStart(current_id) ==
    IF current_id < MAX_SAFE_ID THEN current_id + 1 ELSE MAX_SAFE_ID

\* chat_history_fill_bounds_locked: what historyInfo tells browsers.
BadBounds ==
    [boot_start_id |-> boot_start_id, current_id |-> message_id_counter,
     count |-> Cardinality(Retained),
     earliest_id |-> IF Retained = {} THEN 0 ELSE Min(Retained),
     latest_id |-> IF Retained = {} THEN 0 ELSE Max(Retained),
     restore_before_id |-> boot_start_id,
     has_more_before |-> boot_start_id > 1]
Bounds ==
    LET restore == IF Retained = {} THEN boot_start_id ELSE Min(Retained)
    IN  [boot_start_id |-> boot_start_id, current_id |-> message_id_counter,
         count |-> Cardinality({i \in Slots : message_buffer[i] # 0}),
         earliest_id |-> IF Retained = {} THEN 0 ELSE Min(Retained),
         latest_id |-> IF Retained = {} THEN 0 ELSE Max(Retained),
         restore_before_id |-> restore,
         has_more_before |-> restore > 1]

\* Messages the replay loop can still pick.
ReplayCandidates == {n \in Retained : n > replay.cursor /\ n <= replay.until}

\* The replay loop sends another message: its bound, its cursor, a candidate.
BadReplayContinues ==
    /\ replay.replayed < MAX_MESSAGES - 1 /\ replay.cursor < replay.until
    /\ ReplayCandidates # {}
ReplayContinues ==
    /\ replay.replayed < MAX_MESSAGES /\ replay.cursor < replay.until
    /\ ReplayCandidates # {}

-----------------------------------------------------------------------------
Init ==
    /\ pc = "off" /\ caller = "app_main" /\ arg = 0
    /\ nvs_current \in 0..(MAX_SAFE_ID + 1)
    /\ message_id_counter = 0 /\ message_id_counter_valid = FALSE
    /\ boot_start_id = 1
    /\ message_buffer = [i \in Slots |-> 0] /\ message_buffer_head = 0
    /\ replay = NoReplay /\ published = {}

\* app_main: nvs_flash_init, which formats the partition when it reports no
\* free pages or a new version, then chat_message_ids_load.
PowerOn ==
    /\ pc = "off"
    /\ pc' = "load" /\ caller' = "app_main"
    /\ \/ UNCHANGED <<nvs_current, published>>
       \/ nvs_current' = 0 /\ published' = {}
    /\ UNCHANGED <<arg, ctx, replay>>

\* chat_message_ids_load reads "current" (an absent key is 0) and persists.
LoadReads ==
    /\ pc = "load"
    /\ arg' = LoadedId
    /\ pc' = "set_current"
    /\ UNCHANGED <<caller, nvs_current, ctx, replay, published>>

\* Any other read error: counter_loaded stays false; app_main starts the
\* server without ids, a join is refused, a chat message is rejected.
BadLoadReadError ==
    /\ pc = "load"
    /\ message_id_counter_valid' = TRUE
    /\ pc' = "idle" /\ replay' = NoReplay
    /\ UNCHANGED <<caller, arg, nvs_current, message_id_counter, boot_start_id,
                   message_buffer, message_buffer_head, published>>
LoadReadError ==
    /\ pc = "load"
    /\ pc' = "idle" /\ replay' = NoReplay
    /\ UNCHANGED <<caller, arg, nvs_current, ctx, published>>

SetCurrent ==
    /\ pc = "set_current" /\ pc' = "set_boot_start"
    /\ UNCHANGED <<caller, arg, nvs_current, ctx, replay, published>>

SetBootStart ==
    /\ pc = "set_boot_start" /\ pc' = "commit"
    /\ UNCHANGED <<caller, arg, nvs_current, ctx, replay, published>>

\* chat_history_send_to_client starts: replay_until is a snapshot.
StartReplay(counter) ==
    /\ pc' = "replay"
    /\ replay' = [replay EXCEPT !.cursor = replay.since, !.until = counter]

\* What a caller of chat_message_ids_load does with counter_loaded = true,
\* whether or not the persist inside load succeeded.
LoadReturns ==
    /\ message_id_counter' = arg
    /\ message_id_counter_valid' = TRUE
    /\ boot_start_id' = BootStart(arg)
    /\ UNCHANGED <<message_buffer, message_buffer_head, caller, arg, published>>
    /\ \/ caller = "app_main" /\ pc' = "idle" /\ UNCHANGED replay
       \/ caller = "join" /\ StartReplay(arg)
       \/ caller = "chat" /\ pc' = "finalize" /\ UNCHANGED replay

\* The ring update of chat_history_finalize_and_store_message.
BadStoreMessage ==
    /\ message_id_counter' = arg
    /\ message_buffer' = [message_buffer EXCEPT ![message_buffer_head] = arg]
    /\ message_buffer_head' = IF message_buffer_head + 1 > MAX_MESSAGES - 1
                              THEN message_buffer_head ELSE message_buffer_head + 1
    /\ UNCHANGED <<message_id_counter_valid, boot_start_id>>
StoreMessage ==
    /\ message_id_counter' = arg
    /\ message_buffer' = [message_buffer EXCEPT ![message_buffer_head] = arg]
    /\ message_buffer_head' = (message_buffer_head + 1) % MAX_MESSAGES
    /\ UNCHANGED <<message_id_counter_valid, boot_start_id>>

\* nvs_commit succeeds and chat_message_ids_persist returns ESP_OK.
BadCommit ==
    /\ pc = "commit"
    /\ nvs_current' = IF caller = "store" THEN arg - 1 ELSE arg
    /\ \/ caller \in Loaders /\ LoadReturns
       \/ /\ caller = "store" /\ StoreMessage /\ pc' = "deliver"
          /\ UNCHANGED <<caller, arg, replay, published>>
Commit ==
    /\ pc = "commit"
    /\ nvs_current' = arg
    /\ \/ caller \in Loaders /\ LoadReturns
       \/ /\ caller = "store" /\ StoreMessage /\ pc' = "deliver"
          /\ UNCHANGED <<caller, arg, replay, published>>

\* nvs_open, either nvs_set_u64 or nvs_commit fails.  A failed write may
\* still have reached the flash.  A load carries on; a store gives up.
PersistFails ==
    /\ pc \in Writing
    /\ nvs_current' \in {nvs_current, arg}
    /\ \/ caller \in Loaders /\ LoadReturns
       \/ /\ caller = "store" /\ pc' = "idle"
          /\ UNCHANGED <<caller, arg, ctx, replay, published>>

\* A validated join frame: chat_history_ensure_id_state, then the replay.
Join ==
    /\ pc = "idle"
    /\ caller' = "join"
    /\ \E since \in 0..MAX_SAFE_ID :
         IF message_id_counter_valid
         THEN /\ pc' = "replay"
              /\ replay' = [NoReplay EXCEPT !.since = since, !.cursor = since,
                                            !.until = message_id_counter]
         ELSE /\ pc' = "load"
              /\ replay' = [NoReplay EXCEPT !.since = since]
    /\ UNCHANGED <<arg, nvs_current, ctx, published>>

\* A validated chat frame: chat_history_finalize_and_store_message.
Chat ==
    /\ pc = "idle"
    /\ caller' = "chat"
    /\ pc' = IF message_id_counter_valid THEN "finalize" ELSE "load"
    /\ UNCHANGED <<arg, nvs_current, ctx, replay, published>>

\* The new id goes to flash before it goes anywhere else.
Finalize ==
    /\ pc = "finalize"
    /\ message_id_counter < MAX_SAFE_ID
    /\ arg' = message_id_counter + 1
    /\ caller' = "store" /\ pc' = "set_current"
    /\ UNCHANGED <<nvs_current, ctx, replay, published>>

\* Ids are used up, or the payload cannot be allocated.
FinalizeFails ==
    /\ pc = "finalize" /\ pc' = "idle"
    /\ UNCHANGED <<caller, arg, nvs_current, ctx, replay, published>>

\* handle_chat broadcasts the stored payload, then the new historyInfo.
Deliver ==
    /\ pc = "deliver" /\ pc' = "idle"
    /\ published' = published \cup {message_id_counter}
    /\ UNCHANGED <<caller, arg, nvs_current, ctx, replay>>

\* One iteration of the replay loop: the next id in order is copied and sent.
BadReplayOrder ==
    /\ pc = "replay"
    /\ ReplayContinues
    /\ replay' = [replay EXCEPT !.cursor = Max(ReplayCandidates),
                                !.replayed = @ + 1,
                                !.sent = @ \cup {Max(ReplayCandidates)}]
    /\ UNCHANGED <<pc, caller, arg, nvs_current, ctx, published>>
ReplayStep ==
    /\ pc = "replay"
    /\ ReplayContinues
    /\ replay' = [replay EXCEPT !.cursor = Min(ReplayCandidates),
                                !.replayed = @ + 1,
                                !.sent = @ \cup {Min(ReplayCandidates)}]
    /\ UNCHANGED <<pc, caller, arg, nvs_current, ctx, published>>

\* The loop ends (its bound, its cursor, or no candidate) and returns ESP_OK.
ReplayDone ==
    /\ pc = "replay"
    /\ ~ ReplayContinues
    /\ pc' = "info"
    /\ UNCHANGED <<caller, arg, nvs_current, ctx, replay, published>>

\* The copy cannot be allocated or the send fails: the client is dropped.
ReplayFails ==
    /\ pc = "replay"
    /\ ReplayContinues
    /\ pc' = "idle" /\ replay' = NoReplay
    /\ UNCHANGED <<caller, arg, nvs_current, ctx, published>>

\* chat_history_send_info_to_client: the joining browser learns Bounds.
SendInfo ==
    /\ pc = "info"
    /\ pc' = "idle" /\ replay' = NoReplay
    /\ UNCHANGED <<caller, arg, nvs_current, ctx, published>>

\* Power loss, panic or esp_restart.  A write in progress may have landed.
Crash ==
    /\ pc # "off" /\ pc' = "off"
    /\ nvs_current' \in IF pc \in Writing THEN {nvs_current, arg} ELSE {nvs_current}
    /\ caller' = "app_main" /\ arg' = 0 /\ replay' = NoReplay
    /\ message_id_counter' = 0 /\ message_id_counter_valid' = FALSE
    /\ boot_start_id' = 1
    /\ message_buffer' = [i \in Slots |-> 0] /\ message_buffer_head' = 0
    /\ UNCHANGED published

Next ==
    \/ PowerOn \/ LoadReads \/ LoadReadError
    \/ SetCurrent \/ SetBootStart \/ Commit \/ PersistFails
    \/ Join \/ Chat \/ Finalize \/ FinalizeFails \/ Deliver
    \/ ReplayStep \/ ReplayDone \/ ReplayFails \/ SendInfo
    \/ Crash

Spec == Init /\ [][Next]_vars

-----------------------------------------------------------------------------
(* Properties *)

TypeOK ==
    /\ pc \in Writing \cup {"off", "load", "idle", "finalize", "deliver",
                           "replay", "info"}
    /\ caller \in Loaders \cup {"store"}
    /\ arg \in 0..MAX_SAFE_ID
    /\ nvs_current \in 0..(MAX_SAFE_ID + 1)
    /\ message_id_counter \in 0..MAX_SAFE_ID
    /\ message_id_counter_valid \in BOOLEAN
    /\ boot_start_id \in Ids
    /\ message_buffer \in [Slots -> 0..MAX_SAFE_ID]
    /\ message_buffer_head \in Slots
    /\ replay \in [since : 0..MAX_SAFE_ID, cursor : 0..MAX_SAFE_ID,
                   until : 0..MAX_SAFE_ID, replayed : 0..MAX_MESSAGES,
                   sent : SUBSET Ids]
    /\ published \in SUBSET Ids

\* The flash is never behind an id some browser has seen, whatever write
\* failed and wherever the power went: a restart continues above it.
DurableCoversPublished == \A n \in published : n <= nvs_current

\* A server that starts after the last id was used keeps an empty ring and
\* has no id left to name as the first of this boot.
BootedExhausted ==
    /\ message_id_counter = MAX_SAFE_ID /\ boot_start_id = MAX_SAFE_ID
    /\ Retained = {}

\* The ring holds exactly the newest MAX_MESSAGES ids of this boot, each in
\* one slot: wrapping and failed stores neither lose nor repeat one.
RingHoldsRecent ==
    message_id_counter_valid =>
        \/ BootedExhausted
        \/ /\ Retained = {n \in boot_start_id..message_id_counter :
                             n > message_id_counter - MAX_MESSAGES}
           /\ \A i, j \in Slots :
                 message_buffer[i] = message_buffer[j] /\ message_buffer[i] # 0
                     => i = j

\* historyInfo never hides a message: every published id can be replayed by
\* the server or lies below restore_before_id, where browsers ask each other.
\* (The one exception is the very last id, after a restart.)
RestorableOrRetained ==
    message_id_counter_valid =>
        \A n \in published :
            \/ n \in Retained
            \/ n < Bounds.restore_before_id
            \/ n = MAX_SAFE_ID /\ BootedExhausted

\* At any moment of a replay, so also when a send fails, the browser has got
\* a gap-free prefix of what it misses: its cursor may follow the last one.
ReplayIsPrefix ==
    pc = "replay" =>
        replay.sent = {n \in Retained : n > replay.since /\ n <= replay.cursor}

\* A completed join accounts for every published id: the browser had it
\* (since_id), was sent it, or is told to ask other browsers for it.
JoinLeavesNoGap ==
    pc = "info" =>
        \A n \in published :
            \/ n <= replay.since
            \/ n \in replay.sent
            \/ n < Bounds.restore_before_id
            \/ n = MAX_SAFE_ID /\ BootedExhausted

Log == INSTANCE MessageLog WITH window <- Retained

\* Ids are unique and increasing across restarts, crashes and failed writes,
\* and the ring is the promised window: the store implements MessageLog.
ImplementsLog == Log!Spec
=============================================================================
