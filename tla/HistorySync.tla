---------------------------- MODULE HistorySync ----------------------------
(***************************************************************************)
(* What the browsers keep of the chat and how they stay in step with the   *)
(* server: the message cache and the replay cursor of script.js, in RAM    *)
(* and in localStorage, whose writes may fail; the join with its replay;   *)
(* live messages; and the recovery of old messages from other browsers,    *)
(* which the server relays and checks (chat/protocol.c).                   *)
(*                                                                         *)
(* The server's store is taken as MessageLog promises it (MessageHistory   *)
(* implements that): a window of the newest ids of this boot, lost at a    *)
(* restart.  A message is its id, the set of users who may see it, and the *)
(* era (number of times the flash was erased) it belongs to.               *)
(***************************************************************************)
EXTENDS Integers, Sequences, FiniteSets, FiniteSetsExt, SequencesExt

CONSTANTS
    BROWSERS,           \* users, one page each
    Audiences,          \* sets of browsers a message may be visible to
    MAX_MESSAGES,       \* chat_config.h: ids the window keeps
    MAX_LOCAL_MESSAGES, \* script.js: messages the cache keeps
    MaxId,              \* bound: ids ever given in one era
    MaxInbox,           \* bound: frames on their way to one browser
    Fragile,            \* browsers that reload, lose connections and fail to write
    Asking,             \* browsers that start recoveries
    MaxRequests,        \* bound: recoveries a browser starts
    MaxErases           \* bound: times the server's flash is erased

ASSUME HistorySyncAssumption ==
    /\ Fragile \subseteq BROWSERS /\ Asking \subseteq BROWSERS
    /\ Audiences \subseteq SUBSET BROWSERS
    /\ {MAX_MESSAGES, MAX_LOCAL_MESSAGES, MaxId, MaxInbox} \subseteq Nat \ {0}
    /\ {MaxRequests, MaxErases} \subseteq Nat

VARIABLES
    window, boot_start_id, current_id,      \* the server
    era, published,     \* history variables: erases so far, messages ever sent
    linked,             \* browsers with a joined session on the server
    inbox,              \* frames on their way to each browser
    cache, lastSeenId,  \* allMessages and the replay cursor in RAM
    disk,               \* localStorage: snapshot of the cache, and the cursor
    historyInfo,        \* restore_before_id as last heard, 0 when never
    wsJoined,           \* the join was confirmed on the current socket
    activeRecovery,     \* the recovery in progress, or NoRecovery
    requests,           \* recoveries started so far (they name the request)
    answered            \* history variable: whose answers to the active
                        \* recovery were all relayed, and who was not reloaded since

server == <<window, boot_start_id, current_id, era, published>>
page == <<cache, lastSeenId, disk, historyInfo, wsJoined, activeRecovery, requests>>
vars == <<server, linked, inbox, page, answered>>

Messages == [id : 1..MaxId, seen_by : Audiences, era : 0..MaxErases]
NoRecovery == [request |-> 0, before |-> 0]
Empty == [regular |-> {}, recovered |-> {}]

Text(m) == [type |-> "text", message |-> m]
Info(n) == [type |-> "historyInfo", restore_before_id |-> n]
\* The presence list that confirms a join, taken to be built (see Sessions).
OnlineUsers == [type |-> "onlineUsers"]
Request(b, r, n) == [type |-> "historyRequest", from |-> b, request |-> r,
                     restore_before_id |-> n]
Response(r, m) == [type |-> "historyResponse", request |-> r, message |-> m]

-----------------------------------------------------------------------------
(* Pure parts of the code; Bad... definitions are plausible bugs in the one *)
(* after them, and nothing uses them.                                       *)

Ids(S) == {m.id : m \in S}
ById(S) == CHOOSE s \in [1..Cardinality(S) -> S] :
                \A i, j \in 1..Cardinality(S) : i < j => s[i].id < s[j].id
Newest(S, n) == {m \in S : Cardinality({x \in S : x.id > m.id}) < n}

\* Half of the cache is reserved for live messages.
Half == (MAX_LOCAL_MESSAGES + 1) \div 2

\* saveMessages: what stays when the cache is over its limit.
Capped(c) ==
    LET live == Cardinality(c.regular)
        slots == Min({live, Max({MAX_LOCAL_MESSAGES - Cardinality(c.recovered), Half})})
    IN  IF live + Cardinality(c.recovered) <= MAX_LOCAL_MESSAGES THEN c
        ELSE [regular |-> Newest(c.regular, slots),
              recovered |-> Newest(c.recovered, MAX_LOCAL_MESSAGES - slots)]

\* chat_history_fill_bounds_locked: below this id the server replays nothing.
RestoreBefore(w, boot) == IF w = {} THEN boot ELSE Min(Ids(w))
Boundary == RestoreBefore(window, boot_start_id)

Stored(c) == c.regular \cup c.recovered
Writes(b) == IF b \in Fragile THEN BOOLEAN ELSE {TRUE}

\* The messages of localStorage, and the cursor a page starts with.
Snapshot(d) == [regular |-> d.regular, recovered |-> d.recovered]
ReloadCursor(d) == Max({d.cursor} \cup Ids(d.regular))

\* The join replays what the window holds above the browser's cursor.
BadNewestFirst(since) == Reverse(ById({m \in window : m.id > since}))
BadReplay(since) == ById({m \in window : m.id > since + 1})
Replay(since) == ById({m \in window : m.id > since})

\* Frames appended for every browser that has a joined session.
Broadcast(frames) ==
    [b \in BROWSERS |-> IF b \in linked THEN inbox[b] \o frames ELSE inbox[b]]
Room(n) == \A b \in linked : Len(inbox[b]) + n <= MaxInbox

-----------------------------------------------------------------------------
Init ==
    /\ window = {} /\ boot_start_id = 1 /\ current_id = 0
    /\ era = 0 /\ published = {} /\ linked = {}
    /\ inbox = [b \in BROWSERS |-> <<>>]
    /\ cache = [b \in BROWSERS |-> Empty]
    /\ lastSeenId = [b \in BROWSERS |-> 0]
    /\ disk = [b \in BROWSERS |-> [regular |-> {}, recovered |-> {}, cursor |-> 0]]
    /\ historyInfo = [b \in BROWSERS |-> 0]
    /\ wsJoined = [b \in BROWSERS |-> FALSE]
    /\ activeRecovery = [b \in BROWSERS |-> NoRecovery]
    /\ requests = [b \in BROWSERS |-> 0]
    /\ answered = [b \in BROWSERS |-> {}]

(* The server. *)

\* A chat message of a joined user is stored, broadcast, and followed by the
\* new boundary.  (No audience: a message between users without a page here.)
Chat ==
    /\ current_id < MaxId /\ Room(2)
    /\ \E audience \in {a \in Audiences : a = {} \/ a \cap linked # {}} :
          LET m == [id |-> current_id + 1, seen_by |-> audience, era |-> era]
              kept == {n \in window \cup {m} : n.id > m.id - MAX_MESSAGES}
          IN  /\ window' = kept
              /\ published' = published \cup {m}
              /\ inbox' = Broadcast(<<Text(m), Info(RestoreBefore(kept, boot_start_id))>>)
    /\ current_id' = current_id + 1
    /\ UNCHANGED <<boot_start_id, era, linked, page, answered>>

\* A restart keeps the id counter, unless nvs_flash_init asks for the flash to
\* be erased: then ids start again.
Restart ==
    /\ \E erased \in {FALSE} \cup {era < MaxErases} :
          LET last == IF erased THEN 0 ELSE current_id
          IN  /\ last < MaxId
              /\ current_id' = last /\ boot_start_id' = last + 1
              /\ era' = IF erased THEN era + 1 ELSE era
    /\ window' = {} /\ linked' = {}
    /\ UNCHANGED <<published, inbox, page, answered>>

\* A connection dies or a send on it fails.  What is on its way may arrive.
Break(b) ==
    /\ b \in Fragile \cap linked /\ linked' = linked \ {b}
    /\ UNCHANGED <<server, inbox, page, answered>>

\* The browser opens a new socket and joins with its cursor: the server
\* replays, tells the boundary and confirms.  The old socket is forgotten.
Join(b) ==
    /\ b \notin linked /\ linked' = linked \cup {b}
    /\ LET replay == Replay(lastSeenId[b])
       IN  inbox' = [inbox EXCEPT ![b] =
              [i \in DOMAIN replay |-> Text(replay[i])] \o <<Info(Boundary), OnlineUsers>>]
    /\ wsJoined' = [wsJoined EXCEPT ![b] = FALSE]
    /\ answered' = [answered EXCEPT ![b] = {}]
    /\ UNCHANGED <<server, cache, lastSeenId, disk, historyInfo, activeRecovery, requests>>

-----------------------------------------------------------------------------
(* The page. *)

NextFrame(b, type) == inbox[b] # <<>> /\ Head(inbox[b]).type = type
Consume(b) == inbox' = [inbox EXCEPT ![b] = Tail(@)]

\* saveMessages: RAM is capped whether or not the snapshot can be written.
SaveMessages(b, c, cursor, saved) ==
    LET kept == Capped(c)
    IN  /\ cache' = [cache EXCEPT ![b] = kept]
        /\ disk' = [disk EXCEPT ![b] =
              IF saved THEN [regular |-> kept.regular, recovered |-> kept.recovered,
                             cursor |-> cursor]
                       ELSE [@ EXCEPT !.cursor = cursor]]

\* saveIncomingMessage: a message for others or with a known id is not added,
\* but the cursor passes it; it never passes a snapshot that was not written.
BadTextArrives(b) ==
    /\ NextFrame(b, "text") /\ Consume(b)
    /\ LET m == Head(inbox[b]).message
           new == b \in m.seen_by /\ m.id \notin Ids(Stored(cache[b]))
           c == IF new THEN [cache[b] EXCEPT !.regular = @ \cup {m}] ELSE cache[b]
           ahead == m.id > lastSeenId[b]
       IN  \E saved, noted \in Writes(b) :
              /\ SaveMessages(b, c, IF ahead /\ noted THEN m.id ELSE disk[b].cursor, saved)
              /\ lastSeenId' = [lastSeenId EXCEPT ![b] = IF ahead THEN m.id ELSE @]
    /\ UNCHANGED <<server, linked, historyInfo, wsJoined, activeRecovery, requests, answered>>
TextArrives(b) ==
    /\ NextFrame(b, "text") /\ Consume(b)
    /\ LET m == Head(inbox[b]).message
           new == b \in m.seen_by /\ m.id \notin Ids(Stored(cache[b]))
           c == IF new THEN [cache[b] EXCEPT !.regular = @ \cup {m}] ELSE cache[b]
           ahead == m.id > lastSeenId[b]
       IN  \E saved, noted \in Writes(b) :
              /\ SaveMessages(b, c, IF saved /\ ahead /\ noted THEN m.id ELSE disk[b].cursor, saved)
              /\ lastSeenId' = [lastSeenId EXCEPT ![b] = IF saved /\ ahead THEN m.id ELSE @]
    /\ UNCHANGED <<server, linked, historyInfo, wsJoined, activeRecovery, requests, answered>>

InfoArrives(b) ==
    /\ NextFrame(b, "historyInfo") /\ Consume(b)
    /\ historyInfo' = [historyInfo EXCEPT ![b] = Head(inbox[b]).restore_before_id]
    /\ UNCHANGED <<server, linked, cache, lastSeenId, disk, wsJoined, activeRecovery, requests, answered>>

\* The presence list confirms the join.
PresenceArrives(b) ==
    /\ NextFrame(b, "onlineUsers") /\ Consume(b)
    /\ wsJoined' = [wsJoined EXCEPT ![b] = TRUE]
    /\ UNCHANGED <<server, linked, cache, lastSeenId, disk, historyInfo, activeRecovery, requests, answered>>

\* A reload drops RAM and starts from localStorage, which it writes back.
Reload(b) ==
    /\ b \in Fragile
    /\ LET d == disk[b]
       IN  \E saved, noted \in Writes(b) :
              /\ SaveMessages(b, Snapshot(d),
                              IF saved /\ noted THEN ReloadCursor(d) ELSE d.cursor, saved)
              /\ lastSeenId' = [lastSeenId EXCEPT ![b] = ReloadCursor(d)]
    /\ linked' = linked \ {b}
    /\ inbox' = [inbox EXCEPT ![b] = <<>>]
    /\ historyInfo' = [historyInfo EXCEPT ![b] = 0]
    /\ wsJoined' = [wsJoined EXCEPT ![b] = FALSE]
    /\ activeRecovery' = [activeRecovery EXCEPT ![b] = NoRecovery]
    /\ answered' = [p \in BROWSERS |-> IF p = b THEN {} ELSE answered[p] \ {b}]
    /\ UNCHANGED <<server, requests>>

-----------------------------------------------------------------------------
(* Recovery of messages older than the server's window. *)

\* The user asks for messages below the boundary the page last heard of; the
\* server lowers it to its own and hands the request to everyone.
StartHistoryRecovery(b) ==
    /\ b \in Asking /\ requests[b] < MaxRequests
    /\ activeRecovery[b] = NoRecovery
    /\ wsJoined[b] /\ historyInfo[b] > 1
    /\ Room(1)
    /\ LET r == [request |-> requests[b] + 1, before |-> historyInfo[b]]
           before == Min({historyInfo[b], Boundary})
       IN  /\ activeRecovery' = [activeRecovery EXCEPT ![b] = r]
           /\ inbox' = IF b \in linked /\ before > 1
                       THEN Broadcast(<<Request(b, r.request, before)>>) ELSE inbox
    /\ requests' = [requests EXCEPT ![b] = @ + 1]
    /\ answered' = [answered EXCEPT ![b] = {}]
    /\ UNCHANGED <<server, linked, cache, lastSeenId, disk, historyInfo, wsJoined>>

\* The window for answers is over.
FinishHistoryRecovery(b) ==
    /\ activeRecovery[b] # NoRecovery
    /\ activeRecovery' = [activeRecovery EXCEPT ![b] = NoRecovery]
    /\ answered' = [answered EXCEPT ![b] = {}]
    /\ UNCHANGED <<server, linked, inbox, cache, lastSeenId, disk, historyInfo, wsJoined, requests>>

\* What a browser offers: live messages below the boundary that the one who
\* asks may see, never recovered ones.
Offered(b, frame) ==
    {m \in cache[b].regular : m.id < frame.restore_before_id /\ frame.from \in m.seen_by}

\* handle_history_response_message: what the server relays to the asker.
BadRelayed(m, to) == m.id < boot_start_id /\ to \in m.seen_by
Relayed(m, to) == m.id < Boundary /\ to \in m.seen_by

Answers(b, frame) == {m \in Offered(b, frame) : Relayed(m, frame.from)}

\* Some of these answers are relayed to the asker, in order of id, one frame
\* each; only who was relayed whole has answered.
Relay(b, frame, relayed) ==
    LET asker == frame.from
        messages == ById(relayed)
        responses == [i \in DOMAIN messages |-> Response(frame.request, messages[i])]
        relays == b # asker /\ {b, asker} \subseteq linked
    IN  /\ relays => Len(inbox[asker]) + Len(responses) <= MaxInbox
        /\ inbox' = [inbox EXCEPT ![b] = Tail(@),
                                  ![asker] = IF relays THEN @ \o responses ELSE @]
        /\ answered' = [answered EXCEPT ![asker] =
              IF relays /\ relayed = Answers(b, frame)
                 /\ activeRecovery[asker].request = frame.request
              THEN @ \cup {b} ELSE @]

\* A request arrives and the browser answers.  Any of the answers may get lost:
\* the server has no memory for it or cannot relay it, or a connection ends
\* between two.
RequestArrives(b) ==
    /\ NextFrame(b, "historyRequest")
    /\ \E relayed \in SUBSET Answers(b, Head(inbox[b])) : Relay(b, Head(inbox[b]), relayed)
    /\ UNCHANGED <<server, linked, page>>

\* importRecoveredMessage: an answer to the recovery in progress is kept when
\* it is for this user, below the boundary asked with, and its id is unknown.
BadImports(b, frame) ==
    /\ activeRecovery[b].request = frame.request
    /\ b \in frame.message.seen_by
    /\ frame.message.id < activeRecovery[b].before
Imports(b, frame) ==
    /\ activeRecovery[b].request = frame.request
    /\ b \in frame.message.seen_by
    /\ frame.message.id < activeRecovery[b].before
    /\ frame.message.id \notin Ids(Stored(cache[b]))
ResponseArrives(b) ==
    /\ NextFrame(b, "historyResponse") /\ Consume(b)
    /\ LET frame == Head(inbox[b])
           c == [cache[b] EXCEPT !.recovered = @ \cup {frame.message}]
       IN  IF Imports(b, frame)
           THEN \E saved \in Writes(b) : SaveMessages(b, c, disk[b].cursor, saved)
           ELSE UNCHANGED <<cache, disk>>
    /\ UNCHANGED <<server, linked, lastSeenId, historyInfo, wsJoined, activeRecovery, requests, answered>>

Next ==
    \/ Chat \/ Restart
    \/ \E b \in BROWSERS :
          \/ Break(b) \/ Join(b) \/ Reload(b)
          \/ TextArrives(b) \/ InfoArrives(b) \/ PresenceArrives(b)
          \/ StartHistoryRecovery(b) \/ FinishHistoryRecovery(b)
          \/ RequestArrives(b) \/ ResponseArrives(b)

Spec == Init /\ [][Next]_vars

\* The frames that change nothing but what the page knows of the connection.
ControlArrives(b) ==
    InfoArrives(b) \/ PresenceArrives(b) \/ RequestArrives(b) \/ ResponseArrives(b)

\* A message arrives and localStorage takes it and the cursor.
TextIsSaved(b) ==
    TextArrives(b) /\ disk'[b].cursor >= Head(inbox[b]).message.id

\* A browser without a session joins; and again and again a frame arrives and
\* is kept.  No more is asked of a network that may break every connection,
\* or of a localStorage that may be full for a while.
Fairness ==
    \A b \in BROWSERS :
        /\ WF_vars(Join(b))
        /\ SF_vars(ControlArrives(b))
        /\ SF_vars(TextIsSaved(b))

FairSpec == Spec /\ Fairness

-----------------------------------------------------------------------------
(* Properties *)

\* A live message is kept, or it gave way to newer live ones only: at least
\* half of the cache, which recovered messages cannot take.
Kept(c, m) ==
    m \in c.regular \/ Cardinality({x \in c.regular : x.id > m.id}) >= Half

\* The cursor in RAM and the one a reload starts with never pass a message
\* that the server could still replay and localStorage does not hold,
\* whichever writes failed and whenever the page was reloaded.
CursorSafe ==
    \A b \in BROWSERS : \A m \in window :
        (b \in m.seen_by /\ m.id <= Max({lastSeenId[b], ReloadCursor(disk[b])}))
            => Kept(disk[b], m)

\* A browser that is connected and has read everything sent to it has every
\* message it may see, or knows a boundary above it and can ask for it.
NothingHidden ==
    \A b \in linked : (wsJoined[b] /\ inbox[b] = <<>>) =>
        \A m \in published : b \in m.seen_by =>
            \/ Kept(cache[b], m)
            \/ m \in cache[b].recovered
            \/ m.id < historyInfo[b]

\* What browsers recover from each other was really sent, may be seen by the
\* one who recovered it, is older than all the server replays itself, and is
\* not in the cache a second time.
RecoveredIsHistory ==
    \A b \in BROWSERS : \A c \in {cache[b], Snapshot(disk[b])} :
        \A m \in c.recovered :
            /\ m \in published /\ b \in m.seen_by
            /\ \A w \in window : m.id < w.id
            /\ m.id \notin Ids(c.regular)

\* Once the answers of a browser have all been relayed and read, the one who
\* asked has all it was offered: every live message of that browser below the
\* boundary the page announced, unless the cache is full.  (A reload of the one
\* who answered may bring back what it did not have then.)
RecoveryIsComplete ==
    \A b \in BROWSERS :
        (\A i \in DOMAIN inbox[b] : inbox[b][i].type # "historyResponse") =>
            \A p \in answered[b] : \A m \in cache[p].regular :
                (b \in m.seen_by /\ m.id < activeRecovery[b].before) =>
                    \/ m.id \in Ids(Stored(cache[b]))
                    \/ Cardinality(Stored(cache[b])) = MAX_LOCAL_MESSAGES

\* What README.md promises of since_id: a browser that joined again and has
\* read everything was sent the messages it missed, as far as the server still
\* holds them.  (One whose id the page has already is dropped as a repetition.)
MissedAreReplayed ==
    \A b \in linked : (wsJoined[b] /\ inbox[b] = <<>>) =>
        \A m \in window :
            (b \in m.seen_by /\ m.id \notin Ids(Stored(cache[b]))) => Kept(cache[b], m)

\* However often connections break, pages are reloaded and writes fail, a
\* browser catches up: it shows the message, or the server stops replaying it.
CatchesUp ==
    \A b \in BROWSERS : \A m \in Messages :
        (b \in m.seen_by /\ m \in window) ~> (Kept(cache[b], m) \/ m \notin window)
=============================================================================
