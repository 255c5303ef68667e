-------------------------- MODULE SocketTransport --------------------------
(***************************************************************************)
(* Sending WebSocket frames on one connection: the send override of        *)
(* server/socket_transport.c, which turns partial sends of the TCP socket  *)
(* into complete ones or into the end of the connection.  The HTTP server  *)
(* calls it twice for a frame, for the header and for the payload, and     *)
(* calls it again for later frames whatever became of the earlier ones.    *)
(*                                                                         *)
(* Time is counted in ticks; send() blocks for at most SendWait of them.   *)
(***************************************************************************)
EXTENDS Integers, Sequences

CONSTANTS
    Header, Payload,    \* bytes of the two parts of a frame
    FrameCount,         \* bound: frames sent
    HTTP_SEND_TIMEOUT,  \* chat_config.h, in ticks
    SendWait            \* config.send_wait_timeout, in ticks

ASSUME TransportAssumption ==
    /\ {Header, Payload, HTTP_SEND_TIMEOUT, SendWait} \subseteq Nat \ {0}
    /\ FrameCount \in Nat

VARIABLES
    pc,         \* "idle" or "sending"
    open,       \* the socket was not shut down, by either side
    frame,      \* number of the frame last begun
    part,       \* "header" or "payload"
    sent,       \* the locals of send_complete: bytes the socket took,
    elapsed,    \*   and the time since started_at
    wire        \* history variable: every byte the socket took, in order

vars == <<pc, open, frame, part, sent, elapsed, wire>>

Size == Header + Payload
Length(p) == IF p = "header" THEN Header ELSE Payload

\* Byte i of frame f, and the bytes of a part that the socket takes next.
Bytes(f, p, from, n) ==
    [i \in 1..n |-> [frame |-> f, byte |-> (IF p = "header" THEN 0 ELSE Header) + from + i]]

-----------------------------------------------------------------------------
Init ==
    /\ pc = "idle" /\ open = TRUE
    /\ frame = 0 /\ part = "header" /\ sent = 0 /\ elapsed = 0
    /\ wire = <<>>

\* httpd_ws_send_frame_async sends the header of a new frame.
BeginFrame ==
    /\ pc = "idle" /\ frame < FrameCount
    /\ pc' = "sending" /\ frame' = frame + 1
    /\ part' = "header" /\ sent' = 0 /\ elapsed' = 0
    /\ UNCHANGED <<open, wire>>

\* The loop goes on: something is left to send and the deadline is not over.
BadInLoop == pc = "sending" /\ sent < Length(part)
InLoop == pc = "sending" /\ sent < Length(part) /\ elapsed < HTTP_SEND_TIMEOUT

\* send() takes some of the bytes, sooner or later.
SendSome ==
    /\ InLoop /\ open
    /\ \E n \in 1..(Length(part) - sent) :
          /\ wire' = wire \o Bytes(frame, part, sent, n)
          /\ sent' = sent + n
    /\ \E d \in 0..SendWait : elapsed' = elapsed + d
    /\ UNCHANGED <<pc, open, frame, part>>

\* send() is interrupted (EINTR) after a while: the loop tries again.
Interrupted ==
    /\ InLoop
    /\ \E d \in 1..SendWait : elapsed' = elapsed + d
    /\ UNCHANGED <<pc, open, frame, part, sent, wire>>

\* The call fails: the socket is shut down, which is taken to succeed as the
\* code does not look at it, and the HTTP server sends no more of this frame.
BadShutdown == pc' = "idle" /\ UNCHANGED <<open, frame, part, sent, wire>>
Shutdown ==
    /\ open' = FALSE /\ pc' = "idle"
    /\ UNCHANGED <<frame, part, sent, wire>>

\* send() fails, with an error, a closed socket or its own time limit.
SendFails ==
    /\ InLoop
    /\ \E d \in 0..SendWait : elapsed' = elapsed + d
    /\ Shutdown

\* The deadline is checked before each send().
DeadlinePassed ==
    /\ pc = "sending" /\ sent < Length(part) /\ elapsed >= HTTP_SEND_TIMEOUT
    /\ Shutdown /\ UNCHANGED elapsed

\* All bytes are out, even if the deadline passed with the last one: the
\* server goes on with the payload, or has sent the frame.
Complete ==
    /\ pc = "sending" /\ sent = Length(part)
    /\ IF part = "header"
       THEN part' = "payload" /\ sent' = 0 /\ elapsed' = 0 /\ pc' = pc
       ELSE pc' = "idle" /\ UNCHANGED <<part, sent, elapsed>>
    /\ UNCHANGED <<open, frame, wire>>

\* The browser goes away: later sends fail.
PeerCloses ==
    /\ open /\ open' = FALSE
    /\ UNCHANGED <<pc, frame, part, sent, elapsed, wire>>

SendComplete ==
    SendSome \/ Interrupted \/ SendFails \/ DeadlinePassed \/ Complete

Next == BeginFrame \/ SendComplete \/ PeerCloses

Spec == Init /\ [][Next]_vars

-----------------------------------------------------------------------------
(* Properties *)

TypeOK ==
    /\ pc \in {"idle", "sending"} /\ open \in BOOLEAN
    /\ frame \in 0..FrameCount
    /\ part \in {"header", "payload"}
    /\ sent \in 0..Length(part)
    /\ elapsed \in 0..(HTTP_SEND_TIMEOUT - 1 + SendWait)
    /\ wire \in Seq([frame : 1..FrameCount, byte : 1..Size])

\* How the browser reads the wire: a frame is as many bytes as a frame has,
\* wherever they came from; bytes of two frames in one are garbage (0).
FrameAt(k) ==
    LET chunk == [i \in 1..Size |-> wire[k * Size + i]]
    IN  IF \E f \in 1..FrameCount : chunk = [i \in 1..Size |-> [frame |-> f, byte |-> i]]
        THEN chunk[1].frame ELSE 0
Read == [k \in 1..(Len(wire) \div Size) |-> FrameAt(k - 1)]

\* A send never holds the HTTPD task, and with it every other browser, for
\* longer than the deadline and the one send() that was begun before it.
HeldBriefly == elapsed < HTTP_SEND_TIMEOUT + SendWait

\* What the socket took is one frame after the other: after a byte comes the
\* next of its frame, and only after a frame's last byte the first of a later
\* one, so that no payload or header can be taken for the rest of a torn frame.
FramesWhole ==
    \A i \in DOMAIN wire :
        IF i = 1 THEN wire[1].byte = 1
        ELSE IF wire[i - 1].byte = Size
             THEN wire[i].byte = 1 /\ wire[i].frame > wire[i - 1].frame
             ELSE /\ wire[i].byte = wire[i - 1].byte + 1
                  /\ wire[i].frame = wire[i - 1].frame

\* The browser sees a stream of whole frames in order and then nothing: after
\* a send that stopped half-way no byte of a later frame follows.
Stream == INSTANCE FrameStream WITH
    Frames <- 1..FrameCount, received <- Read, ended <- ~ open
ImplementsStream == Stream!Spec
=============================================================================
