----------------------- MODULE SocketTransportProofs ------------------------
(***************************************************************************)
(* Proofs about SocketTransport, for frames of any size, any deadline and  *)
(* any time a single send() may block.                                     *)
(***************************************************************************)
EXTENDS SocketTransport, TLAPS

ByteOfFrame == [frame : 1..FrameCount, byte : 1..Size]

\* How many bytes of the frame being sent the socket has taken.
Position == (IF part = "header" THEN 0 ELSE Header) + sent

\* As long as the connection is open, the wire ends where the code stands.
EndInv ==
    open =>
        \/ /\ wire = <<>>
           /\ pc = "idle" \/ Position = 0
        \/ /\ wire # <<>> /\ pc = "idle"
           /\ wire[Len(wire)].byte = Size /\ wire[Len(wire)].frame <= frame
        \/ /\ wire # <<>> /\ pc = "sending" /\ Position = 0
           /\ wire[Len(wire)].byte = Size /\ wire[Len(wire)].frame < frame
        \/ /\ wire # <<>> /\ pc = "sending" /\ Position > 0
           /\ wire[Len(wire)] = [frame |-> frame, byte |-> Position]

IInv == TypeOK /\ FramesWhole /\ EndInv /\ (pc = "sending" => frame >= 1)

LEMMA Sizes ==
    /\ Header \in Nat \ {0} /\ Payload \in Nat \ {0}
    /\ HTTP_SEND_TIMEOUT \in Nat \ {0} /\ SendWait \in Nat \ {0}
    /\ FrameCount \in Nat /\ Size \in Nat \ {0}
BY TransportAssumption DEF Size

LEMMA InitInv == Init => IInv
BY Sizes
   DEF Init, IInv, TypeOK, FramesWhole, EndInv, Position, Length

\* Bytes the socket takes are the next ones of the frame.
LEMMA SentIs ==
    ASSUME IInv, SendSome
    PROVE  \E n \in 1..(Length(part) - sent) :
              /\ sent' = sent + n /\ Position' = Position + n
              /\ Position \in Nat /\ Position + n \in 1..Size
              /\ frame \in 1..FrameCount
              /\ wire \in Seq(ByteOfFrame) /\ wire' \in Seq(ByteOfFrame)
              /\ Len(wire) \in Nat /\ Len(wire') = Len(wire) + n
              /\ \A i \in 1..Len(wire) : wire'[i] = wire[i]
              /\ \A i \in 1..n :
                    wire'[Len(wire) + i] = [frame |-> frame, byte |-> Position + i]
<1> USE Sizes DEF IInv
<1> DEFINE start == IF part = "header" THEN 0 ELSE Header
<1>1. PICK n \in 1..(Length(part) - sent) :
         wire' = wire \o Bytes(frame, part, sent, n) /\ sent' = sent + n
  BY DEF SendSome
<1>2. PICK d \in 0..SendWait : elapsed' = elapsed + d
  BY DEF SendSome
<1>3. /\ pc = "sending" /\ open /\ sent < Length(part) /\ elapsed < HTTP_SEND_TIMEOUT
      /\ UNCHANGED <<pc, open, frame, part>>
  BY DEF SendSome, InLoop
<1>4. /\ sent \in Nat /\ start \in Nat /\ Length(part) \in Nat \ {0} /\ Size \in Nat
      /\ start + Length(part) <= Size
      /\ n \in Nat \ {0} /\ sent + n <= Length(part)
      /\ frame \in 1..FrameCount
  BY <1>1, <1>3 DEF TypeOK, Length, Size
<1>a. Position = start + sent /\ Position' = start + sent + n
  BY <1>1, <1>3, <1>4 DEF Position
<1>b. Len(wire) \in Nat
  BY DEF TypeOK
<1> DEFINE new == Bytes(frame, part, sent, n)
<1>5. /\ new \in Seq(ByteOfFrame) /\ Len(new) = n
      /\ \A i \in 1..n : new[i] = [frame |-> frame, byte |-> start + sent + i]
  <2>1. new = [i \in 1..n |-> [frame |-> frame, byte |-> start + sent + i]]
    BY DEF Bytes
  <2>2. \A i \in 1..n : start + sent + i \in 1..Size
    BY <1>4
  <2> QED BY <2>1, <2>2, <1>4 DEF ByteOfFrame
<1>6. wire \in Seq(ByteOfFrame)
  BY DEF TypeOK, ByteOfFrame
<1>7. /\ wire' \in Seq(ByteOfFrame) /\ Len(wire') = Len(wire) + n
      /\ \A i \in 1..Len(wire) : wire'[i] = wire[i]
      /\ \A i \in 1..n : wire'[Len(wire) + i] = [frame |-> frame, byte |-> start + sent + i]
  <2> HIDE DEF new, start
  <2>1. wire' = wire \o new
    BY <1>1 DEF new
  <2>2. wire' \in Seq(ByteOfFrame) /\ Len(wire') = Len(wire) + n
    <3>1. new \in Seq(ByteOfFrame) /\ Len(new) = n
      BY <1>5
    <3>2. wire \o new \in Seq(ByteOfFrame) /\ Len(wire \o new) = Len(wire) + Len(new)
      BY <3>1, <1>6
    <3> QED BY <2>1, <3>1, <3>2
  <2>3. \A i \in 1..Len(wire) : wire'[i] = wire[i]
    BY <2>1, <1>5, <1>6
  <2>4. ASSUME NEW i \in 1..n
        PROVE  wire'[Len(wire) + i] = [frame |-> frame, byte |-> start + sent + i]
    <3>1. wire'[Len(wire) + i] = new[i]
      BY <2>1, <1>b, <1>4, <1>5, <1>6
    <3> QED BY <3>1, <1>5
  <2> QED BY <2>2, <2>3, <2>4
<1>8. Position + n \in 1..Size
  BY <1>4, <1>a
<1> HIDE DEF start
<1> QED BY <1>1, <1>4, <1>a, <1>b, <1>6, <1>7, <1>8

LEMMA SendSomeStep == IInv /\ SendSome => IInv'
<1> SUFFICES ASSUME IInv, SendSome PROVE IInv'
  OBVIOUS
<1> USE Sizes DEF IInv
<1> DEFINE start == IF part = "header" THEN 0 ELSE Header
<1>1. PICK n \in 1..(Length(part) - sent) :
         /\ sent' = sent + n /\ Position' = Position + n
         /\ wire \in Seq(ByteOfFrame) /\ wire' \in Seq(ByteOfFrame)
         /\ Len(wire') = Len(wire) + n
         /\ \A i \in 1..Len(wire) : wire'[i] = wire[i]
         /\ \A i \in 1..n :
               wire'[Len(wire) + i] = [frame |-> frame, byte |-> Position + i]
  BY SentIs
<1>2. PICK d \in 0..SendWait : elapsed' = elapsed + d
  BY DEF SendSome
<1>3. /\ pc = "sending" /\ open /\ sent < Length(part) /\ elapsed < HTTP_SEND_TIMEOUT
      /\ UNCHANGED <<pc, open, frame, part>>
  BY DEF SendSome, InLoop
<1>4. /\ sent \in Nat /\ start \in Nat /\ Length(part) \in Nat \ {0} /\ Size \in Nat
      /\ start + Length(part) <= Size
      /\ n \in Nat \ {0} /\ sent + n <= Length(part)
      /\ frame \in 1..FrameCount
  BY <1>1, <1>3 DEF TypeOK, Length, Size
<1>a. Position = start + sent /\ Position' = start + sent + n
  BY <1>1, <1>3, <1>4 DEF Position
<1>b. Len(wire) \in Nat
  BY DEF TypeOK
<1>6. wire \in Seq(ByteOfFrame)
  BY <1>1
<1>7. /\ wire' \in Seq(ByteOfFrame) /\ Len(wire') = Len(wire) + n
      /\ \A i \in 1..Len(wire) : wire'[i] = wire[i]
      /\ \A i \in 1..n : wire'[Len(wire) + i] = [frame |-> frame, byte |-> start + sent + i]
  BY <1>1, <1>a
<1>8. TypeOK'
  BY <1>2, <1>3, <1>4, <1>1, <1>7 DEF TypeOK, ByteOfFrame, Length
<1>9. EndInv'
  <2>1. wire'[Len(wire')] = [frame |-> frame, byte |-> start + sent + n] /\ wire' # <<>>
    BY <1>4, <1>6, <1>7
  <2>2. Position' = start + sent + n /\ Position' > 0
    BY <1>4, <1>a
  <2> QED BY <2>1, <2>2, <1>3 DEF EndInv
<1>10. FramesWhole'
  <2> HIDE DEF start
  <2> SUFFICES ASSUME NEW i \in 1..Len(wire')
               PROVE  IF i = 1 THEN wire'[1].byte = 1
                      ELSE IF wire'[i - 1].byte = Size
                           THEN wire'[i].byte = 1 /\ wire'[i].frame > wire'[i - 1].frame
                           ELSE /\ wire'[i].byte = wire'[i - 1].byte + 1
                                /\ wire'[i].frame = wire'[i - 1].frame
    BY <1>b, <1>7 DEF FramesWhole
  <2>1. CASE i <= Len(wire)
    <3>1. i \in DOMAIN wire /\ i - 1 \in 0..Len(wire)
      BY <2>1, <1>6, <1>b, <1>7
    <3>2. i # 1 => i - 1 \in 1..Len(wire)
      BY <3>1, <1>b
    <3>3. wire'[i] = wire[i] /\ (i # 1 => wire'[i - 1] = wire[i - 1])
      BY <3>1, <3>2, <1>6, <1>7
    <3> QED BY <3>1, <3>3 DEF FramesWhole
  <2>2. CASE i = Len(wire) + 1
    <3>1. wire'[i] = [frame |-> frame, byte |-> start + sent + 1]
      BY <2>2, <1>4, <1>7
    <3>2. CASE wire = <<>>
      BY <3>1, <3>2, <2>2, <1>3, <1>4, <1>a DEF EndInv
    <3>3. CASE wire # <<>>
      <4>1. wire'[i - 1] = wire[Len(wire)] /\ i # 1 /\ Len(wire) >= 1
        BY <3>3, <2>2, <1>6, <1>7
      <4>2. CASE Position = 0
        BY <4>1, <4>2, <3>1, <3>3, <1>3, <1>4, <1>a DEF EndInv
      <4>3. CASE Position > 0
        BY <4>1, <4>3, <3>1, <3>3, <1>3, <1>4, <1>a DEF EndInv
      <4> QED BY <4>2, <4>3, <1>4, <1>a
    <3> QED BY <3>2, <3>3
  <2>3. CASE i > Len(wire) + 1
    <3> DEFINE j == i - Len(wire)
    <3>1. j \in 2..n /\ j - 1 \in 1..n /\ i = Len(wire) + j /\ i - 1 = Len(wire) + (j - 1)
      BY <2>3, <1>4, <1>b, <1>7
    <3> HIDE DEF j
    <3>2. /\ wire'[i] = [frame |-> frame, byte |-> start + sent + j]
          /\ wire'[i - 1] = [frame |-> frame, byte |-> start + sent + (j - 1)]
      BY <3>1, <1>7
    <3>3. i # 1 /\ start + sent + (j - 1) < Size
          /\ start + sent + j = (start + sent + (j - 1)) + 1
      BY <3>1, <1>b, <1>4
    <3>4. /\ wire'[i].byte = start + sent + j /\ wire'[i].frame = frame
          /\ wire'[i - 1].byte = start + sent + (j - 1) /\ wire'[i - 1].frame = frame
      BY <3>2
    <3> QED BY <3>3, <3>4, <1>4
  <2>4. i <= Len(wire) \/ i = Len(wire) + 1 \/ i > Len(wire) + 1
    BY <1>b, <1>4, <1>7
  <2> QED BY <2>1, <2>2, <2>3, <2>4
<1> QED BY <1>3, <1>8, <1>9, <1>10

\* A failed call ends the connection; nothing else is written.
LEMMA ShutdownStep ==
    ASSUME IInv, Shutdown, elapsed' \in 0..(HTTP_SEND_TIMEOUT - 1 + SendWait)
    PROVE  IInv'
BY DEF IInv, Shutdown, TypeOK, FramesWhole, EndInv

LEMMA Step == IInv /\ [Next]_vars => IInv'
<1> SUFFICES ASSUME IInv, [Next]_vars PROVE IInv'
  OBVIOUS
<1> USE Sizes
<1>1. CASE UNCHANGED vars
  BY <1>1 DEF IInv, vars, TypeOK, FramesWhole, EndInv, Position
<1>2. CASE BeginFrame
  <2>1. frame \in Nat /\ FrameCount \in Nat
    BY DEF IInv, TypeOK
  <2>2. TypeOK' /\ FramesWhole' /\ frame' >= 1
    BY <1>2, <2>1 DEF IInv, BeginFrame, TypeOK, FramesWhole, Length
  <2>3. EndInv'
    <3>1. wire # <<>> => wire[Len(wire)].frame \in Nat
      <4>1. wire \in Seq(ByteOfFrame)
        BY DEF IInv, TypeOK, ByteOfFrame
      <4>2. wire # <<>> => Len(wire) \in 1..Len(wire)
        BY <4>1
      <4>3. wire # <<>> => wire[Len(wire)] \in ByteOfFrame
        BY <4>1, <4>2
      <4> QED BY <4>3 DEF ByteOfFrame
    <3> QED BY <1>2, <2>1, <3>1 DEF IInv, BeginFrame, EndInv, Position
  <2> QED BY <2>2, <2>3 DEF IInv
<1>3. CASE SendSome
  BY <1>3, SendSomeStep
<1>4. CASE Interrupted
  <2>1. TypeOK'
    BY <1>4 DEF IInv, Interrupted, InLoop, TypeOK
  <2>2. FramesWhole' /\ EndInv' /\ (pc' = "sending" => frame' >= 1)
    BY <1>4 DEF IInv, Interrupted, FramesWhole, EndInv, Position
  <2> QED BY <2>1, <2>2 DEF IInv
<1>5. CASE SendFails
  <2>1. elapsed' \in 0..(HTTP_SEND_TIMEOUT - 1 + SendWait) /\ Shutdown
    BY <1>5 DEF SendFails, InLoop, IInv, TypeOK
  <2> QED BY <2>1, ShutdownStep
<1>6. CASE DeadlinePassed
  <2>1. elapsed' \in 0..(HTTP_SEND_TIMEOUT - 1 + SendWait) /\ Shutdown
    BY <1>6 DEF DeadlinePassed, IInv, TypeOK
  <2> QED BY <2>1, ShutdownStep
<1>7. CASE Complete
  <2>1. TypeOK' /\ FramesWhole' /\ (pc' = "sending" => frame' >= 1)
    BY <1>7 DEF IInv, Complete, TypeOK, FramesWhole, Length
  <2>2. EndInv'
    BY <1>7 DEF IInv, Complete, TypeOK, EndInv, Position, Length, Size
  <2> QED BY <2>1, <2>2 DEF IInv
<1>8. CASE PeerCloses
  BY <1>8 DEF IInv, PeerCloses, TypeOK, FramesWhole, EndInv
<1> QED BY <1>1, <1>2, <1>3, <1>4, <1>5, <1>6, <1>7, <1>8 DEF Next, SendComplete

-----------------------------------------------------------------------------
(* The theorems *)

LEMMA WireCorrect == Spec => []IInv
<1>1. Init => IInv
  BY InitInv
<1>2. IInv /\ [Next]_vars => IInv'
  BY Step
<1> QED BY <1>1, <1>2, PTL DEF Spec

\* send_complete never tears a frame: whatever sends are partial, fail, are
\* interrupted or run into the deadline, for frames of any size.
THEOREM NeverTorn == Spec => []FramesWhole
<1>1. IInv => FramesWhole
  BY DEF IInv
<1> QED BY <1>1, WireCorrect, PTL

\* send_complete holds the HTTPD task for less than the deadline and the one
\* send() that began before it.
THEOREM HeldBound == Spec => []HeldBriefly
<1>1. IInv => HeldBriefly
  BY Sizes DEF IInv, TypeOK, HeldBriefly
<1> QED BY <1>1, WireCorrect, PTL

-----------------------------------------------------------------------------
(* The refinement of FrameStream *)

\* Where frame k of the wire begins, counted from 0, and its number.
Cut(k) == k * Size
Number(k) == wire[Cut(k) + 1].frame

\* Every frame of the wire is whole, or is its last; their numbers rise.
Chunks ==
    \A k \in Nat : \A b \in 1..Size :
        Cut(k) + b <= Len(wire) => wire[Cut(k) + b] = [frame |-> Number(k), byte |-> b]
Rising ==
    \A k, l \in Nat : k < l /\ Cut(l) + 1 <= Len(wire) => Number(k) < Number(l)

\* After q whole frames the open connection has Position bytes of the next.
Progress(q) ==
    /\ Len(wire) = Cut(q) + (IF pc = "sending" THEN Position ELSE 0)
    /\ q > 0 => Number(q - 1) <= frame
    /\ q > 0 /\ pc = "sending" => Number(q - 1) < frame
    /\ pc = "sending" /\ Position > 0 => Number(q) = frame

StreamInv == Chunks /\ Rising /\ (open => \E q \in Nat : Progress(q))

LEMMA CutIs ==
    /\ Cut(0) = 0
    /\ \A k \in Nat : Cut(k) \in Nat /\ Cut(k + 1) = Cut(k) + Size
    /\ \A k, l \in Nat : k < l => Cut(k) + Size <= Cut(l)
<1>1. Cut(0) = 0 /\ \A k \in Nat : Cut(k) \in Nat /\ Cut(k + 1) = Cut(k) + Size
  BY Sizes DEF Cut
<1>2. ASSUME NEW k \in Nat, NEW l \in Nat, k < l PROVE Cut(k) + Size <= Cut(l)
  <2>1. k + 1 <= l
    BY <1>2
  <2>2. (k + 1) * Size <= l * Size
    BY <2>1, Sizes
  <2> QED BY <2>2, Sizes DEF Cut
<1> QED BY <1>1, <1>2

\* How many whole frames the wire has.
LEMMA WholeFrames ==
    ASSUME NEW k \in Nat, NEW r \in Nat, r < Size
    PROVE  (Cut(k) + r) \div Size = k
<1> DEFINE a == Cut(k) + r
           q == a \div Size
           m == a % Size
<1>1. a \in Nat
  BY CutIs
<1>2. q \in Nat /\ m \in 0..(Size - 1) /\ a = Size * q + m
  <2> HIDE DEF a
  <2> QED BY <1>1, Sizes
<1>3. a = Cut(q) + m
  <2> HIDE DEF a, q, m
  <2> QED BY <1>2, Sizes DEF Cut
<1>4. /\ q < k => Cut(q) + Size <= Cut(k)
      /\ k < q => Cut(k) + Size <= Cut(q)
      /\ Cut(q) \in Nat /\ Cut(k) \in Nat
  <2> HIDE DEF q
  <2> QED BY <1>2, CutIs
<1>5. q = k
  <2> HIDE DEF q, m
  <2> QED BY <1>2, <1>3, <1>4, Sizes DEF a
<1> QED BY <1>5

\* An earlier frame ends where a later one begins, or before.
LEMMA Earlier ==
    ASSUME NEW q \in Nat, NEW k \in 1..q
    PROVE  /\ k - 1 \in Nat /\ Cut(k - 1) \in Nat /\ Cut(q) \in Nat
           /\ Cut(k - 1) + Size <= Cut(q)
<1>1. k - 1 \in Nat /\ k - 1 < q
  OBVIOUS
<1> QED BY <1>1, CutIs

LEMMA WireIs ==
    ASSUME IInv
    PROVE  /\ frame \in Nat /\ Len(wire) \in Nat
           /\ \A i \in 1..Len(wire) : wire[i].frame \in 1..FrameCount
<1>1. wire \in Seq(ByteOfFrame) /\ frame \in Nat
  BY Sizes DEF IInv, TypeOK, ByteOfFrame
<1>2. \A i \in 1..Len(wire) : wire[i] \in ByteOfFrame
  BY <1>1
<1>3. Len(wire) \in Nat
  BY <1>1
<1>4. \A i \in 1..Len(wire) : wire[i].frame \in 1..FrameCount
  BY <1>2 DEF ByteOfFrame
<1> QED BY <1>1, <1>3, <1>4

LEMMA InitStream == Init => StreamInv
<1> SUFFICES ASSUME Init PROVE StreamInv
  OBVIOUS
<1>1. Len(wire) = 0
  BY DEF Init
<1>2. Progress(0)
  BY <1>1, CutIs DEF Init, Progress
<1>3. \A k \in Nat : Cut(k) \in Nat
  BY CutIs
<1>4. Chunks /\ Rising
  BY <1>1, <1>3, Sizes DEF Chunks, Rising
<1> QED BY <1>2, <1>4 DEF StreamInv

\* What was sent stays as it is.
LEMMA NumbersKept ==
    ASSUME IInv, SendSome, NEW k \in Nat, Cut(k) + 1 <= Len(wire)
    PROVE  Number(k)' = Number(k)
<1>1. Len(wire) \in Nat /\ \A i \in 1..Len(wire) : wire'[i] = wire[i]
  BY SentIs
<1>2. Cut(k) \in Nat
  BY CutIs
<1>3. wire'[Cut(k) + 1] = wire[Cut(k) + 1]
  BY <1>1, <1>2
<1> QED BY <1>3 DEF Number, Cut, Size

\* What the socket takes continues the last frame, or begins one.
LEMMA SendSomeStream == IInv /\ StreamInv /\ SendSome => StreamInv'
<1> SUFFICES ASSUME IInv, StreamInv, SendSome PROVE StreamInv'
  OBVIOUS
<1>1. PICK n \in 1..(Length(part) - sent) :
         /\ sent' = sent + n /\ Position' = Position + n
         /\ Position \in Nat /\ Position + n \in 1..Size
         /\ frame \in 1..FrameCount
         /\ wire \in Seq(ByteOfFrame) /\ wire' \in Seq(ByteOfFrame)
         /\ Len(wire) \in Nat /\ Len(wire') = Len(wire) + n
         /\ \A i \in 1..Len(wire) : wire'[i] = wire[i]
         /\ \A i \in 1..n :
               wire'[Len(wire) + i] = [frame |-> frame, byte |-> Position + i]
  BY SentIs
<1>2. pc = "sending" /\ open /\ UNCHANGED <<pc, open, frame, part>>
  BY DEF SendSome, InLoop
<1>3. PICK q \in Nat : Progress(q)
  BY <1>2 DEF StreamInv
<1> DEFINE P == Position
           L == Len(wire)
<1>4. /\ n \in Nat \ {0} /\ Size \in Nat \ {0} /\ P \in Nat /\ P + n <= Size
      /\ L \in Nat /\ L = Cut(q) + P /\ Len(wire') = L + n /\ Cut(q) \in Nat
  BY <1>1, <1>2, <1>3, Sizes, CutIs DEF Progress, IInv, TypeOK, Length
<1>c. \A k \in Nat : Cut(k) \in Nat
  BY CutIs
<1>p. ASSUME NEW k \in Nat, NEW b \in 1..Size
      PROVE  Cut(k) + b \in Nat /\ (Cut(k) + b <= L => Cut(k) + b \in 1..L)
  <2>1. Cut(k) \in Nat
    BY <1>c
  <2>2. b \in Nat /\ b >= 1
    BY Sizes
  <2> HIDE DEF L
  <2> QED BY <2>1, <2>2, <1>4
<1>o. 1 \in 1..Size
  BY <1>4
<1>5. \A i \in 1..L : wire'[i] = wire[i]
  BY <1>1
<1>6. \A i \in 1..n : wire'[L + i] = [frame |-> frame, byte |-> P + i]
  BY <1>1
<1>7. Number(q)' = frame
  <2>1. CASE P = 0
    <3>1. wire'[L + 1] = [frame |-> frame, byte |-> P + 1]
      BY <1>4, <1>6
    <3>2. Cut(q) + 1 = L + 1
      BY <1>4, <2>1
    <3> QED BY <3>1, <3>2 DEF Number, Cut, Size
  <2>2. CASE P > 0
    <3>1. Number(q) = frame
      BY <1>2, <1>3, <2>2 DEF Progress
    <3>2. wire'[Cut(q) + 1] = wire[Cut(q) + 1]
      <4>1. Cut(q) + 1 \in 1..L
        BY <1>4, <2>2
      <4> HIDE DEF L
      <4> QED BY <4>1, <1>5
    <3> QED BY <3>1, <3>2 DEF Number, Cut, Size
  <2> QED BY <2>1, <2>2, <1>4
<1>8. ASSUME NEW k \in Nat, NEW b \in 1..Size, Cut(k) + b <= L + n, Cut(k) + b > L
      PROVE  k = q
  <2>1. Cut(k) \in Nat /\ (k < q => Cut(k) + Size <= Cut(q))
                       /\ (q < k => Cut(q) + Size <= Cut(k))
    BY CutIs
  <2> HIDE DEF L, P
  <2> QED BY <1>4, <1>8, <2>1
<1>9. ASSUME NEW k \in Nat, Cut(k) + 1 <= L PROVE Number(k)' = Number(k)
  BY <1>9, NumbersKept
<1>10. Chunks'
  <2> SUFFICES ASSUME NEW k \in Nat, NEW b \in 1..Size, Cut(k) + b <= L + n
               PROVE  wire'[Cut(k) + b] = [frame |-> Number(k)', byte |-> b]
    BY <1>4 DEF Chunks, Cut, Number, Size
  <2>1. Cut(k) \in Nat /\ Cut(k) + b \in Nat /\ b \in Nat /\ b >= 1
    <3>1. b \in Nat /\ b >= 1
      BY Sizes
    <3> QED BY <3>1, <1>c, <1>p
  <2>2. CASE Cut(k) + b <= L
    <3>1. Cut(k) + 1 <= L /\ Cut(k) + b \in 1..L
      <4>1. L \in Nat /\ Cut(k) + b \in 1..L
        BY <1>4, <1>p, <2>2
      <4> HIDE DEF L
      <4> QED BY <4>1, <2>1, <2>2
    <3>2. wire[Cut(k) + b] = [frame |-> Number(k), byte |-> b]
      BY <2>2 DEF StreamInv, Chunks
    <3>3. wire'[Cut(k) + b] = wire[Cut(k) + b]
      <4> HIDE DEF L
      <4> QED BY <3>1, <1>5
    <3> QED BY <3>1, <3>2, <3>3, <1>9
  <2>3. CASE Cut(k) + b > L
    <3>1. k = q
      BY <2>3, <1>8
    <3> DEFINE j == Cut(k) + b - L
    <3>2. j \in 1..n /\ Cut(k) + b = L + j /\ b = P + j
      <4>1. L \in Nat /\ n \in Nat /\ P \in Nat /\ L = Cut(k) + P
        BY <1>4, <3>1
      <4>2. Cut(k) + b <= L + n /\ Cut(k) + b > L
        BY <2>3
      <4> HIDE DEF L, P
      <4> QED BY <4>1, <4>2, <2>1
    <3>3. wire'[L + j] = [frame |-> frame, byte |-> P + j]
      <4> HIDE DEF L, P, j
      <4> QED BY <3>2, <1>6
    <3> HIDE DEF L, P, j
    <3> QED BY <1>7, <3>1, <3>2, <3>3
  <2> QED BY <1>4, <2>1, <2>2, <2>3
<1>11. Rising'
  <2> SUFFICES ASSUME NEW k \in Nat, NEW l \in Nat, k < l, Cut(l) + 1 <= L + n
               PROVE  Number(k)' < Number(l)'
    BY <1>4 DEF Rising, Cut, Number, Size
  <2>1. Cut(k) \in Nat /\ Cut(l) \in Nat /\ Cut(k) + Size <= Cut(l)
    BY CutIs
  <2>2. CASE Cut(l) + 1 <= L
    <3>1. Cut(k) + 1 <= L
      BY <1>4, <2>1, <2>2
    <3>2. Number(k) < Number(l)
      BY <2>2 DEF StreamInv, Rising
    <3> QED BY <2>2, <3>1, <3>2, <1>9
  <2>3. CASE Cut(l) + 1 > L
    <3>1. l = q
      BY <2>3, <1>8, <1>4
    <3>2. q - 1 \in Nat /\ Number(q - 1) < frame /\ Cut(q - 1) + Size <= Cut(q)
      BY <3>1, <1>2, <1>3, CutIs DEF Progress
    <3>3. Cut(k) + 1 <= L /\ Cut(q - 1) + 1 <= L /\ Cut(q - 1) \in Nat
      <4>1. Cut(q - 1) \in Nat
        BY <3>2, <1>c
      <4>2. Cut(k) \in Nat /\ Cut(k) + Size <= Cut(q) /\ Cut(q - 1) + Size <= Cut(q)
        BY <3>1, <3>2, <2>1
      <4>3. Cut(q) \in Nat /\ Cut(q) <= L /\ L \in Nat /\ Size \in Nat /\ Size >= 1
        BY <1>4
      <4> HIDE DEF L, P
      <4> QED BY <4>1, <4>2, <4>3
    <3>4. k # q - 1 => Number(k) < Number(q - 1)
      BY <3>1, <3>2, <3>3 DEF StreamInv, Rising
    <3>5. Number(k) \in Nat /\ Number(q - 1) \in Nat
      <4>1. Cut(k) + 1 \in 1..L /\ Cut(q - 1) + 1 \in 1..L
        BY <3>2, <3>3, <1>p, <1>o
      <4>2. wire[Cut(k) + 1] \in ByteOfFrame /\ wire[Cut(q - 1) + 1] \in ByteOfFrame
        BY <4>1, <1>1
      <4> QED BY <4>2, Sizes DEF Number, ByteOfFrame
    <3>6. Number(k) < frame
      BY <3>2, <3>4, <3>5, <1>1, Sizes
    <3> QED BY <3>1, <3>3, <3>6, <1>7, <1>9
  <2> QED BY <2>1, <2>2, <2>3, <1>4
<1>12. Progress(q)'
  <2>1. Len(wire') = Cut(q) + Position'
    BY <1>1, <1>4
  <2>2. q > 0 => Number(q - 1)' = Number(q - 1)
    <3> SUFFICES ASSUME q > 0 PROVE Number(q - 1)' = Number(q - 1)
      OBVIOUS
    <3>1. q - 1 \in Nat /\ Cut(q - 1) + Size <= Cut(q) /\ Cut(q - 1) \in Nat
      BY CutIs
    <3>2. Cut(q - 1) + 1 <= L
      BY <3>1, <1>4
    <3> QED BY <3>1, <3>2, <1>9
  <2> QED BY <1>2, <1>3, <1>7, <2>1, <2>2 DEF Progress, Cut, Size
<1> QED BY <1>3, <1>10, <1>11, <1>12 DEF StreamInv

\* A step that sends nothing leaves the wire, and what the code stands at fits it.
LEMMA QuietStream ==
    ASSUME IInv, StreamInv, wire' = wire,
           ASSUME NEW q \in Nat, Progress(q), open, open'
           PROVE  \E k \in Nat : Progress(k)',
           open' => open
    PROVE  StreamInv'
<1>1. Chunks' /\ Rising'
  BY DEF StreamInv, Chunks, Rising, Number, Cut, Size
<1> QED BY <1>1 DEF StreamInv

LEMMA StepStream == IInv /\ StreamInv /\ [Next]_vars => StreamInv'
<1> SUFFICES ASSUME IInv, StreamInv, [Next]_vars PROVE StreamInv'
  OBVIOUS
<1>1. CASE SendSome
  BY <1>1, SendSomeStream
<1>2. CASE BeginFrame
  <2>1. ASSUME NEW q \in Nat, Progress(q) PROVE Progress(q)'
    <3>1. frame \in Nat /\ Position' = 0 /\ pc' = "sending" /\ frame' = frame + 1
      BY <1>2 DEF BeginFrame, Position, IInv, TypeOK
    <3>2. Len(wire) = Cut(q) /\ (q > 0 => Number(q - 1) <= frame)
      BY <1>2, <2>1, CutIs DEF BeginFrame, Progress
    <3>3. q > 0 => Number(q - 1) \in Nat
      <4> SUFFICES ASSUME q > 0 PROVE Number(q - 1) \in Nat
        OBVIOUS
      <4>1. Cut(q - 1) \in Nat /\ Cut(q - 1) + Size <= Cut(q) /\ Cut(q) \in Nat
        BY CutIs
      <4>2. Cut(q - 1) + 1 \in 1..Len(wire)
        BY <4>1, <3>2, Sizes
      <4> QED BY <4>2, WireIs, Sizes DEF Number
    <3>4. Cut(q) \in Nat /\ wire' = wire
      BY <1>2, CutIs DEF BeginFrame
    <3> QED BY <3>1, <3>2, <3>3, <3>4 DEF Progress, Number, Cut, Size
  <2>2. wire' = wire /\ open' = open
    BY <1>2 DEF BeginFrame
  <2> QED BY <2>1, <2>2, QuietStream
<1>3. CASE Interrupted \/ UNCHANGED vars
  <2>1. UNCHANGED <<wire, open, pc, frame, part, sent>>
    BY <1>3 DEF Interrupted, vars
  <2>2. ASSUME NEW q \in Nat, Progress(q) PROVE Progress(q)'
    BY <2>1, <2>2 DEF Progress, Number, Cut, Size, Position
  <2> QED BY <2>1, <2>2, QuietStream
<1>4. CASE SendFails \/ DeadlinePassed \/ PeerCloses
  <2>1. wire' = wire /\ ~ open'
    BY <1>4 DEF SendFails, DeadlinePassed, PeerCloses, Shutdown
  <2> QED BY <2>1, QuietStream
<1>5. CASE Complete
  <2>1. /\ UNCHANGED <<wire, open, frame>> /\ pc = "sending" /\ sent = Length(part)
        /\ IF part = "header" THEN part' = "payload" /\ sent' = 0 /\ pc' = pc
                              ELSE pc' = "idle"
    BY <1>5 DEF Complete
  <2>2. ASSUME NEW q \in Nat, Progress(q) PROVE \E k \in Nat : Progress(k)'
    <3>1. CASE part = "header"
      <4>1. Position = Header /\ Position' = Header
        BY <2>1, <3>1, Sizes DEF Position, Length
      <4>2. Progress(q)'
        BY <2>1, <2>2, <3>1, <4>1 DEF Progress, Number, Cut, Size
      <4> QED BY <4>2
    <3>2. CASE part # "header"
      <4>1. Position = Size /\ Position > 0
        BY <2>1, <3>2, Sizes DEF Position, Length, Size
      <4>2. Len(wire) = Cut(q + 1) /\ Number(q) = frame
        BY <2>1, <2>2, <4>1, CutIs DEF Progress
      <4>3. frame \in Nat /\ q + 1 \in Nat /\ (q + 1) - 1 = q /\ Cut(q + 1) \in Nat
        <5>1. q + 1 \in Nat /\ (q + 1) - 1 = q
          OBVIOUS
        <5> QED BY <5>1, CutIs, WireIs
      <4>4. pc' = "idle"
        BY <2>1, <3>2
      <4>5. Len(wire') = Cut(q + 1)' /\ Number((q + 1) - 1)' = frame'
        BY <2>1, <4>2, <4>3 DEF Number, Cut, Size
      <4>6. Progress(q + 1)'
        BY <4>3, <4>4, <4>5, <2>1, <4>2 DEF Progress, Cut, Size
      <4> QED BY <4>3, <4>6
    <3> QED BY <3>1, <3>2
  <2> QED BY <2>1, <2>2, QuietStream
<1> QED BY <1>1, <1>2, <1>3, <1>4, <1>5 DEF Next, SendComplete

\* What the browser reads: the numbers of the whole frames.
LEMMA ReadIs ==
    IInv /\ StreamInv =>
        \A q \in Nat : \A r \in 0..(Size - 1) : Len(wire) = Cut(q) + r =>
            /\ Read = [k \in 1..q |-> Number(k - 1)]
            /\ \A k \in 1..q : Number(k - 1) \in 1..FrameCount
<1> SUFFICES ASSUME IInv, StreamInv, NEW q \in Nat, NEW r \in 0..(Size - 1),
                    Len(wire) = Cut(q) + r
             PROVE  /\ Read = [k \in 1..q |-> Number(k - 1)]
                    /\ \A k \in 1..q : Number(k - 1) \in 1..FrameCount
  OBVIOUS
<1>1. Len(wire) \div Size = q
  BY WholeFrames, Sizes
<1>2. ASSUME NEW k \in 1..q
      PROVE  FrameAt(k - 1) = Number(k - 1) /\ Number(k - 1) \in 1..FrameCount
  <2>1. /\ k - 1 \in Nat /\ Cut(k - 1) \in Nat /\ Cut(q) \in Nat
        /\ Cut(k - 1) + Size <= Cut(q)
    BY Earlier
  <2>2. \A b \in 1..Size : Cut(k - 1) + b \in 1..Len(wire)
    <3> SUFFICES ASSUME NEW b \in 1..Size PROVE Cut(k - 1) + b \in 1..Len(wire)
      OBVIOUS
    <3>1. Cut(k - 1) + b <= Cut(q) + r /\ Cut(k - 1) + b >= 1 /\ Cut(k - 1) + b \in Nat
      BY <2>1, Sizes
    <3>2. Len(wire) \in Nat
      BY DEF IInv, TypeOK
    <3> QED BY <3>1, <3>2
  <2> DEFINE f == Number(k - 1)
             chunk == [i \in 1..Size |-> wire[(k - 1) * Size + i]]
  <2>3. f \in 1..FrameCount
    <3>1. Cut(k - 1) + 1 \in 1..Len(wire)
      BY <2>2, Sizes
    <3> QED BY <3>1, WireIs DEF Number
  <2>4. chunk = [i \in 1..Size |-> [frame |-> f, byte |-> i]]
    <3>1. \A i \in 1..Size : wire[Cut(k - 1) + i] = [frame |-> f, byte |-> i]
      <4> SUFFICES ASSUME NEW i \in 1..Size
                   PROVE  wire[Cut(k - 1) + i] = [frame |-> f, byte |-> i]
        OBVIOUS
      <4>1. Cut(k - 1) + i <= Len(wire)
        BY <2>2
      <4> QED BY <2>1, <4>1 DEF StreamInv, Chunks
    <3> HIDE DEF f
    <3> QED BY <3>1 DEF Cut
  <2>5. chunk[1].frame = f
    <3>1. 1 \in 1..Size
      BY Sizes
    <3>2. chunk[1] = [frame |-> f, byte |-> 1]
      <4> HIDE DEF chunk, f
      <4> QED BY <2>4, <3>1
    <3> HIDE DEF chunk, f
    <3> QED BY <3>2
  <2>6. FrameAt(k - 1) = IF \E g \in 1..FrameCount :
                                chunk = [i \in 1..Size |-> [frame |-> g, byte |-> i]]
                         THEN chunk[1].frame ELSE 0
    BY DEF FrameAt
  <2> HIDE DEF chunk
  <2> QED BY <2>3, <2>4, <2>5, <2>6
<1> QED BY <1>1, <1>2 DEF Read

LEMMA ReadIsNext ==
    (IInv /\ StreamInv =>
        \A q \in Nat : \A r \in 0..(Size - 1) : Len(wire) = Cut(q) + r =>
            /\ Read = [k \in 1..q |-> Number(k - 1)]
            /\ \A k \in 1..q : Number(k - 1) \in 1..FrameCount)'
BY ReadIs, PTL

\* Bytes that complete a frame are its receipt; any others go unnoticed.
LEMMA SendSomeReceives ==
    ASSUME IInv, StreamInv, SendSome, IInv', StreamInv'
    PROVE  Stream!Receive \/ UNCHANGED <<Read, ~ open>>
<1>1. PICK n \in 1..(Length(part) - sent) :
         /\ Position' = Position + n
         /\ Position \in Nat /\ Position + n \in 1..Size
         /\ frame \in 1..FrameCount
         /\ Len(wire) \in Nat /\ Len(wire') = Len(wire) + n
         /\ \A i \in 1..n :
               wire'[Len(wire) + i] = [frame |-> frame, byte |-> Position + i]
  BY SentIs
<1>2. pc = "sending" /\ open /\ UNCHANGED <<pc, open, frame, part>>
  BY DEF SendSome, InLoop
<1>3. PICK q \in Nat : Progress(q)
  BY <1>2 DEF StreamInv
<1> DEFINE P == Position
           L == Len(wire)
<1>4. /\ n \in Nat \ {0} /\ Size \in Nat \ {0} /\ P \in 0..(Size - 1)
      /\ L = Cut(q) + P /\ Len(wire') = Cut(q) + (P + n) /\ P + n <= Size
      /\ Cut(q) \in Nat
  <2>1. n \in Nat \ {0}
    BY <1>1, <1>2 DEF IInv, TypeOK, Length
  <2>2. L = Cut(q) + P /\ Cut(q) \in Nat
    BY <1>2, <1>3, CutIs DEF Progress
  <2>3. P \in Nat /\ P + n <= Size /\ Len(wire') = L + n /\ Size \in Nat \ {0}
    BY <1>1, Sizes
  <2> HIDE DEF L, P
  <2>4. P \in 0..(Size - 1) /\ Len(wire') = Cut(q) + (P + n)
    BY <2>1, <2>2, <2>3
  <2> QED BY <2>1, <2>2, <2>3, <2>4
<1>5. /\ Read = [k \in 1..q |-> Number(k - 1)]
      /\ \A k \in 1..q : Number(k - 1) \in 1..FrameCount
  BY <1>4, ReadIs
<1>6. ASSUME NEW k \in 1..q PROVE Number(k - 1)' = Number(k - 1)
  <2>1. k - 1 \in Nat /\ Cut(k - 1) + Size <= Cut(q) /\ Cut(k - 1) \in Nat
    BY Earlier
  <2>2. Cut(k - 1) + 1 <= L
    <3> HIDE DEF L, P
    <3> QED BY <2>1, <1>4
  <2> QED BY <2>1, <2>2, NumbersKept
<1>7. CASE P + n < Size
  <2>1. P + n \in 0..(Size - 1)
    <3> HIDE DEF P
    <3> QED BY <1>4, <1>7
  <2>2. Read' = [k \in 1..q |-> Number(k - 1)']
    <3> DEFINE r == P + n
    <3>1. Len(wire') = Cut(q)' + r /\ r \in 0..(Size' - 1)
      BY <1>4, <2>1 DEF Cut, Size
    <3> HIDE DEF r
    <3> QED BY <3>1, ReadIsNext
  <2> QED BY <1>2, <1>5, <1>6, <2>2
<1>8. CASE P + n = Size
  <2>1. q + 1 \in Nat /\ Cut(q + 1) = Cut(q) + Size /\ (q + 1) - 1 = q
    BY CutIs
  <2>2. Read' = [k \in 1..(q + 1) |-> Number(k - 1)']
    <3>1. Len(wire') = Cut(q + 1)' + 0 /\ 0 \in 0..(Size' - 1)
      <4>1. Len(wire') = Cut(q + 1) + 0 /\ 0 \in 0..(Size - 1)
        <5> HIDE DEF P
        <5> QED BY <1>4, <1>8, <2>1
      <4> QED BY <4>1 DEF Cut, Size
    <3> QED BY <2>1, <3>1, ReadIsNext
  <2>3. Number(q)' = frame
    <3>1. wire'[Cut(q) + Size] = [frame |-> frame, byte |-> Size]
      <4>1. wire'[L + n] = [frame |-> frame, byte |-> P + n]
        BY <1>1, <1>4
      <4>2. L + n = Cut(q) + Size
        <5> HIDE DEF L, P
        <5> QED BY <1>4, <1>8
      <4> QED BY <4>1, <4>2, <1>8
    <3>2. wire'[Cut(q) + Size] = [frame |-> Number(q)', byte |-> Size]
      <4>1. Size \in 1..Size /\ Cut(q) + Size <= Len(wire')
        <5> HIDE DEF P
        <5> QED BY <1>4, <1>8
      <4> QED BY <4>1 DEF StreamInv, Chunks, Cut, Size, Number
    <3>3. [frame |-> frame, byte |-> Size].frame = [frame |-> Number(q)', byte |-> Size].frame
      BY <3>1, <3>2
    <3> QED BY <3>3
  <2>4. Read' = Append(Read, frame)
    <3>1. Read \in Seq(Nat) /\ Len(Read) = q
      BY <1>5, Sizes
    <3>2. \A k \in 1..q : Read'[k] = Read[k]
      BY <1>5, <1>6, <2>2
    <3>3. Read'[q + 1] = frame
      BY <2>1, <2>2, <2>3
    <3>4. /\ Append(Read, frame) \in Seq(Nat) /\ Len(Append(Read, frame)) = q + 1
          /\ \A k \in 1..q : Append(Read, frame)[k] = Read[k]
          /\ Append(Read, frame)[q + 1] = frame
      BY <3>1, <1>1, Sizes
    <3>5. Read' \in Seq(Nat) /\ Len(Read') = q + 1
      <4>1. \A k \in 1..(q + 1) : k # q + 1 => k \in 1..q
        OBVIOUS
      <4>2. \A k \in 1..(q + 1) : Read'[k] \in Nat
        BY <4>1, <3>1, <3>2, <3>3, <1>1, Sizes
      <4> QED BY <2>1, <2>2, <4>2
    <3>6. ASSUME NEW k \in 1..(q + 1) PROVE Read'[k] = Append(Read, frame)[k]
      <4>1. k = q + 1 \/ k \in 1..q
        OBVIOUS
      <4> QED BY <4>1, <3>2, <3>3, <3>4
    <3> QED BY <3>4, <3>5, <3>6
  <2>5. \A i \in DOMAIN Read : Read[i] < frame
    <3> SUFFICES ASSUME NEW i \in 1..q PROVE Number(i - 1) < frame
      BY <1>5
    <3>1. q - 1 \in Nat /\ q > 0 /\ Number(q - 1) < frame
      BY <1>2, <1>3 DEF Progress
    <3>2. CASE i = q
      BY <3>1, <3>2
    <3>3. CASE i # q
      <4>1. Cut(q - 1) + 1 <= L
        <5>1. Cut(q - 1) \in Nat /\ Cut(q - 1) + Size <= Cut(q)
          BY <3>1, CutIs
        <5> HIDE DEF L, P
        <5> QED BY <5>1, <1>4
      <4>2. Number(i - 1) < Number(q - 1)
        <5>1. i - 1 \in Nat /\ i - 1 < q - 1
          BY <3>3
        <5> QED BY <5>1, <3>1, <4>1 DEF StreamInv, Rising
      <4>3. Number(i - 1) \in Nat /\ Number(q - 1) \in Nat /\ frame \in Nat
        BY <1>1, <1>5, <3>1, Sizes
      <4> QED BY <3>1, <4>2, <4>3
    <3> QED BY <3>2, <3>3
  <2> QED BY <1>1, <1>2, <2>4, <2>5 DEF Stream!Receive
<1> QED BY <1>4, <1>7, <1>8

LEMMA InitRefines == Init => Stream!Init
<1> SUFFICES ASSUME Init PROVE Stream!Init
  OBVIOUS
<1>1. Len(wire) = Cut(0) + 0 /\ 0 \in 0..(Size - 1) /\ open = TRUE
  BY CutIs, Sizes DEF Init
<1>2. Read = [k \in 1..0 |-> Number(k - 1)]
  BY <1>1, InitInv, InitStream, ReadIs
<1>3. Read = <<>>
  BY <1>2
<1> QED BY <1>1, <1>3 DEF Stream!Init

LEMMA StepRefines ==
    IInv /\ StreamInv /\ [Next]_vars /\ IInv' /\ StreamInv'
        => [Stream!Next]_(Stream!vars)
<1> SUFFICES ASSUME IInv, StreamInv, [Next]_vars, IInv', StreamInv'
             PROVE  Stream!Next \/ UNCHANGED <<Read, ~ open>>
  BY DEF Stream!vars
<1>1. CASE SendSome
  BY <1>1, SendSomeReceives DEF Stream!Next
<1>2. ASSUME wire' = wire, open' => open
      PROVE  Stream!Next \/ UNCHANGED <<Read, ~ open>>
  <2>1. Read' = Read
    BY <1>2 DEF Read, FrameAt, Size
  <2>2. open \in BOOLEAN /\ open' \in BOOLEAN
    BY DEF IInv, TypeOK
  <2> QED BY <1>2, <2>1, <2>2 DEF Stream!Next, Stream!End
<1>3. CASE BeginFrame \/ Interrupted \/ Complete \/ UNCHANGED vars
  BY <1>2, <1>3 DEF BeginFrame, Interrupted, Complete, vars
<1>4. CASE SendFails \/ DeadlinePassed \/ PeerCloses
  BY <1>2, <1>4 DEF SendFails, DeadlinePassed, PeerCloses, Shutdown
<1> QED BY <1>1, <1>3, <1>4 DEF Next, SendComplete

\* The wire read frame by frame is a stream of whole frames in order and then
\* nothing: a send() that completes a frame delivers it, shutdown() ends the
\* stream, and no other step of send_complete is seen by the browser.
THEOREM ImplementsStreamHolds == Spec => ImplementsStream
<1>1. Spec => []StreamInv
  BY InitStream, StepStream, WireCorrect, PTL DEF Spec
<1> QED BY <1>1, InitRefines, StepRefines, WireCorrect, PTL
        DEF Spec, ImplementsStream, Stream!Spec
=============================================================================
