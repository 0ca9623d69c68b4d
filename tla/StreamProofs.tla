---------------------------- MODULE StreamProofs ----------------------------
(***************************************************************************)
(* Theorems about Stream, for any number of clients, any window and any    *)
(* mix of faults: the state keeps its shape, the publisher keeps its pace, *)
(* that is, Stream implements Pacing; every frame it waits for is          *)
(* accounted for, and a key frame comes for whoever swallows frames.       *)
(***************************************************************************)
EXTENDS Stream, ClientTableProofs

-----------------------------------------------------------------------------
(* Packets and links. *)

\* Which fields a packet has follows from its type.
LEMMA PacketFields ==
  ASSUME NEW m \in Packet
  PROVE  /\ m.type = "VideoData" => m.idr \in BOOLEAN /\ m.num \in Nat
         /\ m.type = "VideoAck" => m.num \in Nat
         /\ m.type = "RequestKeyFrame" => m.reset \in BOOLEAN
BY DEF Packet

\* What the clients and the session make are packets.
LEMMA PacketsMade ==
  /\ \A b \in BOOLEAN, n \in Nat : Frame(b, n) \in Packet
  /\ \A n \in Nat : Numbered("VideoAck", n) \in Packet /\ Numbered("DropAck", n) \in Packet
  /\ \A b \in BOOLEAN : Request(b) \in Packet
BY DEF Packet, Frame, Numbered, Request

\* Frame and acknowledgement numbers are natural.
LEMMA NumsType ==
  ASSUME NEW link \in Seq(Packet), NEW t \in {"VideoData", "VideoAck"}
  PROVE  NumsOn(link, t) \subseteq Nat
<1>1. ASSUME NEW m \in On(link), m.type = t
      PROVE  m.num \in Nat
  <2>1. m \in Packet
    BY DEF On
  <2>2. QED
    BY <1>1, <2>1, PacketFields
<1>2. QED
  BY <1>1 DEF NumsOn

\* A frame or an acknowledgement is for a number that has been given out.
AtMost(m, s) == m.type \in {"VideoData", "VideoAck"} => m.num <= s

Links(f, s) ==
  /\ f \in [Client -> Seq(Packet)]
  /\ \A c \in Client : \A k \in DOMAIN f[c] : AtMost(f[c][k], s)

\* Taking the first message from a link.
LEMMA Consumed ==
  ASSUME NEW f, NEW s \in Nat, Links(f, s), NEW c \in Client, f[c] # <<>>
  PROVE  /\ Head(f[c]) \in Packet
         /\ AtMost(Head(f[c]), s)
         /\ Links([f EXCEPT ![c] = Tail(@)], s)
<1> DEFINE g == [f EXCEPT ![c] = Tail(@)]
<1>1. f \in [Client -> Seq(Packet)] /\ f[c] \in Seq(Packet)
  BY DEF Links
<1>2. Head(f[c]) \in Packet /\ Head(f[c]) = f[c][1] /\ 1 \in DOMAIN f[c]
  BY <1>1
<1>3. Tail(f[c]) \in Seq(Packet) /\ \A k \in DOMAIN Tail(f[c]) : k + 1 \in DOMAIN f[c] /\ Tail(f[c])[k] = f[c][k + 1]
  BY <1>1
<1>4. g \in [Client -> Seq(Packet)]
  BY <1>1, <1>3
<1>5. ASSUME NEW d \in Client, NEW k \in DOMAIN g[d]
      PROVE  AtMost(g[d][k], s)
  <2>1. CASE d = c
    <3>1. g[d] = Tail(f[c])
      BY <1>1, <2>1
    <3>2. k + 1 \in DOMAIN f[c] /\ g[d][k] = f[c][k + 1]
      BY <1>3, <3>1
    <3>3. QED
      BY <3>2 DEF Links
  <2>2. CASE d # c
    <3>1. g[d] = f[d]
      BY <1>1, <2>2
    <3>2. QED
      BY <3>1 DEF Links
  <2>3. QED
    BY <2>1, <2>2
<1>6. AtMost(Head(f[c]), s)
  BY <1>2 DEF Links
<1>7. Links(g, s)
  BY <1>4, <1>5 DEF Links
<1>8. QED
  BY <1>2, <1>6, <1>7

\* Adding a message to a sequence of them.
LEMMA Appending ==
  ASSUME NEW s \in Nat, NEW q \in Seq(Packet), NEW m \in Packet, AtMost(m, s),
         \A k \in DOMAIN q : AtMost(q[k], s)
  PROVE  /\ Append(q, m) \in Seq(Packet)
         /\ \A k \in DOMAIN Append(q, m) : AtMost(Append(q, m)[k], s)
<1>1. Append(q, m) \in Seq(Packet)
  OBVIOUS
<1>2. \A k \in DOMAIN Append(q, m) : Append(q, m)[k] = m \/ (k \in DOMAIN q /\ Append(q, m)[k] = q[k])
  OBVIOUS
<1>3. QED
  BY <1>1, <1>2

\* Replacing a link by one that is bounded, too.
LEMMA Produced ==
  ASSUME NEW f, NEW s \in Nat, Links(f, s), NEW c \in Client,
         NEW q \in Seq(Packet), \A k \in DOMAIN q : AtMost(q[k], s)
  PROVE  Links([f EXCEPT ![c] = q], s)
<1> DEFINE g == [f EXCEPT ![c] = q]
<1>1. f \in [Client -> Seq(Packet)]
  BY DEF Links
<1>2. g \in [Client -> Seq(Packet)]
  BY <1>1
<1>3. ASSUME NEW d \in Client, NEW k \in DOMAIN g[d]
      PROVE  AtMost(g[d][k], s)
  <2>1. CASE d = c
    <3>1. g[d] = q
      BY <1>1, <2>1
    <3>2. QED
      BY <3>1
  <2>2. CASE d # c
    <3>1. g[d] = f[d]
      BY <1>1, <2>2
    <3>2. QED
      BY <3>1 DEF Links
  <2>3. QED
    BY <2>1, <2>2
<1>4. QED
  BY <1>2, <1>3 DEF Links

\* What the session writes.
LEMMA WrittenLinks ==
  ASSUME NEW s \in Nat, Links(down, s),
         NEW D, D \subseteq [to: Client, msg: Packet], \A d \in D : AtMost(d.msg, s)
  PROVE  Links(Written(D), s)
<1>1. ASSUME NEW c \in Client
      PROVE  /\ Written(D)[c] \in Seq(Packet)
             /\ \A k \in DOMAIN Written(D)[c] : AtMost(Written(D)[c][k], s)
  <2>0. down[c] \in Seq(Packet) /\ \A k \in DOMAIN down[c] : AtMost(down[c][k], s)
    BY DEF Links
  <2>1. CASE \E d \in D : d.to = c
    <3> DEFINE e == CHOOSE d \in D : d.to = c
    <3>1. e \in D
      BY <2>1
    <3>2. e.msg \in Packet /\ AtMost(e.msg, s)
      BY <3>1
    <3>3. Written(D)[c] = Append(down[c], e.msg)
      BY <2>1 DEF Written
    <3> HIDE DEF e
    <3>4. QED
      BY <2>0, <3>2, <3>3, Appending
  <2>2. CASE ~ \E d \in D : d.to = c
    <3>1. Written(D)[c] = down[c]
      BY <2>2 DEF Written
    <3>2. QED
      BY <2>0, <3>1
  <2>3. QED
    BY <2>1, <2>2
<1>2. Written(D) \in [Client -> Seq(Packet)]
  <2>1. DOMAIN Written(D) = Client /\ Written(D) = [c \in Client |-> Written(D)[c]]
    BY DEF Written
  <2>2. QED
    BY <1>1, <2>1
<1>3. QED
  BY <1>1, <1>2 DEF Links

\* The bound may grow.
LEMMA Relaxed ==
  ASSUME NEW f, NEW s \in Nat, NEW t \in Nat, s <= t, Links(f, s)
  PROVE  Links(f, t)
<1>1. f \in [Client -> Seq(Packet)]
  BY DEF Links
<1>2. ASSUME NEW c \in Client, NEW k \in DOMAIN f[c]
      PROVE  AtMost(f[c][k], t)
  <2>1. f[c][k] \in Packet /\ AtMost(f[c][k], s)
    BY <1>1 DEF Links
  <2>2. f[c][k].type \in {"VideoData", "VideoAck"} => f[c][k].num \in Nat
    BY <2>1, PacketFields
  <2>3. QED
    BY <2>1, <2>2 DEF AtMost
<1>3. QED
  BY <1>1, <1>2 DEF Links

-----------------------------------------------------------------------------
(* The inductive invariant. *)

\* A number is only taken back when a frame was sent before it.
Begun ==
  /\ phase = "encoding" /\ ~idr => ~fresh
  /\ ~fresh /\ phase \in {"waiting", "encoding", "failed"} => cap > 0

\* What is acknowledged, or about to be, has been sent.
Acknowledged == ack <= Sent /\ seq <= Sent

IInv == TypeOK /\ Begun /\ Acknowledged /\ Links(up, Sent) /\ Links(down, Sent)

\* The part of the state only the capture thread and the publisher's
\* websocket thread write.
CaptureType ==
  /\ cap \in Nat /\ ack \in Nat
  /\ writer \in {"idle", "resetting", "writing"} /\ seq \in Nat
  /\ force \in BOOLEAN /\ fresh \in BOOLEAN /\ idr \in BOOLEAN
  /\ phase \in {"waiting", "encoding", "sent", "skipped", "failed"}

RestType ==
  /\ conns \in Seq(Conn)
  /\ met \subseteq Client
  /\ waiting \in [Viewer -> BOOLEAN]
  /\ lost \subseteq Nat
  /\ missed \in BOOLEAN

\* The invariant, part by part.
LEMMA Parts ==
  IInv <=> /\ CaptureType /\ RestType /\ Begun /\ Acknowledged
           /\ Links(up, Sent) /\ Links(down, Sent)
BY DEF IInv, TypeOK, CaptureType, RestType, Links

\* The count of numbers given out is natural.
LEMMA SentType ==
  ASSUME CaptureType
  PROVE  Sent \in Nat
BY DEF CaptureType, Sent

\* A step that leaves the capture state alone.
LEMMA CaptureKept ==
  ASSUME IInv, UNCHANGED capture
  PROVE  /\ CaptureType' /\ Begun' /\ Acknowledged'
         /\ Sent \in Nat /\ Sent' = Sent
<1>1. CaptureType /\ Begun /\ Acknowledged /\ Sent \in Nat
  BY Parts, SentType
<1>2. /\ cap' = cap /\ ack' = ack /\ force' = force
      /\ fresh' = fresh /\ phase' = phase /\ idr' = idr
      /\ writer' = writer /\ seq' = seq
  BY DEF capture
<1>3. Sent' = Sent
  BY <1>2 DEF Sent
<1>4. QED
  BY <1>1, <1>2, <1>3 DEF CaptureType, Begun, Acknowledged

-----------------------------------------------------------------------------
(* The initial state. *)

\* The invariant holds before the first frame.
LEMMA InitHolds ==
  ASSUME Init
  PROVE  IInv
<1>1. CaptureType /\ Begun /\ Sent = 0
  BY DEF Init, CaptureType, Begun, Sent
<1>2. Acknowledged
  BY <1>1 DEF Init, Acknowledged
<1>3. NewConn(Pub, Pub, TRUE, TRUE) \in Conn
  BY ClientAssumption, UserAssumption DEF NewConn, Conn, Client
<1>4. conns \in Seq(Conn)
  <2>1. \A x \in Conn : <<x>> \in Seq(Conn)
    OBVIOUS
  <2>2. conns = <<NewConn(Pub, Pub, TRUE, TRUE)>>
    BY DEF Init
  <2>3. QED
    BY <1>3, <2>1, <2>2, Zenon
<1>5. RestType
  BY <1>4, ClientAssumption DEF Init, RestType
<1>6. /\ <<>> \in Seq(Packet)
      /\ \A k \in DOMAIN <<>> : AtMost(<<>>[k], 0)
  OBVIOUS
<1>7. Links(up, Sent) /\ Links(down, Sent)
  BY <1>1, <1>6 DEF Init, Links
<1>8. QED
  BY <1>1, <1>2, <1>5, <1>7, Parts

-----------------------------------------------------------------------------
(* The capture thread. *)

\* A frame is grabbed only when the window is open; resetting sets the
\* acknowledgement to a number already given out.
LEMMA BeginsKeeps ==
  ASSUME IInv, CaptureBegins
  PROVE  IInv'
<1>1. CaptureType /\ RestType /\ Begun /\ Acknowledged /\ Links(up, Sent) /\ Links(down, Sent)
  BY Parts
<1>2. PICK resized \in BOOLEAN : /\ ack' = IF resized THEN cap ELSE ack
                                 /\ fresh' = (fresh \/ resized)
                                 /\ idr' = (force \/ fresh')
  BY DEF CaptureBegins
<1>3. CaptureType'
  BY <1>1, <1>2 DEF CaptureBegins, CaptureType, writing
<1>4. Sent' = Sent /\ Sent = cap
  BY DEF CaptureBegins, Sent
<1>5. Begun'
  BY <1>1, <1>2 DEF CaptureBegins, Begun
<1>6. Acknowledged'
  BY <1>1, <1>2, <1>4 DEF CaptureBegins, Acknowledged, CaptureType, writing
<1>7. RestType' /\ up' = up /\ down' = down
  BY <1>1 DEF CaptureBegins, RestType
<1>8. Links(up', Sent') /\ Links(down', Sent')
  BY <1>1, <1>4, <1>7
<1>9. QED
  BY <1>3, <1>5, <1>6, <1>7, <1>8, Parts DEF IInv, TypeOK, CaptureType, RestType, Links

\* A failed frame keeps its number.
LEMMA FailsKeeps ==
  ASSUME IInv, EncodeFails
  PROVE  IInv'
<1>1. CaptureType /\ RestType /\ Begun /\ Acknowledged /\ Links(up, Sent) /\ Links(down, Sent)
  BY Parts
<1>2. Sent' = Sent
  BY DEF EncodeFails, Sent
<1>3. CaptureType'
  BY <1>1 DEF EncodeFails, CaptureType, writing
<1>4. Begun' /\ Acknowledged'
  BY <1>1, <1>2 DEF EncodeFails, Begun, Acknowledged, writing
<1>5. RestType'
  BY <1>1 DEF EncodeFails, RestType, CaptureType
<1>6. Links(up', Sent') /\ Links(down', Sent')
  BY <1>1, <1>2 DEF EncodeFails
<1>7. QED
  BY <1>3, <1>4, <1>5, <1>6 DEF IInv, TypeOK, CaptureType, RestType, Links

\* A number taken back is still counted in Sent: acknowledgements of it
\* are possible after a reset only.
LEMMA SkippedKeeps ==
  ASSUME IInv, FrameSkipped
  PROVE  IInv'
<1>1. CaptureType /\ RestType /\ Begun /\ Acknowledged /\ Links(up, Sent) /\ Links(down, Sent)
  BY Parts
<1>2. cap > 0
  BY <1>1 DEF FrameSkipped, Begun
<1>3. Sent' = Sent
  BY <1>1, <1>2 DEF FrameSkipped, Sent, CaptureType
<1>4. CaptureType'
  BY <1>1, <1>2 DEF FrameSkipped, CaptureType, writing
<1>5. Begun' /\ Acknowledged'
  BY <1>1, <1>3 DEF FrameSkipped, Begun, Acknowledged, writing
<1>6. RestType'
  BY <1>1 DEF FrameSkipped, RestType
<1>7. Links(up', Sent') /\ Links(down', Sent')
  BY <1>1, <1>3 DEF FrameSkipped
<1>8. QED
  BY <1>4, <1>5, <1>6, <1>7 DEF IInv, TypeOK, CaptureType, RestType, Links

\* A frame on the link has the newest number.
LEMMA SentKeeps ==
  ASSUME IInv, FrameSent
  PROVE  IInv'
<1>1. CaptureType /\ RestType /\ Begun /\ Acknowledged /\ Links(up, Sent) /\ Links(down, Sent)
  BY Parts
<1>2. Sent' = Sent /\ Sent = cap /\ Sent \in Nat
  BY <1>1, SentType DEF FrameSent, Sent
<1>3. CaptureType'
  BY <1>1 DEF FrameSent, CaptureType, writing
<1>4. Begun' /\ Acknowledged'
  BY <1>1, <1>2 DEF FrameSent, Begun, Acknowledged, writing
<1>5. RestType'
  BY <1>1 DEF FrameSent, RestType, CaptureType
<1>6. Links(down', Sent')
  BY <1>1, <1>2 DEF FrameSent
<1>7. Links(up', Sent')
  <2>1. CASE up' = up
    BY <1>1, <1>2, <2>1
  <2>2. CASE up' = [up EXCEPT ![Pub] = Append(up[Pub], Frame(idr, cap))]
    <3> DEFINE m == Frame(idr, cap)
    <3>1. m \in Packet
      BY <1>1, PacketsMade DEF CaptureType
    <3>2. AtMost(m, Sent)
      BY <1>1, <1>2 DEF AtMost, Frame, CaptureType
    <3>3. up[Pub] \in Seq(Packet) /\ \A k \in DOMAIN up[Pub] : AtMost(up[Pub][k], Sent)
      BY <1>1, ClientAssumption DEF Links
    <3> HIDE DEF m
    <3>4. /\ Append(up[Pub], m) \in Seq(Packet)
          /\ \A k \in DOMAIN Append(up[Pub], m) : AtMost(Append(up[Pub], m)[k], Sent)
      BY <1>2, <3>1, <3>2, <3>3, Appending
    <3>5. Links([up EXCEPT ![Pub] = Append(up[Pub], m)], Sent)
      BY <1>1, <1>2, <3>4, ClientAssumption, Produced
    <3>6. QED
      BY <1>2, <2>2, <3>5 DEF m
  <2>3. QED
    BY <2>1, <2>2 DEF FrameSent
<1>8. QED
  BY <1>3, <1>4, <1>5, <1>6, <1>7 DEF IInv, TypeOK, CaptureType, RestType, Links

\* Counting the frame gives its number out, or again after a skip.
LEMMA CountedKeeps ==
  ASSUME IInv, FrameCounted
  PROVE  IInv'
<1>1. CaptureType /\ RestType /\ Begun /\ Acknowledged /\ Links(up, Sent) /\ Links(down, Sent)
  BY Parts
<1>2. Sent' = cap + 1 /\ Sent <= Sent' /\ Sent \in Nat /\ Sent' \in Nat
  BY <1>1, SentType DEF FrameCounted, Sent, CaptureType
<1>3. CaptureType'
  BY <1>1 DEF FrameCounted, CaptureType, writing
<1>4. Begun'
  BY <1>1 DEF FrameCounted, Begun, CaptureType
<1>5. Acknowledged'
  BY <1>1, <1>2 DEF FrameCounted, Acknowledged, CaptureType, writing
<1>6. RestType' /\ up' = up /\ down' = down
  BY <1>1 DEF FrameCounted, RestType
<1>7. Links(up', Sent') /\ Links(down', Sent')
  BY <1>1, <1>2, <1>6, Relaxed
<1>8. QED
  BY <1>3, <1>4, <1>5, <1>6, <1>7 DEF IInv, TypeOK, CaptureType, RestType, Links

-----------------------------------------------------------------------------
(* The publisher's websocket thread. *)

\* The message at the head of the publisher's link.
LEMMA HeadTaken ==
  ASSUME IInv, NEW c \in Client, NEW m, Received(c, m),
         down' = [down EXCEPT ![c] = Tail(@)]
  PROVE  m \in Packet /\ AtMost(m, Sent) /\ Links(down', Sent)
<1>1. Links(down, Sent) /\ Sent \in Nat /\ down[c] # <<>> /\ m = Head(down[c])
  BY Parts, SentType DEF Received
<1>2. /\ Head(down[c]) \in Packet
      /\ AtMost(Head(down[c]), Sent)
      /\ Links([down EXCEPT ![c] = Tail(@)], Sent)
  BY <1>1, Consumed
<1>3. QED
  BY <1>1, <1>2

\* An acknowledgement is of a number given out.
LEMMA AckKeeps ==
  ASSUME IInv, AckArrives
  PROVE  IInv'
<1>1. CaptureType /\ RestType /\ Begun /\ Acknowledged /\ Links(up, Sent) /\ Links(down, Sent)
  BY Parts
<1>2. PICK m \in On(down[Pub]) :
        /\ Received(Pub, m) /\ m.type = "VideoAck"
        /\ IF m.num > ack THEN writer' = "writing" /\ seq' = m.num ELSE UNCHANGED writing
  BY DEF AckArrives
<1>3. down' = [down EXCEPT ![Pub] = Tail(@)]
  BY DEF AckArrives
<1>4. m \in Packet /\ AtMost(m, Sent) /\ Links(down', Sent)
  BY <1>2, <1>3, ClientAssumption, HeadTaken
<1>5. m.num \in Nat /\ m.num <= Sent
  BY <1>2, <1>4, PacketFields DEF AtMost
<1>6. Sent' = Sent /\ Sent \in Nat
  BY <1>1, SentType DEF AckArrives, Sent
<1>7. CaptureType'
  BY <1>1, <1>2, <1>5 DEF AckArrives, CaptureType, writing
<1>8. Acknowledged'
  BY <1>1, <1>2, <1>5, <1>6 DEF AckArrives, Acknowledged, writing
<1>9. Begun'
  BY <1>1 DEF AckArrives, Begun
<1>10. RestType' /\ up' = up
  BY <1>1 DEF AckArrives, RestType
<1>11. QED
  BY <1>1, <1>4, <1>6, <1>7, <1>8, <1>9, <1>10 DEF IInv, TypeOK, CaptureType, RestType, Links

\* A dropped acknowledgement changes nothing.
LEMMA DropAckKeeps ==
  ASSUME IInv, DropAckArrives
  PROVE  IInv'
<1>1. CaptureType /\ RestType /\ Begun /\ Acknowledged /\ Links(up, Sent) /\ Links(down, Sent)
  BY Parts
<1>2. CaptureType' /\ Begun' /\ Acknowledged' /\ Sent' = Sent
  BY CaptureKept DEF DropAckArrives
<1>3. Links(down', Sent)
  BY ClientAssumption, HeadTaken DEF DropAckArrives
<1>4. RestType' /\ up' = up
  BY <1>1 DEF DropAckArrives, RestType
<1>5. QED
  BY <1>1, <1>2, <1>3, <1>4 DEF IInv, TypeOK, CaptureType, RestType, Links

\* A request forces a key frame, and may be followed by a reset.
LEMMA RequestKeeps ==
  ASSUME IInv, RequestArrives
  PROVE  IInv'
<1>1. CaptureType /\ RestType /\ Begun /\ Acknowledged /\ Links(up, Sent) /\ Links(down, Sent)
  BY Parts
<1>2. PICK m \in On(down[Pub]) :
        /\ Received(Pub, m) /\ m.type = "RequestKeyFrame"
        /\ writer' = IF m.reset THEN "resetting" ELSE "idle"
  BY DEF RequestArrives
<1>3. down' = [down EXCEPT ![Pub] = Tail(@)]
  BY DEF RequestArrives
<1>4. Links(down', Sent)
  BY <1>2, <1>3, ClientAssumption, HeadTaken
<1>5. Sent' = Sent /\ Sent \in Nat
  BY <1>1, SentType DEF RequestArrives, Sent
<1>6. CaptureType'
  BY <1>1, <1>2 DEF RequestArrives, CaptureType
<1>7. Begun' /\ Acknowledged'
  BY <1>1, <1>5 DEF RequestArrives, Begun, Acknowledged
<1>8. RestType' /\ up' = up
  BY <1>1 DEF RequestArrives, RestType, CaptureType
<1>9. QED
  BY <1>1, <1>4, <1>5, <1>6, <1>7, <1>8 DEF IInv, TypeOK, CaptureType, RestType, Links

\* The reset reads the number of the frame in the making, and the number read or
\* tested is written.
LEMMA WriterKeeps ==
  ASSUME IInv, ResetReads \/ AckWritten
  PROVE  IInv'
<1>1. CaptureType /\ RestType /\ Begun /\ Acknowledged /\ Links(up, Sent) /\ Links(down, Sent)
  BY Parts
<1>2. Sent' = Sent /\ Sent \in Nat /\ cap <= Sent
  BY <1>1, SentType DEF ResetReads, AckWritten, Sent, CaptureType
<1>3. CaptureType'
  BY <1>1 DEF ResetReads, AckWritten, CaptureType
<1>4. Begun' /\ Acknowledged'
  BY <1>1, <1>2 DEF ResetReads, AckWritten, Begun, Acknowledged
<1>5. RestType' /\ up' = up /\ down' = down
  BY <1>1 DEF ResetReads, AckWritten, RestType
<1>6. QED
  BY <1>1, <1>2, <1>3, <1>4, <1>5 DEF IInv, TypeOK, CaptureType, RestType, Links

-----------------------------------------------------------------------------
(* The relay, the viewers and the connections: the capture state is left     *)
(* alone, the rest keeps its type and the links their bound.                 *)

\* A step outside the publisher keeps the invariant if it keeps the types
\* and the bound of the links.
LEMMA ElsewhereKeeps ==
  ASSUME IInv, UNCHANGED capture, RestType', Links(up', Sent), Links(down', Sent)
  PROVE  IInv'
<1>1. CaptureType' /\ Begun' /\ Acknowledged' /\ Sent' = Sent
  BY CaptureKept
<1>2. QED
  BY <1>1 DEF IInv, TypeOK, CaptureType, RestType, Links

\* What Deliver writes for a table.
LEMMA DeliverPackets ==
  ASSUME NEW cs \in Seq(Conn), NEW I, I \subseteq DOMAIN cs, NEW m \in Packet,
         NEW s \in Nat, AtMost(m, s)
  PROVE  /\ Deliver(cs, I, m) \subseteq [to: Client, msg: Packet]
         /\ \A d \in Deliver(cs, I, m) : AtMost(d.msg, s)
<1>1. ASSUME NEW i \in I
      PROVE  [to |-> cs[i].wsi, msg |-> m] \in [to: Client, msg: Packet]
  <2>1. cs[i].wsi \in Client
    BY TableElements DEF Conn, Client
  <2>2. QED
    BY <2>1
<1>2. QED
  BY <1>1 DEF Deliver

\* Taking the first message of a client off its link.
LEMMA TakenUp ==
  ASSUME IInv, NEW c \in Client, NEW m, NEW t, Relayed(c, m, t)
  PROVE  m \in Packet /\ m.type = t /\ AtMost(m, Sent) /\ Links(up', Sent)
<1>1. /\ Links(up, Sent) /\ Sent \in Nat /\ up[c] # <<>> /\ m = Head(up[c]) /\ m.type = t
      /\ up' = [up EXCEPT ![c] = Tail(@)]
  BY Parts, SentType DEF Relayed
<1>2. /\ Head(up[c]) \in Packet
      /\ AtMost(Head(up[c]), Sent)
      /\ Links([up EXCEPT ![c] = Tail(@)], Sent)
  BY <1>1, Consumed
<1>3. QED
  BY <1>1, <1>2

\* Relaying a frame puts its own number, or an acknowledgement of it, on links.
LEMMA RelayFrameKeeps ==
  ASSUME IInv, RelayFrame
  PROVE  IInv'
<1>1. RestType /\ Sent \in Nat /\ Links(down, Sent) /\ conns \in Seq(Conn)
  BY Parts, SentType DEF RestType
<1>2. PICK m \in On(up[Pub]) :
        /\ Relayed(Pub, m, "VideoData")
        /\ conns' = AfterFrame(conns, m.idr)
        /\ down' = Written(Deliver(conns, Forwarded(conns, m.idr), m)
                             \cup {[to |-> Pub, msg |-> Numbered("DropAck", m.num)] :
                                     i \in Swallowed(conns, m.idr)})
        /\ lost' = IF Forwarded(conns, m.idr) = {} THEN lost \cup {m.num} ELSE lost
        /\ missed' = (missed /\ ~m.idr)
  BY DEF RelayFrame
<1>3. m \in Packet /\ m.type = "VideoData" /\ AtMost(m, Sent) /\ Links(up', Sent)
  BY <1>2, ClientAssumption, TakenUp
<1>4. m.idr \in BOOLEAN /\ m.num \in Nat
  BY <1>3, PacketFields
<1>5. conns' \in Seq(Conn)
  BY <1>1, <1>2, <1>4, FrameKeepsClients DEF SameClients
<1>6. Links(down', Sent)
  <2> DEFINE D == Deliver(conns, Forwarded(conns, m.idr), m)
             x == [to |-> Pub, msg |-> Numbered("DropAck", m.num)]
             E == {x : i \in Swallowed(conns, m.idr)}
  <2>1. Forwarded(conns, m.idr) \subseteq DOMAIN conns
    BY DEF Forwarded, Viewers
  <2>2. D \subseteq [to: Client, msg: Packet] /\ \A d \in D : AtMost(d.msg, Sent)
    BY <1>1, <1>3, <2>1, DeliverPackets
  <2>3. x \in [to: Client, msg: Packet] /\ AtMost(x.msg, Sent)
    BY <1>4, PacketsMade, ClientAssumption DEF AtMost, Numbered
  <2>4. \A e \in E : e = x
    OBVIOUS
  <2>5. down' = Written(D \cup E)
    BY <1>2
  <2> HIDE DEF D, x, E
  <2>6. D \cup E \subseteq [to: Client, msg: Packet] /\ \A d \in D \cup E : AtMost(d.msg, Sent)
    BY <2>2, <2>3, <2>4
  <2>7. QED
    BY <1>1, <2>5, <2>6, WrittenLinks
<1>7. RestType'
  <2>1. met' = met /\ waiting' = waiting
    BY DEF RelayFrame
  <2>2. lost' \subseteq Nat /\ missed' \in BOOLEAN
    BY <1>1, <1>2, <1>4 DEF RestType
  <2>3. QED
    BY <1>1, <1>5, <2>1, <2>2 DEF RestType
<1>8. QED
  BY <1>3, <1>6, <1>7, ElsewhereKeeps DEF RelayFrame

\* Relaying an acknowledgement passes its number on.
LEMMA RelayAckKeeps ==
  ASSUME IInv, NEW v \in Viewer, RelayAck(v)
  PROVE  IInv'
<1>1. RestType /\ Sent \in Nat /\ Links(down, Sent) /\ conns \in Seq(Conn) /\ v \in Client
  BY Parts, SentType DEF RestType, Viewer
<1>2. PICK m \in On(up[v]) :
        /\ Relayed(v, m, "VideoAck")
        /\ down' = Written(Deliver(conns, Publishers(conns), m))
        /\ lost' = IF Publishers(conns) = {} THEN lost \cup {m.num} ELSE lost
  BY DEF RelayAck
<1>3. m \in Packet /\ m.type = "VideoAck" /\ AtMost(m, Sent) /\ Links(up', Sent)
  BY <1>1, <1>2, TakenUp
<1>4. m.num \in Nat
  BY <1>3, PacketFields
<1>5. Publishers(conns) \subseteq DOMAIN conns
  BY DEF Publishers
<1>6. Links(down', Sent)
  BY <1>1, <1>2, <1>3, <1>5, DeliverPackets, WrittenLinks
<1>7. RestType'
  BY <1>1, <1>2, <1>4 DEF RestType, RelayAck
<1>8. QED
  BY <1>3, <1>6, <1>7, ElsewhereKeeps DEF RelayAck

\* Relaying a request puts no number on any link.
LEMMA RelayRequestKeeps ==
  ASSUME IInv, NEW v \in Viewer, RelayRequest(v)
  PROVE  IInv'
<1>1. RestType /\ Sent \in Nat /\ Links(down, Sent) /\ conns \in Seq(Conn) /\ v \in Client
  BY Parts, SentType DEF RestType, Viewer
<1>2. PICK m \in On(up[v]) :
        /\ Relayed(v, m, "RequestKeyFrame")
        /\ down' = Written(Deliver(conns, Publishers(conns), m))
  BY DEF RelayRequest
<1>3. m \in Packet /\ AtMost(m, Sent) /\ Links(up', Sent)
  BY <1>1, <1>2, TakenUp
<1>4. Publishers(conns) \subseteq DOMAIN conns
  BY DEF Publishers
<1>5. Links(down', Sent)
  BY <1>1, <1>2, <1>3, <1>4, DeliverPackets, WrittenLinks
<1>6. conns' \in Seq(Conn)
  BY <1>1, KeyRequestKeepsClients DEF SameClients, RelayRequest
<1>7. RestType'
  BY <1>1, <1>6 DEF RestType, RelayRequest
<1>8. QED
  BY <1>3, <1>5, <1>7, ElsewhereKeeps DEF RelayRequest

\* The end of a window changes the table only.
LEMMA KeyWindowKeeps ==
  ASSUME IInv, KeyWindowPasses
  PROVE  IInv'
<1>1. RestType /\ conns \in Seq(Conn) /\ Links(up, Sent) /\ Links(down, Sent)
  BY Parts DEF RestType
<1>2. PICK i \in DOMAIN conns : conns' = [conns EXCEPT ![i].recent = FALSE]
  BY DEF KeyWindowPasses
<1>3. conns' \in Seq(Conn)
  <2>1. conns[i] \in Conn
    BY <1>1
  <2>2. [conns[i] EXCEPT !.recent = FALSE] \in Conn
    BY <2>1 DEF Conn
  <2>3. conns' = [conns EXCEPT ![i] = [conns[i] EXCEPT !.recent = FALSE]]
    BY <1>2
  <2>4. \A c \in Conn : [conns EXCEPT ![i] = c] \in Seq(Conn)
    BY <1>1
  <2>5. QED
    BY <2>2, <2>3, <2>4
<1>4. RestType'
  BY <1>1, <1>3 DEF RestType, KeyWindowPasses
<1>5. Links(up', Sent) /\ Links(down', Sent)
  BY <1>1 DEF KeyWindowPasses
<1>6. QED
  BY <1>4, <1>5, ElsewhereKeeps DEF KeyWindowPasses

\* An acknowledgement, and perhaps a request, join what the viewer has sent.
LEMMA Answering ==
  ASSUME NEW s \in Nat, NEW q \in Seq(Packet), \A k \in DOMAIN q : AtMost(q[k], s),
         NEW n \in Nat, n <= s, NEW r \in {<<>>, <<Request(FALSE)>>}
  PROVE  /\ Append(q, Numbered("VideoAck", n)) \o r \in Seq(Packet)
         /\ \A k \in DOMAIN (Append(q, Numbered("VideoAck", n)) \o r) :
              AtMost((Append(q, Numbered("VideoAck", n)) \o r)[k], s)
<1> DEFINE m == Numbered("VideoAck", n)
           p == Append(q, m)
           x == Request(FALSE)
<1>1. m \in Packet /\ AtMost(m, s)
  BY PacketsMade DEF AtMost, Numbered
<1>2. x \in Packet /\ AtMost(x, s)
  BY PacketsMade DEF AtMost, Request
<1>3. p \in Seq(Packet) /\ \A k \in DOMAIN p : AtMost(p[k], s)
  <2> HIDE DEF m
  <2>1. QED
    BY <1>1, Appending
<1> HIDE DEF p, x
<1>4. p \o <<>> = p
  BY <1>3
<1>5. p \o <<x>> = Append(p, x)
  BY <1>2, <1>3
<1>6. /\ Append(p, x) \in Seq(Packet)
      /\ \A k \in DOMAIN Append(p, x) : AtMost(Append(p, x)[k], s)
  BY <1>2, <1>3, Appending
<1>7. CASE r = <<>>
  BY <1>3, <1>4, <1>7 DEF p
<1>8. CASE r = <<x>>
  BY <1>5, <1>6, <1>8 DEF p
<1>9. QED
  BY <1>7, <1>8 DEF x

\* A viewer acknowledges the number it received.
LEMMA ShowsKeeps ==
  ASSUME IInv, NEW v \in Viewer, ViewerShows(v)
  PROVE  IInv'
<1>1. RestType /\ Sent \in Nat /\ Links(up, Sent) /\ v \in Client
  BY Parts, SentType DEF Viewer
<1>2. PICK m \in On(down[v]) :
        /\ Received(v, m) /\ m.type = "VideoData"
        /\ down' = [down EXCEPT ![v] = Tail(@)]
        /\ \E shown \in BOOLEAN :
             /\ m.idr => shown
             /\ waiting' = [waiting EXCEPT ![v] = ~shown]
             /\ up' = [up EXCEPT ![v] =
                         Append(@, Numbered("VideoAck", m.num))
                           \o (IF shown \/ waiting[v] THEN <<>> ELSE <<Request(FALSE)>>)]
        /\ UNCHANGED <<capture, conns, met, lost, missed>>
  BY DEF ViewerShows
<1>3. m \in Packet /\ AtMost(m, Sent) /\ Links(down', Sent)
  BY <1>1, <1>2, HeadTaken
<1>4. m.num \in Nat /\ m.num <= Sent
  BY <1>2, <1>3, PacketFields DEF AtMost
<1>5. PICK shown \in BOOLEAN :
        /\ waiting' = [waiting EXCEPT ![v] = ~shown]
        /\ up' = [up EXCEPT ![v] =
                    Append(up[v], Numbered("VideoAck", m.num))
                      \o (IF shown \/ waiting[v] THEN <<>> ELSE <<Request(FALSE)>>)]
  BY <1>2
<1>6. Links(up', Sent)
  <2> DEFINE r == IF shown \/ waiting[v] THEN <<>> ELSE <<Request(FALSE)>>
             q == Append(up[v], Numbered("VideoAck", m.num)) \o r
  <2>1. up[v] \in Seq(Packet) /\ \A k \in DOMAIN up[v] : AtMost(up[v][k], Sent)
    BY <1>1 DEF Links
  <2>2. r \in {<<>>, <<Request(FALSE)>>}
    OBVIOUS
  <2> HIDE DEF r
  <2>3. q \in Seq(Packet) /\ \A k \in DOMAIN q : AtMost(q[k], Sent)
    BY <1>1, <1>4, <2>1, <2>2, Answering
  <2>4. up' = [up EXCEPT ![v] = q]
    BY <1>5 DEF r
  <2> HIDE DEF q
  <2>5. QED
    BY <1>1, <2>3, <2>4, Produced
<1>7. RestType'
  BY <1>1, <1>2, <1>5 DEF RestType
<1>8. QED
  BY <1>2, <1>3, <1>6, <1>7, ElsewhereKeeps

\* Emptying a link.
LEMMA Emptied ==
  ASSUME NEW f, NEW s \in Nat, Links(f, s), NEW c \in Client
  PROVE  Links([f EXCEPT ![c] = <<>>], s)
<1>1. <<>> \in Seq(Packet) /\ \A k \in DOMAIN <<>> : AtMost(<<>>[k], s)
  OBVIOUS
<1>2. QED
  BY <1>1, Produced

\* A lost connection empties both links.
LEMMA CutKeeps ==
  ASSUME IInv, NEW c \in Client, Cut(c), UNCHANGED <<capture, met, waiting>>,
         lost' \subseteq Nat, missed' \in BOOLEAN
  PROVE  IInv'
<1>1. RestType /\ Sent \in Nat /\ Links(up, Sent) /\ Links(down, Sent)
  BY Parts, SentType
<1>2. conns' \in Seq(Conn)
  BY <1>1, CloseType DEF Cut, RestType
<1>3. Links(up', Sent) /\ Links(down', Sent)
  BY <1>1, Emptied DEF Cut
<1>4. RestType'
  BY <1>1, <1>2 DEF RestType
<1>5. QED
  BY <1>3, <1>4, ElsewhereKeeps

\* Joining appends an entry.
LEMMA JoinedType ==
  ASSUME IInv, NEW c \in Client, Joined(c)
  PROVE  conns' \in Seq(Conn)
<1>1. conns \in Seq(Conn)
  BY Parts DEF RestType
<1>2. NewConn(c, c, FALSE, c = Pub) \in Conn
  BY UserAssumption DEF NewConn, Conn, Client
<1>3. \A x \in Conn : Append(conns, x) \in Seq(Conn)
  BY <1>1
<1>4. QED
  BY <1>2, <1>3 DEF Joined, Appended

\* A new viewer sends nothing.
LEMMA ViewerJoinsKeeps ==
  ASSUME IInv, NEW v \in Viewer, ViewerJoins(v)
  PROVE  IInv'
<1>1. RestType /\ Links(up, Sent) /\ Links(down, Sent) /\ v \in Client
  BY Parts DEF Viewer
<1>2. conns' \in Seq(Conn)
  BY <1>1, JoinedType DEF ViewerJoins
<1>3. RestType' /\ up' = up /\ down' = down
  BY <1>1, <1>2 DEF RestType, ViewerJoins
<1>4. QED
  BY <1>1, <1>3, ElsewhereKeeps DEF ViewerJoins

\* What a viewer loses was numbered.
LEMMA ViewerLostKeeps ==
  ASSUME IInv, NEW v \in Viewer, ViewerLost(v)
  PROVE  IInv'
<1>1. RestType /\ Links(up, Sent) /\ Links(down, Sent) /\ v \in Client
  BY Parts DEF Viewer
<1>2. down[v] \in Seq(Packet) /\ up[v] \in Seq(Packet)
  BY <1>1 DEF Links
<1>3. NumsOn(down[v], "VideoData") \subseteq Nat /\ NumsOn(up[v], "VideoAck") \subseteq Nat
  BY <1>2, NumsType
<1>4. lost' \subseteq Nat /\ missed' \in BOOLEAN
  BY <1>1, <1>3 DEF RestType, ViewerLost
<1>5. QED
  BY <1>1, <1>4, CutKeeps DEF ViewerLost

\* A viewer that comes back sends a request.
LEMMA ViewerRejoinsKeeps ==
  ASSUME IInv, NEW v \in Viewer, ViewerRejoins(v)
  PROVE  IInv'
<1>1. RestType /\ Sent \in Nat /\ Links(up, Sent) /\ Links(down, Sent) /\ v \in Client
  BY Parts, SentType DEF Viewer
<1>2. conns' \in Seq(Conn)
  BY <1>1, JoinedType DEF ViewerRejoins
<1>3. RestType' /\ down' = down
  BY <1>1, <1>2 DEF RestType, ViewerRejoins
<1>4. Links(up', Sent)
  <2> DEFINE x == Request(TRUE)
  <2>1. x \in Packet /\ AtMost(x, Sent)
    BY PacketsMade DEF AtMost, Request
  <2>2. up' = [up EXCEPT ![v] = <<x>>]
    BY DEF ViewerRejoins
  <2> HIDE DEF x
  <2>3. <<x>> \in Seq(Packet) /\ \A k \in DOMAIN <<x>> : AtMost(<<x>>[k], Sent)
    BY <2>1
  <2>4. QED
    BY <1>1, <2>2, <2>3, Produced
<1>5. QED
  BY <1>1, <1>3, <1>4, ElsewhereKeeps DEF ViewerRejoins

\* What the publisher loses was numbered.
LEMMA PublisherLostKeeps ==
  ASSUME IInv, PublisherLost
  PROVE  IInv'
<1>1. RestType /\ Links(up, Sent) /\ Links(down, Sent)
  BY Parts
<1>2. down[Pub] \in Seq(Packet) /\ up[Pub] \in Seq(Packet)
  BY <1>1, ClientAssumption DEF Links
<1>3. NumsOn(up[Pub], "VideoData") \subseteq Nat /\ NumsOn(down[Pub], "VideoAck") \subseteq Nat
  BY <1>2, NumsType
<1>4. lost' \subseteq Nat /\ missed' \in BOOLEAN
  BY <1>1, <1>3 DEF RestType, PublisherLost
<1>5. QED
  BY <1>1, <1>4, ClientAssumption, CutKeeps DEF PublisherLost

\* A publisher that comes back sends nothing.
LEMMA PublisherRejoinsKeeps ==
  ASSUME IInv, PublisherRejoins
  PROVE  IInv'
<1>1. RestType /\ Links(up, Sent) /\ Links(down, Sent)
  BY Parts
<1>2. conns' \in Seq(Conn)
  BY <1>1, ClientAssumption, JoinedType DEF PublisherRejoins
<1>3. RestType' /\ up' = up /\ down' = down
  BY <1>1, <1>2 DEF RestType, PublisherRejoins
<1>4. QED
  BY <1>1, <1>3, ElsewhereKeeps DEF PublisherRejoins

-----------------------------------------------------------------------------
(* Every step. *)

\* Every step keeps the invariant.
LEMMA StepKeeps ==
  ASSUME IInv, [Next]_vars
  PROVE  IInv'
<1>1. CASE Capture
  BY <1>1, BeginsKeeps, FailsKeeps, SkippedKeeps, SentKeeps, CountedKeeps DEF Capture, Encoded
<1>2. CASE Receive
  BY <1>2, AckKeeps, DropAckKeeps, RequestKeeps, WriterKeeps DEF Receive
<1>3. CASE RelayFrame \/ KeyWindowPasses
  BY <1>3, RelayFrameKeeps, KeyWindowKeeps
<1>4. ASSUME NEW v \in Viewer, Relay(v) \/ ViewerShows(v) \/ Membership(v)
      PROVE  IInv'
  BY <1>4, RelayAckKeeps, RelayRequestKeeps, ShowsKeeps, ViewerJoinsKeeps, ViewerLostKeeps,
     ViewerRejoinsKeeps DEF Relay, Membership
<1>5. CASE PublisherLost \/ PublisherRejoins
  BY <1>5, PublisherLostKeeps, PublisherRejoinsKeeps
<1>6. CASE UNCHANGED vars
  <2>1. RestType /\ Links(up, Sent) /\ Links(down, Sent)
    BY Parts
  <2>2. RestType' /\ up' = up /\ down' = down /\ UNCHANGED capture
    BY <1>6, <2>1 DEF vars, RestType
  <2>3. QED
    BY <2>1, <2>2, ElsewhereKeeps
<1>7. QED
  BY <1>1, <1>2, <1>3, <1>4, <1>5, <1>6 DEF Next

\* The invariant holds in every reachable state.
LEMMA Inductive == Spec => []IInv
<1>1. Init => IInv
  BY InitHolds
<1>2. IInv /\ [Next]_vars => IInv'
  BY StepKeeps
<1>3. QED
  BY <1>1, <1>2, PTL DEF Spec

\* The state keeps its shape: in particular the number of a skipped frame is
\* never taken back below zero, whatever requests and resets come between.
THEOREM TypeCorrect == Spec => []TypeOK
<1>1. IInv => TypeOK
  BY DEF IInv
<1>2. QED
  BY <1>1, Inductive, PTL

-----------------------------------------------------------------------------
(* The refinement. *)

\* What is acknowledged, or about to be, is among the frames taken: in the number
\* that is mapped to due, the websocket thread's is the one it is about to write.
LEMMA TakenType ==
  ASSUME IInv
  PROVE  /\ Taken \in Nat /\ ack \in 0..Taken /\ seq \in 0..Taken
         /\ Pace!Bounded
<1>1. CaptureType /\ Acknowledged /\ Sent \in Nat
  BY Parts, SentType
<1>2. Taken \in Nat /\ Sent <= Taken
  BY <1>1 DEF Taken, Sent, CaptureType
<1>3. ack \in 0..Taken /\ seq \in 0..Taken
  BY <1>1, <1>2 DEF CaptureType, Acknowledged
<1>4. QED
  BY <1>2, <1>3 DEF Pace!Bounded, Pace!None

\* The initial states of Stream are initial states of Pacing,
LEMMA PaceInit ==
  ASSUME Init
  PROVE  Pace!Init
BY DEF Init, Pace!Init, Pace!None, Taken, Sent

\* A step of Pacing, or none.
PaceStep == Pace!Next \/ UNCHANGED Pace!vars

\* A step that changes neither number, nor what is to be written.
LEMMA PaceSame ==
  ASSUME UNCHANGED <<cap, phase, ack, writer, seq>>
  PROVE  PaceStep
BY DEF PaceStep, Pace!vars, Taken, Sent

\* The capture thread takes frames, and gives numbers back.
LEMMA PaceCapture ==
  ASSUME IInv, Capture
  PROVE  PaceStep
<1>1. CaptureType /\ Acknowledged /\ Begun /\ Sent \in Nat
  BY Parts, SentType
<1>2. CASE CaptureBegins
  <2>1. /\ Taken = cap /\ Taken' = cap + 1 /\ cap <= ack + IntervalCnt
        /\ writer' = writer /\ seq' = seq
    BY <1>2 DEF CaptureBegins, Taken, Sent, Open, writing
  <2>2. ack' = cap \/ ack' = ack
    BY <1>2 DEF CaptureBegins
  <2>3. Pace!Take
    BY <2>1, <2>2 DEF Pace!Take
  <2>4. QED
    BY <2>3 DEF PaceStep, Pace!Next
<1>3. CASE EncodeFails \/ FrameSent
  <2>1. Taken' = Taken /\ UNCHANGED <<ack, writer, seq>>
    BY <1>3 DEF EncodeFails, FrameSent, Taken, writing
  <2>2. QED
    BY <2>1 DEF PaceStep, Pace!vars
<1>4. CASE FrameSkipped
  <2>1. /\ Taken = cap + 1 /\ Taken' = cap /\ Sent = cap /\ cap \in Nat
        /\ ack' = ack /\ writer' = writer /\ seq' = seq
    BY <1>1, <1>4 DEF FrameSkipped, Taken, Sent, CaptureType, writing
  <2>2. ack < Taken /\ seq < Taken /\ -1 < Taken
    BY <1>1, <2>1 DEF Acknowledged, CaptureType
  <2>3. Taken' = Taken - 1
    BY <2>1
  <2>4. Pace!GiveBack
    BY <2>1, <2>2, <2>3 DEF Pace!GiveBack
  <2>5. QED
    BY <2>4 DEF PaceStep, Pace!Next
<1>5. CASE FrameCounted
  <2>1. Taken' = Taken /\ UNCHANGED <<ack, writer, seq>>
    BY <1>1, <1>5 DEF FrameCounted, Taken, Sent, writing
  <2>2. QED
    BY <2>1 DEF PaceStep, Pace!vars
<1>6. QED
  BY <1>2, <1>3, <1>4, <1>5 DEF Capture, Encoded

\* The websocket thread hears news, and writes it.
LEMMA PaceReceive ==
  ASSUME IInv, Receive
  PROVE  PaceStep
<1>1. CaptureType /\ Acknowledged /\ Sent \in Nat /\ Taken \in Nat
  BY Parts, SentType, TakenType
<1>2. Sent <= Taken /\ cap \in {Taken, Taken - 1} /\ cap \in Nat
  BY <1>1 DEF Taken, Sent, CaptureType
<1>3. CASE AckArrives
  <2>1. PICK m \in On(down[Pub]) :
          /\ Received(Pub, m) /\ m.type = "VideoAck"
          /\ IF m.num > ack THEN writer' = "writing" /\ seq' = m.num ELSE UNCHANGED writing
    BY <1>3 DEF AckArrives
  <2>2. down' = [down EXCEPT ![Pub] = Tail(@)]
    BY <1>3 DEF AckArrives
  <2>3. m.num \in Nat /\ m.num <= Sent
    BY <2>1, <2>2, ClientAssumption, HeadTaken, PacketFields DEF AtMost
  <2>4. /\ writer = "idle"
        /\ UNCHANGED <<cap, phase, ack>>
    BY <1>3 DEF AckArrives
  <2>5. CASE m.num > ack
    <3>1. Taken' = Taken
      BY <2>4 DEF Taken, Sent
    <3>2. m.num \in (ack + 1)..Taken
      BY <1>1, <1>2, <2>3, <2>5 DEF CaptureType
    <3>3. writer' = "writing" /\ seq' = m.num
      BY <2>1, <2>5
    <3>4. Pace!Hear
      BY <2>4, <3>1, <3>2, <3>3 DEF Pace!Hear, Pace!None
    <3>5. QED
      BY <3>4 DEF PaceStep, Pace!Next
  <2>6. CASE ~(m.num > ack)
    BY <2>1, <2>4, <2>6, PaceSame DEF writing
  <2>7. QED
    BY <2>5, <2>6
<1>4. CASE DropAckArrives
  BY <1>4, PaceSame DEF DropAckArrives, capture
<1>5. CASE RequestArrives \/ ResetReads
  <2>1. writer # "writing" /\ UNCHANGED <<cap, phase, ack>>
    BY <1>5 DEF RequestArrives, ResetReads
  <2>2. Taken' = Taken
    BY <2>1 DEF Taken, Sent
  <2>3. CASE RequestArrives
    <3>1. writer' # "writing"
      BY <2>3 DEF RequestArrives
    <3>2. QED
      BY <2>1, <2>2, <3>1 DEF PaceStep, Pace!vars
  <2>4. CASE ResetReads
    <3>1. writer' = "writing" /\ seq' = cap
      BY <2>4 DEF ResetReads
    <3>2. Pace!Hear
      BY <1>2, <2>1, <2>2, <3>1 DEF Pace!Hear, Pace!None
    <3>3. QED
      BY <3>2 DEF PaceStep, Pace!Next
  <2>5. QED
    BY <1>5, <2>3, <2>4
<1>6. CASE AckWritten
  <2>1. /\ writer = "writing" /\ writer' = "idle" /\ ack' = seq
        /\ UNCHANGED <<cap, phase>>
    BY <1>6 DEF AckWritten
  <2>2. Taken' = Taken /\ seq \in Nat
    BY <1>1, <2>1 DEF Taken, Sent, CaptureType
  <2>3. Pace!Write
    BY <2>1, <2>2 DEF Pace!Write, Pace!None
  <2>4. QED
    BY <2>3 DEF PaceStep, Pace!Next
<1>7. QED
  BY <1>3, <1>4, <1>5, <1>6 DEF Receive

\* Every step of Stream is one of Pacing, or leaves the sequence numbers alone.
LEMMA PaceNext ==
  ASSUME IInv, [Next]_vars
  PROVE  PaceStep
<1>1. RelayFrame \/ KeyWindowPasses \/ PublisherLost \/ PublisherRejoins => UNCHANGED capture
  BY DEF RelayFrame, KeyWindowPasses, PublisherLost, PublisherRejoins
<1>2. ASSUME NEW v \in Viewer, Relay(v) \/ ViewerShows(v) \/ Membership(v)
      PROVE  UNCHANGED capture
  BY <1>2 DEF Relay, RelayAck, RelayRequest, ViewerShows, Membership, ViewerJoins, ViewerLost, ViewerRejoins
<1>3. CASE UNCHANGED capture
  BY <1>3, PaceSame DEF capture
<1>4. CASE UNCHANGED vars
  BY <1>3, <1>4 DEF vars
<1>5. QED
  BY <1>1, <1>2, <1>3, <1>4, PaceCapture, PaceReceive DEF Next

\* The publisher keeps its pace: every step of the stream is a step of Pacing,
\* or leaves the numbers alone, though two threads write them without a lock and
\* what one has tested may have been overtaken when it is written.
THEOREM StreamKeepsPace == Spec => KeepsPace
<1>1. Init => Pace!Init
  BY PaceInit
<1>2. IInv /\ [Next]_vars => [Pace!Next]_(Pace!vars)
  BY PaceNext DEF PaceStep
<1>3. QED
  BY <1>1, <1>2, Inductive, PTL DEF Spec, KeepsPace, Pace!Spec

\* A step of Pacing does not leave the window, unless it takes what was
\* acknowledged back.
LEMMA PaceWithin ==
  ASSUME IInv, PaceStep, Pace!Within
  PROVE  Pace!Within' \/ ack' < ack
<1>1. /\ Taken \in Nat /\ ack \in Nat /\ ack <= Taken /\ seq \in Nat
      /\ IntervalCnt \in Nat \ {0} /\ Taken <= ack + IntervalCnt + 1
  BY TakenType, IntervalAssumption DEF Pace!Within
<1>2. CASE UNCHANGED Pace!vars
  BY <1>1, <1>2 DEF Pace!vars, Pace!Within
<1>3. CASE Pace!Take
  <2>1. Taken <= ack + IntervalCnt /\ Taken' = Taken + 1 /\ (ack' = ack \/ ack' = Taken)
    BY <1>3 DEF Pace!Take
  <2>2. QED
    BY <1>1, <2>1 DEF Pace!Within
<1>4. CASE Pace!GiveBack
  <2>1. Taken' = Taken - 1 /\ ack' = ack
    BY <1>4 DEF Pace!GiveBack
  <2>2. QED
    BY <1>1, <2>1 DEF Pace!Within
<1>5. CASE Pace!Hear
  <2>1. Taken' = Taken /\ ack' = ack
    BY <1>5 DEF Pace!Hear
  <2>2. QED
    BY <1>1, <2>1 DEF Pace!Within
<1>6. CASE Pace!Write
  <2>1. Taken' = Taken /\ ack' = (IF writer = "writing" THEN seq ELSE -1)
        /\ (IF writer = "writing" THEN seq ELSE -1) # -1
    BY <1>6 DEF Pace!Write, Pace!None
  <2>2. ack' = seq
    BY <2>1
  <2>3. QED
    BY <1>1, <2>1, <2>2 DEF Pace!Within
<1>7. QED
  BY <1>2, <1>3, <1>4, <1>5, <1>6 DEF PaceStep, Pace!Next

\* Nobody acknowledges what was not taken, and the newest frame is never further
\* than the window and one ahead of what is acknowledged, until a write that was
\* overtaken by a reset of the other thread takes that back.
THEOREM WindowKept == Spec => Pace!Paced
<1>1. IInv => Pace!Bounded
  BY TakenType
<1>2. IInv /\ [Next]_vars => (Pace!Within => Pace!Within' \/ ack' < ack)
  BY PaceNext, PaceWithin
<1>3. QED
  BY <1>1, <1>2, Inductive, PTL DEF Spec, Pace!Paced

-----------------------------------------------------------------------------
(* What becomes of the frames, and of the requests for a key frame.        *)

\* The session takes the publisher for its publisher and nobody else, and
\* clears viewers only.
Roles ==
  \A i \in DOMAIN conns :
    /\ conns[i].publisher <=> conns[i].wsi = Pub
    /\ conns[i].clear => conns[i].wsi # Pub

\* There is nothing on the links of a client that is not connected.
Silent == \A c \in Client : ~In(c) => up[c] = <<>> /\ down[c] = <<>>

\* A publisher that is gone may have missed a request.
Interrupted == In(Pub) \/ missed

\* Frame n is on its way to a viewer, its acknowledgement is on its way back,
\* or it was lost.
Held(n) ==
  \/ n \in lost
  \/ \E v \in Viewer : n \in NumsOn(down[v], "VideoData") \cup NumsOn(up[v], "VideoAck")
  \/ n \in NumsOn(up[Pub], "VideoData") \cup NumsOn(down[Pub], "VideoAck")

\* Up to this number nothing is waited for: what is acknowledged, or about to be.
\* An overtaken write does not change it.
Settled == IF writer = "writing" THEN seq ELSE ack

\* Besides the frames the window waits for, the one that has been encoded and
\* not been counted yet.
AllHeld ==
  /\ \A n \in (Settled + 1)..(Sent - 1) : Held(n)
  /\ phase \in {"sent", "failed"} /\ Settled < cap => Held(cap)

\* A request was noted in time for the frame in the making, or the next one.
Armed ==
  /\ force
  /\ \/ phase \in {"waiting", "failed"}
     \/ phase = "encoding" /\ idr

Requested == \E m \in On(down[Pub]) : m.type = "RequestKeyFrame"
KeySent == \E m \in On(up[Pub]) : m.type = "VideoData" /\ m.idr
Cleared == \E i \in DOMAIN conns : conns[i].clear

\* The forced key frame that ends a clearing, and not one the encoder makes
\* for its own reasons: that one may fail and not be repeated.
Honoured == Cleared => missed \/ Requested \/ Armed \/ KeySent

Relaying == Roles /\ Silent /\ Interrupted
Safe == IInv /\ Relaying /\ AllHeld /\ Honoured

-----------------------------------------------------------------------------
(* Adding to a link, and taking from it. *)

\* A message appended is on the link, with those before it.
LEMMA OnAppended ==
  ASSUME NEW q \in Seq(Packet), NEW m \in Packet
  PROVE  On(Append(q, m)) = On(q) \cup {m}
<1>1. /\ DOMAIN Append(q, m) = 1..(Len(q) + 1) /\ DOMAIN q = 1..Len(q) /\ Len(q) \in Nat
      /\ \A k \in 1..Len(q) : Append(q, m)[k] = q[k]
      /\ Append(q, m)[Len(q) + 1] = m
  OBVIOUS
<1>2. ASSUME NEW x
      PROVE  x \in On(Append(q, m)) <=> x \in On(q) \cup {m}
  BY <1>1 DEF On
<1>3. QED
  BY <1>2

\* What is on a link is its head, or behind it.
LEMMA OnTail ==
  ASSUME NEW q \in Seq(Packet), q # <<>>
  PROVE  Head(q) \in Packet /\ On(q) = {Head(q)} \cup On(Tail(q))
<1>1. /\ DOMAIN q = 1..Len(q) /\ Len(q) \in Nat /\ Len(q) > 0 /\ Head(q) = q[1]
      /\ DOMAIN Tail(q) = 1..(Len(q) - 1)
      /\ \A k \in 1..(Len(q) - 1) : Tail(q)[k] = q[k + 1]
      /\ Head(q) \in Packet
  OBVIOUS
<1>2. ASSUME NEW x
      PROVE  x \in On(q) <=> x \in {Head(q)} \cup On(Tail(q))
  <2>1. ASSUME NEW k \in 1..Len(q), x = q[k]
        PROVE  x \in {Head(q)} \cup On(Tail(q))
    <3>1. CASE k = 1
      BY <1>1, <2>1, <3>1
    <3>2. CASE k # 1
      <4>1. k - 1 \in 1..(Len(q) - 1) /\ Tail(q)[k - 1] = q[k]
        BY <1>1, <3>2
      <4>2. QED
        BY <1>1, <2>1, <4>1 DEF On
    <3>3. QED
      BY <3>1, <3>2
  <2>2. ASSUME NEW k \in 1..(Len(q) - 1), x = Tail(q)[k]
        PROVE  x \in On(q)
    <3>1. k + 1 \in DOMAIN q /\ x = q[k + 1]
      BY <1>1, <2>2
    <3>2. QED
      BY <3>1 DEF On
  <2>3. Head(q) \in On(q)
    BY <1>1 DEF On
  <2>4. QED
    BY <1>1, <2>1, <2>2, <2>3 DEF On
<1>3. QED
  BY <1>1, <1>2

\* A number is on a link when a message with it is.
LEMMA NumOn ==
  ASSUME NEW q, NEW t, NEW n
  PROVE  n \in NumsOn(q, t) <=> \E m \in On(q) : m.type = t /\ m.num = n
BY DEF NumsOn

\* A link that loses nothing loses no number.
LEMMA NumsKept ==
  ASSUME NEW p, NEW q, On(p) \subseteq On(q), NEW t
  PROVE  NumsOn(p, t) \subseteq NumsOn(q, t)
BY DEF NumsOn

\* A link that loses its head loses at most that one's number.
LEMMA NumsTail ==
  ASSUME NEW q \in Seq(Packet), q # <<>>, NEW t, NEW n, n \in NumsOn(q, t)
  PROVE  \/ n \in NumsOn(Tail(q), t)
         \/ Head(q).type = t /\ Head(q).num = n
BY OnTail, NumOn

\* What the session writes joins what was on the links, one message for every
\* client there is one for.
LEMMA OnWritten ==
  ASSUME NEW c \in Client, down[c] \in Seq(Packet),
         NEW D, D \subseteq [to: Client, msg: Packet]
  PROVE  /\ On(down[c]) \subseteq On(Written(D)[c])
         /\ (\E d \in D : d.to = c) =>
              \E d \in D : d.to = c /\ d.msg \in On(Written(D)[c])
<1>1. CASE \E d \in D : d.to = c
  <2> DEFINE e == CHOOSE d \in D : d.to = c
  <2>1. e \in D /\ e.to = c
    BY <1>1
  <2>2. e.msg \in Packet
    BY <2>1
  <2>3. Written(D)[c] = Append(down[c], e.msg)
    BY <1>1 DEF Written
  <2> HIDE DEF e
  <2>4. On(Written(D)[c]) = On(down[c]) \cup {e.msg}
    BY <2>2, <2>3, OnAppended
  <2>5. QED
    BY <2>1, <2>4
<1>2. CASE ~ \E d \in D : d.to = c
  <2>1. Written(D)[c] = down[c]
    BY <1>2 DEF Written
  <2>2. QED
    BY <1>2, <2>1
<1>3. QED
  BY <1>1, <1>2
-----------------------------------------------------------------------------
(* Who is connected, and the links of those who are not. *)

\* A client is in a table when it has an entry.
LEMMA AtEntry ==
  ASSUME NEW cs, NEW w
  PROVE  At(cs, w) # {} <=> \E i \in DOMAIN cs : cs[i].wsi = w
BY DEF At

\* A step that keeps the sockets of the table keeps those who are in it.
LEMMA SameIn ==
  ASSUME conns \in Seq(Conn), SameClients(conns, conns')
  PROVE  \A c \in Client : In(c)' <=> In(c)
<1>1. DOMAIN conns' = DOMAIN conns /\ \A i \in DOMAIN conns : conns'[i].wsi = conns[i].wsi
  BY TableElements DEF SameClients
<1>2. QED
  BY <1>1, AtEntry DEF In

\* Only a client that is connected has something on its links.
LEMMA Active ==
  ASSUME Silent, NEW c \in Client, up[c] # <<>> \/ down[c] # <<>>
  PROVE  In(c)
BY DEF Silent

\* Nothing comes onto the links of a client that is not connected.
LEMMA SilentKept ==
  ASSUME Silent,
         \A c \in Client :
           \/ In(c)'
           \/ ~In(c) /\ up'[c] = up[c] /\ down'[c] = down[c]
           \/ up'[c] = <<>> /\ down'[c] = <<>>
  PROVE  Silent'
BY DEF Silent

\* A step that leaves the table alone, and every link of a client that is not
\* connected.
LEMMA TableLeft ==
  ASSUME Relaying, conns' = conns, missed => missed',
         \A c \in Client : ~In(c) => up'[c] = up[c] /\ down'[c] = down[c]
  PROVE  Relaying'
<1>1. \A c \in Client : In(c)' <=> In(c)
  BY DEF In
<1>2. Roles' /\ Interrupted'
  BY <1>1, ClientAssumption DEF Relaying, Roles, Interrupted
<1>3. Silent'
  BY <1>1, SilentKept DEF Relaying
<1>4. QED
  BY <1>2, <1>3 DEF Relaying

\* A step that keeps the table's sockets and roles.
LEMMA TableKept ==
  ASSUME Relaying, conns \in Seq(Conn), SameClients(conns, conns'),
         \A i \in 1..Len(conns) :
           /\ conns'[i].publisher <=> conns[i].publisher
           /\ conns'[i].clear => conns[i].clear \/ ~conns[i].publisher,
         missed => missed' \/ In(Pub),
         \A c \in Client : ~In(c) => up'[c] = up[c] /\ down'[c] = down[c]
  PROVE  Relaying'
<1>1. \A c \in Client : In(c)' <=> In(c)
  BY SameIn
<1>2. Roles'
  <2>1. DOMAIN conns = 1..Len(conns) /\ DOMAIN conns' = 1..Len(conns)
    BY TableElements DEF SameClients
  <2>2. \A i \in 1..Len(conns) : conns'[i].wsi = conns[i].wsi
    BY DEF SameClients
  <2>3. QED
    BY <2>1, <2>2 DEF Relaying, Roles
<1>3. Interrupted'
  BY <1>1, ClientAssumption DEF Relaying, Interrupted
<1>4. Silent'
  BY <1>1, SilentKept DEF Relaying
<1>5. QED
  BY <1>2, <1>3, <1>4 DEF Relaying

\* What the session writes goes to clients that are connected.
LEMMA WrittenWithin ==
  ASSUME NEW D, \A d \in D : d.to \in Client => In(d.to), NEW c \in Client
  PROVE  In(c) \/ Written(D)[c] = down[c]
BY DEF Written

\* What Deliver makes is for clients in the table.
LEMMA DeliverWithin ==
  ASSUME NEW I, I \subseteq DOMAIN conns, NEW m
  PROVE  \A d \in Deliver(conns, I, m) : In(d.to)
BY AtEntry DEF Deliver, In

\* There is a message for each of the positions.
LEMMA DeliverReaches ==
  ASSUME NEW cs, NEW I, NEW i \in I, NEW m
  PROVE  \E d \in Deliver(cs, I, m) : d.to = cs[i].wsi /\ d.msg = m
<1>1. [to |-> cs[i].wsi, msg |-> m] \in Deliver(cs, I, m)
  BY DEF Deliver
<1>2. QED
  BY <1>1

\* What the session writes for the publisher's entries is packets for clients.
LEMMA DeliverMade ==
  ASSUME NEW cs \in Seq(Conn), NEW m \in Packet
  PROVE  Deliver(cs, Publishers(cs), m) \subseteq [to: Client, msg: Packet]
<1>1. ASSUME NEW i \in Publishers(cs)
      PROVE  [to |-> cs[i].wsi, msg |-> m] \in [to: Client, msg: Packet]
  <2>1. cs[i].wsi \in Client
    BY TableElements DEF Publishers, Conn, Client
  <2>2. QED
    BY <2>1
<1>2. QED
  BY <1>1 DEF Deliver

\* A client leaves the table with its entry, and nobody else does.
LEMMA CutTable ==
  ASSUME conns \in Seq(Conn), Relaying, NEW c \in Client, Cut(c),
         up \in [Client -> Seq(Packet)], down \in [Client -> Seq(Packet)]
  PROVE  /\ Roles' /\ Silent'
         /\ \A d \in Client \ {c} : In(d) => In(d)'
<1>1. conns' = AfterClose(conns, c) /\ conns' \in Seq(Conn)
  BY CloseType DEF Cut
<1>2. DOMAIN conns = 1..Len(conns) /\ DOMAIN conns' = 1..Len(conns')
  BY <1>1, TableElements
<1>3. /\ \A j \in 1..Len(conns') : \E i \in 1..Len(conns) :
           /\ conns'[j].wsi = conns[i].wsi
           /\ conns'[j].publisher <=> conns[i].publisher
           /\ conns'[j].clear <=> conns[i].clear
      /\ \A i \in 1..Len(conns) : conns[i].wsi # c =>
           \E j \in 1..Len(conns') : conns'[j].wsi = conns[i].wsi
  <2>1. ComesFrom(conns', conns, c)
    BY <1>1, CloseOrigins
  <2>2. QED
    BY <2>1 DEF ComesFrom
<1>4. Roles'
  <2> SUFFICES ASSUME NEW j \in 1..Len(conns')
               PROVE  /\ conns'[j].publisher <=> conns'[j].wsi = Pub
                      /\ conns'[j].clear => conns'[j].wsi # Pub
    BY <1>2 DEF Roles
  <2>1. PICK i \in 1..Len(conns) :
          /\ conns'[j].wsi = conns[i].wsi
          /\ conns'[j].publisher <=> conns[i].publisher
          /\ conns'[j].clear <=> conns[i].clear
    BY <1>3
  <2>2. QED
    BY <1>2, <2>1 DEF Relaying, Roles
<1>5. ASSUME NEW d \in Client \ {c}, In(d)
      PROVE  In(d)'
  <2>1. PICK i \in 1..Len(conns) : conns[i].wsi = d
    BY <1>2, <1>5, AtEntry DEF In
  <2>2. \E j \in DOMAIN conns' : conns'[j].wsi = d
    BY <1>2, <1>3, <2>1
  <2>3. QED
    BY <2>2, AtEntry DEF In
<1>6. Silent'
  <2>1. up' = [up EXCEPT ![c] = <<>>] /\ down' = [down EXCEPT ![c] = <<>>]
    BY DEF Cut
  <2>2. up'[c] = <<>> /\ down'[c] = <<>>
    BY <2>1
  <2>3. \A d \in Client \ {c} : up'[d] = up[d] /\ down'[d] = down[d]
    BY <2>1
  <2>4. QED
    BY <1>5, <2>2, <2>3, SilentKept DEF Relaying
<1>7. QED
  BY <1>4, <1>5, <1>6 DEF Relaying

\* A client that joins is the publisher or not, and is not cleared.
LEMMA JoinedTable ==
  ASSUME conns \in Seq(Conn), Relaying, NEW c \in Client, Joined(c)
  PROVE  /\ Roles' /\ In(c)'
         /\ \A d \in Client : In(d) => In(d)'
         /\ \A i \in DOMAIN conns' : conns'[i].clear => i \in DOMAIN conns /\ conns'[i] = conns[i]
<1> DEFINE e == NewConn(c, c, FALSE, c = Pub)
<1>1. e \in Conn /\ e.wsi = c /\ (e.publisher <=> c = Pub) /\ ~e.clear
  BY UserAssumption DEF NewConn, Conn, Client
<1>2. conns' = Append(conns, e)
  BY DEF Joined, Appended
<1> HIDE DEF e
<1>3. /\ DOMAIN conns = 1..Len(conns) /\ Len(conns) \in Nat
      /\ DOMAIN conns' = 1..(Len(conns) + 1)
      /\ \A i \in 1..Len(conns) : conns'[i] = conns[i]
      /\ conns'[Len(conns) + 1] = e
  BY <1>1, <1>2
<1>4. \A i \in DOMAIN conns' : i \in DOMAIN conns \/ i = Len(conns) + 1
  BY <1>3
<1>5. Roles'
  <2> SUFFICES ASSUME NEW i \in DOMAIN conns'
               PROVE  /\ conns'[i].publisher <=> conns'[i].wsi = Pub
                      /\ conns'[i].clear => conns'[i].wsi # Pub
    BY DEF Roles
  <2>1. CASE i \in DOMAIN conns
    BY <1>3, <2>1 DEF Relaying, Roles
  <2>2. CASE i = Len(conns) + 1
    BY <1>1, <1>3, <2>2
  <2>3. QED
    BY <1>4, <2>1, <2>2
<1>6. In(c)'
  BY <1>1, <1>3, AtEntry DEF In
<1>7. \A d \in Client : In(d) => In(d)'
  <2> SUFFICES ASSUME NEW d \in Client, In(d)
               PROVE  In(d)'
    OBVIOUS
  <2>1. PICK i \in DOMAIN conns : conns[i].wsi = d
    BY AtEntry DEF In
  <2>2. i \in DOMAIN conns' /\ conns'[i].wsi = d
    BY <1>3, <2>1
  <2>3. QED
    BY <2>2, AtEntry DEF In
<1>8. \A i \in DOMAIN conns' : conns'[i].clear => i \in DOMAIN conns /\ conns'[i] = conns[i]
  BY <1>1, <1>3, <1>4
<1>9. QED
  BY <1>5, <1>6, <1>7, <1>8
\* The links are sequences of packets, and the table one of connections.
LEMMA LinkTypes ==
  ASSUME IInv
  PROVE  /\ up \in [Client -> Seq(Packet)] /\ down \in [Client -> Seq(Packet)]
         /\ conns \in Seq(Conn)
BY DEF IInv, TypeOK

\* The first message is taken off the link of c.
TakesHead(f, g, c) ==
  /\ f \in [Client -> Seq(Packet)] /\ c \in Client /\ f[c] # <<>>
  /\ g = [f EXCEPT ![c] = Tail(@)]

\* One of the links loses its head.
LEMMA OneLoses ==
  ASSUME NEW f, NEW g, NEW c, TakesHead(f, g, c)
  PROVE  /\ Head(f[c]) \in Packet /\ On(f[c]) = {Head(f[c])} \cup On(g[c])
         /\ \A d \in Client \ {c} : g[d] = f[d]
<1>1. /\ f[c] # <<>> /\ g[c] = Tail(f[c]) /\ f[c] \in Seq(Packet)
      /\ \A d \in Client \ {c} : g[d] = f[d]
  BY DEF TakesHead
<1>2. Head(f[c]) \in Packet /\ On(f[c]) = {Head(f[c])} \cup On(g[c])
  BY <1>1, OnTail
<1>3. QED
  BY <1>1, <1>2

\* Its numbers are still there, but for the head's.
LEMMA OneLosesNums ==
  ASSUME NEW f, NEW g, NEW c, TakesHead(f, g, c),
         NEW t, NEW n, n \in NumsOn(f[c], t)
  PROVE  n \in NumsOn(g[c], t) \/ (Head(f[c]).type = t /\ Head(f[c]).num = n)
<1>1. f[c] # <<>> /\ g[c] = Tail(f[c]) /\ f[c] \in Seq(Packet)
  BY DEF TakesHead
<1>2. QED
  BY <1>1, NumsTail

\* One of the links gains something.
LEMMA OneGains ==
  ASSUME NEW f \in [Client -> Seq(Packet)], NEW c \in Client, NEW q,
         On(f[c]) \subseteq On(q), NEW g, g = [f EXCEPT ![c] = q]
  PROVE  /\ g[c] = q /\ \A d \in Client \ {c} : g[d] = f[d]
         /\ \A d \in Client : \A t : NumsOn(f[d], t) \subseteq NumsOn(g[d], t)
<1>1. g[c] = q /\ \A d \in Client \ {c} : g[d] = f[d]
  OBVIOUS
<1>2. \A d \in Client : On(f[d]) \subseteq On(g[d])
  BY <1>1
<1>3. QED
  BY <1>1, <1>2, NumsKept

\* The session writes, and no link loses anything.
LEMMA AllGain ==
  ASSUME down \in [Client -> Seq(Packet)],
         NEW D, D \subseteq [to: Client, msg: Packet], down' = Written(D)
  PROVE  \A c \in Client :
           /\ On(down[c]) \subseteq On(down'[c])
           /\ \A t : NumsOn(down[c], t) \subseteq NumsOn(down'[c], t)
           /\ (\E d \in D : d.to = c) => \E d \in D : d.to = c /\ d.msg \in On(down'[c])
<1>1. ASSUME NEW c \in Client
      PROVE  /\ On(down[c]) \subseteq On(down'[c])
             /\ (\E d \in D : d.to = c) => \E d \in D : d.to = c /\ d.msg \in On(down'[c])
  BY OnWritten
<1>2. QED
  BY <1>1, NumsKept

-----------------------------------------------------------------------------
(* The table and the links, action by action. *)

\* The publisher's threads leave the table alone, and talk when connected.
LEMMA PublisherRelaying ==
  ASSUME IInv, Relaying, Capture \/ Receive
  PROVE  Relaying'
<1>1. up \in [Client -> Seq(Packet)] /\ down \in [Client -> Seq(Packet)]
  BY LinkTypes
<1>2. CASE CaptureBegins \/ EncodeFails \/ FrameSkipped \/ FrameCounted
  BY <1>2, TableLeft DEF CaptureBegins, EncodeFails, FrameSkipped, FrameCounted
<1>3. CASE FrameSent
  <2>1. conns' = conns /\ missed' = missed /\ down' = down
    BY <1>3 DEF FrameSent
  <2>2. \A c \in Client : ~In(c) => up'[c] = up[c]
    BY <1>1, <1>3 DEF FrameSent
  <2>3. QED
    BY <2>1, <2>2, TableLeft
<1>4. CASE AckArrives \/ DropAckArrives \/ RequestArrives
  <2>1. conns' = conns /\ up' = up /\ (missed => missed')
    <3>1. CASE AckArrives \/ DropAckArrives
      BY <3>1 DEF AckArrives, DropAckArrives
    <3>2. CASE RequestArrives
      <4>1. missed' = (missed \/ phase \in {"sent", "skipped"} \/ (phase = "encoding" /\ ~idr))
        BY <3>2 DEF RequestArrives
      <4>2. missed => missed'
        BY <4>1
      <4>3. QED
        BY <3>2, <4>2 DEF RequestArrives
    <3>3. QED
      BY <1>4, <3>1, <3>2
  <2>2. down[Pub] # <<>> /\ down' = [down EXCEPT ![Pub] = Tail(@)]
    BY <1>4 DEF AckArrives, DropAckArrives, RequestArrives, Received
  <2>3. In(Pub)
    BY <2>2, Active, ClientAssumption DEF Relaying
  <2>4. \A c \in Client : ~In(c) => down'[c] = down[c]
    BY <1>1, <2>2, <2>3
  <2>5. QED
    BY <2>1, <2>4, TableLeft
<1>5. CASE ResetReads \/ AckWritten
  BY <1>5, TableLeft DEF ResetReads, AckWritten
<1>6. QED
  BY <1>2, <1>3, <1>4, <1>5 DEF Capture, Encoded, Receive

\* So does the relay of a frame, which only ends clearings.
LEMMA RelayFrameRelaying ==
  ASSUME IInv, Relaying, RelayFrame
  PROVE  Relaying'
<1>1. up \in [Client -> Seq(Packet)] /\ down \in [Client -> Seq(Packet)] /\ conns \in Seq(Conn)
  BY LinkTypes
<1>2. PICK m \in On(up[Pub]) :
        /\ Relayed(Pub, m, "VideoData")
        /\ conns' = AfterFrame(conns, m.idr)
        /\ down' = Written(Deliver(conns, Forwarded(conns, m.idr), m)
                             \cup {[to |-> Pub, msg |-> Numbered("DropAck", m.num)] :
                                     i \in Swallowed(conns, m.idr)})
  BY DEF RelayFrame
<1>3. m.idr \in BOOLEAN
  BY <1>2, ClientAssumption, TakenUp, PacketFields
<1>4. In(Pub) /\ up' = [up EXCEPT ![Pub] = Tail(@)]
  BY <1>2, Active, ClientAssumption DEF Relaying, Relayed
<1>5. SameClients(conns, conns')
  BY <1>1, <1>2, <1>3, FrameKeepsClients
<1>6. \A i \in 1..Len(conns) : /\ conns'[i].publisher <=> conns[i].publisher
                               /\ conns'[i].clear => conns[i].clear
  BY <1>1, <1>2, <1>3, FrameClears
<1>7. \A c \in Client : ~In(c) => up'[c] = up[c] /\ down'[c] = down[c]
  <2> DEFINE F == Deliver(conns, Forwarded(conns, m.idr), m)
             E == {[to |-> Pub, msg |-> Numbered("DropAck", m.num)] : i \in Swallowed(conns, m.idr)}
  <2>1. \A d \in F : In(d.to)
    <3>1. Forwarded(conns, m.idr) \subseteq DOMAIN conns
      BY DEF Forwarded, Viewers
    <3>2. QED
      BY <3>1, DeliverWithin
  <2>2. \A d \in E : d.to = Pub
    OBVIOUS
  <2>3. down' = Written(F \cup E)
    BY <1>2
  <2> HIDE DEF F, E
  <2>4. \A c \in Client : ~In(c) => down'[c] = down[c]
    BY <1>4, <2>1, <2>2, <2>3, WrittenWithin
  <2>5. QED
    BY <1>1, <1>4, <2>4
<1>8. QED
  BY <1>1, <1>4, <1>5, <1>6, <1>7, TableKept

\* What viewers send is relayed to the publisher's entry.
LEMMA RelayRelaying ==
  ASSUME IInv, Relaying, NEW v \in Viewer, Relay(v)
  PROVE  Relaying'
<1>1. up \in [Client -> Seq(Packet)] /\ down \in [Client -> Seq(Packet)] /\ conns \in Seq(Conn)
      /\ v \in Client
  BY LinkTypes DEF Viewer
<1>2. PICK m : /\ up[v] # <<>> /\ up' = [up EXCEPT ![v] = Tail(@)]
               /\ down' = Written(Deliver(conns, Publishers(conns), m))
               /\ missed' = missed
  BY DEF Relay, RelayAck, RelayRequest, Relayed
<1>3. In(v)
  BY <1>1, <1>2, Active DEF Relaying
<1>4. \A c \in Client : ~In(c) => up'[c] = up[c] /\ down'[c] = down[c]
  <2>1. Publishers(conns) \subseteq DOMAIN conns
    BY DEF Publishers
  <2>2. \A c \in Client : ~In(c) => down'[c] = down[c]
    BY <1>2, <2>1, DeliverWithin, WrittenWithin
  <2>3. QED
    BY <1>1, <1>2, <1>3, <2>2
<1>5. CASE RelayAck(v)
  BY <1>2, <1>4, <1>5, TableLeft DEF RelayAck
<1>6. CASE RelayRequest(v)
  <2>1. conns' = AfterKeyRequest(conns, Publishers(conns))
    BY <1>6 DEF RelayRequest
  <2>2. SameClients(conns, conns')
    BY <1>1, <2>1, KeyRequestKeepsClients
  <2>3. \A i \in 1..Len(conns) : /\ conns'[i].publisher <=> conns[i].publisher
                                 /\ conns'[i].clear => conns[i].clear \/ ~conns[i].publisher
    BY <1>1, <2>1, KeyRequestClears
  <2>4. QED
    BY <1>1, <1>2, <1>4, <2>2, <2>3, TableKept
<1>7. QED
  BY <1>5, <1>6 DEF Relay

\* The end of a window concerns neither roles nor clearings.
LEMMA WindowTable ==
  ASSUME conns \in Seq(Conn), KeyWindowPasses
  PROVE  /\ SameClients(conns, conns')
         /\ \A i \in 1..Len(conns) : /\ conns'[i].publisher <=> conns[i].publisher
                                     /\ conns'[i].clear <=> conns[i].clear
<1>1. PICK i \in 1..Len(conns) : conns' = [conns EXCEPT ![i].recent = FALSE]
  BY TableElements DEF KeyWindowPasses
<1> DEFINE e == [conns[i] EXCEPT !.recent = FALSE]
<1>2. /\ e \in Conn /\ e.wsi = conns[i].wsi /\ e.user = conns[i].user
      /\ (e.publisher <=> conns[i].publisher) /\ (e.clear <=> conns[i].clear)
  BY TableElements DEF Conn
<1>3. conns' = [conns EXCEPT ![i] = e]
  BY <1>1
<1> HIDE DEF e
<1>4. /\ conns' \in Seq(Conn) /\ Len(conns') = Len(conns) /\ conns'[i] = e
      /\ \A j \in 1..Len(conns) : j # i => conns'[j] = conns[j]
  BY <1>2, <1>3, TableElements
<1>5. QED
  BY <1>2, <1>4 DEF SameClients

\* A viewer that shows a frame talks on its own links.
LEMMA ViewerRelaying ==
  ASSUME IInv, Relaying, NEW v \in Viewer, ViewerShows(v)
  PROVE  Relaying'
<1>1. up \in [Client -> Seq(Packet)] /\ down \in [Client -> Seq(Packet)] /\ v \in Client
  BY LinkTypes DEF Viewer
<1>2. PICK q : /\ down[v] # <<>> /\ down' = [down EXCEPT ![v] = Tail(@)]
               /\ up' = [up EXCEPT ![v] = q]
               /\ conns' = conns /\ missed' = missed
  BY DEF ViewerShows, Received
<1>3. In(v)
  BY <1>1, <1>2, Active DEF Relaying
<1>4. \A c \in Client : ~In(c) => up'[c] = up[c] /\ down'[c] = down[c]
  BY <1>1, <1>2, <1>3
<1>5. QED
  BY <1>2, <1>4, TableLeft

\* Viewers that come and go.
LEMMA MembershipRelaying ==
  ASSUME IInv, Relaying, NEW v \in Viewer, Membership(v)
  PROVE  Relaying'
<1>1. /\ up \in [Client -> Seq(Packet)] /\ down \in [Client -> Seq(Packet)]
      /\ conns \in Seq(Conn) /\ v \in Client /\ v # Pub
  BY LinkTypes DEF Viewer
<1>2. CASE ViewerLost(v)
  <2>1. Cut(v) /\ missed' = missed
    BY <1>2 DEF ViewerLost
  <2>2. Roles' /\ Silent' /\ (In(Pub) => In(Pub)')
    BY <1>1, <2>1, CutTable, ClientAssumption
  <2>3. QED
    BY <2>1, <2>2 DEF Relaying, Interrupted
<1>3. CASE ViewerJoins(v) \/ ViewerRejoins(v)
  <2>1. Joined(v) /\ missed' = missed /\ down' = down
    BY <1>3 DEF ViewerJoins, ViewerRejoins
  <2>2. Roles' /\ In(v)' /\ \A d \in Client : In(d) => In(d)'
    BY <1>1, <2>1, JoinedTable
  <2>3. \A d \in Client \ {v} : up'[d] = up[d]
    BY <1>1, <1>3 DEF ViewerJoins, ViewerRejoins
  <2>4. Silent'
    BY <2>1, <2>2, <2>3, SilentKept DEF Relaying
  <2>5. QED
    BY <2>1, <2>2, <2>4, ClientAssumption DEF Relaying, Interrupted
<1>4. QED
  BY <1>2, <1>3 DEF Membership

\* A publisher that comes and goes: it is missed while it is gone.
LEMMA PublisherComesAndGoes ==
  ASSUME IInv, Relaying, PublisherLost \/ PublisherRejoins
  PROVE  Relaying'
<1>1. /\ up \in [Client -> Seq(Packet)] /\ down \in [Client -> Seq(Packet)]
      /\ conns \in Seq(Conn)
  BY LinkTypes
<1>2. CASE PublisherLost
  <2>1. Cut(Pub) /\ missed'
    BY <1>2 DEF PublisherLost
  <2>2. Roles' /\ Silent'
    BY <1>1, <2>1, CutTable, ClientAssumption
  <2>3. QED
    BY <2>1, <2>2 DEF Relaying, Interrupted
<1>3. CASE PublisherRejoins
  <2>1. Joined(Pub) /\ missed' = missed /\ down' = down /\ up' = up
    BY <1>3 DEF PublisherRejoins
  <2>2. Roles' /\ In(Pub)' /\ \A d \in Client : In(d) => In(d)'
    BY <1>1, <2>1, JoinedTable, ClientAssumption
  <2>3. Silent'
    BY <2>1, <2>2, SilentKept DEF Relaying
  <2>4. QED
    BY <2>2, <2>3 DEF Relaying, Interrupted
<1>4. QED
  BY <1>2, <1>3

\* Every step keeps the session's idea of its clients, and silence on the
\* links of those who are gone.
LEMMA RelayingKept ==
  ASSUME IInv, Relaying, [Next]_vars
  PROVE  Relaying'
<1>1. CASE Capture \/ Receive
  BY <1>1, PublisherRelaying
<1>2. CASE RelayFrame
  BY <1>2, RelayFrameRelaying
<1>3. CASE KeyWindowPasses
  <2>1. conns \in Seq(Conn)
    BY LinkTypes
  <2>2. up' = up /\ down' = down /\ missed' = missed
    BY <1>3 DEF KeyWindowPasses
  <2>3. QED
    BY <1>3, <2>1, <2>2, WindowTable, TableKept
<1>4. ASSUME NEW v \in Viewer, Relay(v) \/ ViewerShows(v) \/ Membership(v)
      PROVE  Relaying'
  BY <1>4, RelayRelaying, ViewerRelaying, MembershipRelaying
<1>5. CASE PublisherLost \/ PublisherRejoins
  BY <1>5, PublisherComesAndGoes
<1>6. CASE UNCHANGED vars
  BY <1>6, TableLeft DEF vars
<1>7. QED
  BY <1>1, <1>2, <1>3, <1>4, <1>5, <1>6 DEF Next
-----------------------------------------------------------------------------
(* No frame is forgotten. *)

\* Frame n is on its way to a viewer.
OnItsWay(n) == \E v \in Viewer : n \in NumsOn(down[v], "VideoData")

\* A step that takes nothing off any link.
LEMMA NothingTaken ==
  ASSUME lost \subseteq lost',
         \A c \in Client : \A t : /\ NumsOn(up[c], t) \subseteq NumsOn(up'[c], t)
                                  /\ NumsOn(down[c], t) \subseteq NumsOn(down'[c], t),
         NEW n, Held(n)
  PROVE  Held(n)'
BY ClientAssumption DEF Held, Viewer

\* The capture thread adds to the publisher's link.
LEMMA CaptureHolds ==
  ASSUME IInv, Capture, NEW n, Held(n)
  PROVE  Held(n)'
<1>1. CASE CaptureBegins \/ EncodeFails \/ FrameSkipped \/ FrameCounted
  BY <1>1, NothingTaken DEF CaptureBegins, EncodeFails, FrameSkipped, FrameCounted
<1>2. CASE FrameSent
  <2>1. down' = down /\ lost \subseteq lost'
    BY <1>2 DEF FrameSent
  <2>2. \A c \in Client : \A t : NumsOn(up[c], t) \subseteq NumsOn(up'[c], t)
    <3>1. CASE up' = up
      BY <3>1
    <3>2. CASE up' = [up EXCEPT ![Pub] = Append(up[Pub], Frame(idr, cap))]
      <4>1. up \in [Client -> Seq(Packet)] /\ up[Pub] \in Seq(Packet) /\ Frame(idr, cap) \in Packet
        BY LinkTypes, ClientAssumption, PacketsMade DEF IInv, TypeOK
      <4>2. On(up[Pub]) \subseteq On(Append(up[Pub], Frame(idr, cap)))
        BY <4>1, OnAppended
      <4> DEFINE q == Append(up[Pub], Frame(idr, cap))
      <4>3. up' = [up EXCEPT ![Pub] = q] /\ On(up[Pub]) \subseteq On(q)
        BY <3>2, <4>2
      <4> HIDE DEF q
      <4>4. QED
        BY <4>1, <4>3, OneGains, ClientAssumption
    <3>3. QED
      BY <1>2, <3>1, <3>2 DEF FrameSent
  <2>3. QED
    BY <2>1, <2>2, NothingTaken
<1>3. QED
  BY <1>1, <1>2 DEF Capture, Encoded

\* What the publisher takes off its link is an acknowledgement it heeds, or
\* none.
LEMMA ReceiveHolds ==
  ASSUME IInv, Receive, NEW n \in Nat, Held(n)
  PROVE  Held(n)' \/ n <= Settled'
<1>1. /\ up \in [Client -> Seq(Packet)] /\ down \in [Client -> Seq(Packet)]
      /\ ack \in Nat
  BY LinkTypes DEF IInv, TypeOK
<1>0. CASE ResetReads \/ AckWritten
  BY <1>0, NothingTaken DEF ResetReads, AckWritten
<1> SUFFICES ASSUME AckArrives \/ DropAckArrives \/ RequestArrives
             PROVE  Held(n)' \/ n <= Settled'
  BY <1>0 DEF Receive
<1>2. /\ up' = up /\ lost' = lost /\ down[Pub] # <<>>
      /\ down' = [down EXCEPT ![Pub] = Tail(@)]
  BY DEF AckArrives, DropAckArrives, RequestArrives, Received
<1> DEFINE m == Head(down[Pub])
<1>3. \A d \in Client \ {Pub} : down'[d] = down[d]
  BY <1>1, <1>2
<1>4. n \in NumsOn(down[Pub], "VideoAck") =>
        n \in NumsOn(down'[Pub], "VideoAck") \/ (m.type = "VideoAck" /\ m.num = n)
  <2>1. TakesHead(down, down', Pub)
    BY <1>1, <1>2, ClientAssumption DEF TakesHead
  <2>2. ASSUME n \in NumsOn(down[Pub], "VideoAck")
        PROVE  \/ n \in NumsOn(down'[Pub], "VideoAck")
               \/ Head(down[Pub]).type = "VideoAck" /\ Head(down[Pub]).num = n
    BY <2>1, <2>2, OneLosesNums
  <2>3. QED
    BY <2>2
<1>5. ASSUME m.type = "VideoAck", m.num = n
      PROVE  n <= Settled'
  <2>1. CASE AckArrives
    <3>1. /\ writer = "idle" /\ ack' = ack
          /\ IF m.num > ack THEN writer' = "writing" /\ seq' = m.num ELSE UNCHANGED writing
      BY <2>1 DEF AckArrives, Received
    <3>2. QED
      BY <1>1, <1>5, <3>1 DEF Settled, writing
  <2>2. CASE DropAckArrives \/ RequestArrives
    <3>1. m.type # "VideoAck"
      BY <2>2 DEF DropAckArrives, RequestArrives, Received
    <3>2. QED
      BY <1>5, <3>1
  <2>3. QED
    BY <2>1, <2>2
<1> HIDE DEF m
<1>6. QED
  BY <1>2, <1>3, <1>4, <1>5 DEF Held, Viewer

\* What the session writes for a frame is packets for clients.
LEMMA FramePackets ==
  ASSUME conns \in Seq(Conn), NEW m \in Packet, m.num \in Nat
  PROVE  Deliver(conns, Forwarded(conns, m.idr), m)
           \cup {[to |-> Pub, msg |-> Numbered("DropAck", m.num)] : i \in Swallowed(conns, m.idr)}
         \subseteq [to: Client, msg: Packet]
<1> DEFINE F == Deliver(conns, Forwarded(conns, m.idr), m)
           E == {[to |-> Pub, msg |-> Numbered("DropAck", m.num)] : i \in Swallowed(conns, m.idr)}
<1>1. Forwarded(conns, m.idr) \subseteq DOMAIN conns
  BY DEF Forwarded, Viewers
<1>2. F \subseteq [to: Client, msg: Packet]
  <2>1. m.num <= m.num /\ AtMost(m, m.num)
    BY DEF AtMost
  <2>2. QED
    BY <1>1, <2>1, DeliverPackets
<1>3. E \subseteq [to: Client, msg: Packet]
  BY PacketsMade, ClientAssumption
<1>4. QED
  BY <1>2, <1>3

\* A frame the session takes goes to a viewer, or nobody will acknowledge it.
LEMMA RelayFrameHolds ==
  ASSUME IInv, Relaying, RelayFrame, NEW n, Held(n)
  PROVE  Held(n)'
<1>1. /\ up \in [Client -> Seq(Packet)] /\ down \in [Client -> Seq(Packet)]
      /\ conns \in Seq(Conn)
  BY LinkTypes
<1>2. PICK m \in On(up[Pub]) :
        /\ Relayed(Pub, m, "VideoData")
        /\ down' = Written(Deliver(conns, Forwarded(conns, m.idr), m)
                             \cup {[to |-> Pub, msg |-> Numbered("DropAck", m.num)] :
                                     i \in Swallowed(conns, m.idr)})
        /\ lost' = IF Forwarded(conns, m.idr) = {} THEN lost \cup {m.num} ELSE lost
  BY DEF RelayFrame
<1>3. /\ up[Pub] # <<>> /\ up' = [up EXCEPT ![Pub] = Tail(@)]
      /\ m = Head(up[Pub]) /\ m.type = "VideoData"
  BY <1>2 DEF Relayed
<1>4. m \in Packet /\ m.num \in Nat
  BY <1>2, ClientAssumption, TakenUp, PacketFields
<1> DEFINE F == Deliver(conns, Forwarded(conns, m.idr), m)
           E == {[to |-> Pub, msg |-> Numbered("DropAck", m.num)] : i \in Swallowed(conns, m.idr)}
<1>5. F \cup E \subseteq [to: Client, msg: Packet]
  BY <1>1, <1>4, FramePackets
<1>6. \A d \in E : d.to = Pub
  OBVIOUS
<1>7. ASSUME NEW i \in Forwarded(conns, m.idr)
      PROVE  OnItsWay(m.num)'
  <2> DEFINE c == conns[i].wsi
  <2>1. c \in Client /\ c # Pub
    BY <1>1, TableElements DEF Forwarded, Viewers, Conn, Client, Relaying, Roles
  <2>2. \E d \in F \cup E : d.to = c
    <3> DEFINE I == Forwarded(conns, m.idr)
    <3>1. i \in I
      OBVIOUS
    <3> HIDE DEF I
    <3>2. \E d \in Deliver(conns, I, m) : d.to = conns[i].wsi /\ d.msg = m
      BY <3>1, DeliverReaches, Zenon
    <3>3. QED
      BY <3>2 DEF I
  <2>3. PICK d \in F \cup E : d.to = c /\ d.msg \in On(down'[c])
    <3>1. down' = Written(F \cup E)
      BY <1>2
    <3> HIDE DEF F, E, c
    <3>2. QED
      BY <1>1, <1>5, <2>1, <2>2, <3>1, AllGain
  <2>4. d.msg = m
    <3>1. d \in F
      BY <1>6, <2>1, <2>3
    <3>2. QED
      BY <3>1 DEF Deliver
  <2>5. m.num \in NumsOn(down'[c], "VideoData")
    BY <1>3, <2>3, <2>4, NumOn
  <2>6. QED
    BY <2>1, <2>5 DEF OnItsWay, Viewer
<1>8. m.num \in lost' \/ OnItsWay(m.num)'
  BY <1>2, <1>7
<1>9. lost \subseteq lost'
  BY <1>2
<1>10. \A c \in Client : \A t : NumsOn(down[c], t) \subseteq NumsOn(down'[c], t)
  <2>1. down' = Written(F \cup E)
    BY <1>2
  <2> HIDE DEF F, E
  <2>2. QED
    BY <1>1, <1>5, <2>1, AllGain
<1>11. /\ \A d \in Client \ {Pub} : up'[d] = up[d]
       /\ n \in NumsOn(up[Pub], "VideoData") => n \in NumsOn(up'[Pub], "VideoData") \/ n = m.num
  <2>1. TakesHead(up, up', Pub)
    BY <1>1, <1>3, ClientAssumption DEF TakesHead
  <2>2. \A d \in Client \ {Pub} : up'[d] = up[d]
    BY <2>1, OneLoses
  <2>3. ASSUME n \in NumsOn(up[Pub], "VideoData")
        PROVE  \/ n \in NumsOn(up'[Pub], "VideoData")
               \/ Head(up[Pub]).type = "VideoData" /\ Head(up[Pub]).num = n
    BY <2>1, <2>3, OneLosesNums
  <2>4. QED
    BY <1>3, <2>2, <2>3
<1>12. CASE n = m.num
  BY <1>8, <1>12 DEF Held, OnItsWay
<1>13. CASE n # m.num
  BY <1>9, <1>10, <1>11, <1>13, ClientAssumption DEF Held, Viewer
<1>14. QED
  BY <1>12, <1>13

\* An acknowledgement the session takes goes to the publisher, or nowhere.
LEMMA RelayHolds ==
  ASSUME IInv, Relaying, NEW v \in Viewer, Relay(v), NEW n, Held(n)
  PROVE  Held(n)'
<1>1. /\ up \in [Client -> Seq(Packet)] /\ down \in [Client -> Seq(Packet)]
      /\ conns \in Seq(Conn) /\ v \in Client /\ v # Pub
  BY LinkTypes DEF Viewer
<1>2. PICK m : /\ Relayed(v, m, "VideoAck") \/ Relayed(v, m, "RequestKeyFrame")
               /\ down' = Written(Deliver(conns, Publishers(conns), m))
               /\ lost' = IF m.type = "VideoAck" /\ Publishers(conns) = {}
                          THEN lost \cup {m.num} ELSE lost
  <2>1. CASE RelayAck(v)
    BY <2>1 DEF RelayAck, Relayed
  <2>2. CASE RelayRequest(v)
    BY <2>2 DEF RelayRequest, Relayed
  <2>3. QED
    BY <2>1, <2>2 DEF Relay
<1>3. /\ up[v] # <<>> /\ up' = [up EXCEPT ![v] = Tail(@)] /\ m = Head(up[v])
  BY <1>2 DEF Relayed
<1>3a. TakesHead(up, up', v)
  BY <1>1, <1>3 DEF TakesHead
<1>4. m \in Packet
  BY <1>3, <1>3a, OneLoses
<1> DEFINE D == Deliver(conns, Publishers(conns), m)
<1>5. D \subseteq [to: Client, msg: Packet]
  BY <1>1, <1>4, DeliverMade
<1>6. down' = Written(D)
  BY <1>2
<1>7. \A c \in Client : \A t : NumsOn(down[c], t) \subseteq NumsOn(down'[c], t)
  <2> HIDE DEF D
  <2>1. QED
    BY <1>1, <1>5, <1>6, AllGain
<1>8. ASSUME m.type = "VideoAck"
      PROVE  m.num \in lost' \/ m.num \in NumsOn(down'[Pub], "VideoAck")
  <2>1. CASE Publishers(conns) = {}
    BY <1>2, <1>8, <2>1
  <2>2. CASE Publishers(conns) # {}
    <3>1. PICK i \in Publishers(conns) : conns[i].wsi = Pub
      BY <2>2 DEF Publishers, Relaying, Roles
    <3>2. \E d \in D : d.to = Pub
      <4>1. \E d \in Deliver(conns, Publishers(conns), m) : d.to = conns[i].wsi /\ d.msg = m
        BY DeliverReaches, Zenon
      <4>2. QED
        BY <3>1, <4>1
    <3>3. PICK d \in D : d.to = Pub /\ d.msg \in On(down'[Pub])
      <4> HIDE DEF D
      <4>1. QED
        BY <1>1, <1>5, <1>6, <3>2, AllGain, ClientAssumption
    <3>4. d.msg = m
      BY <3>3 DEF Deliver
    <3>5. QED
      BY <1>8, <3>3, <3>4, NumOn
  <2>3. QED
    BY <2>1, <2>2
<1>9. lost \subseteq lost'
  BY <1>2
<1>10. /\ \A d \in Client \ {v} : up'[d] = up[d]
       /\ n \in NumsOn(up[v], "VideoAck") =>
            n \in NumsOn(up'[v], "VideoAck") \/ (m.type = "VideoAck" /\ n = m.num)
  <2>1. \A d \in Client \ {v} : up'[d] = up[d]
    BY <1>3a, OneLoses
  <2>2. ASSUME n \in NumsOn(up[v], "VideoAck")
        PROVE  \/ n \in NumsOn(up'[v], "VideoAck")
               \/ Head(up[v]).type = "VideoAck" /\ Head(up[v]).num = n
    BY <1>3a, <2>2, OneLosesNums
  <2>3. QED
    BY <1>3, <2>1, <2>2
<1>11. CASE m.type = "VideoAck" /\ n = m.num
  BY <1>8, <1>11 DEF Held
<1>12. CASE ~(m.type = "VideoAck" /\ n = m.num)
  BY <1>1, <1>7, <1>9, <1>10, <1>12, ClientAssumption DEF Held, Viewer
<1>13. QED
  BY <1>11, <1>12

\* A viewer acknowledges what it shows, and what it cannot show.
LEMMA ViewerHolds ==
  ASSUME IInv, NEW v \in Viewer, ViewerShows(v), NEW n, Held(n)
  PROVE  Held(n)'
<1>1. /\ up \in [Client -> Seq(Packet)] /\ down \in [Client -> Seq(Packet)]
      /\ v \in Client /\ v # Pub
  BY LinkTypes DEF Viewer
<1>2. PICK m \in On(down[v]) :
        /\ Received(v, m) /\ m.type = "VideoData"
        /\ down' = [down EXCEPT ![v] = Tail(@)]
        /\ \E shown \in BOOLEAN :
             up' = [up EXCEPT ![v] =
                      Append(@, Numbered("VideoAck", m.num))
                        \o (IF shown \/ waiting[v] THEN <<>> ELSE <<Request(FALSE)>>)]
        /\ lost' = lost
  BY DEF ViewerShows
<1>3. m = Head(down[v]) /\ down[v] # <<>>
  BY <1>2 DEF Received
<1>3a. TakesHead(down, down', v)
  BY <1>1, <1>2, <1>3 DEF TakesHead
<1>4. m \in Packet /\ m.num \in Nat
  BY <1>2, <1>3, <1>3a, OneLoses, PacketFields
<1> DEFINE a == Numbered("VideoAck", m.num)
           x == Request(FALSE)
<1>5. a \in Packet /\ x \in Packet /\ a.type = "VideoAck" /\ a.num = m.num
  BY <1>4, PacketsMade DEF Numbered
<1>6. PICK q : up' = [up EXCEPT ![v] = q] /\ On(up[v]) \cup {a} \subseteq On(q)
  <2>1. PICK shown \in BOOLEAN :
          up' = [up EXCEPT ![v] = Append(up[v], a) \o (IF shown \/ waiting[v] THEN <<>> ELSE <<x>>)]
    BY <1>2
  <2> DEFINE p == Append(up[v], a)
             r == IF shown \/ waiting[v] THEN <<>> ELSE <<x>>
  <2>2. up[v] \in Seq(Packet)
    BY <1>1
  <2> HIDE DEF a, x
  <2>3. p \in Seq(Packet) /\ On(p) = On(up[v]) \cup {a}
    BY <1>5, <2>2, OnAppended
  <2>4. p \o r = p \/ p \o r = Append(p, x)
    <3> HIDE DEF p
    <3>1. p \o <<>> = p /\ p \o <<x>> = Append(p, x)
      BY <1>5, <2>3
    <3>2. QED
      BY <3>1
  <2>5. On(p) \subseteq On(p \o r)
    <3> HIDE DEF p, r
    <3>1. QED
      BY <1>5, <2>3, <2>4, OnAppended
  <2>6. QED
    BY <2>1, <2>3, <2>5
<1> HIDE DEF a, x
<1>7. /\ m.num \in NumsOn(up'[v], "VideoAck")
      /\ \A c \in Client : \A t : NumsOn(up[c], t) \subseteq NumsOn(up'[c], t)
  <2>1. On(up[v]) \subseteq On(q) /\ a \in On(q)
    BY <1>6
  <2>2. up'[v] = q /\ \A c \in Client : \A t : NumsOn(up[c], t) \subseteq NumsOn(up'[c], t)
    BY <1>1, <1>6, <2>1, OneGains
  <2>3. QED
    BY <1>5, <2>1, <2>2, NumOn
<1>8. /\ \A d \in Client \ {v} : down'[d] = down[d]
      /\ n \in NumsOn(down[v], "VideoData") => n \in NumsOn(down'[v], "VideoData") \/ n = m.num
  <2>1. \A d \in Client \ {v} : down'[d] = down[d]
    BY <1>3a, OneLoses
  <2>2. ASSUME n \in NumsOn(down[v], "VideoData")
        PROVE  \/ n \in NumsOn(down'[v], "VideoData")
               \/ Head(down[v]).type = "VideoData" /\ Head(down[v]).num = n
    BY <1>3a, <2>2, OneLosesNums
  <2>3. QED
    BY <1>3, <2>1, <2>2
<1>9. CASE n = m.num
  BY <1>7, <1>9 DEF Held
<1>10. CASE n # m.num
  BY <1>1, <1>2, <1>7, <1>8, <1>10, ClientAssumption DEF Held, Viewer
<1>11. QED
  BY <1>9, <1>10
\* Lost connections lose what is on their links, on the record.
LEMMA MembershipHolds ==
  ASSUME IInv, Relaying, NEW v \in Viewer, Membership(v), NEW n, Held(n)
  PROVE  Held(n)'
<1>1. /\ up \in [Client -> Seq(Packet)] /\ down \in [Client -> Seq(Packet)]
      /\ v \in Client /\ v # Pub
  BY LinkTypes DEF Viewer
<1>2. CASE ViewerJoins(v)
  BY <1>2, NothingTaken DEF ViewerJoins
<1>3. CASE ViewerLost(v)
  <2>1. /\ \A d \in Client \ {v} : up'[d] = up[d] /\ down'[d] = down[d]
        /\ lost' = lost \cup NumsOn(down[v], "VideoData") \cup NumsOn(up[v], "VideoAck")
    BY <1>1, <1>3 DEF ViewerLost, Cut
  <2>2. QED
    BY <1>1, <2>1, ClientAssumption DEF Held, Viewer
<1>4. CASE ViewerRejoins(v)
  <2>1. lost' = lost /\ down' = down /\ \A d \in Client \ {v} : up'[d] = up[d]
    BY <1>1, <1>4 DEF ViewerRejoins
  <2>2. up[v] = <<>>
    BY <1>1, <1>4 DEF ViewerRejoins, Joined, Relaying, Silent
  <2>3. NumsOn(up[v], "VideoAck") = {}
    <3>1. On(<<>>) = {}
      BY DEF On
    <3>2. QED
      BY <2>2, <3>1 DEF NumsOn
  <2>4. QED
    BY <1>1, <2>1, <2>3, ClientAssumption DEF Held, Viewer
<1>5. QED
  BY <1>2, <1>3, <1>4 DEF Membership

\* The same for the publisher's.
LEMMA PublisherHolds ==
  ASSUME IInv, PublisherLost \/ PublisherRejoins, NEW n, Held(n)
  PROVE  Held(n)'
<1>1. up \in [Client -> Seq(Packet)] /\ down \in [Client -> Seq(Packet)]
  BY LinkTypes
<1>2. CASE PublisherLost
  <2>1. /\ \A d \in Client \ {Pub} : up'[d] = up[d] /\ down'[d] = down[d]
        /\ lost' = lost \cup NumsOn(up[Pub], "VideoData") \cup NumsOn(down[Pub], "VideoAck")
    BY <1>1, <1>2 DEF PublisherLost, Cut
  <2>2. QED
    BY <2>1 DEF Held, Viewer
<1>3. CASE PublisherRejoins
  BY <1>3, NothingTaken DEF PublisherRejoins
<1>4. QED
  BY <1>2, <1>3

\* A frame that is held stays held, until it is acknowledged.
LEMMA HeldStays ==
  ASSUME IInv, Relaying, [Next]_vars, NEW n \in Nat, Held(n)
  PROVE  Held(n)' \/ n <= Settled'
<1>1. CASE Capture
  BY <1>1, CaptureHolds
<1>2. CASE Receive
  BY <1>2, ReceiveHolds
<1>3. CASE RelayFrame
  BY <1>3, RelayFrameHolds
<1>4. ASSUME NEW v \in Viewer, Relay(v) \/ ViewerShows(v) \/ Membership(v)
      PROVE  Held(n)'
  BY <1>4, RelayHolds, ViewerHolds, MembershipHolds
<1>5. CASE PublisherLost \/ PublisherRejoins
  BY <1>5, PublisherHolds
<1>6. CASE KeyWindowPasses \/ UNCHANGED vars
  BY <1>6, NothingTaken DEF KeyWindowPasses, vars
<1>7. QED
  BY <1>1, <1>2, <1>3, <1>4, <1>5, <1>6 DEF Next

\* The sequence numbers change in the publisher only, and an acknowledgement
\* or a reset opens the window.
LEMMA NumbersChange ==
  ASSUME IInv, [Next]_vars
  PROVE  \/ EncodeFails \/ FrameSkipped \/ FrameSent \/ FrameCounted
         \/ /\ cap' = cap /\ Sent' = Sent
            /\ Settled <= Settled' \/ cap <= Settled'
            /\ phase' = phase \/ phase' = "encoding"
<1>1. cap \in Nat /\ ack \in Nat /\ seq \in Nat /\ ack <= Sent
  BY Parts DEF CaptureType, Acknowledged
<1>2. CASE CaptureBegins
  BY <1>1, <1>2 DEF CaptureBegins, Sent, Settled, writing
<1>3. CASE AckArrives
  <2>1. PICK m \in On(down[Pub]) :
          /\ Received(Pub, m) /\ m.type = "VideoAck"
          /\ IF m.num > ack THEN writer' = "writing" /\ seq' = m.num ELSE UNCHANGED writing
    BY <1>3 DEF AckArrives
  <2>2. m.num \in Nat
    <3>1. down' = [down EXCEPT ![Pub] = Tail(@)]
      BY <1>3 DEF AckArrives
    <3>2. QED
      BY <2>1, <3>1, ClientAssumption, HeadTaken, PacketFields
  <2>3. QED
    BY <1>1, <1>3, <2>1, <2>2 DEF AckArrives, Sent, Settled, writing
<1>4. CASE RequestArrives \/ ResetReads \/ AckWritten
  BY <1>1, <1>4 DEF RequestArrives, ResetReads, AckWritten, Sent, Settled
<1>5. CASE UNCHANGED capture
  BY <1>1, <1>5 DEF capture, Sent, Settled
<1>6. DropAckArrives \/ RelayFrame \/ KeyWindowPasses \/ PublisherLost \/ PublisherRejoins
        => UNCHANGED capture
  BY DEF DropAckArrives, RelayFrame, KeyWindowPasses, PublisherLost, PublisherRejoins
<1>7. ASSUME NEW v \in Viewer, Relay(v) \/ ViewerShows(v) \/ Membership(v)
      PROVE  UNCHANGED capture
  BY <1>7 DEF Relay, RelayAck, RelayRequest, ViewerShows, Membership, ViewerJoins, ViewerLost, ViewerRejoins
<1>8. CASE UNCHANGED vars
  BY <1>5, <1>8 DEF vars
<1>9. QED
  BY <1>2, <1>3, <1>4, <1>5, <1>6, <1>7, <1>8 DEF Next, Capture, Encoded, Receive

\* A frame that has been encoded is held: it was lost, or is on the
\* publisher's link.
LEMMA EncodedHeld ==
  ASSUME IInv, EncodeFails \/ FrameSent
  PROVE  Held(cap)' /\ cap' = cap /\ Settled' = Settled /\ Sent' = Sent
<1>1. cap' = cap /\ Settled' = Settled /\ Sent' = Sent
  BY DEF EncodeFails, FrameSent, Sent, Settled, writing
<1>2. CASE cap \in lost'
  BY <1>1, <1>2 DEF Held
<1>3. CASE up' = [up EXCEPT ![Pub] = Append(up[Pub], Frame(idr, cap))]
  <2> DEFINE m == Frame(idr, cap)
  <2>1. up \in [Client -> Seq(Packet)] /\ up[Pub] \in Seq(Packet) /\ m \in Packet
    BY LinkTypes, ClientAssumption, PacketsMade DEF IInv, TypeOK
  <2>2. m.type = "VideoData" /\ m.num = cap
    BY DEF Frame
  <2>3. up'[Pub] = Append(up[Pub], m)
    BY <1>3, <2>1, ClientAssumption
  <2> HIDE DEF m
  <2>4. m \in On(up'[Pub])
    BY <2>1, <2>3, OnAppended
  <2>5. cap \in NumsOn(up'[Pub], "VideoData")
    BY <2>2, <2>4, NumOn
  <2>6. QED
    BY <1>1, <2>5 DEF Held
<1>4. QED
  BY <1>1, <1>2, <1>3 DEF EncodeFails, FrameSent

\* The numbers strictly between two.
LEMMA Between ==
  ASSUME NEW a \in Nat, NEW b \in Nat, NEW n \in (a + 1)..(b - 1)
  PROVE  n \in Int /\ a < n /\ n < b
OBVIOUS

\* Every step keeps the books of the frames.
LEMMA AllHeldKept ==
  ASSUME IInv, Relaying, AllHeld, [Next]_vars
  PROVE  AllHeld'
<1>1. CaptureType /\ CaptureType' /\ Sent \in Nat /\ Acknowledged
  <2>1. IInv'
    BY StepKeeps
  <2>2. QED
    BY <2>1, SentType DEF IInv, TypeOK, CaptureType
<1>0. Settled \in Nat /\ Settled' \in Nat
  BY <1>1 DEF CaptureType, Settled
<1>2. \A n \in Nat : Held(n) => Held(n)' \/ n <= Settled'
  BY HeldStays
<1>3. CASE /\ cap' = cap /\ Sent' = Sent
           /\ Settled <= Settled' \/ cap <= Settled'
           /\ phase' = phase \/ phase' = "encoding"
  <2>0. cap \in Nat /\ Settled \in Nat /\ Settled' \in Nat /\ Sent \in Nat /\ Sent <= cap + 1
    BY <1>0, <1>1 DEF CaptureType, Sent
  <2>1. ASSUME NEW n \in Int, Settled' < n, n < Sent
        PROVE  Held(n)'
    <3>1. n \in Nat /\ ~(n <= Settled')
      BY <2>0, <2>1
    <3>2. Settled <= Settled'
      BY <1>3, <2>0, <2>1
    <3>3. n \in (Settled + 1)..(Sent - 1)
      BY <2>0, <2>1, <3>2
    <3>4. QED
      BY <1>2, <3>1, <3>3 DEF AllHeld
  <2>2. ASSUME phase' \in {"sent", "failed"}, Settled' < cap
        PROVE  Held(cap)'
    <3>1. phase \in {"sent", "failed"} /\ Settled < cap /\ ~(cap <= Settled') /\ cap \in Nat
      BY <1>3, <2>0, <2>2
    <3>2. Held(cap)
      BY <3>1 DEF AllHeld
    <3>3. QED
      BY <1>2, <1>3, <3>1, <3>2 DEF Held
  <2>3. \A n \in (Settled' + 1)..(Sent' - 1) : Held(n)'
    <3>1. Sent' \in Nat
      BY <1>3, <2>0
    <3>2. \A n \in (Settled' + 1)..(Sent' - 1) : n \in Int /\ Settled' < n /\ n < Sent'
      BY <2>0, <3>1, Between
    <3>3. QED
      BY <1>3, <2>1, <3>2
  <2>4. QED
    BY <1>3, <2>2, <2>3 DEF AllHeld
<1>4. CASE EncodeFails \/ FrameSent
  <2>1. Held(cap)' /\ cap' = cap /\ Settled' = Settled /\ Sent' = Sent
    BY <1>4, EncodedHeld
  <2>2. ASSUME NEW n \in (Settled + 1)..(Sent - 1)
        PROVE  Held(n)'
    <3>1. n \in Nat /\ ~(n <= Settled')
      BY <1>0, <1>1, <2>1, <2>2 DEF CaptureType
    <3>2. QED
      BY <1>2, <3>1 DEF AllHeld
  <2>3. QED
    BY <2>1, <2>2 DEF AllHeld
<1>5. CASE FrameSkipped
  <2>1. Settled' = Settled /\ Sent' = Sent /\ phase' = "skipped"
    BY <1>1, <1>5 DEF FrameSkipped, Sent, Settled, CaptureType, writing
  <2>2. ASSUME NEW n \in (Settled + 1)..(Sent - 1)
        PROVE  Held(n)'
    <3>1. n \in Nat /\ ~(n <= Settled')
      BY <1>0, <1>1, <2>1, <2>2 DEF CaptureType
    <3>2. QED
      BY <1>2, <3>1 DEF AllHeld
  <2>3. QED
    BY <2>1, <2>2 DEF AllHeld
<1>6. CASE FrameCounted
  <2>1. Settled' = Settled /\ Sent' = cap + 1 /\ phase' = "waiting"
    BY <1>1, <1>6 DEF FrameCounted, Sent, Settled, writing
  <2>2. ASSUME NEW n \in (Settled + 1)..cap
        PROVE  Held(n)'
    <3>1. n \in Nat /\ ~(n <= Settled') /\ Settled < cap
      BY <1>0, <1>1, <2>1, <2>2 DEF CaptureType
    <3>2. CASE n = cap /\ phase # "skipped"
      BY <1>2, <1>6, <3>1, <3>2 DEF AllHeld, FrameCounted
    <3>3. CASE n # cap \/ phase = "skipped"
      <4>1. n \in (Settled + 1)..(Sent - 1)
        BY <1>0, <1>1, <2>2, <3>3 DEF CaptureType, Sent
      <4>2. QED
        BY <1>2, <3>1, <4>1 DEF AllHeld
    <3>4. QED
      BY <3>2, <3>3
  <2>3. QED
    BY <1>0, <1>1, <2>1, <2>2 DEF AllHeld, CaptureType
<1>7. QED
  BY <1>3, <1>4, <1>5, <1>6, NumbersChange
-----------------------------------------------------------------------------
(* No request for a key frame is forgotten. *)

\* A step that clears nobody and takes back nothing that has been asked for.
LEMMA NothingForgotten ==
  ASSUME Honoured, Cleared' => Cleared,
         missed => missed', Requested => Requested', KeySent => KeySent',
         Armed => Armed' \/ KeySent' \/ missed'
  PROVE  Honoured'
BY DEF Honoured

\* Links of the publisher that lose nothing keep the request and the frame.
LEMMA StillThere ==
  ASSUME On(up[Pub]) \subseteq On(up'[Pub]), On(down[Pub]) \subseteq On(down'[Pub])
  PROVE  (Requested => Requested') /\ (KeySent => KeySent')
BY DEF Requested, KeySent

\* The capture thread makes a key frame of what was asked for in time, and
\* tries again when the encoder fails.
LEMMA CaptureHonours ==
  ASSUME IInv, Relaying, Honoured, Capture
  PROVE  Honoured'
<1>1. /\ conns' = conns /\ missed' = missed /\ down' = down
      /\ Cleared' => Cleared
  BY DEF Capture, Encoded, CaptureBegins, EncodeFails, FrameSkipped, FrameSent, FrameCounted, Cleared
<1>2. CASE CaptureBegins \/ EncodeFails \/ FrameSkipped \/ FrameCounted
  <2>1. up' = up
    BY <1>2 DEF CaptureBegins, EncodeFails, FrameSkipped, FrameCounted
  <2>2. Armed => Armed'
    <3>1. CASE CaptureBegins
      BY <3>1 DEF CaptureBegins, Armed
    <3>2. CASE EncodeFails
      BY <3>2 DEF EncodeFails, Armed
    <3>3. CASE FrameSkipped
      BY <3>3 DEF FrameSkipped, Armed
    <3>4. CASE FrameCounted
      BY <3>4 DEF FrameCounted, Armed
    <3>5. QED
      BY <1>2, <3>1, <3>2, <3>3, <3>4
  <2>3. QED
    BY <1>1, <2>1, <2>2, StillThere, NothingForgotten
<1>3. CASE FrameSent
  <2>1. CASE ~In(Pub)
    <3>1. missed'
      BY <1>1, <2>1 DEF Relaying, Interrupted
    <3>2. QED
      BY <3>1 DEF Honoured
  <2>2. CASE In(Pub)
    <3> DEFINE m == Frame(idr, cap)
    <3>1. up \in [Client -> Seq(Packet)] /\ up[Pub] \in Seq(Packet) /\ m \in Packet
      BY LinkTypes, ClientAssumption, PacketsMade DEF IInv, TypeOK
    <3>2. m.type = "VideoData" /\ m.idr = idr
      BY DEF Frame
    <3>3. up'[Pub] = Append(up[Pub], m)
      BY <1>3, <2>2, <3>1, ClientAssumption DEF FrameSent
    <3> HIDE DEF m
    <3>4. On(up'[Pub]) = On(up[Pub]) \cup {m}
      BY <3>1, <3>3, OnAppended
    <3>5. Armed => KeySent'
      BY <1>3, <3>2, <3>4 DEF FrameSent, Armed, KeySent
    <3>6. QED
      BY <1>1, <3>4, <3>5, StillThere, NothingForgotten
  <2>3. QED
    BY <2>1, <2>2
<1>4. QED
  BY <1>2, <1>3 DEF Capture, Encoded

\* A request that arrives is noted, in time or not.
LEMMA ReceiveHonours ==
  ASSUME IInv, Honoured, Receive
  PROVE  Honoured'
<1>1. CASE AckArrives \/ DropAckArrives
  <2>1. /\ conns' = conns /\ missed' = missed /\ up' = up
        /\ Cleared' => Cleared
    BY <1>1 DEF AckArrives, DropAckArrives, Cleared
  <2>2. Armed => Armed'
    BY <1>1 DEF AckArrives, DropAckArrives, capture, Armed
  <2>3. TakesHead(down, down', Pub) /\ Head(down[Pub]).type # "RequestKeyFrame"
    BY <1>1, LinkTypes, ClientAssumption DEF AckArrives, DropAckArrives, Received, TakesHead
  <2>4. Requested => Requested'
    BY <2>3, OneLoses DEF Requested
  <2>5. KeySent => KeySent'
    BY <2>1 DEF KeySent
  <2>6. QED
    BY <2>1, <2>2, <2>4, <2>5, NothingForgotten
<1>2. CASE RequestArrives
  <2>1. force' /\ phase' = phase /\ idr' = idr
    BY <1>2 DEF RequestArrives
  <2>2. missed' = (missed \/ phase \in {"sent", "skipped"} \/ (phase = "encoding" /\ ~idr))
    BY <1>2 DEF RequestArrives
  <2>3. phase \in {"waiting", "encoding", "sent", "skipped", "failed"}
    BY DEF IInv, TypeOK
  <2>4. missed' \/ Armed'
    BY <2>1, <2>2, <2>3 DEF Armed
  <2>5. QED
    BY <2>4 DEF Honoured
<1>3. CASE ResetReads \/ AckWritten
  <2>1. /\ UNCHANGED <<conns, missed, up, down, force, phase, idr>>
        /\ Cleared' => Cleared
    BY <1>3 DEF ResetReads, AckWritten, Cleared
  <2>2. (Armed => Armed') /\ (Requested => Requested') /\ (KeySent => KeySent')
    BY <2>1 DEF Armed, Requested, KeySent
  <2>3. QED
    BY <2>1, <2>2, NothingForgotten
<1>4. QED
  BY <1>1, <1>2, <1>3 DEF Receive

\* A key frame ends every clearing; another frame passes without a trace.
LEMMA RelayFrameHonours ==
  ASSUME IInv, Relaying, Honoured, RelayFrame
  PROVE  Honoured'
<1>1. /\ up \in [Client -> Seq(Packet)] /\ down \in [Client -> Seq(Packet)]
      /\ conns \in Seq(Conn)
  BY LinkTypes
<1>2. PICK m \in On(up[Pub]) :
        /\ Relayed(Pub, m, "VideoData")
        /\ conns' = AfterFrame(conns, m.idr)
        /\ down' = Written(Deliver(conns, Forwarded(conns, m.idr), m)
                             \cup {[to |-> Pub, msg |-> Numbered("DropAck", m.num)] :
                                     i \in Swallowed(conns, m.idr)})
        /\ missed' = (missed /\ ~m.idr)
  BY DEF RelayFrame
<1>3. /\ m \in Packet /\ m.idr \in BOOLEAN /\ m.num \in Nat
      /\ TakesHead(up, up', Pub) /\ m = Head(up[Pub])
  BY <1>1, <1>2, TakenUp, PacketFields, ClientAssumption DEF Relayed, TakesHead
<1>4. /\ DOMAIN conns' = 1..Len(conns) /\ DOMAIN conns = 1..Len(conns)
      /\ \A i \in 1..Len(conns) : conns'[i].clear <=> conns[i].clear /\ (conns[i].publisher \/ ~m.idr)
  BY <1>1, <1>2, <1>3, FrameClears, FrameKeepsClients, TableElements DEF SameClients
<1>5. CASE m.idr
  <2>1. ~Cleared'
    BY <1>4, <1>5 DEF Cleared, Relaying, Roles
  <2>2. QED
    BY <2>1 DEF Honoured
<1>6. CASE ~m.idr
  <2>1. Cleared' => Cleared
    BY <1>4 DEF Cleared
  <2>2. KeySent => KeySent'
    BY <1>3, <1>6, OneLoses DEF KeySent
  <2>3. On(down[Pub]) \subseteq On(down'[Pub])
    <3> DEFINE D == Deliver(conns, Forwarded(conns, m.idr), m)
                      \cup {[to |-> Pub, msg |-> Numbered("DropAck", m.num)] :
                              i \in Swallowed(conns, m.idr)}
    <3>1. down' = Written(D)
      BY <1>2
    <3>2. D \subseteq [to: Client, msg: Packet]
      BY <1>1, <1>3, FramePackets
    <3> HIDE DEF D
    <3>3. QED
      BY <1>1, <3>1, <3>2, AllGain, ClientAssumption
  <2>4. Requested => Requested'
    BY <2>3 DEF Requested
  <2>5. Armed => Armed'
    BY DEF RelayFrame, capture, Armed
  <2>6. missed => missed'
    BY <1>2, <1>6
  <2>7. QED
    BY <2>1, <2>2, <2>4, <2>5, <2>6, NothingForgotten
<1>7. QED
  BY <1>3, <1>5, <1>6

\* The session clears viewers only when it has written the request to the
\* publisher.
LEMMA RelayHonours ==
  ASSUME IInv, Relaying, Honoured, NEW v \in Viewer, Relay(v)
  PROVE  Honoured'
<1>1. /\ up \in [Client -> Seq(Packet)] /\ down \in [Client -> Seq(Packet)]
      /\ conns \in Seq(Conn) /\ v \in Client /\ v # Pub
  BY LinkTypes DEF Viewer
<1>2. PICK m : /\ \/ Relayed(v, m, "VideoAck") /\ conns' = conns
                  \/ Relayed(v, m, "RequestKeyFrame") /\ conns' = AfterKeyRequest(conns, Publishers(conns))
               /\ down' = Written(Deliver(conns, Publishers(conns), m))
               /\ missed' = missed
  <2>1. CASE RelayAck(v)
    BY <2>1 DEF RelayAck
  <2>2. CASE RelayRequest(v)
    BY <2>2 DEF RelayRequest
  <2>3. QED
    BY <2>1, <2>2 DEF Relay
<1>3. TakesHead(up, up', v) /\ m = Head(up[v])
  BY <1>1, <1>2 DEF Relayed, TakesHead
<1>4. m \in Packet /\ up'[Pub] = up[Pub]
  BY <1>1, <1>3, OneLoses, ClientAssumption
<1> DEFINE D == Deliver(conns, Publishers(conns), m)
<1>5. D \subseteq [to: Client, msg: Packet]
  BY <1>1, <1>4, DeliverMade
<1>6. /\ On(down[Pub]) \subseteq On(down'[Pub])
      /\ (\E d \in D : d.to = Pub) => \E d \in D : d.to = Pub /\ d.msg \in On(down'[Pub])
  <2>1. down' = Written(D)
    BY <1>2
  <2> HIDE DEF D
  <2>2. QED
    BY <1>1, <1>5, <2>1, AllGain, ClientAssumption
<1>7. (Requested => Requested') /\ (KeySent => KeySent')
  BY <1>4, <1>6, StillThere
<1>8. Armed => Armed'
  BY DEF Relay, RelayAck, RelayRequest, capture, Armed
<1>9. CASE Cleared' => Cleared
  BY <1>2, <1>7, <1>8, <1>9, NothingForgotten
<1>10. CASE Cleared' /\ ~Cleared
  <2>1. m.type = "RequestKeyFrame" /\ conns' = AfterKeyRequest(conns, Publishers(conns))
    BY <1>2, <1>10 DEF Relayed, Cleared
  <2>2. PICK i \in Publishers(conns) : TRUE
    <3>1. /\ DOMAIN conns' = 1..Len(conns) /\ DOMAIN conns = 1..Len(conns)
          /\ \A i \in 1..Len(conns) : conns'[i].clear =>
               conns[i].clear \/ \E p \in Publishers(conns) : conns[p].recent
      BY <1>1, <2>1, KeyRequestClears, KeyRequestKeepsClients, TableElements DEF SameClients
    <3>2. QED
      BY <1>10, <3>1 DEF Cleared
  <2>3. conns[i].wsi = Pub
    BY DEF Publishers, Relaying, Roles
  <2>4. \E d \in Deliver(conns, Publishers(conns), m) : d.to = conns[i].wsi /\ d.msg = m
    BY DeliverReaches, Zenon
  <2>5. \E d \in D : d.to = Pub /\ d.msg \in On(down'[Pub])
    BY <1>6, <2>3, <2>4
  <2>6. m \in On(down'[Pub])
    BY <2>5 DEF Deliver
  <2>7. QED
    BY <2>1, <2>6 DEF Honoured, Requested
<1>11. QED
  BY <1>9, <1>10

\* Viewers clear nobody, and neither do those who come and go.
LEMMA OthersHonour ==
  ASSUME IInv, Relaying, Honoured,
         \/ \E v \in Viewer : ViewerShows(v) \/ Membership(v)
         \/ PublisherRejoins
  PROVE  Honoured'
<1>1. /\ up \in [Client -> Seq(Packet)] /\ down \in [Client -> Seq(Packet)]
      /\ conns \in Seq(Conn)
  BY LinkTypes
<1>2. up'[Pub] = up[Pub] /\ down'[Pub] = down[Pub] /\ missed' = missed /\ UNCHANGED capture
  <2>1. CASE PublisherRejoins
    BY <2>1 DEF PublisherRejoins
  <2>2. ASSUME NEW v \in Viewer, ViewerShows(v) \/ Membership(v)
        PROVE  up'[Pub] = up[Pub] /\ down'[Pub] = down[Pub] /\ missed' = missed /\ UNCHANGED capture
    <3>1. v # Pub /\ v \in Client
      BY DEF Viewer
    <3>2. CASE ViewerShows(v)
      BY <1>1, <3>1, <3>2, ClientAssumption DEF ViewerShows
    <3>3. CASE Membership(v)
      BY <1>1, <3>1, <3>3, ClientAssumption
         DEF Membership, ViewerJoins, ViewerLost, ViewerRejoins, Cut
    <3>4. QED
      BY <2>2, <3>2, <3>3
  <2>3. QED
    BY <2>1, <2>2
<1>3. Cleared' => Cleared
  <2>1. CASE conns' = conns
    BY <2>1 DEF Cleared
  <2>2. ASSUME NEW c \in Client, Cut(c)
        PROVE  Cleared' => Cleared
    <3>1. conns' = AfterClose(conns, c) /\ conns' \in Seq(Conn)
      BY <1>1, <2>2, CloseType DEF Cut
    <3>2. ComesFrom(conns', conns, c)
      BY <1>1, <3>1, CloseOrigins
    <3>3. DOMAIN conns = 1..Len(conns) /\ DOMAIN conns' = 1..Len(conns')
      BY <1>1, <3>1, TableElements
    <3>4. QED
      BY <3>2, <3>3 DEF ComesFrom, Cleared
  <2>3. ASSUME NEW c \in Client, Joined(c)
        PROVE  Cleared' => Cleared
    <3>1. \A i \in DOMAIN conns' : conns'[i].clear => i \in DOMAIN conns /\ conns'[i] = conns[i]
      BY <1>1, <2>3, JoinedTable
    <3>2. QED
      BY <3>1 DEF Cleared
  <2>4. QED
    BY <2>1, <2>2, <2>3, ClientAssumption
       DEF PublisherRejoins, ViewerShows, Membership, ViewerJoins, ViewerLost, ViewerRejoins, Viewer
<1>4. (Requested => Requested') /\ (KeySent => KeySent') /\ (Armed => Armed')
  BY <1>2 DEF Requested, KeySent, Armed, capture
<1>5. QED
  BY <1>2, <1>3, <1>4, NothingForgotten

\* Every step keeps the promise of a key frame.
LEMMA HonouredKept ==
  ASSUME IInv, Relaying, Honoured, [Next]_vars
  PROVE  Honoured'
<1>1. CASE Capture \/ Receive
  BY <1>1, CaptureHonours, ReceiveHonours
<1>2. CASE RelayFrame
  BY <1>2, RelayFrameHonours
<1>3. CASE KeyWindowPasses
  <2>1. /\ conns \in Seq(Conn) /\ SameClients(conns, conns')
        /\ \A i \in 1..Len(conns) : conns'[i].clear <=> conns[i].clear
    BY <1>3, LinkTypes, WindowTable
  <2>2. Cleared' => Cleared
    BY <2>1, TableElements DEF SameClients, Cleared
  <2>3. /\ (missed => missed') /\ (Requested => Requested') /\ (KeySent => KeySent')
        /\ Armed => Armed'
    BY <1>3 DEF KeyWindowPasses, Requested, KeySent, Armed, capture
  <2>4. QED
    BY <2>2, <2>3, NothingForgotten
<1>4. ASSUME NEW v \in Viewer, Relay(v)
      PROVE  Honoured'
  BY <1>4, RelayHonours
<1>5. CASE (\E v \in Viewer : ViewerShows(v) \/ Membership(v)) \/ PublisherRejoins
  BY <1>5, OthersHonour
<1>6. CASE PublisherLost
  BY <1>6 DEF PublisherLost, Honoured
<1>7. CASE UNCHANGED vars
  BY <1>7 DEF vars, capture, Honoured, Cleared, Requested, Armed, KeySent
<1>8. QED
  BY <1>1, <1>2, <1>3, <1>4, <1>5, <1>6, <1>7 DEF Next

-----------------------------------------------------------------------------
(* The books are kept. *)

\* The books are empty in the beginning.
LEMMA SafeInit ==
  ASSUME Init
  PROVE  Safe
<1>1. IInv
  BY InitHolds
<1>2. /\ DOMAIN conns = {1}
      /\ conns[1].wsi = Pub /\ conns[1].publisher /\ ~conns[1].clear
  BY DEF Init, NewConn
<1>3. Roles /\ ~Cleared
  BY <1>2 DEF Roles, Cleared
<1>4. In(Pub)
  BY <1>2, AtEntry DEF In
<1>5. Silent
  BY DEF Init, Silent
<1>6. AllHeld
  BY DEF Init, AllHeld, Sent, Settled
<1>7. QED
  BY <1>1, <1>3, <1>4, <1>5, <1>6 DEF Safe, Relaying, Interrupted, Honoured

\* Every step keeps them.
LEMMA SafeStep ==
  ASSUME Safe, [Next]_vars
  PROVE  Safe'
BY StepKeeps, RelayingKept, AllHeldKept, HonouredKept DEF Safe

\* They are kept in every reachable state.
LEMMA SafeAlways == Spec => []Safe
<1>1. Init => Safe
  BY SafeInit
<1>2. Safe /\ [Next]_vars => Safe'
  BY SafeStep
<1>3. QED
  BY <1>1, <1>2, PTL DEF Spec

\* No frame the window waits for is forgotten: it is on its way to a viewer,
\* its acknowledgement on its way back, or it went down with a connection, an
\* encoder that failed or a stream nobody watches.
THEOREM FramesAccounted == Spec => []Accounted
<1>1. Safe => Accounted
  <2> SUFFICES ASSUME Safe, NEW n \in (ack + 1)..(Sent - 1), ~(n <= seq)
               PROVE  Held(n)
    BY DEF Accounted, Held
  <2>1. CaptureType /\ Sent \in Nat
    BY Parts, SentType DEF Safe
  <2>2. n \in (Settled + 1)..(Sent - 1)
    BY <2>1 DEF CaptureType, Settled
  <2>3. QED
    BY <2>2 DEF Safe, AllHeld
<1>2. QED
  BY <1>1, SafeAlways, PTL

\* A viewer that swallows frames is never left to swallow them for ever while
\* everybody thinks the key frame was asked for: the request or the key frame
\* is on its way, unless the request came too late or its connection broke.
THEOREM KeyFrameOnItsWay == Spec => []KeyFrameComing
<1>1. Safe => KeyFrameComing
  BY DEF Safe, Honoured, Cleared, Requested, Armed, KeySent, KeyFrameComing
<1>2. QED
  BY <1>1, SafeAlways, PTL
-----------------------------------------------------------------------------
(* The roster. *)

\* The session's table as Roster sees it; the publisher came with control.
Roster == INSTANCE Roster WITH
  present <- Seats(conns),
  publishers <- Sockets(conns, Publishers(conns)),
  controllers <- Sockets(conns, Controllers(conns)),
  spent <- TRUE

\* What the roster promises of a step.
RosterStep == Roster!Next \/ UNCHANGED Roster!vars

\* With the roles it had, the table is the same roster.
LEMMA RosterSame ==
  ASSUME conns \in Seq(Conn), SameClients(conns, conns'), SamePublishers(conns, conns'),
         SameControllers(conns, conns')
  PROVE  RosterStep
<1>1. /\ Seats(conns') = Seats(conns)
      /\ Sockets(conns', Publishers(conns')) = Sockets(conns, Publishers(conns))
      /\ Sockets(conns', Controllers(conns')) = Sockets(conns, Controllers(conns))
  BY SeatsKept
<1>2. QED
  BY <1>1 DEF RosterStep, Roster!vars

\* A client that comes or comes back joins: the publisher publishing, and nobody with
\* a claim to control.
LEMMA RosterJoined ==
  ASSUME conns \in Seq(Conn), OneEach(conns), NEW c \in Client, Joined(c)
  PROVE  RosterStep /\ OneEach(conns')
<1>1. /\ conns' = Append(conns, NewConn(c, c, FALSE, c = Pub)) /\ At(conns, c) = {}
      /\ c \in Wsi /\ c \in User /\ (c = Pub) \in BOOLEAN /\ FALSE \in BOOLEAN
  BY UserAssumption DEF Joined, Appended, In, Client
<1>2. c \notin Roster!Listed
  <2>1. /\ DOMAIN conns = 1..Len(conns) /\ DOMAIN Seats(conns) = 1..Len(conns)
        /\ \A i \in 1..Len(conns) : Seats(conns)[i].client = conns[i].wsi
    BY SeatsList, TableElements
  <2>2. QED
    BY <1>1, <2>1 DEF Roster!Listed, At
<1>3. PICK ds : ds = conns'
  OBVIOUS
<1>4. PICK p \in BOOLEAN : p = (c = Pub)
  BY <1>1
<1>5. ListedLast(conns, ds, c, c, FALSE, p)
  <2>1. ds = Append(conns, NewConn(c, c, FALSE, p))
    BY <1>1, <1>3, <1>4
  <2>2. c \in Wsi /\ c \in User /\ p \in BOOLEAN
    BY <1>1
  <2>3. QED
    BY ONLY <2>1, <2>2, JoinSeats, conns \in Seq(Conn)
<1>6. Roster!Joins(c, c, p, FALSE)
  BY <1>2, <1>3, <1>5 DEF ListedLast, Roster!Joins
<1>7. OneEach(conns')
  <2> DEFINE e == NewConn(c, c, FALSE, c = Pub)
  <2>1. e \in Conn /\ e.wsi = c
    BY <1>1 DEF NewConn, Conn
  <2> HIDE DEF e
  <2>2. OneEach(Append(conns, e))
    BY <1>1, <2>1, JoinOneEach
  <2>3. QED
    BY <1>1, <2>2 DEF e
<1>8. Roster!Next
  BY <1>1, <1>4, <1>6 DEF Roster!Next, Client
<1>9. QED
  BY <1>7, <1>8 DEF RosterStep

\* A client whose connection is lost leaves.
LEMMA RosterCut ==
  ASSUME conns \in Seq(Conn), OneEach(conns), NEW c \in Client, Cut(c)
  PROVE  RosterStep /\ OneEach(conns')
<1>1. conns' = AfterClose(conns, c) /\ At(conns, c) # {}
  BY DEF Cut, In
<1>2. OneEach(conns')
  BY <1>1, CloseOneEach
<1>3. PICK i \in 1..Len(conns) : conns' = IF conns[i].controller
                                            THEN WithController(Without(conns, i), {1})
                                            ELSE Without(conns, i)
  BY <1>1, CloseProperties
<1>4. PICK ds : ds = conns'
  OBVIOUS
<1>5. NoLongerListed(conns, ds, i)
  <2>1. ds = IF conns[i].controller THEN WithController(Without(conns, i), {1})
                                    ELSE Without(conns, i)
    BY <1>3, <1>4
  <2>2. \A j, k \in DOMAIN conns : conns[j].wsi = conns[k].wsi => j = k
    BY DEF OneEach
  <2>3. QED
    BY ONLY <2>1, <2>2, conns \in Seq(Conn), i \in 1..Len(conns), CloseSeats
<1>6. i \in DOMAIN Seats(conns) /\ Seats(conns)[i].client = conns[i].wsi
  BY SeatsList
<1>7. Roster!Leaves(i)
  BY <1>4, <1>5, <1>6 DEF NoLongerListed, Roster!Leaves
<1>8. QED
  BY <1>2, <1>6, <1>7 DEF RosterStep, Roster!Next

\* Every step of a stream is one of the roster, or none.
LEMMA RosterNext ==
  ASSUME IInv, OneEach(conns), [Next]_vars
  PROVE  RosterStep /\ OneEach(conns')
<1>0. conns \in Seq(Conn)
  BY LinkTypes
<1>1. ASSUME SameClients(conns, conns'), SamePublishers(conns, conns'),
             SameControllers(conns, conns')
      PROVE  RosterStep /\ OneEach(conns')
  BY <1>0, <1>1, RosterSame, SameOneEach
<1>2. CASE conns' = conns
  <2>1. /\ SameClients(conns, conns) /\ SameControllers(conns, conns)
        /\ SamePublishers(conns, conns)
    BY <1>0 DEF SameClients, SameControllers, SamePublishers
  <2>2. QED
    BY <1>1, <1>2, <2>1
<1>3. CASE Capture \/ Receive \/ UNCHANGED vars
  BY <1>2, <1>3 DEF Capture, CaptureBegins, Encoded, EncodeFails, FrameSkipped, FrameSent,
     FrameCounted, Receive, AckArrives, DropAckArrives, RequestArrives,
     ResetReads, AckWritten, vars
<1>4. CASE RelayFrame
  <2>1. PICK m \in On(up[Pub]) :
          Relayed(Pub, m, "VideoData") /\ conns' = AfterFrame(conns, m.idr)
    BY <1>4 DEF RelayFrame
  <2>2. m.idr \in BOOLEAN
    BY <2>1, ClientAssumption, TakenUp, PacketFields
  <2>3. SameClients(conns, conns') /\ SameControllers(conns, conns')
    BY <1>0, <2>1, <2>2, FrameKeepsClients
  <2>4. SamePublishers(conns, conns')
    BY <1>0, <2>1, <2>2, FrameClears DEF SamePublishers
  <2>5. QED
    BY <1>1, <2>3, <2>4
<1>5. CASE KeyWindowPasses
  <2>1. SameClients(conns, conns') /\ SamePublishers(conns, conns')
    BY <1>0, <1>5, WindowTable DEF SamePublishers
  <2>2. SameControllers(conns, conns')
    BY <1>0, <1>5, TableElements DEF KeyWindowPasses, SameControllers, Conn
  <2>3. QED
    BY <1>1, <2>1, <2>2
<1>6. ASSUME NEW v \in Viewer, Relay(v) \/ ViewerShows(v) \/ Membership(v)
      PROVE  RosterStep /\ OneEach(conns')
  <2>1. CASE RelayAck(v) \/ ViewerShows(v)
    BY <1>2, <2>1 DEF RelayAck, ViewerShows
  <2>2. CASE RelayRequest(v)
    <3>1. conns' = AfterKeyRequest(conns, Publishers(conns))
      BY <2>2 DEF RelayRequest
    <3>2. SameClients(conns, conns') /\ SameControllers(conns, conns')
      BY <1>0, <3>1, KeyRequestKeepsClients
    <3>3. SamePublishers(conns, conns')
      BY <1>0, <3>1, KeyRequestClears DEF SamePublishers
    <3>4. QED
      BY <1>1, <3>2, <3>3
  <2>3. CASE ViewerJoins(v) \/ ViewerRejoins(v)
    BY <1>0, <2>3, RosterJoined DEF ViewerJoins, ViewerRejoins, Viewer
  <2>4. CASE ViewerLost(v)
    BY <1>0, <2>4, RosterCut DEF ViewerLost, Viewer
  <2>5. QED
    BY <1>6, <2>1, <2>2, <2>3, <2>4 DEF Relay, Membership
<1>7. CASE PublisherLost
  BY <1>0, <1>7, ClientAssumption, RosterCut DEF PublisherLost
<1>8. CASE PublisherRejoins
  BY <1>0, <1>8, ClientAssumption, RosterJoined DEF PublisherRejoins
<1>9. QED
  BY <1>3, <1>4, <1>5, <1>6, <1>7, <1>8 DEF Next

\* The session that relays a stream keeps the roster's promises, too, for any number
\* of viewers, whoever is lost or comes back while frames, acknowledgements and requests
\* are under way; it starts with the publisher in it.
THEOREM RosterIsFollowed == Spec => [][Roster!Next]_(Roster!vars)
<1>1. Init => OneEach(conns)
  BY DEF Init, OneEach
<1>2. IInv /\ OneEach(conns) /\ [Next]_vars => OneEach(conns)'
  BY RosterNext
<1>3. IInv /\ OneEach(conns) /\ [Next]_vars => [Roster!Next]_(Roster!vars)
  BY RosterNext DEF RosterStep
<1>4. QED
  BY <1>1, <1>2, <1>3, Inductive, PTL DEF Spec

=============================================================================
