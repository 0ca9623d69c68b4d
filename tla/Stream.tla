------------------------------- MODULE Stream -------------------------------
(***************************************************************************)
(* A video stream from end to end: the publisher's capture thread and      *)
(* websocket thread, the session that relays (its table and handlers are   *)
(* those of ClientTable), the viewers, and the connections in between.     *)
(* The publisher sends frames as long as the newest one is not more than   *)
(* IntervalCnt ahead of the last acknowledged one; viewers acknowledge     *)
(* every frame and ask for a key frame when they cannot decode.            *)
(***************************************************************************)
EXTENDS ClientTable

CONSTANTS
  Pub,          \* the client that publishes
  IntervalCnt,  \* m_IntervalCnt
  MaxSeq,       \* bound: frames captured
  MaxLink,      \* bound: messages on their way to the publisher, or from a viewer,
                \* when another is sent
  Faults        \* what may go wrong in this instance, see FaultKinds

\* Every client of the stream has one socket, named like its user.
Client == Wsi
ASSUME UserAssumption == User = Client

FaultKinds ==
  {"late",       \* viewers join when frames have been sent already
   "flood",      \* two key frame requests within 500 ms
   "encode",     \* the encoder fails, or the screen has no picture to encode
   "publisher"}  \* the publisher's connection is lost

ASSUME ClientAssumption == Pub \in Client
ASSUME IntervalAssumption == IntervalCnt \in Nat \ {0} /\ MaxSeq \in Nat
ASSUME FaultAssumption == Faults \subseteq FaultKinds

VARIABLES
  cap,      \* m_CaptureSeq
  ack,      \* m_AckSeq
  force,    \* m_bForceKeyframe
  fresh,    \* the encoder has not produced a frame since it was opened
  phase,    \* capture thread: "waiting", "encoding", "sent", "skipped", "failed"
  idr,      \* the frame being encoded is a key frame
  writer,   \* the publisher's websocket thread: "idle", "resetting" (about to read
            \* m_CaptureSeq) or "writing" (about to write m_AckSeq)
  seq,      \* what it is about to write
  conns,    \* the session's connections
  met,      \* the clients whose Cdaemon has connected once
  waiting,  \* the viewers' m_WaitingKeyframe
  up, down, \* messages from, respectively to, each client
  lost,     \* history: frames whose acknowledgement will not come
  missed    \* history: a key frame request came too late to be honoured

capture == <<cap, ack, force, fresh, phase, idr, writer, seq>>
writing == <<writer, seq>>
vars == <<capture, conns, met, waiting, up, down, lost, missed>>

Viewer == Client \ {Pub}
In(c) == At(conns, c) # {}

Request(reset) == [type |-> "RequestKeyFrame", reset |-> reset]
Numbered(t, n) == [type |-> t, num |-> n]

Packet ==
  [type: {"VideoData"}, idr: BOOLEAN, num: Nat]
    \cup [type: {"VideoAck", "DropAck"}, num: Nat]
    \cup [type: {"RequestKeyFrame"}, reset: BOOLEAN]

\* The packets on a link, and the frames or acknowledgements among them.
On(link) == {link[k] : k \in DOMAIN link}
NumsOn(link, t) == {m.num : m \in {x \in On(link) : x.type = t}}

Init ==
  /\ cap = 0 /\ ack = 0
  /\ force = FALSE /\ fresh = TRUE
  /\ phase = "waiting" /\ idr = FALSE
  /\ writer = "idle" /\ seq = 0
  /\ conns = <<NewConn(Pub, Pub, TRUE, TRUE)>>
  /\ met = {Pub}
  /\ waiting = [v \in Viewer |-> FALSE]
  /\ up = [c \in Client |-> <<>>]
  /\ down = [c \in Client |-> <<>>]
  /\ lost = {}
  /\ missed = FALSE

-----------------------------------------------------------------------------
(* The capture thread of the publisher. *)

\* The newest frame is close enough to the last acknowledged one.
Open == cap <= ack + IntervalCnt

\* A frame is grabbed.  The first one, and one of another size than the last,
\* open a new encoder and reset the sequence.
CaptureBegins ==
  /\ phase = "waiting" /\ Open
  /\ cap < MaxSeq
  /\ "late" \in Faults \/ met = Client
  /\ \E resized \in BOOLEAN :
       /\ ack' = IF resized THEN cap ELSE ack
       /\ fresh' = (fresh \/ resized)
       /\ idr' = (force \/ fresh')
  /\ phase' = "encoding"
  /\ UNCHANGED <<cap, force, writing, conns, met, waiting, up, down, lost, missed>>

\* EncodeFrame fails, or there is nothing to hand to it: the frame is counted
\* and never sent.
EncodeFails ==
  /\ phase = "encoding"
  /\ "encode" \in Faults
  /\ phase' = "failed"
  /\ lost' = lost \cup {cap}
  /\ UNCHANGED <<cap, ack, force, fresh, idr, writing, conns, met, waiting, up, down, missed>>

\* The rate control left the frame empty (never a key frame): its number is
\* taken back, to be counted again by the capture loop.
FrameSkipped ==
  /\ phase = "encoding" /\ ~idr
  /\ phase' = "skipped"
  /\ cap' = cap - 1
  /\ UNCHANGED <<ack, force, fresh, idr, writing, conns, met, waiting, up, down, lost, missed>>

FrameSent ==
  /\ phase = "encoding"
  /\ phase' = "sent"
  /\ fresh' = FALSE
  /\ IF In(Pub)
     THEN /\ up' = [up EXCEPT ![Pub] = Append(@, Frame(idr, cap))]
          /\ UNCHANGED lost
     ELSE /\ lost' = lost \cup {cap}
          /\ UNCHANGED up
  /\ UNCHANGED <<cap, ack, force, idr, writing, conns, met, waiting, down, missed>>

\* Mutant: the request is forgotten when the encoder failed, too.
FrameCounted_forgets ==
  /\ phase \in {"sent", "skipped", "failed"}
  /\ phase' = "waiting"
  /\ cap' = cap + 1
  /\ force' = FALSE
  /\ UNCHANGED <<ack, fresh, idr, writing, conns, met, waiting, up, down, lost, missed>>

\* Encode returns and the capture loop counts the frame.  A request that was
\* noted since the encoding began is forgotten, unless the encoder failed.
FrameCounted ==
  /\ phase \in {"sent", "skipped", "failed"}
  /\ phase' = "waiting"
  /\ cap' = cap + 1
  /\ force' = (force /\ phase = "failed")
  /\ UNCHANGED <<ack, fresh, idr, writing, conns, met, waiting, up, down, lost, missed>>

-----------------------------------------------------------------------------
(* The websocket thread of the publisher. *)

Received(c, m) ==
  /\ down[c] # <<>>
  /\ m = Head(down[c])

\* Mutant: an acknowledgement is believed without the test.
AckArrives_untested ==
  /\ writer = "idle"
  /\ \E m \in On(down[Pub]) :
       /\ Received(Pub, m) /\ m.type = "VideoAck"
       /\ writer' = "writing" /\ seq' = m.num
  /\ down' = [down EXCEPT ![Pub] = Tail(@)]
  /\ UNCHANGED <<cap, ack, force, fresh, phase, idr, conns, met, waiting, up, lost, missed>>

\* set_ack_sequence, up to its test; what comes of it is written in a step of its own.
AckArrives ==
  /\ writer = "idle"
  /\ \E m \in On(down[Pub]) :
       /\ Received(Pub, m) /\ m.type = "VideoAck"
       /\ IF m.num > ack THEN writer' = "writing" /\ seq' = m.num ELSE UNCHANGED writing
  /\ down' = [down EXCEPT ![Pub] = Tail(@)]
  /\ UNCHANGED <<cap, ack, force, fresh, phase, idr, conns, met, waiting, up, lost, missed>>

\* The session's acknowledgement of a swallowed frame is not the JSON that
\* handle_in parses: it is logged and dropped.
DropAckArrives ==
  /\ writer = "idle"
  /\ \E m \in On(down[Pub]) : Received(Pub, m) /\ m.type = "DropAck"
  /\ down' = [down EXCEPT ![Pub] = Tail(@)]
  /\ UNCHANGED <<capture, conns, met, waiting, up, lost, missed>>

\* Video::reset_keyframe, up to its call of cap_reset_sequence.
RequestArrives ==
  /\ writer = "idle"
  /\ \E m \in On(down[Pub]) :
       /\ Received(Pub, m) /\ m.type = "RequestKeyFrame"
       /\ writer' = IF m.reset THEN "resetting" ELSE "idle"
  /\ force' = TRUE
  /\ missed' = (missed \/ phase \in {"sent", "skipped"} \/ (phase = "encoding" /\ ~idr))
  /\ down' = [down EXCEPT ![Pub] = Tail(@)]
  /\ UNCHANGED <<cap, ack, fresh, phase, idr, seq, conns, met, waiting, up, lost>>

\* reset_sequence reads the number of the frame in the making ...
ResetReads ==
  /\ writer = "resetting"
  /\ writer' = "writing" /\ seq' = cap
  /\ UNCHANGED <<cap, ack, force, fresh, phase, idr, conns, met, waiting, up, down, lost, missed>>

\* ... and the number tested or read is written, whatever the capture thread has
\* counted, sent or reset in between.
AckWritten ==
  /\ writer = "writing"
  /\ ack' = seq
  /\ writer' = "idle" /\ seq' = 0
  /\ UNCHANGED <<cap, force, fresh, phase, idr, conns, met, waiting, up, down, lost, missed>>

-----------------------------------------------------------------------------
(* The session relays the first message of a client. *)

\* Every message of D is appended to the link of the client it is for.
Written(D) ==
  [c \in Client |-> IF \E d \in D : d.to = c
                    THEN Append(down[c], (CHOOSE d \in D : d.to = c).msg)
                    ELSE down[c]]

Relayed(c, m, t) ==
  /\ up[c] # <<>>
  /\ m = Head(up[c]) /\ m.type = t
  /\ up' = [up EXCEPT ![c] = Tail(@)]

\* However many viewers swallow the frame, its acknowledgement is modelled
\* once.
RelayFrame ==
  /\ \E m \in On(up[Pub]) :
       /\ Relayed(Pub, m, "VideoData")
       /\ conns' = AfterFrame(conns, m.idr)
       /\ down' = Written(Deliver(conns, Forwarded(conns, m.idr), m)
                            \cup {[to |-> Pub, msg |-> Numbered("DropAck", m.num)] :
                                    i \in Swallowed(conns, m.idr)})
       /\ lost' = IF Forwarded(conns, m.idr) = {} THEN lost \cup {m.num} ELSE lost
       /\ missed' = (missed /\ ~m.idr)
  /\ UNCHANGED <<capture, met, waiting>>

RelayAck(v) ==
  /\ Len(down[Pub]) < MaxLink
  /\ \E m \in On(up[v]) :
       /\ Relayed(v, m, "VideoAck")
       /\ down' = Written(Deliver(conns, Publishers(conns), m))
       /\ lost' = IF Publishers(conns) = {} THEN lost \cup {m.num} ELSE lost
  /\ UNCHANGED <<capture, conns, met, waiting, missed>>

RelayRequest(v) ==
  /\ Len(down[Pub]) < MaxLink
  /\ "flood" \in Faults \/ \A i \in DOMAIN conns : ~conns[i].recent
  /\ \E m \in On(up[v]) :
       /\ Relayed(v, m, "RequestKeyFrame")
       /\ down' = Written(Deliver(conns, Publishers(conns), m))
  /\ conns' = AfterKeyRequest(conns, Publishers(conns))
  /\ UNCHANGED <<capture, met, waiting, lost, missed>>

\* 500 ms have passed since the last request.
KeyWindowPasses ==
  /\ \E i \in DOMAIN conns :
       /\ conns[i].recent
       /\ conns' = [conns EXCEPT ![i].recent = FALSE]
  /\ UNCHANGED <<capture, met, waiting, up, down, lost, missed>>

-----------------------------------------------------------------------------
(* A viewer. *)

\* Mutant: only a frame that decodes is acknowledged.
ViewerShows_shownOnly(v) ==
  /\ Len(up[v]) < MaxLink
  /\ \E m \in On(down[v]) :
      /\ Received(v, m) /\ m.type = "VideoData"
      /\ down' = [down EXCEPT ![v] = Tail(@)]
      /\ \E shown \in BOOLEAN :
           /\ m.idr => shown
           /\ waiting' = [waiting EXCEPT ![v] = ~shown]
           /\ up' = [up EXCEPT ![v] =
                       IF shown THEN Append(@, Numbered("VideoAck", m.num))
                       ELSE IF waiting[v] THEN @ ELSE Append(@, Request(FALSE))]
      /\ UNCHANGED <<capture, conns, met, lost, missed>>

\* The frame is acknowledged, then decoded.  A key frame always decodes;
\* another one may not, when something before it is missing.
ViewerShows(v) ==
  /\ Len(up[v]) < MaxLink
  /\ \E m \in On(down[v]) :
      /\ Received(v, m) /\ m.type = "VideoData"
      /\ down' = [down EXCEPT ![v] = Tail(@)]
      /\ \E shown \in BOOLEAN :
           /\ m.idr => shown
           /\ waiting' = [waiting EXCEPT ![v] = ~shown]
           /\ up' = [up EXCEPT ![v] =
                       Append(@, Numbered("VideoAck", m.num))
                         \o (IF shown \/ waiting[v] THEN <<>> ELSE <<Request(FALSE)>>)]
      /\ UNCHANGED <<capture, conns, met, lost, missed>>

-----------------------------------------------------------------------------
(* Connections. *)

\* The messages on both links of c are gone, and its entry with them.
Cut(c) ==
  /\ In(c)
  /\ conns' = AfterClose(conns, c)
  /\ up' = [up EXCEPT ![c] = <<>>]
  /\ down' = [down EXCEPT ![c] = <<>>]

Joined(c) ==
  /\ ~In(c)
  /\ conns' = Appended(conns, NewConn(c, c, FALSE, c = Pub))

\* The constructor of Cdaemon.
ViewerJoins(v) ==
  /\ v \notin met
  /\ Joined(v)
  /\ met' = met \cup {v}
  /\ UNCHANGED <<capture, waiting, up, down, lost, missed>>

ViewerLost(v) ==
  /\ Cut(v)
  /\ lost' = lost \cup NumsOn(down[v], "VideoData") \cup NumsOn(up[v], "VideoAck")
  /\ UNCHANGED <<capture, met, waiting, missed>>

\* Mutant: no reset is asked for.
ViewerRejoins_noReset(v) ==
  /\ v \in met
  /\ Joined(v)
  /\ up' = [up EXCEPT ![v] = <<Request(FALSE)>>]
  /\ UNCHANGED <<capture, met, waiting, down, lost, missed>>

\* HeartbeatThread reconnects, and asks for a key frame and a reset.
ViewerRejoins(v) ==
  /\ v \in met
  /\ Joined(v)
  /\ up' = [up EXCEPT ![v] = <<Request(TRUE)>>]
  /\ UNCHANGED <<capture, met, waiting, down, lost, missed>>

PublisherLost ==
  /\ "publisher" \in Faults
  /\ Cut(Pub)
  /\ lost' = lost \cup NumsOn(up[Pub], "VideoData") \cup NumsOn(down[Pub], "VideoAck")
  /\ missed' = TRUE
  /\ UNCHANGED <<capture, met, waiting>>

\* A publisher that reconnects says so, and asks for nothing.
PublisherRejoins ==
  /\ Joined(Pub)
  /\ UNCHANGED <<capture, met, waiting, up, down, lost, missed>>

-----------------------------------------------------------------------------
Encoded == EncodeFails \/ FrameSkipped \/ FrameSent
Capture == CaptureBegins \/ Encoded \/ FrameCounted
Receive == AckArrives \/ DropAckArrives \/ RequestArrives \/ ResetReads \/ AckWritten
Relay(v) == RelayAck(v) \/ RelayRequest(v)
Membership(v) == ViewerJoins(v) \/ ViewerLost(v) \/ ViewerRejoins(v)

Next ==
  \/ Capture \/ Receive
  \/ RelayFrame \/ KeyWindowPasses
  \/ \E v \in Viewer : Relay(v) \/ ViewerShows(v) \/ Membership(v)
  \/ PublisherLost \/ PublisherRejoins

Spec == Init /\ [][Next]_vars

\* Threads, timers and connections that stand make progress; nobody is bound
\* to join, to leave or to come back.
Fairness ==
  /\ WF_vars(Capture)
  /\ WF_vars(Receive)
  /\ WF_vars(RelayFrame)
  /\ WF_vars(KeyWindowPasses)
  /\ \A v \in Viewer : WF_vars(Relay(v)) /\ WF_vars(ViewerShows(v))

FairSpec == Spec /\ Fairness

-----------------------------------------------------------------------------
(* Properties. *)

\* The shape of the state.
TypeOK ==
  /\ cap \in Nat /\ ack \in Nat
  /\ force \in BOOLEAN /\ fresh \in BOOLEAN /\ idr \in BOOLEAN
  /\ phase \in {"waiting", "encoding", "sent", "skipped", "failed"}
  /\ writer \in {"idle", "resetting", "writing"} /\ seq \in Nat
  /\ conns \in Seq(Conn)
  /\ met \subseteq Client
  /\ waiting \in [Viewer -> BOOLEAN]
  /\ up \in [Client -> Seq(Packet)]
  /\ down \in [Client -> Seq(Packet)]
  /\ lost \subseteq Nat
  /\ missed \in BOOLEAN

\* The numbers given out so far, the one of a skipped frame once; and the frames
\* taken, with the one in the making.
Sent == IF phase = "skipped" THEN cap + 1 ELSE cap
Taken == IF phase \in {"encoding", "sent", "failed"} THEN cap + 1 ELSE Sent

\* Whatever acknowledgements, resets, skipped and failed frames come in which
\* order, the capture loop keeps its pace: the two sequence numbers, written
\* by two threads without a lock, follow the specification of Pacing, in which
\* the window is overrun by an overtaken write and by nothing else.
Pace == INSTANCE Pacing WITH
  sent <- Taken, acked <- ack, due <- IF writer = "writing" THEN seq ELSE -1,
  Window <- IntervalCnt
KeepsPace == Pace!Spec

\* A frame the window still waits for is on its way to a viewer, or its
\* acknowledgement on its way back or about to be written, or it was lost for
\* good: the relay and the two clients never drop the only acknowledgement of a
\* frame that arrived, and an overtaken write makes nobody wait for another.
Accounted ==
  \A n \in (ack + 1)..(Sent - 1) :
    \/ n <= seq
    \/ n \in lost
    \/ \E v \in Viewer : n \in NumsOn(down[v], "VideoData") \cup NumsOn(up[v], "VideoAck")
    \/ n \in NumsOn(up[Pub], "VideoData") \cup NumsOn(down[Pub], "VideoAck")

\* While a viewer swallows frames, the key frame that ends it is on its way:
\* asked for, forced, being encoded, or sent; unless the request reached the
\* publisher while another frame was being encoded, or its connection broke.
KeyFrameComing ==
  (\E i \in DOMAIN conns : conns[i].clear) =>
    \/ missed
    \/ \E m \in On(down[Pub]) : m.type = "RequestKeyFrame"
    \/ force
    \/ phase = "encoding" /\ idr
    \/ \E m \in On(up[Pub]) : m.type = "VideoData" /\ m.idr

\* A stream does not stall as long as some viewer stays: frames that went down
\* with the connection of another one, or with its own earlier one, do not
\* keep the window closed.
Reopens == (\E v \in Viewer : <>[]In(v)) => []<>Open

\* ClientConnection::process_video_data, on a frame it does not forward:
\* "clear buffer and send video ack".  As long as somebody watches, what it
\* acknowledges is acknowledged at the publisher in the end.
SwallowedAcked ==
  \A n \in 0..MaxSeq :
    n \in NumsOn(down[Pub], "DropAck") ~>
      \/ ack >= n
      \/ cap = MaxSeq
      \/ \A v \in Viewer : ~In(v)
=============================================================================
