----------------------------- MODULE MCSession -----------------------------
(* Instances of Session for TLC. *)
EXTENDS Session, TLC

\* Sockets and users are interchangeable in the safety runs.
Symmetric == Permutations(Wsi) \cup Permutations(User)

\* What the handlers read: no step looks at what the last one wrote.
Tables == <<conns, sock, claimed, alarm, exit, proc, beat, stale>>

RoleKinds == {"StartStream", "StopStream", "AssignController", "StreamQuit",
              "StartStreamAck", "StopStreamAck", "VideoAck", "AudioData", "Message"}
LifeKinds == {"StartStream", "VideoData", "RequestKeyFrame", "AssignController"}
=============================================================================
