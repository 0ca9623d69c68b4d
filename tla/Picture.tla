------------------------------ MODULE Picture ------------------------------
(***************************************************************************)
(* The pictures of one Video: what the capture thread converts and encodes *)
(* (onFrame, Encode) and what the websocket thread decodes and renders     *)
(* (show, DXVA2Render) share m_iFrameW and m_iFrameH, which say how large  *)
(* m_pYUVData and the encoder are.  A size stands for a width and height.  *)
(***************************************************************************)
EXTENDS Integers

CONSTANT Size  \* sizes a screen or a stream may have

VARIABLES
  frame,    \* m_iFrameW, m_iFrameH
  yuv,      \* size of m_pYUVData, 0 for NULL
  encoder,  \* size of m_pSVCEncoder, 0 for NULL, -1 if it is not initialised
  decoder,  \* the decoder is open
  phase,    \* "before", "capturing" (m_bPublisher), "stopping" or "after" it
  at, grab, \* where onFrame() is, and size of the picture it was given
  happened  \* history: what went wrong, and what may be the cause

vars == <<frame, yuv, encoder, decoder, phase, at, grab, happened>>

Notes(s) == happened' = happened \cup s
If(condition, what) == IF condition THEN {what} ELSE {}

\* Whether a decoder and a device that renders were found.
OpenDecoder == BOOLEAN

Init ==
  /\ frame = 0 /\ yuv = 0 /\ encoder = 0
  /\ decoder \in OpenDecoder
  /\ phase = "before"
  /\ at = "idle" /\ grab = 0
  /\ happened = {}

-----------------------------------------------------------------------------
(* The capture thread. *)

\* A new buffer, a new encoder, which may fail to be created or initialised.
Resizes(s) ==
  /\ yuv' = s /\ frame' = s
  /\ \/ encoder' = s /\ UNCHANGED happened
     \/ encoder' \in {0, -1} /\ Notes({"no encoder"})

\* Mutant: a buffer that is there is large enough.
OnFrame_noSize ==
  /\ at = "idle" /\ phase \in {"capturing", "stopping"}
  /\ at' = "sized" /\ grab' \in Size
  /\ IF yuv = 0 THEN Resizes(grab') ELSE UNCHANGED <<frame, yuv, encoder, happened>>
  /\ UNCHANGED <<decoder, phase>>

OnFrame ==
  /\ at = "idle" /\ phase \in {"capturing", "stopping"}
  /\ at' = "sized" /\ grab' \in Size
  /\ IF frame # grab' \/ yuv = 0 THEN Resizes(grab')
     ELSE UNCHANGED <<frame, yuv, encoder, happened>>
  /\ UNCHANGED <<decoder, phase>>

\* ARGBToI420 reads a picture of the size noted, and writes one.  A picture of 8
\* bits ends here, one of 16 or 24 is not converted.
Converts ==
  /\ at = "sized"
  /\ \/ at' = "idle" /\ UNCHANGED happened
     \/ at' = "converted" /\ UNCHANGED happened
     \/ at' = "converted" /\ Notes(If(frame # grab \/ frame # yuv, "misfit"))
  /\ UNCHANGED <<frame, yuv, encoder, decoder, phase, grab>>

Encodes ==
  /\ at = "converted" /\ at' = "idle"
  /\ Notes(If(encoder \notin {0, -1} /\ (frame # encoder \/ frame # yuv), "misfit")
             \cup If(encoder \in {0, -1}, "left out"))
  /\ UNCHANGED <<frame, yuv, encoder, decoder, phase, grab>>

-----------------------------------------------------------------------------
(* The websocket thread. *)

Start ==
  /\ phase = "before"
  /\ phase' = "capturing"
  /\ UNCHANGED <<frame, yuv, encoder, decoder, at, grab, happened>>

Stop ==
  /\ phase = "capturing"
  /\ phase' = "stopping"
  /\ UNCHANGED <<frame, yuv, encoder, decoder, at, grab, happened>>

\* The capture thread is over, or did not end within five seconds.
Stopped ==
  /\ phase = "stopping" /\ phase' = "after"
  /\ Notes(If(at # "idle", "late"))
  /\ UNCHANGED <<frame, yuv, encoder, decoder, at, grab>>

\* The size of the frame is noted, if there is a window to render it in.
DXVA2Render == frame' \in Size \cup {frame}

\* A frame of the stream is decoded and rendered: the session sends none to a
\* publisher.  What the library does without a decoder is not followed.
Show ==
  /\ phase \in {"before", "after"} /\ decoder
  /\ DXVA2Render
  /\ UNCHANGED <<yuv, encoder, decoder, phase, at, grab, happened>>

Next ==
  \/ OnFrame \/ Converts \/ Encodes
  \/ Start \/ Stop \/ Stopped \/ Show

Spec == Init /\ [][Next]_vars

-----------------------------------------------------------------------------
\* Whatever sizes the screen and the streams that were watched have, a picture
\* is converted and encoded with a buffer and an encoder of its own size, unless
\* a stop did not wait for the capture thread.
PictureFits == "misfit" \in happened => "late" \in happened

\* No picture is left out but for want of an encoder.
LeftOutNeedsFailure == "left out" \in happened => "no encoder" \in happened

\* Every picture is converted and encoded, at its own size.
PicturesFit ==
  PictureFits /\ LeftOutNeedsFailure
=============================================================================
