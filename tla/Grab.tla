-------------------------------- MODULE Grab --------------------------------
(***************************************************************************)
(* How a capture thread gets its pictures (CCapture): the mirror driver,   *)
(* desktop duplication or GDI, whichever could be set up first, set up     *)
(* again when the mode of the display changes, and the camera's picture    *)
(* laid into the lower left corner.  Sizes are heights: a picture of n     *)
(* lines in a buffer of n lines fits.                                      *)
(***************************************************************************)
EXTENDS Integers

CONSTANTS
  Lines,       \* heights the display may have
  CameraLines  \* height of the camera's picture

VARIABLES
  mode,     \* height of the display
  told,     \* WM_DISPLAYCHANGE waits in the queue of the thread
  kind,     \* m_GrabType
  camera,   \* m_UseCamera
  at,       \* where the thread is
  mirror,   \* height of the mirror, and of the mapped buffer (0: none)
  dx,       \* m_Directx
  gdi,      \* height of m_GDI.buffer, 0 for none
  force,    \* m_ForceFrame
  happened  \* history: what went wrong, and what may be the cause

vars == <<mode, told, kind, camera, at, mirror, dx, gdi, force, happened>>

Notes(s) == happened' = happened \cup s
If(condition, what) == IF condition THEN {what} ELSE {}

\* cy; the height and validity of the duplicated output; the staging texture,
\* made from a picture of it (0: none).
NoDx == [cy |-> 0, dup |-> 0, valid |-> FALSE, text |-> 0]

Init ==
  /\ mode \in Lines /\ told = FALSE
  /\ kind = "auto" /\ camera \in BOOLEAN
  /\ at = "mirror"
  /\ mirror = [size |-> 0, view |-> 0] /\ dx = NoDx /\ gdi = 0
  /\ force = FALSE /\ happened = If(mode < CameraLines, "low")

-----------------------------------------------------------------------------
(* The initialisations: one after the other until one succeeds, or, later   *)
(* on, again the one that did.                                              *)

Starting == kind = "auto"

\* What is answered: no device was found, or this is the height of its mode.
find_display_device == {0, mode}

\* The driver's display gets the mode of the screen, or keeps what it had, which
\* nobody looks at.
active_mirror_driver == Lines \cup {0}

\* The driver serves if its device is found.
InitMirror ==
  /\ at = "mirror"
  /\ \/ /\ \E h \in active_mirror_driver :
             mirror' = [size |-> h, view |-> 0] /\ Notes(If(h # mode, "not followed"))
        /\ kind' = "mirror" /\ at' = "camera"
     \/ at' = "directx" /\ UNCHANGED <<kind, mirror, happened>>
  /\ UNCHANGED <<mode, told, camera, dx, gdi, force>>

\* init_directx() reads the mode of the display ...
ReadsMode ==
  /\ at = "directx"
  /\ \/ /\ \E h \in find_display_device \ {0} : dx' = [dx EXCEPT !.cy = h]
        /\ at' = "duplicate" /\ UNCHANGED happened
     \/ at' = (IF Starting THEN "gdi" ELSE "loop") /\ Notes(If(~Starting, "failed")) /\ UNCHANGED dx
  /\ UNCHANGED <<mode, told, kind, camera, mirror, gdi, force>>

\* ... and init_dxgi() duplicates the output.
Duplicates ==
  /\ at = "duplicate"
  /\ \/ /\ dx' = [dx EXCEPT !.dup = mode, !.valid = TRUE]
        /\ kind' = "directx" /\ at' = IF Starting THEN "camera" ELSE "loop"
        /\ UNCHANGED happened
     \/ /\ at' = IF Starting THEN "gdi" ELSE "loop"
        /\ Notes(If(~Starting, "failed")) /\ UNCHANGED <<dx, kind>>
  /\ UNCHANGED <<mode, told, camera, mirror, gdi, force>>

InitGdi ==
  /\ at = "gdi"
  /\ \/ /\ gdi' = mode /\ kind' = "gdi"
        /\ at' = IF Starting THEN "camera" ELSE "loop"
        /\ UNCHANGED happened
     \/ /\ at' = IF Starting THEN "failed" ELSE "loop"
        /\ Notes(If(~Starting, "failed")) /\ UNCHANGED <<gdi, kind>>
  /\ UNCHANGED <<mode, told, camera, mirror, dx, force>>

\* A camera that was asked for and cannot be had ends the capture.
InitCamera ==
  /\ at = "camera"
  /\ \/ at' = "loop"
     \/ camera /\ at' = "failed"
  /\ UNCHANGED <<mode, told, kind, camera, mirror, dx, gdi, force, happened>>

-----------------------------------------------------------------------------
(* The loop. *)

\* xDispWindowProc(): all messages are handled before the next picture.
DisplayChanged ==
  /\ at = "loop" /\ told
  /\ told' = FALSE
  /\ \/ /\ kind = "mirror"
        /\ \/ mirror' = [size |-> mode, view |-> 0] /\ UNCHANGED happened
           \/ mirror' = [mirror EXCEPT !.view = 0] /\ Notes({"not followed"})
        /\ UNCHANGED <<at, dx, gdi>>
     \/ kind = "directx" /\ dx' = NoDx /\ at' = "directx" /\ UNCHANGED <<mirror, gdi, happened>>
     \/ kind = "gdi" /\ gdi' = 0 /\ at' = "gdi" /\ UNCHANGED <<mirror, dx, happened>>
  /\ UNCHANGED <<mode, kind, camera, force>>

Turns ==
  /\ at = "loop" /\ ~told
  /\ at' = "grab"
  /\ UNCHANGED <<mode, told, kind, camera, mirror, dx, gdi, force, happened>>

\* Mutant: the camera's picture begins a line too late.
Overlay_low(lines) == {lines - CameraLines + k + 1 : k \in 1..CameraLines}

\* The lines of the buffer that the camera's picture is copied to.
Overlay(lines) == {lines - CameraLines + k : k \in 1..CameraLines}

\* onFrame() is given a picture of so many lines in a buffer of so many.
Sends(lines, buffer) ==
  Notes(If(lines > buffer, "overrun")
          \cup If(camera /\ kind # "mirror" /\ ~(Overlay(lines) \subseteq 1..lines), "outside"))

\* The buffer is mapped, or the driver refuses it.
map_and_unmap_buffer == {mirror, [mirror EXCEPT !.view = mirror.size]}

\* The driver's counter has moved, or a frame is forced.  How large the screen
\* is is asked now, how large the buffer is was decided when it was mapped.
CaptureMirror ==
  /\ at = "grab" /\ kind = "mirror" /\ at' = "loop"
  /\ \/ /\ mirror.view = 0
        /\ mirror' \in map_and_unmap_buffer
        /\ UNCHANGED <<force, happened>>
     \/ mirror.view # 0 /\ ~force /\ UNCHANGED <<mirror, force, happened>>
     \/ /\ mirror.view # 0
        /\ force' = FALSE /\ Sends(mode, mirror.view) /\ UNCHANGED mirror
  /\ UNCHANGED <<mode, told, kind, camera, dx, gdi>>

\* The duplication is lost: everything is set up again.
DxLost ==
  /\ at = "grab" /\ kind = "directx" /\ dx.dup # 0 /\ ~dx.valid
  /\ dx' = NoDx /\ at' = "directx"
  /\ UNCHANGED <<mode, told, kind, camera, mirror, gdi, force, happened>>

\* Nothing to grab from, no new picture before the first, or no texture to be
\* had.
DxNothing ==
  /\ at = "grab" /\ kind = "directx" /\ dx.text = 0
  /\ at' = "loop"
  /\ UNCHANGED <<mode, told, kind, camera, mirror, dx, gdi, force, happened>>

\* The first picture makes the texture, and a copy of it for the camera.
DxFirst ==
  /\ at = "grab" /\ kind = "directx" /\ dx.dup # 0 /\ dx.valid /\ dx.text = 0
  /\ dx' = [dx EXCEPT !.text = dx.dup]
  /\ at' = "send"
  /\ UNCHANGED <<mode, told, kind, camera, mirror, gdi, force, happened>>

\* A new picture, or none: the last one will do.
DxNext ==
  /\ at = "grab" /\ kind = "directx" /\ dx.dup # 0 /\ dx.valid /\ dx.text # 0
  /\ at' = "send"
  /\ UNCHANGED <<mode, told, kind, camera, mirror, dx, gdi, force, happened>>

\* What decides whether there is anything to send is not set when there was no
\* new picture; with the camera, the frame waits for the camera's picture and
\* forcing it has no effect.
SendDx ==
  /\ at = "send" /\ at' = "loop"
  /\ \/ (camera \/ ~force) /\ UNCHANGED <<force, happened>>
     \/ /\ force' = (camera /\ force)
        /\ Sends(dx.cy, dx.text)
  /\ UNCHANGED <<mode, told, kind, camera, mirror, dx, gdi>>

\* GDI copies the screen and compares it with the copy before.
CaptureGdi ==
  /\ at = "grab" /\ kind = "gdi" /\ at' = "loop"
  /\ \/ (gdi = 0 \/ camera \/ ~force) /\ UNCHANGED <<force, happened>>
     \/ Notes({"not copied"}) /\ UNCHANGED force
     \/ /\ gdi # 0
        /\ force' = (camera /\ force)
        /\ Sends(gdi, gdi)
  /\ UNCHANGED <<mode, told, kind, camera, mirror, dx, gdi>>

-----------------------------------------------------------------------------
(* What goes on around it. *)

\* The display changes its mode.
ModeChanges ==
  /\ mode' \in Lines \ {mode}
  /\ told' = TRUE
  /\ dx' = [dx EXCEPT !.valid = FALSE]
  /\ Notes(If(at = "duplicate" \/ (at = "grab" /\ kind = "mirror"), "between")
             \cup If(mode' < CameraLines, "low"))
  /\ UNCHANGED <<kind, camera, at, mirror, gdi, force>>

\* cap_reset_sequence(), by the websocket thread.
ResetsSequence ==
  /\ force' = TRUE
  /\ UNCHANGED <<mode, told, kind, camera, at, mirror, dx, gdi, happened>>

InitWorks == InitMirror \/ ReadsMode \/ Duplicates \/ InitGdi \/ InitCamera
DxWorks == DxLost \/ DxNothing \/ DxFirst \/ DxNext \/ SendDx
LoopWorks == InitWorks \/ DisplayChanged \/ Turns \/ CaptureMirror \/ DxWorks \/ CaptureGdi

Next == LoopWorks \/ ModeChanges \/ ResetsSequence

Spec == Init /\ [][Next]_vars

Fairness == WF_vars(LoopWorks)

FairSpec == Spec /\ Fairness

-----------------------------------------------------------------------------
\* No frame is larger than its buffer, unless the mode changed between two
\* steps that each ask for it, or the mirror driver would not follow.
FrameFits ==
  "overrun" \in happened => happened \cap {"between", "not followed"} # {}

\* The camera's picture stays inside the frame, unless the display was lower
\* than it at some time.
OverlayInside == "outside" \in happened => "low" \in happened

Source ==
  CASE kind = "mirror" -> TRUE
    [] kind = "directx" -> dx.dup # 0
    [] kind = "gdi" -> gdi # 0
    [] OTHER -> FALSE

\* A loop that runs and has nothing to grab from has failed to set it up again.
BlindNeedsFailure == at = "grab" /\ ~Source => "failed" \in happened

\* There is a picture that a forced frame can show.
Ready ==
  \/ kind = "mirror" /\ mirror.view # 0
  \/ ~camera /\ kind = "directx" /\ dx.valid /\ dx.text # 0
  \/ ~camera /\ kind = "gdi" /\ gdi # 0

\* A forced frame is sent even if the screen stands still, unless the mode
\* changes first or the copy fails.
ForcedFrame == force ~> (~force \/ ~Ready \/ "not copied" \in happened)

\* What is grabbed fits, and there is something to grab from.
FramesFit == FrameFits /\ OverlayInside /\ BlindNeedsFailure
=============================================================================
