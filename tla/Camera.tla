------------------------------- MODULE Camera -------------------------------
(***************************************************************************)
(* The camera library (escapi) under a capture thread: the thread asks for *)
(* a picture and polls until it is there, Media Foundation calls back with *)
(* samples on a thread of its own, and a video mode whose samples fail is  *)
(* given up for the next best one.                                         *)
(***************************************************************************)
EXTENDS Integers, FiniteSetsExt

CONSTANT Modes  \* bound: native modes of the camera are 1..Modes

VARIABLES
  good, misfit,  \* the modes that work, and how far each is from what is asked for
  format,        \* of each mode: the library converts it, the reader decodes it, neither
  dev,           \* gDevice is set
  used, bad,     \* mUsedIndex, and what mBadIndex holds
  redo, error,   \* mRedoFromStart, and mErrorLine is not 0
  request,       \* mode of the sample that was requested, 0 for none
  doCapture,     \* gDoCapture: 0, -1 asked for, 1 done
  at,            \* where the capture thread is
  callback,      \* where the callback is
  happened       \* history: what went wrong, and what may be the cause

vars == <<good, misfit, format, dev, used, bad, redo, error, request, doCapture, at, callback, happened>>
camera == <<good, misfit, format>>

Mode == 1..Modes
InLock == {"copying", "requesting"}

\* A mode is in question if it did not fail, and if the library converts its
\* format or finds one that the reader decodes it to.
isFormatSupported(m) == format[m] = "converted"
isMediaOk(m, B) == m \notin B /\ (isFormatSupported(m) \/ format[m] = "decoded")

\* The best fit of the modes in question; the first mode if there is none.
scanMediaTypes(B) ==
  LET ok == {m \in Mode : isMediaOk(m, B)}
  IN IF ok = {} THEN 1
     ELSE Min({m \in ok : \A k \in ok : misfit[m] <= misfit[k]})

\* The mode is set with its own format, also if it was found by decoding it.
setVideoType(m) == isFormatSupported(m)

\* Whether a mode works matters only if it can be set, its fit only if it is in question.
Init ==
  /\ format \in [Mode -> {"converted", "decoded", "other"}]
  /\ good \in SUBSET {m \in Mode : setVideoType(m)}
  /\ misfit \in {f \in [Mode -> 0..1] : \A m \in Mode : format[m] = "other" => f[m] = 0}
  /\ dev = FALSE /\ used = 1 /\ bad = {}
  /\ redo = FALSE /\ error = FALSE /\ request = 0
  /\ doCapture = 0 /\ at = "off" /\ callback = "none"
  /\ happened = {}

-----------------------------------------------------------------------------
(* The capture thread. *)

\* ESCCapture::initCapture(): opens the camera in the mode that fits best and
\* requests its first sample, each of which may fail.
Opens(B) ==
  /\ used' = scanMediaTypes(B)
  /\ \/ setVideoType(used') /\ dev' = TRUE /\ request' = used'
     \/ dev' = FALSE /\ request' = 0

\* ESCCapture::deinitCapture() waits for the callback's lock, not for the callback.
Closable == callback \notin InLock

\* init_camera(TRUE), on a library that has no device.
InitCapture ==
  /\ at = "off" /\ callback = "none"
  /\ doCapture' = 0
  /\ redo' = FALSE /\ error' = FALSE /\ bad' = {}
  /\ Opens({})
  /\ at' = IF dev' THEN "asking" ELSE "off"
  /\ UNCHANGED <<camera, callback, happened>>

\* CheckForFail() sets the device up again, which may fail.  With an error
\* noted, initCapture() does nothing and says that it did.
CheckForFail ==
  /\ redo' = (redo /\ ~dev)
  /\ IF ~dev \/ ~redo THEN UNCHANGED <<dev, used, request, happened>>
     ELSE IF error THEN happened' = happened \cup {"dead reader"} /\ UNCHANGED <<dev, used, request>>
     ELSE /\ Closable /\ Opens(bad)
          /\ happened' = IF callback = "none" THEN happened ELSE happened \cup {"raced"}

Asks ==
  /\ at = "asking" /\ at' = "polling"
  /\ CheckForFail
  /\ doCapture' = -1
  /\ UNCHANGED <<camera, bad, error, callback>>

Polls ==
  /\ at = "polling" /\ at' = "testing"
  /\ CheckForFail
  /\ UNCHANGED <<camera, bad, error, doCapture, callback>>

Tests ==
  /\ at = "testing"
  /\ at' = IF doCapture = 1 THEN "reading" ELSE "polling"
  /\ UNCHANGED <<camera, dev, used, bad, redo, error, request, doCapture, callback, happened>>

\* The picture is copied from mTargetBuf and sent; then the next is asked for.
Reads ==
  /\ at = "reading" /\ at' = "asking"
  /\ UNCHANGED <<camera, dev, used, bad, redo, error, request, doCapture, callback, happened>>

\* init_camera(FALSE).  What a callback does when its device is gone is not followed.
DeinitCapture ==
  /\ at = "polling" /\ Closable
  /\ at' = "off" /\ dev' = FALSE /\ request' = 0
  /\ callback' = "none"
  /\ UNCHANGED <<camera, used, bad, redo, error, doCapture, happened>>

-----------------------------------------------------------------------------
(* OnReadSample(), one at a time: each asks for the next sample. *)

\* The mode does not work.  The flag is up before the mode is noted.
SampleFails ==
  /\ callback = "none" /\ request # 0 /\ request \notin good
  /\ request' = 0 /\ callback' = "failing" /\ redo' = TRUE
  /\ UNCHANGED <<camera, dev, used, bad, error, doCapture, at, happened>>

\* What is noted is the mode used by now.
NotesBad ==
  /\ callback = "failing" /\ callback' = "none"
  /\ bad' = bad \cup {used}
  /\ UNCHANGED <<camera, dev, used, redo, error, request, doCapture, at, happened>>

\* Mutant: the picture is copied whether or not it was asked for.
SampleArrives_always ==
  /\ callback = "none" /\ request \in good
  /\ request' = 0
  /\ callback' = "copying"
  /\ UNCHANGED <<camera, dev, used, bad, redo, error, doCapture, at, happened>>

SampleArrives ==
  /\ callback = "none" /\ request \in good
  /\ request' = 0
  /\ callback' = IF doCapture = -1 THEN "copying" ELSE "requesting"
  /\ UNCHANGED <<camera, dev, used, bad, redo, error, doCapture, at, happened>>

CopyFails ==
  /\ callback = "copying" /\ error' = TRUE /\ callback' = "none"
  /\ UNCHANGED <<camera, dev, used, bad, redo, request, doCapture, at, happened>>

\* Converted to mCaptureBuffer, scaled to mTargetBuf.
Copies ==
  /\ callback = "copying" /\ callback' = "requesting"
  /\ doCapture' = 1
  /\ UNCHANGED <<camera, dev, used, bad, redo, error, request, at, happened>>

RequestsNext ==
  /\ callback = "requesting" /\ callback' = "none"
  /\ \/ request' = used /\ UNCHANGED error
     \/ request' = 0 /\ error' = TRUE
  /\ UNCHANGED <<camera, dev, used, bad, redo, doCapture, at, happened>>

\* A mode that worked may stop to.
ModeBreaks ==
  /\ good' \in {good \ {m} : m \in good}
  /\ UNCHANGED <<misfit, format, dev, used, bad, redo, error, request, doCapture, at, callback, happened>>

CaptureWorks == Asks \/ Polls \/ Tests \/ Reads
CallbackWorks ==
  SampleFails \/ NotesBad \/ SampleArrives \/ CopyFails \/ Copies \/ RequestsNext

Next == InitCapture \/ CaptureWorks \/ DeinitCapture \/ CallbackWorks \/ ModeBreaks

Spec == Init /\ [][Next]_vars

Fairness == WF_vars(CaptureWorks) /\ WF_vars(CallbackWorks)

FairSpec == Spec /\ Fairness

-----------------------------------------------------------------------------
\* The callback never writes the picture that the capture thread is reading,
\* though nothing but gDoCapture keeps them apart.
TargetOwned == ~(at = "reading" /\ callback = "copying")

\* No error is noted when the device is to be set up again: initCapture() would
\* report a success and leave a reader that was released.
NoDeadReader == "dead reader" \notin happened

\* A mode that failed is not tried again as long as there is another, unless
\* the capture thread set up the device before the callback had noted it.
BadAvoided ==
  request # 0 /\ request \in bad =>
    \/ \A m \in Mode : ~isMediaOk(m, bad)
    \/ "raced" \in happened

\* A picture that was asked for comes, if some mode works, unless the camera
\* has an error or is given up.
Delivered ==
  (doCapture = -1 /\ dev) ~> (doCapture = 1 \/ error \/ ~dev \/ good = {})

\* The two threads share the picture and the reader rightly.
CameraShared == TargetOwned /\ NoDeadReader /\ BadAvoided
=============================================================================
