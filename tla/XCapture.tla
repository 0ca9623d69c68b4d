------------------------------ MODULE XCapture ------------------------------
(***************************************************************************)
(* The capture library on X11 (CaptureLinux): start() creates a thread and *)
(* waits on a condition variable for it to be ready; the thread grabs the  *)
(* screen through shared memory and paces itself by sequence numbers that  *)
(* are unsigned here.                                                      *)
(***************************************************************************)
EXTENDS Integers

CONSTANTS
  IntervalCnt,  \* interval_count
  MaxSeq,       \* bound: frames
  Word          \* sequence numbers are kept modulo Word

VARIABLES
  start,     \* where start() is
  thread,    \* where the thread is
  valid,     \* xshm_valid
  size,      \* width and height, as the thread knows them
  screen,    \* and as they are
  image,     \* size of fb_image and its pixmap, 0 for none
  seq, ack,  \* capture_seq, ack_seq
  quit,
  happened   \* history: what went wrong, and what may be the cause

vars == <<start, thread, valid, size, screen, image, seq, ack, quit, happened>>

Notes(s) == happened' = happened \cup s

Init ==
  /\ start = "idle" /\ thread = "none"
  /\ valid = TRUE /\ size = 0 /\ screen = 1 /\ image = 0
  /\ seq = 0 /\ ack = 0 /\ quit = FALSE
  /\ happened = {}

-----------------------------------------------------------------------------
(* start(), and what other threads call. *)

Creates ==
  /\ start = "idle" /\ thread = "none"
  /\ start' = "created" /\ thread' = "init"
  /\ UNCHANGED <<valid, size, screen, image, seq, ack, quit, happened>>

\* Only a signal from now on will end the wait.
Waits ==
  /\ start = "created" /\ start' = "waiting"
  /\ UNCHANGED <<thread, valid, size, screen, image, seq, ack, quit, happened>>

\* The condition variable is destroyed.
Returns ==
  /\ start = "woken" /\ start' = "done"
  /\ UNCHANGED <<thread, valid, size, screen, image, seq, ack, quit, happened>>

Stops ==
  /\ start = "done" /\ quit' = TRUE
  /\ UNCHANGED <<start, thread, valid, size, screen, image, seq, ack, happened>>

\* The frames that were sent are those below.
Sent == IF thread \in {"sent", "skipped"} THEN (seq + 1) % Word ELSE seq

\* A frame that was sent is acknowledged.
set_ack_sequence(n) ==
  /\ n > ack /\ ack' = n
  /\ UNCHANGED <<start, thread, valid, size, screen, image, seq, quit, happened>>

\* Mutant: the frame that comes next is acknowledged.
reset_sequence_next ==
  /\ thread # "none"
  /\ ack' = seq + 1
  /\ UNCHANGED <<start, thread, valid, size, screen, image, seq, quit, happened>>

reset_sequence ==
  /\ thread # "none"
  /\ ack' = seq
  /\ UNCHANGED <<start, thread, valid, size, screen, image, seq, quit, happened>>

-----------------------------------------------------------------------------
(* The thread. *)

\* No display, and the thread ends; no shared memory; or all there.  In the
\* last two cases it signals, to whoever waits by now.
XshmInit ==
  /\ thread = "init"
  /\ \/ thread' = "over" /\ Notes({"no display"}) /\ UNCHANGED <<start, valid, size, image>>
     \/ /\ thread' = "waiting"
        /\ size' = screen /\ valid' \in BOOLEAN
        /\ image' = IF valid' THEN screen ELSE 0
        /\ start' = IF start = "waiting" THEN "woken" ELSE start
        /\ Notes(IF start = "waiting" THEN {} ELSE {"lost signal"})
  /\ UNCHANGED <<screen, seq, ack, quit>>

\* The distance of two unsigned numbers.
Distance == (seq - ack) % Word

\* check_resize() makes a new image of a new size, or does not, which nobody looks
\* at and nothing makes good.
WindowOpens ==
  /\ thread = "waiting" /\ ~quit
  /\ Distance <= IntervalCnt
  /\ seq < MaxSeq
  /\ size' = screen
  /\ \/ (size = screen \/ ~valid) /\ UNCHANGED <<image, happened>>
     \/ valid /\ size # screen /\ image' = screen /\ UNCHANGED happened
     \/ valid /\ size # screen /\ image' \in {0, image} /\ Notes({"not resized"})
  /\ thread' = "grab"
  /\ UNCHANGED <<start, valid, screen, seq, ack, quit>>

\* The shared image is copied to, or an image of the right size is made.  A
\* picture that the encoder skips is not sent, and its number taken back; never
\* the first one.
Grabs ==
  /\ thread = "grab"
  /\ image' = IF valid THEN image ELSE size
  /\ Notes(IF image' = size THEN {} ELSE {"misfit"})
  /\ \/ thread' = "sent" /\ UNCHANGED seq
     \/ seq > 0 /\ thread' = "skipped" /\ seq' = (seq - 1) % Word
  /\ UNCHANGED <<start, valid, size, screen, ack, quit>>

Counts ==
  /\ thread \in {"sent", "skipped"} /\ thread' = "waiting"
  /\ seq' = (seq + 1) % Word
  /\ UNCHANGED <<start, valid, size, screen, image, ack, quit, happened>>

Ends ==
  /\ thread = "waiting" /\ quit /\ thread' = "over"
  /\ UNCHANGED <<start, valid, size, screen, image, seq, ack, quit, happened>>

\* The screen is resized.
Resized ==
  /\ screen' = 3 - screen
  /\ UNCHANGED <<start, thread, valid, size, image, seq, ack, quit, happened>>

StartWorks == Waits \/ Returns
ThreadWorks == XshmInit \/ WindowOpens \/ Grabs \/ Counts \/ Ends

Next ==
  \/ Creates \/ StartWorks \/ Stops
  \/ \E n \in 0..(Sent - 1) : set_ack_sequence(n)
  \/ reset_sequence
  \/ ThreadWorks \/ Resized

Spec == Init /\ [][Next]_vars

Fairness == WF_vars(StartWorks) /\ WF_vars(ThreadWorks)

FairSpec == Spec /\ Fairness

-----------------------------------------------------------------------------
\* start() returns, unless the thread was ready before it waited or had no
\* display to open.
StartReturns ==
  start # "idle" ~> (start = "done" \/ happened \cap {"lost signal", "no display"} # {})

\* A frame has the size that it says, unless no image of a new size could be
\* made.
FrameFits == "misfit" \in happened => "not resized" \in happened

\* The unsigned distance is the number of frames that are not acknowledged:
\* an acknowledgement is never ahead of the frame that comes next.
NeverAhead == thread = "waiting" => Distance = seq - ack

\* The frames of Linux have the size they say, and their numbers the distance.
XFramesFit == FrameFits /\ NeverAhead
=============================================================================
