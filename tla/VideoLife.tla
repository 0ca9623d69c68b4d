----------------------------- MODULE VideoLife -----------------------------
(***************************************************************************)
(* The life of the capture of one client: the websocket thread starts and  *)
(* stops it (Video::start, Video::stop), the user interface deletes the    *)
(* client (~Cdaemon), and every start makes a thread (LoopScreenProc) that *)
(* shares m_hEvent, m_hMessageWnd, m_Quit and the raw file with them.      *)
(***************************************************************************)
EXTENDS Naturals

CONSTANT MaxStarts  \* bound: threads created

VARIABLES
  pub,     \* m_bPublisher
  file,    \* m_pRawFile: "null", "open" or "closed"
  event,   \* m_hEvent: "clear", "set" or "closed"
  window,  \* m_hMessageWnd is not NULL
  quit,    \* m_Quit
  handle,  \* the loop m_hThread names, 0 for none
  ws, ui,  \* where the websocket thread and the destructor are
  loop,    \* where each capture thread is
  after,   \* history: the loops started after a stop
  happened \* history: what went wrong, and what may be the cause

vars == <<pub, file, event, window, quit, handle, ws, ui, loop, after, happened>>

Loop == 1..MaxStarts
Over == {"none", "over"}
Created == {n \in Loop : loop[n] # "none"}
Alive == {n \in Loop : loop[n] \notin Over}

\* Why something may go wrong: a stop did not wait long enough, a start came
\* while a capture was running, or the client was deleted in the middle of one.
Causes == {"late", "twice", "torn"}
Excused == happened \cap Causes # {}

Notes(s) == happened' = happened \cup s
If(condition, what) == IF condition THEN {what} ELSE {}

Init ==
  /\ pub = FALSE /\ file = "null" /\ event = "clear"
  /\ window = FALSE /\ quit = FALSE /\ handle = 0
  /\ ws = "idle" /\ ui = "alive"
  /\ loop = [n \in Loop |-> "none"]
  /\ after = {} /\ happened = {}

-----------------------------------------------------------------------------
(* The websocket thread: StartStream and StopStream. *)

Starts ==
  /\ ws = "idle" /\ Created # Loop
  /\ ws' = "starting"
  /\ pub' = TRUE
  /\ file' \in {"open", "null"}
  /\ Notes(If(pub \/ Alive # {}, "twice") \cup If(ui # "alive", "torn"))
  /\ UNCHANGED <<event, window, quit, handle, ui, loop, after>>

\* start_screen() creates the thread, or gives up on the event for good.
CreatesLoop ==
  /\ ws = "starting"
  /\ LET n == CHOOSE k \in Loop : k \notin Created /\ \A j \in Loop \ Created : k <= j IN
       \/ /\ ws' = "created" /\ handle' = n
          /\ loop' = [loop EXCEPT ![n] = "starting"]
          /\ after' = IF quit THEN after \cup {n} ELSE after
          /\ UNCHANGED event
       \/ /\ ws' = "idle" /\ handle' = 0 /\ event' = "closed"
          /\ UNCHANGED <<loop, after>>
  /\ UNCHANGED <<pub, file, window, quit, ui, happened>>

\* The wait without end, on a closed handle no wait at all.
Waits ==
  /\ ws = "created"
  /\ ws' = IF event = "clear" THEN "waiting" ELSE "woken"
  /\ UNCHANGED <<pub, file, event, window, quit, handle, ui, loop, after, happened>>

Started ==
  /\ ws = "woken" /\ ws' = "idle"
  /\ event' = IF event = "closed" \/ ~window THEN "closed" ELSE "clear"
  /\ UNCHANGED <<pub, file, window, quit, handle, ui, loop, after, happened>>

TestsForStop ==
  /\ ws = "idle" /\ pub
  /\ ws' = "tested"
  /\ Notes(If(ui # "alive", "torn"))
  /\ UNCHANGED <<pub, file, event, window, quit, handle, ui, loop, after>>

\* The first half of a stop, up to its wait of five seconds for the thread.
Signals == pub' = FALSE /\ window' = FALSE /\ quit' = TRUE

\* The thread is over or not known, or the wait times out; then the file is
\* closed, which m_pRawFile does not show.
Awaited ==
  /\ handle' = IF handle # 0 => loop[handle] = "over" THEN 0 ELSE handle
  /\ Notes(If(handle # 0 /\ loop[handle] # "over", "late")
             \cup If(file = "null", "closed nothing")
             \cup If(file = "closed", "closed twice"))

Closes == file' = IF file = "open" THEN "closed" ELSE file

Stops ==
  /\ ws = "tested" /\ ws' = "stopping"
  /\ Signals
  /\ UNCHANGED <<file, event, handle, ui, loop, after, happened>>

Stopped ==
  /\ ws = "stopping" /\ ws' = "idle"
  /\ Awaited /\ Closes
  /\ UNCHANGED <<pub, event, window, quit, ui, loop, after>>

\* m_Exit is looked at between two messages.
Leaves ==
  /\ ws = "idle" /\ ui = "joining"
  /\ ws' = "out"
  /\ UNCHANGED <<pub, file, event, window, quit, handle, ui, loop, after, happened>>

-----------------------------------------------------------------------------
(* The destructor, once the heartbeat thread has been joined. *)

Deletes ==
  /\ ui = "alive" /\ ui' = IF pub THEN "tested" ELSE "joining"
  /\ Notes(If(ws # "idle", "torn"))
  /\ UNCHANGED <<pub, file, event, window, quit, handle, ws, loop, after>>

DeleteStops ==
  /\ ui = "tested" /\ ui' = "stopping"
  /\ Signals
  /\ UNCHANGED <<file, event, handle, ws, loop, after, happened>>

DeleteStopped ==
  /\ ui = "stopping" /\ ui' = "joining"
  /\ Awaited /\ Closes
  /\ UNCHANGED <<pub, event, window, quit, ws, loop, after>>

\* The websocket thread is joined, then Video and its CCapture are deleted.
Deleted ==
  /\ ui = "joining" /\ ws = "out" /\ ui' = "gone"
  /\ UNCHANGED <<pub, file, event, window, quit, handle, ws, loop, after, happened>>

-----------------------------------------------------------------------------
(* A capture thread. *)

Uses == If(ui = "gone", "dead use")

\* SetEvent() wakes the start that waits; on a closed handle it does nothing.
SetsEvent ==
  /\ event' = IF event = "closed" THEN event ELSE "set"
  /\ ws' = IF ws = "waiting" /\ event # "closed" THEN "woken" ELSE ws

Goes(n, from, to) == loop[n] = from /\ loop' = [loop EXCEPT ![n] = to]

MakesWindow(n) ==
  /\ Goes(n, "starting", "opening") /\ window' = TRUE
  /\ Notes(Uses)
  /\ UNCHANGED <<pub, file, event, quit, handle, ws, ui, after>>

\* Mutant: a capture that fails does not say so.
Fails_silent(n) ==
  /\ \/ Goes(n, "starting", "over")
     \/ Goes(n, "opening", "over")
  /\ window' = FALSE
  /\ Notes(Uses)
  /\ UNCHANGED <<pub, file, event, quit, handle, ws, ui, after>>

\* No window, or no way to grab the screen or the camera.
Fails(n) ==
  /\ \/ Goes(n, "starting", "over")
     \/ Goes(n, "opening", "over")
  /\ window' = FALSE /\ SetsEvent
  /\ Notes(Uses)
  /\ UNCHANGED <<pub, file, quit, handle, ui, after>>

Runs(n) ==
  /\ Goes(n, "opening", "running") /\ SetsEvent
  /\ Notes(Uses)
  /\ UNCHANGED <<pub, file, window, quit, handle, ui, after>>

\* Mutant: m_Quit is looked at after a picture only.
Grabs_first(n) ==
  /\ Goes(n, "running", "encoding")
  /\ Notes(Uses \cup If(n \in after, "late picture"))
  /\ UNCHANGED <<pub, file, event, window, quit, handle, ws, ui, after>>

Grabs(n) ==
  /\ ~quit /\ Goes(n, "running", "encoding")
  /\ Notes(Uses \cup If(n \in after, "late picture"))
  /\ UNCHANGED <<pub, file, event, window, quit, handle, ws, ui, after>>

\* The encoded frame is written, to m_pRawFile as it is now, and sent.
WritesFrame(n) ==
  /\ Goes(n, "encoding", "running")
  /\ Notes(Uses \cup If(file = "closed", "written closed"))
  /\ UNCHANGED <<pub, file, event, window, quit, handle, ws, ui, after>>

Ends(n) ==
  /\ quit /\ Goes(n, "running", "over") /\ event' = "closed"
  /\ Notes(Uses)
  /\ UNCHANGED <<pub, file, window, quit, handle, ws, ui, after>>

-----------------------------------------------------------------------------
WsWorks == CreatesLoop \/ Waits \/ Started \/ Stops \/ Stopped
UiWorks == DeleteStops \/ DeleteStopped \/ Deleted
LoopWorks(n) ==
  MakesWindow(n) \/ Fails(n) \/ Runs(n) \/ Grabs(n) \/ WritesFrame(n) \/ Ends(n)

Next ==
  \/ Starts \/ TestsForStop \/ Deletes
  \/ WsWorks \/ Leaves \/ UiWorks
  \/ \E n \in Loop : LoopWorks(n)

Fairness ==
  /\ WF_vars(WsWorks) /\ SF_vars(Leaves) /\ WF_vars(UiWorks)
  /\ \A n \in Loop : WF_vars(LoopWorks(n))

Spec == Init /\ [][Next]_vars

FairSpec == Spec /\ Fairness

-----------------------------------------------------------------------------
\* No capture thread touches a client that is deleted, or writes to a file that
\* is closed, and no file is closed twice, unless one of the causes was there.
Orderly ==
  happened \cap {"dead use", "written closed", "closed twice"} # {} => Excused

\* A client that was stopped once never captures again: m_Quit stays set.
StoppedForGood == "late picture" \notin happened

\* A start returns, unless an earlier capture was still there and closed the
\* event under it.
StartReturns ==
  (ws \in {"starting", "created", "waiting"}) ~> (ws = "idle" \/ "twice" \in happened)

\* The destructor returns, even if it began in the middle of a start or a stop,
\* unless a start hangs for the reason above.
DeleteReturns == (ui # "alive") ~> (ui = "gone" \/ "twice" \in happened)

\* After a stop, every capture thread ends, whatever the causes.
LoopsEnd == (ws = "stopping" \/ ui = "stopping") ~> Alive = {}

\* Starting, stopping and deleting a client: nothing is used that is gone, or goes
\* on that was stopped; ...
LifeOrderly == Orderly /\ StoppedForGood

\* ... and every start, stop and deletion, and every capture thread, ends.
AllEnd == StartReturns /\ DeleteReturns /\ LoopsEnd
=============================================================================
