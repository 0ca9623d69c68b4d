------------------------------ MODULE Shooting ------------------------------
(***************************************************************************)
(* The user interface: one window to enter a room (ShootingWidget), one to *)
(* be in it (ShootingRoom).  Every handler that asks the server waits in   *)
(* an event loop of its own (Util::http_wait), which serves further clicks *)
(* and timers: handlers nest, and only the innermost one can go on.        *)
(* Another thread polls for invitations and writes the same room_id.       *)
(***************************************************************************)
EXTENDS Integers, Sequences, FiniteSets, SequencesExt

CONSTANTS
  Room,        \* rooms of the server
  NoRoom,      \* an empty room_id or session_url
  MaxDepth,    \* bound: handlers in progress at once
  MaxDaemons,  \* bound: clients made
  MaxLate,     \* bound: requests given up that the server may still handle
  Inviting     \* bound: the rooms this host is invited to

\* Room names are apart from what poll and where say besides.
ASSUME ShootingAssumption ==
  /\ Room \cap {NoRoom, "idle", "asking", "gone", "0"} = {}
  /\ MaxDepth \in Nat \ {0} /\ MaxDaemons \in Nat /\ MaxLate \in Nat
  /\ Inviting \subseteq Room

VARIABLES
  stack,      \* handlers in progress, innermost last
  shown,      \* windows on the screen
  room_id,    \* g_data->room_id
  session,    \* g_data->session_url, as the room whose session it is
  live,       \* clients made and not deleted
  made,       \* how many were made; m_daemon is the last
  timer,      \* m_refresh_timer runs
  closing,    \* the application was told to quit
  poll,       \* invite_monitor: "idle", "asking" or the room it was told
  where,      \* at the server set up: this host's room, "0" for none, "gone"
  late,       \* requests nobody waits for any more, which it may yet handle
  doubt,      \* history: it need not have the host where the user is
  crashed,    \* m_daemon was used after it was deleted
  overtaken,  \* history: a poll wrote room_id since this room was entered
  history     \* which overlaps have happened

gui == <<shown, room_id, session, live, made, timer>>
server == <<where, late, doubt>>
rest == <<closing, overtaken>>
vars == <<stack, gui, rest, poll, server, crashed, history>>

Enters == {"instant", "join"}
Moves == Enters \cup {"quit"}
Places == {"start", "config", "exit", "quit"} \cup Enters
Ops == Places \cup {"refresh", "oldRefresh", "invite"}

Frame(op, room) ==
  [op |-> op, room |-> room, reply |-> "waiting", elsewhere |-> FALSE]

\* The constructor registers the host if a server was set up before.
Init ==
  /\ stack \in {<<Frame("start", NoRoom)>>, <<>>}
  /\ shown = IF stack = <<>> THEN {"widget"} ELSE {}
  /\ room_id = NoRoom /\ session = NoRoom
  /\ live = {} /\ made = 0
  /\ timer = FALSE
  /\ closing = FALSE /\ crashed = FALSE
  /\ poll = "idle"
  /\ where = "gone" /\ late = {} /\ doubt = FALSE
  /\ overtaken = FALSE /\ history = {}

-----------------------------------------------------------------------------
(* Events, served by the innermost event loop until it is told to quit. *)

Serves == ~crashed /\ ~closing /\ (stack # <<>> => Last(stack).reply = "waiting")

Waits(op) == \E i \in DOMAIN stack : stack[i].op = op

Push(op, room) ==
  /\ Serves /\ Len(stack) < MaxDepth
  /\ stack' = Append(stack, Frame(op, room))

Entering == Cardinality({i \in DOMAIN stack : stack[i].op \in Enters})

EnterClicked ==
  /\ "widget" \in shown
  /\ made + Entering < MaxDaemons
  /\ \/ Push("instant", NoRoom)
     \/ \E r \in Room : Push("join", r)
  /\ history' = history \cup IF Entering > 0 THEN {"enter"} ELSE {}
  /\ UNCHANGED <<gui, rest, poll, server, crashed>>

Moved(s) == [i \in DOMAIN s |-> [s[i] EXCEPT !.elsewhere = @ \/ s[i].op \in Places]]

\* Another server was set up, which may know the host from before: the requests
\* under way were sent elsewhere, and nobody takes the host out of its room there.
ConfigDone ==
  /\ shown # {} /\ Serves /\ Len(stack) < MaxDepth
  /\ stack' = Append(Moved(stack), Frame("config", NoRoom))
  /\ where' \in {"gone", "0"} \cup Room
  /\ doubt' = \/ doubt \/ session # NoRoom \/ where' \in Room
              \/ \E i \in DOMAIN stack : stack[i].op \in Moves
  /\ UNCHANGED <<late, gui, rest, poll, crashed, history>>

InviteClicked ==
  /\ "room" \in shown /\ Push("invite", NoRoom)
  /\ UNCHANGED <<gui, rest, poll, server, crashed, history>>

QuitClicked ==
  /\ "room" \in shown /\ Push("quit", NoRoom)
  /\ timer' = FALSE
  /\ history' = history \cup IF Waits("quit") THEN {"quit"} ELSE {}
  /\ UNCHANGED <<shown, room_id, session, live, made, rest, poll, server, crashed>>

\* A timer does not fire while its own slot runs.
RefreshFires ==
  /\ timer /\ ~Waits("refresh") /\ Push("refresh", NoRoom)
  /\ UNCHANGED <<gui, rest, poll, server, crashed, history>>

\* Closing the last window makes every event loop return.
CloseClicked ==
  /\ "widget" \in shown /\ ~crashed /\ ~closing
  /\ closing' = TRUE /\ shown' = shown \ {"widget"}
  /\ UNCHANGED <<stack, room_id, session, live, made, timer, overtaken, poll, server, crashed, history>>

\* main() returned from exec(): the destructor takes the host off the list.
Exits ==
  /\ closing /\ stack = <<>> /\ ~crashed /\ "exit" \notin history
  /\ stack' = <<Frame("exit", NoRoom)>>
  /\ history' = history \cup {"exit"}
  /\ UNCHANGED <<gui, rest, poll, server, crashed>>

-----------------------------------------------------------------------------
(* The server, as far as it concerns this host. *)

\* Where a request leaves the host.
Placed(op, room) ==
  CASE op = "exit"                  -> "gone"
    [] op \in {"start", "config"}   -> IF where = "gone" THEN "0" ELSE where
    [] op = "quit" /\ where # "gone" -> "0"
    [] op \in Enters /\ where # "gone" -> room
    [] OTHER                        -> where

\* Mutant: leaving is not passed on.
Handles_staysPlaced(op, room) == where' = IF op = "quit" THEN where ELSE Placed(op, room)

Handles(op, room) == where' = Placed(op, room)

\* Who gives up does not take the request back.  The user leaves a room even so.
GivenUp(f) ==
  /\ \/ UNCHANGED late
     \/ /\ f.op \in Places /\ Cardinality(late) < MaxLate
        /\ late' = late \cup {[op |-> f.op, room |-> f.room]}
  /\ doubt' = (doubt \/ f.op = "quit")

\* Entering and leaving settle where the host is, unless it is not registered or
\* the request was sent to another server.
Settled(f) ==
  CASE f.op \in Enters -> f.elsewhere \/ where = "gone"
    [] f.op = "quit"   -> f.elsewhere
    [] OTHER           -> doubt

\* The answer ends the wait; add-room answers a room of its choice.
Answers(i) ==
  /\ stack[i].reply = "waiting" /\ ~crashed
  /\ \E r \in IF stack[i].op = "instant" THEN Room ELSE {stack[i].room} :
       /\ \/ Handles(stack[i].op, r)
          \/ stack[i].elsewhere /\ UNCHANGED where
       /\ stack' = [stack EXCEPT ![i].reply = "ok", ![i].room = r]
  /\ doubt' = Settled(stack[i])
  /\ UNCHANGED <<late, gui, rest, poll, crashed, history>>

\* A request that was given up is handled after all, whatever was asked since.
HandledLate ==
  \E q \in late :
    /\ \E r \in IF q.op = "instant" THEN Room ELSE {q.room} : Handles(q.op, r)
    /\ late' = late \ {q}
    /\ doubt' = (doubt \/ where' # where)
    /\ UNCHANGED <<stack, gui, rest, poll, crashed, history>>

-----------------------------------------------------------------------------
(* The innermost handler goes on: its answer came, or an error, or five    *)
(* seconds are over, or the application quits.                             *)

\* Mutant: http_wait waits for the answer only.
Resumes_unbounded(ops) ==
  /\ stack # <<>> /\ ~crashed
  /\ Last(stack).op \in ops
  /\ Last(stack).reply # "waiting" /\ UNCHANGED server

Resumes(ops) ==
  /\ stack # <<>> /\ ~crashed
  /\ Last(stack).op \in ops
  /\ \/ Last(stack).reply # "waiting" /\ UNCHANGED <<late, doubt>>
     \/ Last(stack).reply = "waiting" /\ GivenUp(Last(stack))
  /\ UNCHANGED where

Done == stack' = Front(stack)

Succeeded == Last(stack).reply = "ok"

\* Starting the timer anew: its slot may run again although it has not returned.
Retired(s) == [i \in DOMAIN s |->
  IF s[i].op = "refresh" THEN [s[i] EXCEPT !.op = "oldRefresh"] ELSE s[i]]

EnterReturns ==
  /\ Resumes(Enters) /\ Succeeded
  /\ stack' = Retired(Front(stack))
  /\ room_id' = Last(stack).room /\ session' = Last(stack).room
  /\ made' = made + 1 /\ live' = live \cup {made + 1}
  /\ shown' = (shown \ {"widget"}) \cup {"room"}
  /\ timer' = TRUE /\ overtaken' = FALSE
  /\ UNCHANGED <<closing, poll, crashed, history>>

EnterFails ==
  /\ Resumes(Enters) /\ ~Succeeded /\ Done
  /\ UNCHANGED <<gui, rest, poll, crashed, history>>

\* Mutant: quit_room keeps room_id.
QuitReturns_keepsRoomId ==
  /\ Resumes({"quit"}) /\ Done
  /\ crashed' = (made \notin live)
  /\ live' = live \ {made}
  /\ session' = NoRoom
  /\ shown' = (shown \ {"room"}) \cup {"widget"}
  /\ UNCHANGED <<room_id, made, timer, rest, poll, history>>

\* Mutant: quit_room does not delete the client.
QuitReturns_leaks ==
  /\ Resumes({"quit"}) /\ Done
  /\ room_id' = NoRoom /\ session' = NoRoom
  /\ shown' = (shown \ {"room"}) \cup {"widget"}
  /\ UNCHANGED <<crashed, live, made, timer, rest, poll, history>>

\* Whatever the answer was: hide(), quit_room().
QuitReturns ==
  /\ Resumes({"quit"}) /\ Done
  /\ crashed' = (made \notin live)
  /\ live' = live \ {made}
  /\ room_id' = NoRoom /\ session' = NoRoom
  /\ shown' = (shown \ {"room"}) \cup {"widget"}
  /\ UNCHANGED <<made, timer, rest, poll, history>>

\* The client is used if the list has somebody of the room this host is in
\* now, whoever that is.
RefreshReturns ==
  /\ Resumes({"refresh", "oldRefresh"}) /\ Done
  /\ \/ Succeeded /\ room_id # NoRoom /\ crashed' = (made \notin live)
     \/ UNCHANGED crashed
  /\ UNCHANGED <<shown, room_id, session, live, made, timer, rest, poll, history>>

\* Nothing else depends on the answer; the constructor's caller shows the window.
OtherReturns ==
  /\ Resumes({"start", "config", "invite", "exit"}) /\ Done
  /\ shown' = IF Last(stack).op = "start" THEN {"widget"} ELSE shown
  /\ UNCHANGED <<room_id, session, live, made, timer, rest, poll, crashed, history>>

Returns == EnterReturns \/ EnterFails \/ QuitReturns \/ RefreshReturns \/ OtherReturns

-----------------------------------------------------------------------------
(* The thread of invite_monitor. *)

\* Between the constructor and the end of the destructor.
Polling == ~Waits("start") /\ ("exit" \in history => stack # <<>>)

\* Mutant: invitations are asked for in a room as well.
PollBegins_always ==
  /\ poll = "idle" /\ Polling
  /\ poll' = "asking"
  /\ UNCHANGED <<stack, gui, rest, server, crashed, history>>

PollBegins ==
  /\ poll = "idle" /\ Polling /\ session = NoRoom
  /\ poll' = "asking"
  /\ UNCHANGED <<stack, gui, rest, server, crashed, history>>

PollAnswered ==
  /\ poll = "asking"
  /\ poll' \in {"idle"} \cup Inviting
  /\ UNCHANGED <<stack, gui, rest, server, crashed, history>>

PollFails ==
  /\ poll # "idle" /\ poll' = "idle"
  /\ UNCHANGED <<stack, gui, rest, server, crashed, history>>

\* It does not test session_url again.
PollWrites ==
  /\ poll \in Room /\ poll' = "idle"
  /\ room_id' = poll
  /\ overtaken' = (session # NoRoom)
  /\ history' = history \cup IF made \notin live /\ (Waits("refresh") \/ Waits("oldRefresh"))
                             THEN {"revived"} ELSE {}
  /\ UNCHANGED <<stack, shown, session, live, made, timer, closing, server, crashed>>

-----------------------------------------------------------------------------
Next ==
  \/ EnterClicked \/ ConfigDone \/ InviteClicked \/ QuitClicked \/ RefreshFires
  \/ CloseClicked \/ Exits
  \/ \E i \in DOMAIN stack : Answers(i)
  \/ HandledLate
  \/ Returns
  \/ PollBegins \/ PollAnswered \/ PollFails \/ PollWrites

Spec == Init /\ [][Next]_vars

\* A loop told to quit returns as soon as what it serves has returned, and the
\* five seconds tell every loop to quit.  The server need not answer.
FairSpec ==
  Spec /\ \A n \in 1 .. MaxDepth : SF_vars(Len(stack) = n /\ Returns)

-----------------------------------------------------------------------------
TypeOK ==
  /\ \A i \in DOMAIN stack :
       /\ stack[i].op \in Ops /\ stack[i].room \in Room \cup {NoRoom}
       /\ stack[i].reply \in {"waiting", "ok"} /\ stack[i].elsewhere \in BOOLEAN
  /\ Len(stack) <= MaxDepth /\ made + Entering <= MaxDaemons
  /\ shown \subseteq {"widget", "room"}
  /\ {room_id, session} \subseteq Room \cup {NoRoom}
  /\ live \subseteq 1 .. made
  /\ poll \in {"idle", "asking"} \cup Room
  /\ where \in {"gone", "0"} \cup Room
  /\ \A q \in late : q.op \in Places /\ q.room \in Room \cup {NoRoom}
  /\ {timer, closing, crashed, doubt} \subseteq BOOLEAN

\* A deleted client is used only after "quit" was clicked while an earlier quit
\* still waited, or an invitation arrived while a refresh of the room just left
\* still waited: what keeps that refresh off the client is the cleared room_id.
DeadUseNeedsOverlap == crashed => history \cap {"quit", "revived"} # {}

\* The room's buttons act on a live client, and outside a room there is none
\* but those leaked by entering twice at once.
RoomHasDaemon ==
  ~crashed =>
    /\ "room" \in shown => made \in live /\ session # NoRoom
    /\ "room" \notin shown /\ "enter" \notin history => live = {}

\* The list is refreshed in a room only, unless the second of two quits led to
\* another room, which the first one then leaves without stopping the timer.
RefreshInRoom == timer => "room" \in shown \/ "quit" \in history

\* Whether the user is in a room, has a client and has the list refreshed agree.
InTheRoom == TypeOK /\ RoomHasDaemon /\ RefreshInRoom

\* Once nothing waits any more, the server has this host where the user sees it,
\* unless the user did two things at once.  A request given up and handled after all,
\* a leave that was not passed on and a server changed in a room put that in doubt,
\* until the next answer to a registered host's entering or leaving: that one
\* settles it, whatever went wrong before.
PlacedRight ==
  /\ stack = <<>> /\ where # "gone"
  /\ ~doubt /\ history \cap {"enter", "quit"} = {}
  => where = IF session = NoRoom THEN "0" ELSE session

\* An invitation asked for before a room was entered may overwrite that room's
\* room_id, once; none does it later, not even with the same room.
OvertakenOnce ==
  [][/\ overtaken /\ session # NoRoom
     /\ session' = session /\ made' = made
     => room_id' = room_id /\ ~PollWrites]_vars

\* Every handler returns, the outermost too, however the server and the user behave.
HandlersReturn == stack # <<>> ~> stack = <<>> \/ crashed

=============================================================================
