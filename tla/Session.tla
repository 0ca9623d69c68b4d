------------------------------ MODULE Session ------------------------------
(***************************************************************************)
(* One Realtime-Session process.  Two threads share the connection table   *)
(* without a lock: the websocket thread, whose callbacks are one action    *)
(* each, and the main thread, which walks the table every two seconds to   *)
(* send heartbeats and leaves when SIGALRM has set m_bExit.                *)
(***************************************************************************)
EXTENDS ClientTable

CONSTANTS
  Kinds,   \* the message types clients send in this instance
  Ghosts   \* whether a user may register a new socket before the close of
           \* its earlier one has been handled

ASSUME GhostsAssumption == Ghosts \in BOOLEAN

VARIABLES
  conns,    \* m_pClientConnectionVector
  sock,     \* each websocket: "closed", "open" (no Connect yet) or "joined"
  claimed,  \* the creator's one Connect with IsController has been spent
  alarm,    \* alarm(30) is pending
  exit,     \* m_bExit
  proc,     \* "running", "stopping" (run() has left its loop), "ended", "crashed"
  beat,     \* heartbeat walk: 0 asleep, else the position to serve next
  stale,    \* the table changed under the walk's iterator
  out       \* what the last step wrote to clients

vars == <<conns, sock, claimed, alarm, exit, proc, beat, stale, out>>

\* The websocket thread serves.  A context that could not be created, or whose
\* service loop has failed, is one whose clients never come, or all go.
Serving == proc \in {"running", "stopping"}
Over == proc \in {"ended", "crashed"}

Init ==
  /\ conns = <<>>
  /\ sock = [w \in Wsi |-> "closed"]
  /\ claimed \in BOOLEAN   \* TRUE: restarted for an existing room, where nobody claims
  /\ alarm = FALSE
  /\ exit = FALSE
  /\ proc = "running"
  /\ beat = 0
  /\ stale = FALSE
  /\ out = {}

-----------------------------------------------------------------------------
(* The websocket thread: connections. *)

\* push_back and erase invalidate the iterator of a heartbeat walk under way.
TableChanged == stale' = (beat # 0)

Established(w) ==
  /\ Serving
  /\ sock[w] = "closed"
  /\ sock' = [sock EXCEPT ![w] = "open"]
  /\ out' = {}
  /\ UNCHANGED <<conns, claimed, alarm, exit, proc, beat, stale>>

\* The daemon sends one Connect per socket; it asks for control only once in
\* the life of a session, when the host that created the room joins.
Connect(w, u, c, p) ==
  /\ Serving
  /\ sock[w] = "open"
  /\ Ghosts \/ Named(conns, u) = {}
  /\ c => ~claimed
  /\ conns' = Appended(conns, NewConn(w, u, c, p))
  /\ sock' = [sock EXCEPT ![w] = "joined"]
  /\ claimed' = (claimed \/ c)
  /\ TableChanged
  /\ out' = {}
  /\ UNCHANGED <<alarm, exit, proc, beat>>

\* Mutant: only a publisher's departure starts the timer.
Closed_publisherOnly(w) ==
  /\ Serving
  /\ sock[w] # "closed"
  /\ conns' = AfterClose(conns, w)
  /\ sock' = [sock EXCEPT ![w] = "closed"]
  /\ alarm' = (alarm \/ (conns' = <<>> /\ \E i \in At(conns, w) : conns[i].publisher))
  /\ IF At(conns, w) = {} THEN UNCHANGED stale ELSE TableChanged
  /\ out' = {}
  /\ UNCHANGED <<claimed, exit, proc, beat>>

Closed(w) ==
  /\ Serving
  /\ sock[w] # "closed"
  /\ conns' = AfterClose(conns, w)
  /\ sock' = [sock EXCEPT ![w] = "closed"]
  /\ alarm' = (alarm \/ conns' = <<>>)
  /\ IF At(conns, w) = {} THEN UNCHANGED stale ELSE TableChanged
  /\ out' = {}
  /\ UNCHANGED <<claimed, exit, proc, beat>>

-----------------------------------------------------------------------------
(* The websocket thread: messages.  w is the socket a message arrives on;  *)
(* it may still be waiting for its Connect, the capture thread of a        *)
(* reconnecting publisher does not wait for it.                            *)

Receives(w, kind) == Serving /\ kind \in Kinds /\ sock[w] # "closed"

Handled(cs, o) ==
  /\ conns' = cs
  /\ out' = o
  /\ UNCHANGED <<sock, claimed, alarm, exit, proc, beat, stale>>

StartStream(w, u) ==
  /\ Receives(w, "StartStream")
  /\ Handled(AfterStart(conns, u),
             Deliver(conns, FirstOf(Named(conns, u)), Plain("StartStream")))

StartStreamAck(w) ==
  /\ Receives(w, "StartStreamAck")
  /\ Handled(conns, Deliver(conns, FirstOf(Controllers(conns)), Plain("StartStreamAck")))

StopStream(w) ==
  /\ Receives(w, "StopStream")
  /\ Handled(AfterStop(conns), Deliver(conns, Publishers(conns), Plain("StopStream")))

StopStreamAck(w) ==
  /\ Receives(w, "StopStreamAck")
  /\ Handled(conns, Deliver(conns, FirstOf(Controllers(conns)), Plain("StopStreamAck")))

\* A frame a viewer swallows is acknowledged to the sender, by the bare
\* sequence number and not the JSON a client's own VideoAck carries.
VideoData(w, idr, n) ==
  /\ Receives(w, "VideoData")
  /\ Handled(AfterFrame(conns, idr),
             Deliver(conns, Forwarded(conns, idr), Frame(idr, n))
               \cup {[to |-> w, msg |-> [type |-> "DropAck", num |-> n]] :
                       i \in Swallowed(conns, idr)})

VideoAck(w, n) ==
  /\ Receives(w, "VideoAck")
  /\ Handled(conns, Deliver(conns, Publishers(conns), [type |-> "VideoAck", num |-> n]))

\* ok: the publishers lws_write does not fail for (their socket may be dead
\* while its close has not been handled yet).
RequestKeyFrame(w, ok) ==
  /\ Receives(w, "RequestKeyFrame")
  /\ ok \subseteq Publishers(conns)
  /\ Handled(AfterKeyRequest(conns, ok), Deliver(conns, ok, Plain("RequestKeyFrame")))

\* 500 ms have passed since the last request noted at position i.
KeyWindowPasses(i) ==
  /\ Serving
  /\ i \in DOMAIN conns /\ conns[i].recent
  /\ Handled([conns EXCEPT ![i].recent = FALSE], {})

AudioData(w) ==
  /\ Receives(w, "AudioData")
  /\ Handled(conns, Deliver(conns, Viewers(conns), Plain("AudioData")))

StreamQuit(w) ==
  /\ Receives(w, "StreamQuit")
  /\ Handled(AfterStop(conns), Deliver(conns, Viewers(conns), Plain("StreamQuit")))

TextMessage(w) ==
  /\ Receives(w, "Message")
  /\ Handled(conns, Deliver(conns, At(conns, w), Plain("MessageAck"))
                      \cup Deliver(conns, DOMAIN conns \ At(conns, w), Plain("Message")))

\* Every host that has made or reused a room is offered "assign", whether its
\* Connect has been handled or not; the name comes from the node list of the
\* server, so the user may have left the session or never joined it.
AssignController(w, u) ==
  /\ Receives(w, "AssignController")
  /\ Handled(AfterAssign(conns, u), {})

-----------------------------------------------------------------------------
(* The main thread. *)

HeartbeatStarts ==
  /\ proc = "running" /\ ~exit /\ beat = 0
  /\ conns # <<>>
  /\ beat' = 1
  /\ out' = {}
  /\ UNCHANGED <<conns, sock, claimed, alarm, exit, proc, stale>>

\* Mutant: the iterator is advanced twice.
HeartbeatServes_skips ==
  /\ proc = "running" /\ beat \in DOMAIN conns
  /\ out' = Deliver(conns, {beat}, HeartbeatInfo(conns))
  /\ beat' = IF beat + 2 <= Len(conns) THEN beat + 2 ELSE Len(conns) + 1
  /\ UNCHANGED <<conns, sock, claimed, alarm, exit, proc, stale>>

\* The info is rebuilt for every connection served.
HeartbeatServes ==
  /\ proc = "running" /\ beat \in DOMAIN conns
  /\ out' = Deliver(conns, {beat}, HeartbeatInfo(conns))
  /\ beat' = beat + 1
  /\ UNCHANGED <<conns, sock, claimed, alarm, exit, proc, stale>>

HeartbeatEnds ==
  /\ proc = "running" /\ beat = Len(conns) + 1
  /\ beat' = 0
  /\ stale' = FALSE
  /\ out' = {}
  /\ UNCHANGED <<conns, sock, claimed, alarm, exit, proc>>

\* The process is gone, and with it every socket.
Gone(how) ==
  /\ proc' = how
  /\ conns' = <<>>
  /\ sock' = [w \in Wsi |-> "closed"]
  /\ alarm' = FALSE
  /\ beat' = 0
  /\ stale' = FALSE
  /\ out' = {}
  /\ UNCHANGED <<claimed, exit>>

\* Undefined behaviour: an iterator into a reallocated buffer, a deleted
\* ClientConnection, or a position past end().  The process dies, or, as long
\* as the position exists, it goes on as if nothing had happened.
IteratorCrash ==
  /\ proc = "running" /\ beat # 0 /\ stale
  /\ Gone("crashed")

\* SIGALRM: process_exit.
AlarmFires ==
  /\ Serving /\ alarm
  /\ alarm' = FALSE
  /\ exit' = TRUE
  /\ out' = {}
  /\ UNCHANGED <<conns, sock, claimed, proc, beat, stale>>

\* run() leaves its loop and sets m_quit.
RunLeaves ==
  /\ proc = "running" /\ exit /\ beat = 0
  /\ proc' = "stopping"
  /\ out' = {}
  /\ UNCHANGED <<conns, sock, claimed, alarm, exit, beat, stale>>

\* The websocket thread sees m_quit and destroys the context, which closes
\* every socket; run() joins it and main returns.
ServerStops ==
  /\ proc = "stopping"
  /\ Gone("ended")

Finished == Over /\ UNCHANGED vars

-----------------------------------------------------------------------------
Connections(w) ==
  \/ Established(w)
  \/ \E u \in User, c, p \in BOOLEAN : Connect(w, u, c, p)
  \/ Closed(w)

Messages(w) ==
  \/ \E u \in User : StartStream(w, u) \/ AssignController(w, u)
  \/ StartStreamAck(w) \/ StopStream(w) \/ StopStreamAck(w)
  \/ \E idr \in BOOLEAN, n \in Num : VideoData(w, idr, n)
  \/ \E n \in Num : VideoAck(w, n)
  \/ \E ok \in SUBSET DOMAIN conns : RequestKeyFrame(w, ok)
  \/ AudioData(w) \/ StreamQuit(w) \/ TextMessage(w)

Heartbeat == HeartbeatStarts \/ HeartbeatServes \/ HeartbeatEnds

Main == Heartbeat \/ IteratorCrash \/ AlarmFires \/ RunLeaves \/ ServerStops

Next ==
  \/ \E w \in Wsi : Connections(w) \/ Messages(w)
  \/ \E i \in DOMAIN conns : KeyWindowPasses(i)
  \/ Main
  \/ Finished

Spec == Init /\ [][Next]_vars

\* The threads of the process and its timer are scheduled; nothing is
\* assumed of the clients.
Fairness ==
  /\ WF_vars(Heartbeat)
  /\ WF_vars(IteratorCrash)
  /\ WF_vars(AlarmFires)
  /\ WF_vars(RunLeaves)
  /\ WF_vars(ServerStops)

FairSpec == Spec /\ Fairness

-----------------------------------------------------------------------------
(* Properties. *)

\* The shape of the state.  Heartbeats name users or nobody.
TypeOK ==
  /\ conns \in Seq(Conn)
  /\ sock \in [Wsi -> {"closed", "open", "joined"}]
  /\ claimed \in BOOLEAN
  /\ alarm \in BOOLEAN
  /\ exit \in BOOLEAN
  /\ proc \in {"running", "stopping", "ended", "crashed"}
  /\ beat \in Nat
  /\ stale \in BOOLEAN
  /\ out \subseteq [to: Wsi, msg: Message]

\* The table holds every joined socket once and no other: a close removes
\* the entry of that very socket even while a reconnecting user is in the
\* table twice, so no handler ever writes to a socket that is gone.
ConnsMatchSockets ==
  /\ \A i, j \in DOMAIN conns : conns[i].wsi = conns[j].wsi => i = j
  /\ \A w \in Wsi : sock[w] = "joined" <=> At(conns, w) # {}

\* At most so many control.
OneControls(cs) == \A i, j \in Controllers(cs) : i = j
TwoControl(cs) == \A i, j, k \in Controllers(cs) : i = j \/ j = k \/ i = k

\* When a user name is in the table at most once, one connection at most is the
\* controller, whatever assignments, closes and promotions come in which order:
\* the first controller, which gets the acks, is the one the heartbeat names.
\* The one step to a second is the creator's Connect, which takes control though
\* an assignment was handled before it; nothing ever makes a third.
AtMostOneController ==
  /\ [](~Ghosts => TwoControl(conns) /\ (~claimed => OneControls(conns)))
  /\ [][~Ghosts /\ OneControls(conns) => OneControls(conns)' \/ (claimed' /\ ~claimed)]_vars

Roster == INSTANCE Roster WITH
  Client <- Wsi,
  present <- Seats(conns),
  publishers <- Sockets(conns, Publishers(conns)),
  controllers <- Sockets(conns, Controllers(conns)),
  spent <- claimed

\* Who is in the session, publishes and controls is as Roster promises, of the
\* sockets in the order of the table: no close takes the entry of another socket,
\* or leaves those who stay without a controller.
KeepsRoster == Roster!Spec

\* Viewers only start to swallow frames in a step that also asked some
\* publisher for the key frame that will end it: a request lws_write refused
\* clears nobody.
ClearIsAskedFor ==
  [][ (\E i \in DOMAIN conns : i \in DOMAIN conns' /\ ~conns[i].clear /\ conns'[i].clear
                               /\ conns[i].wsi = conns'[i].wsi)
        => \E d \in out' : d.msg.type = "RequestKeyFrame" ]_vars

\* A session everybody has left for good does not stay behind: the process
\* ends by its own timer.
AbandonedEnds ==
  (<>(conns # <<>>) /\ <>[](\A w \in Wsi : sock[w] = "closed")) => <>Over

\* However often others join and leave under the heartbeat walk, a client
\* that stays is sent another heartbeat, unless the session is ending.
HeartbeatReaches ==
  \A w \in Wsi :
    sock[w] = "joined" ~>
      \/ sock[w] # "joined" \/ exit \/ Over
      \/ \E d \in out : d.to = w /\ d.msg.type = "Heartbeat"

\* What process_exit logs when the timer fires, "publisher disconnect
\* timeout": a session is only given up when no publisher is connected.
TimeoutWithoutPublisher ==
  [][ exit' /\ ~exit => Publishers(conns) = {} ]_vars
=============================================================================
