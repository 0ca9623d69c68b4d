------------------------------ MODULE Connect ------------------------------
(***************************************************************************)
(* How a client (Cdaemon, SocketsClient) makes, loses and makes again its  *)
(* connection to a session.  Three threads share m_State and m_Exit        *)
(* without a lock:                                                         *)
(*  - the one that calls connect(): first the constructor's, then the      *)
(*    heartbeat thread;                                                    *)
(*  - the websocket thread, which each connect() starts anew;              *)
(*  - the one that deletes the client.                                     *)
(* connect() waits for the websocket thread on a condition variable that   *)
(* no mutex protects and no predicate goes with: a notification that comes *)
(* before the wait is lost, and a wake-up may come without one.            *)
(***************************************************************************)
EXTENDS Integers, Sequences

CONSTANTS
  Retries,   \* how many attempts in a row HeartbeatThread lets fail
  MaxSent    \* bound: other threads add nothing to so many messages

ASSUME RetriesAssumption == Retries \in Nat \ {0}
ASSUME MaxSentAssumption == MaxSent \in Nat

VARIABLES
  state,     \* m_State
  exit,      \* m_Exit
  ws,        \* websocket thread: "starting", "polling", "leaving", "ended"
  link,      \* the connection itself: "none", "trying", "up"
  sent,      \* what has been sent on it, by any thread
  at,        \* where the caller of connect() is
  notified,  \* the wait has been notified
  spurious,  \* history: the wait of this attempt returned without that
  first,     \* the caller is the constructor
  retry,     \* HeartbeatThread's attempts left
  quit,      \* m_bQuit
  ui         \* the destructor: "alive", "joining", "stopping", "gone", "crashed"

caller == <<at, first, retry, spurious>>
vars == <<state, exit, ws, link, sent, notified, quit, ui, caller>>

Init ==
  /\ state = "unconnected" /\ exit = FALSE
  /\ ws = "ended"
  /\ link = "none" /\ sent = <<>>
  /\ at = "resetting" /\ first = TRUE /\ retry = Retries
  /\ notified = FALSE /\ spurious = FALSE
  /\ quit = FALSE /\ ui = "alive"

-----------------------------------------------------------------------------
(* connect() and its two callers. *)

Goes(from, to) == at = from /\ at' = to

\* reset() tells the earlier websocket thread to leave ...
ResetBegins ==
  /\ Goes("resetting", "joining")
  /\ exit' = TRUE
  /\ UNCHANGED <<state, ws, link, sent, notified, first, retry, quit, ui, spurious>>

\* ... and waits for it, before connect() starts another.
ThreadStarts ==
  /\ Goes("joining", "testing")
  /\ ws = "ended" /\ ws' = "starting"
  /\ state' = "unconnected" /\ exit' = FALSE
  /\ sent' = <<>> /\ spurious' = FALSE
  /\ UNCHANGED <<link, notified, first, retry, quit, ui>>

\* Mutant: connect() does not wait for the answer.
TestsState_nonblocking ==
  /\ Goes("testing", "connected")
  /\ UNCHANGED <<state, exit, ws, link, sent, notified, first, retry, quit, ui, spurious>>

TestsState ==
  /\ Goes("testing", IF state = "established" THEN "connected" ELSE "entering")
  /\ UNCHANGED <<state, exit, ws, link, sent, notified, first, retry, quit, ui, spurious>>

EntersWait ==
  /\ Goes("entering", "waiting")
  /\ notified' = FALSE
  /\ UNCHANGED <<state, exit, ws, link, sent, first, retry, quit, ui, spurious>>

\* A wait may return without a notification.
WakesUp ==
  /\ Goes("waiting", IF state \in {"closed", "error"} THEN "refused" ELSE "connected")
  /\ \/ notified /\ UNCHANGED spurious
     \/ ~notified /\ spurious' = TRUE
  /\ UNCHANGED <<state, exit, ws, link, sent, notified, first, retry, quit, ui>>

\* Mutant: the websocket thread is not told.
TimesOut_keepsThread ==
  /\ Goes("waiting", "refused")
  /\ ~notified
  /\ UNCHANGED <<state, exit, ws, link, sent, notified, first, retry, quit, ui, spurious>>

TimesOut ==
  /\ Goes("waiting", "refused")
  /\ ~notified
  /\ exit' = TRUE
  /\ UNCHANGED <<state, ws, link, sent, notified, first, retry, quit, ui, spurious>>

\* send_msg sends nothing unless m_State is established.
Sends(msg) == sent' = IF state = "established" THEN Append(sent, msg) ELSE sent

\* connect() returned true: the constructor starts the heartbeat thread.
ConstructorConnected ==
  /\ first /\ Goes("connected", "idle")
  /\ Sends("Connect")
  /\ first' = FALSE
  /\ UNCHANGED <<state, exit, ws, link, notified, retry, quit, ui, spurious>>

HeartbeatConnected ==
  /\ ~first /\ Goes("connected", "asking")
  /\ Sends("Connect")
  /\ UNCHANGED <<state, exit, ws, link, notified, first, retry, quit, ui, spurious>>

\* A viewer asks for a key frame, a publisher does not.
HeartbeatAsks ==
  /\ Goes("asking", "idle")
  /\ retry' = Retries
  /\ Sends("RequestKeyFrame") \/ UNCHANGED sent
  /\ UNCHANGED <<state, exit, ws, link, notified, first, quit, ui, spurious>>

\* It returned false: the constructor returns early.
ConstructorRefused ==
  /\ first /\ Goes("refused", "broken")
  /\ UNCHANGED <<state, exit, ws, link, sent, notified, first, retry, quit, ui, spurious>>

\* Mutant: the attempts are not counted.
HeartbeatRefused_uncounted ==
  /\ ~first /\ Goes("refused", "idle")
  /\ UNCHANGED <<state, exit, ws, link, sent, notified, first, retry, quit, ui, spurious>>

HeartbeatRefused ==
  /\ ~first /\ Goes("refused", IF retry = 1 THEN "ended" ELSE "idle")
  /\ retry' = retry - 1
  /\ UNCHANGED <<state, exit, ws, link, sent, notified, first, quit, ui, spurious>>

HeartbeatLoops ==
  /\ Goes("idle", IF quit THEN "ended" ELSE "resetting")
  /\ quit \/ state # "established"
  /\ UNCHANGED <<state, exit, ws, link, sent, notified, first, retry, quit, ui, spurious>>

-----------------------------------------------------------------------------
(* The websocket thread. *)

SetConnectState(s) ==
  /\ state' = s
  /\ notified' = (notified \/ at = "waiting")

\* The address does not parse, or there is no context: nobody is told.
SetupFails ==
  /\ ws = "starting" /\ ws' = "ended"
  /\ UNCHANGED <<state, exit, link, sent, notified, quit, ui, caller>>

\* The loop is entered: lws_client_connect_via_info may fail at once.
Connects ==
  /\ ws = "starting" /\ ~exit
  /\ state' = IF state = "unconnected" THEN "connecting" ELSE state
  /\ IF state = "unconnected"
     THEN \/ ws' = "polling" /\ link' = "trying"
          \/ ws' = "leaving" /\ UNCHANGED link
     ELSE ws' = "polling" /\ UNCHANGED link
  /\ UNCHANGED <<exit, sent, notified, quit, ui, caller>>

Established ==
  /\ ws = "polling" /\ link = "trying"
  /\ link' = "up"
  /\ SetConnectState("established")
  /\ UNCHANGED <<exit, ws, sent, quit, ui, caller>>

Refused ==
  /\ ws = "polling" /\ link = "trying"
  /\ link' = "none"
  /\ SetConnectState("error") /\ exit' = TRUE
  /\ UNCHANGED <<ws, sent, quit, ui, caller>>

\* Mutant: the thread is told to leave, and the state is not set.
Closed_exitOnly ==
  /\ ws = "polling" /\ link = "up"
  /\ link' = "none"
  /\ exit' = TRUE
  /\ UNCHANGED <<state, notified, ws, sent, quit, ui, caller>>

Closed ==
  /\ ws = "polling" /\ link = "up"
  /\ link' = "none"
  /\ SetConnectState("closed") /\ exit' = TRUE
  /\ UNCHANGED <<ws, sent, quit, ui, caller>>

Leaves ==
  /\ ws \in {"starting", "polling"} /\ exit
  /\ ws' = "leaving"
  /\ UNCHANGED <<state, exit, link, sent, notified, quit, ui, caller>>

\* lws_service returns an error.
ServiceFails ==
  /\ ws = "polling"
  /\ ws' = "leaving"
  /\ UNCHANGED <<state, exit, link, sent, notified, quit, ui, caller>>

\* Destroying the context closes what is left of the connection, and calls
\* back for one that was up; one that was not may be told off, too.
ContextDestroyed ==
  /\ ws = "leaving" /\ ws' = "ended"
  /\ link' = "none"
  /\ \/ link = "up" /\ SetConnectState("closed") /\ exit' = TRUE
     \/ link = "trying" /\ SetConnectState("error") /\ exit' = TRUE
     \/ link # "up" /\ UNCHANGED <<state, notified, exit>>
  /\ UNCHANGED <<sent, quit, ui, caller>>

-----------------------------------------------------------------------------
(* The other threads. *)

Constructed == ~first \/ at = "broken"

\* Once there is a client, the capture thread sends its frames, the window its
\* orders and the websocket thread its acknowledgements whenever the connection
\* stands: none of them waits for the heartbeat thread's Connect.
OthersSend ==
  /\ Constructed /\ ui \notin {"gone", "crashed"}
  /\ state = "established" /\ Len(sent) < MaxSent
  /\ sent' = Append(sent, "Other")
  /\ UNCHANGED <<state, exit, ws, link, notified, quit, ui, caller>>

-----------------------------------------------------------------------------
(* The destructor. *)

DeleteBegins ==
  /\ ui = "alive" /\ Constructed
  /\ quit' = TRUE /\ ui' = "joining"
  /\ UNCHANGED <<state, exit, ws, link, sent, notified, caller>>

\* Mutant: the websocket thread is joined without being told to leave.
HeartbeatJoined_silent ==
  /\ ui = "joining" /\ at \in {"ended", "broken"}
  /\ ui' = "stopping"
  /\ UNCHANGED <<state, exit, ws, link, sent, notified, quit, caller>>

\* stop() is reset().
HeartbeatJoined ==
  /\ ui = "joining" /\ at \in {"ended", "broken"}
  /\ exit' = TRUE
  /\ ui' = "stopping"
  /\ UNCHANGED <<state, ws, link, sent, notified, quit, caller>>

\* After an early return of the constructor m_pHeartbeatID was never
\* assigned: the destructor joins whatever it points to.
GarbageJoined ==
  /\ ui = "joining" /\ at = "broken"
  /\ ui' = "crashed"
  /\ UNCHANGED <<state, exit, ws, link, sent, notified, quit, caller>>

ThreadJoined ==
  /\ ui = "stopping" /\ ws = "ended"
  /\ state' = "unconnected"
  /\ ui' = "gone"
  /\ UNCHANGED <<exit, ws, link, sent, notified, quit, caller>>

\* A client that is gone stays so.
Finished == ui \in {"gone", "crashed"} /\ UNCHANGED vars

-----------------------------------------------------------------------------
Attempt == ResetBegins \/ ThreadStarts \/ TestsState \/ EntersWait \/ WakesUp \/ TimesOut
Constructor == ConstructorConnected \/ ConstructorRefused
HeartbeatThread == HeartbeatConnected \/ HeartbeatAsks \/ HeartbeatRefused \/ HeartbeatLoops
Progress == Connects \/ Leaves \/ ContextDestroyed
RunWebSocketClient == Progress \/ SetupFails \/ ServiceFails
Server == Established \/ Refused \/ Closed
Destructor == HeartbeatJoined \/ GarbageJoined \/ ThreadJoined

\* A process that has crashed does nothing more.
Next ==
  \/ /\ ui # "crashed"
     /\ \/ Attempt \/ Constructor \/ HeartbeatThread
        \/ RunWebSocketClient \/ Server \/ OthersSend
        \/ DeleteBegins \/ Destructor
  \/ Finished

Spec == Init /\ [][Next]_vars

\* The threads run.  The server need not answer, nor the user leave, and
\* nothing need fail.
Fairness ==
  /\ WF_vars(Attempt \/ Constructor \/ HeartbeatThread)
  /\ WF_vars(Progress)
  /\ WF_vars(Destructor)

FairSpec == Spec /\ Fairness

-----------------------------------------------------------------------------
(* Properties. *)

Message == {"Connect", "RequestKeyFrame", "Other"}

\* The shape of the state.
TypeOK ==
  /\ state \in {"unconnected", "connecting", "error", "established", "closed"}
  /\ exit \in BOOLEAN /\ first \in BOOLEAN /\ quit \in BOOLEAN
  /\ notified \in BOOLEAN /\ spurious \in BOOLEAN
  /\ ws \in {"starting", "polling", "leaving", "ended"}
  /\ link \in {"none", "trying", "up"}
  /\ sent \in Seq(Message)
  /\ at \in {"resetting", "joining", "testing", "entering", "waiting", "connected",
             "asking", "refused", "broken", "idle", "ended"}
  /\ retry \in 0..Retries
  /\ ui \in {"alive", "joining", "stopping", "gone", "crashed"}

\* is_connected() is right, whichever of the threads changed the state last:
\* a client never rests on a connection that is gone, with no thread to tell
\* it so, and never has a connection it believes it has not.
BelievesRight == state = "established" <=> link = "up"

Says(s, m) == \E i \in 1..Len(s) : s[i] = m

\* At most one Connect.
IntroducedOnce(s) ==
  \A i, j \in 1..Len(s) : s[i] = "Connect" /\ s[j] = "Connect" => i = j

\* The heartbeat thread's request follows it.
AsksAfter(s) ==
  \A i \in 1..Len(s) : s[i] = "RequestKeyFrame" => \E j \in 1..(i - 1) : s[j] = "Connect"

\* The session learns who is there once on each connection, and before the heartbeat
\* thread asks for anything, unless the wait was cut short.  On the connection that
\* the constructor makes nothing goes before the Connect, unless the constructor has
\* given up; on one made anew, what the other threads send in the meantime does.
Introduces ==
  /\ ~spurious => IntroducedOnce(sent) /\ AsksAfter(sent)
  /\ first => sent = <<>> \/ at = "broken"

\* The heartbeat thread never watches over a connection on which no Connect
\* was sent, whatever others sent on it, not even one that was made when connect()
\* had given up on it, unless it is about to be closed, or the wait was cut short.
Announced ==
  ~spurious => (at = "idle" /\ link = "up" => exit \/ Says(sent, "Connect"))

\* A connection that is lost is made again, unless a number of attempts in a
\* row fail, a wait is cut short or the client is deleted: the heartbeat
\* thread never waits for a connection that nobody is making.
MadeAgain == (~first /\ link = "none") ~> (link = "up" \/ at = "ended" \/ quit \/ spurious)

\* Deleting a client ends, in the middle of an attempt too: neither thread
\* waits for a third one that waits for it.
DeleteEnds == quit ~> ui \in {"gone", "crashed"}

\* What connect() logs when it gives up, "websocket connect timeout": it is
\* not given up when the connection has been made.
TimeoutNotConnected ==
  [][ at = "waiting" /\ at' = "refused" /\ exit' /\ ~exit => state # "established" ]_vars
=============================================================================
