---------------------------- MODULE ClientTable ----------------------------
(***************************************************************************)
(* The connection table of one Realtime-Session process                    *)
(* (Session::m_pClientConnectionVector) and what the handlers read and     *)
(* write in it.  Constant-level operators only: the process that owns the  *)
(* table is module Session.                                                *)
(***************************************************************************)
EXTENDS Integers, Sequences, FiniteSets

CONSTANTS
  Wsi,      \* websocket handles the libwebsockets context can hand out
  User,     \* user names, the "UserName" of a Connect
  NoUser,   \* the empty string: nobody
  Num       \* video sequence numbers

ASSUME NoUserAssumption == NoUser \notin User

\* One ClientConnection.  "recent" abstracts m_uLastKeyRequestTime: it is
\* non-zero and less than 500 ms ago.
Conn == [wsi: Wsi, user: User, publisher: BOOLEAN, controller: BOOLEAN,
         clear: BOOLEAN, recent: BOOLEAN]

\* The constructor followed by set_controller and set_publisher.
NewConn(w, u, c, p) ==
  [wsi |-> w, user |-> u, publisher |-> p, controller |-> c,
   clear |-> FALSE, recent |-> FALSE]

\* What the session writes to a client.
Message ==
  [type: {"StartStream", "StopStream", "StartStreamAck", "StopStreamAck",
          "RequestKeyFrame", "StreamQuit", "AudioData", "Message", "MessageAck"}]
    \cup [type: {"VideoData"}, idr: BOOLEAN, num: Num]
    \cup [type: {"VideoAck", "DropAck"}, num: Num]
    \cup [type: {"Heartbeat"}, publisher: User \cup {NoUser}, controller: User \cup {NoUser}]

Plain(t) == [type |-> t]
Frame(idr, n) == [type |-> "VideoData", idr |-> idr, num |-> n]

-----------------------------------------------------------------------------
(* Positions in a table. *)

Publishers(cs)  == {i \in DOMAIN cs : cs[i].publisher}
Viewers(cs)     == {i \in DOMAIN cs : ~cs[i].publisher}
Controllers(cs) == {i \in DOMAIN cs : cs[i].controller}
Named(cs, u)    == {i \in DOMAIN cs : cs[i].user = u}
At(cs, w)       == {i \in DOMAIN cs : cs[i].wsi = w}

\* Sockets and user names in their order, and the sockets at the positions I.
Seats(cs) == [i \in DOMAIN cs |-> [client |-> cs[i].wsi, user |-> cs[i].user]]
Sockets(cs, I) == {cs[i].wsi : i \in I}

\* The first, respectively last, position of a loop over the table that
\* breaks at, respectively overwrites its result at, every member of I.
FirstOf(I) == {i \in I : \A j \in I : i <= j}
LastOf(I)  == {i \in I : \A j \in I : j <= i}

\* Writes m to the connections at the positions I.
Deliver(cs, I, m) == {[to |-> cs[i].wsi, msg |-> m] : i \in I}

-----------------------------------------------------------------------------
(* The handlers: the table each leaves behind. *)

Appended(cs, c) == Append(cs, c)

\* vector::erase at position i.
Without(cs, i) == [j \in 1..(Len(cs) - 1) |-> IF j < i THEN cs[j] ELSE cs[j + 1]]

WithController(cs, I) ==
  [i \in 1..Len(cs) |-> [cs[i] EXCEPT !.controller = @ \/ i \in I]]

\* Mutant: the entry is looked up by user name.
AfterClose_byName(cs, w) ==
  IF At(cs, w) = {} THEN cs
  ELSE LET u == cs[CHOOSE k \in FirstOf(At(cs, w)) : TRUE].user
       IN  Without(cs, CHOOSE k \in FirstOf(Named(cs, u)) : TRUE)

\* Mutant: nobody is promoted.
AfterClose_noPromotion(cs, w) ==
  IF At(cs, w) = {} THEN cs
  ELSE Without(cs, CHOOSE k \in FirstOf(At(cs, w)) : TRUE)

\* on_connection_closed: drop the first entry of the socket and, when it was
\* the controller and others remain, promote the oldest of them.
AfterClose(cs, w) ==
  IF At(cs, w) = {} THEN cs
  ELSE LET i == CHOOSE k \in FirstOf(At(cs, w)) : TRUE
           rest == Without(cs, i)
       IN  IF cs[i].controller THEN WithController(rest, {1}) ELSE rest

\* Only the first connection of that name is started.
AfterStart(cs, u) ==
  [i \in 1..Len(cs) |-> [cs[i] EXCEPT !.publisher = @ \/ i \in FirstOf(Named(cs, u))]]

\* StopStream, and StreamQuit, take the flag from every publisher.
AfterStop(cs) == [i \in 1..Len(cs) |-> [cs[i] EXCEPT !.publisher = FALSE]]

\* Mutant: the others keep their flag.
AfterAssign_addsOnly(cs, u) == WithController(cs, Named(cs, u))

AfterAssign(cs, u) == [i \in 1..Len(cs) |-> [cs[i] EXCEPT !.controller = (cs[i].user = u)]]

\* A key frame ends a viewer's clearing; any other frame leaves it.
AfterFrame(cs, idr) ==
  [i \in 1..Len(cs) |-> [cs[i] EXCEPT !.clear = @ /\ (cs[i].publisher \/ ~idr)]]

\* Mutant: the early return on a failed write is missing.
AfterKeyRequest_ignoresWrite(cs, ok) ==
  LET flood == \E p \in Publishers(cs) : cs[p].recent
  IN  [i \in 1..Len(cs) |->
        [cs[i] EXCEPT !.recent = @ \/ i \in ok,
                      !.clear  = @ \/ (flood /\ ~cs[i].publisher)]]

\* A request is noted at every publisher it could be written to (those in
\* ok), and a second one within the window clears every viewer.
AfterKeyRequest(cs, ok) ==
  LET flood == \E p \in ok : cs[p].recent
  IN  [i \in 1..Len(cs) |->
        [cs[i] EXCEPT !.recent = @ \/ i \in ok,
                      !.clear  = @ \/ (flood /\ ~cs[i].publisher)]]

\* The viewers a frame is forwarded to; the others swallow it.
Forwarded(cs, idr) == {i \in Viewers(cs) : idr \/ ~cs[i].clear}
Swallowed(cs, idr) == Viewers(cs) \ Forwarded(cs, idr)

\* get_heartbeat_info: the last connection with the flag names it.
NameOf(cs, I) == IF I = {} THEN NoUser ELSE cs[CHOOSE i \in LastOf(I) : TRUE].user
HeartbeatInfo(cs) ==
  [type |-> "Heartbeat", publisher |-> NameOf(cs, Publishers(cs)),
   controller |-> NameOf(cs, Controllers(cs))]
=============================================================================
