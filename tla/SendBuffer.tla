----------------------------- MODULE SendBuffer -----------------------------
(***************************************************************************)
(* The one send buffer of a client (Buffer, and the senders of             *)
(* SocketsClient): the capture thread, the websocket thread, the user      *)
(* interface and the heartbeat thread each append a header and a payload   *)
(* to it, send what it holds and reset it, without a lock.  Positions      *)
(* count from behind the bytes reserved for the library, in units of a     *)
(* header.                                                                 *)
(***************************************************************************)
EXTENDS Integers, Sequences

CONSTANTS
  Thread,   \* "heartbeat", "capture" and others
  Size      \* what the buffer holds

VARIABLES
  pos,      \* m_pos
  call,     \* the send of each thread
  state,    \* m_State is established
  wsi,      \* m_wsi: "null", "open", "closing" or "freed"
  happened  \* history: what has gone wrong, and why it may

vars == <<pos, call, state, wsi, happened>>

Idle == [at |-> "idle", parts |-> <<>>, sum |-> 0, seen |-> 0, alone |-> FALSE]

\* A header with nothing behind it, one with a text, and the frames: a header
\* more, and as many layers as CalcSVCFrameSize() counts.
send_stop_stream == <<1>>
send_text == <<1, 1>>
send_video_data == {<<1, 1, n>> : n \in 1..2}

\* What the header says: the sizes of the parts, three at most, taken together.
Total(p) ==
  LET size(i) == IF i \in DOMAIN p THEN p[i] ELSE 0
  IN  size(1) + size(2) + size(3)

Parts(t) == IF t = "capture" THEN send_video_data ELSE {send_stop_stream, send_text}

Init ==
  /\ pos = 0
  /\ call = [t \in Thread |-> Idle]
  /\ state = FALSE /\ wsi = "null"
  /\ happened = {}

Goes(t, from, to) == call[t].at = from /\ call' = [call EXCEPT ![t].at = to]

-----------------------------------------------------------------------------
(* A send. *)

Begins(t) ==
  /\ call[t].at = "idle"
  /\ \E p \in Parts(t) :
       call' = [u \in Thread |->
         IF u = t THEN [at |-> "append", parts |-> p, sum |-> Total(p), seen |-> 0,
                        alone |-> \A v \in Thread : call[v].at = "idle"]
         ELSE [call[u] EXCEPT !.alone = FALSE]]
  /\ happened' = happened \cup IF \A u \in Thread : call[u].at = "idle"
                               THEN {} ELSE {"overlap"}
  /\ UNCHANGED <<pos, state, wsi>>

Fits(n) == pos + n <= Size

\* append() tests m_pos ...
TestsFit(t) ==
  /\ call[t].at = "append" /\ call[t].parts # <<>>
  /\ Fits(Head(call[t].parts))
  /\ call' = [call EXCEPT ![t].at = "copy", ![t].seen = pos]
  /\ UNCHANGED <<pos, state, wsi, happened>>

\* ... copies the bytes to where it points, read again or still in a register ...
Copies(t) ==
  /\ call[t].at = "copy"
  /\ \E p \in {pos, call[t].seen} :
       /\ call' = [call EXCEPT ![t].at = "advance", ![t].seen = p]
       /\ happened' = happened \cup IF p + Head(call[t].parts) > Size THEN {"outside"} ELSE {}
  /\ UNCHANGED <<pos, state, wsi>>

\* ... and adds to it, read again or not.
Advances(t) ==
  /\ call[t].at = "advance"
  /\ \E p \in {pos, call[t].seen} : pos' = p + Head(call[t].parts)
  /\ call' = [call EXCEPT ![t].at = "append", ![t].seen = 0, ![t].parts = Tail(@)]
  /\ UNCHANGED <<state, wsi, happened>>

\* What does not fit is left out, and nobody looks at the result.
LeavesOut(t) ==
  /\ call[t].at = "append" /\ call[t].parts # <<>>
  /\ ~Fits(Head(call[t].parts))
  /\ call' = [call EXCEPT ![t].parts = Tail(@)]
  /\ UNCHANGED <<pos, state, wsi, happened>>

\* send_msg() tests m_State ...
TestsState(t) ==
  /\ call[t].parts = <<>> /\ Goes(t, "append", IF state THEN "write" ELSE "clear")
  /\ UNCHANGED <<pos, state, wsi, happened>>

\* ... and then writes to m_wsi.
Writes(t) ==
  /\ Goes(t, "write", "clear")
  /\ happened' = happened
       \cup (IF wsi = "open" THEN {} ELSE {"dead write"})
       \cup (IF call[t].alone /\ pos # call[t].sum /\ call[t].sum <= Size THEN {"not whole"} ELSE {})
  /\ UNCHANGED <<pos, state, wsi>>

\* Mutant: the reset forgets to rewind.
Resets_clears(t) ==
  /\ call[t].at = "clear" /\ call' = [call EXCEPT ![t] = Idle]
  /\ happened' = happened \cup IF pos > Size THEN {"outside"} ELSE {}
  /\ UNCHANGED <<pos, state, wsi>>

\* reset() clears what the buffer holds and starts again.
Resets(t) ==
  /\ call[t].at = "clear" /\ call' = [call EXCEPT ![t] = Idle]
  /\ happened' = happened \cup IF pos > Size THEN {"outside"} ELSE {}
  /\ pos' = 0
  /\ UNCHANGED <<state, wsi>>

-----------------------------------------------------------------------------
(* The connection under it. *)

Establishes ==
  /\ wsi = "null" /\ wsi' = "open" /\ state' = TRUE
  /\ UNCHANGED <<pos, call, happened>>

\* The callback comes before the library frees the connection.
Closes ==
  /\ wsi = "open" /\ wsi' = "closing" /\ state' = FALSE
  /\ happened' = happened \cup IF \E t \in Thread : call[t].at = "write" THEN {"raced"} ELSE {}
  /\ UNCHANGED <<pos, call>>

Frees ==
  /\ wsi = "closing" /\ wsi' = "freed"
  /\ UNCHANGED <<pos, call, state, happened>>

\* The heartbeat thread's connect() clears it before it makes another.
Reconnects ==
  /\ wsi = "freed" /\ wsi' = "null"
  /\ call["heartbeat"].at = "idle"
  /\ UNCHANGED <<pos, call, state, happened>>

Sends(t) ==
  \/ Begins(t) \/ TestsFit(t) \/ Copies(t) \/ Advances(t) \/ LeavesOut(t)
  \/ TestsState(t) \/ Writes(t) \/ Resets(t)

\* What a program does that has written behind the end of the buffer is not
\* defined, and not followed.
Next ==
  /\ "outside" \notin happened
  /\ \/ \E t \in Thread : Sends(t)
     \/ Establishes \/ Closes \/ Frees \/ Reconnects

Spec == Init /\ [][Next]_vars

-----------------------------------------------------------------------------
\* A message that no other send overlapped goes out whole, exactly as long as its
\* header says, unless it is larger than the buffer.
WholeUnlessOverlapped == "not whole" \notin happened

\* Overlapping sends garble each other, never what is sent after them.
QuietIsEmpty == (\A t \in Thread : call[t].at = "idle") => pos = 0

\* Nothing is written or cleared behind the end of the buffer but after an
\* overlap: each thread tests for itself that its bytes fit.
InsideUnlessOverlapped == "outside" \in happened => "overlap" \in happened

\* A write to a connection that is gone needs a close between a sender's test of
\* m_State and its write.
DeadWriteNeedsRace == "dead write" \in happened => "raced" \in happened

\* Whatever sends overlap, what no other overlapped is right.
SendsWhole ==
  WholeUnlessOverlapped /\ QuietIsEmpty /\ InsideUnlessOverlapped /\ DeadWriteNeedsRace
=============================================================================
