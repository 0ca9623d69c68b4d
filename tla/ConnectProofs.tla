--------------------------- MODULE ConnectProofs ---------------------------
(***************************************************************************)
(* Theorems about Connect, for any number of attempts.                     *)
(***************************************************************************)
EXTENDS Connect, SequenceTheorems, TLAPS

-----------------------------------------------------------------------------
(* The inductive invariant. *)

\* Only a thread that polls, or that has just stopped, has a connection.
LinkOwned == ws \in {"starting", "ended"} => link = "none"

\* A thread whose connection failed, or on which connect() gave up, has been
\* told to leave.
ToldToLeave == (state \in {"closed", "error"} => exit) /\ (at = "refused" => exit)

\* As long as the heartbeat thread runs it has an attempt left.
Counted == at # "ended" => retry >= 1

\* The attempt under way has been decided: it cannot connect any more if it
\* has not.
Settled == link # "trying" /\ ws # "starting"

Silent == ~Says(sent, "Connect")

\* What has been sent, by where the caller is.  There is no Connect before
\* connect() returns, and unless the wait was cut short it returns true only
\* when the attempt is decided.
Introduced ==
  ~spurious =>
    /\ at = "waiting" /\ notified => Settled
    /\ at \in {"connected", "asking"} => Settled
    /\ at \in {"testing", "entering", "waiting", "connected", "refused", "broken"} => Silent
    /\ at = "asking" => ~Silent \/ link # "up"
    /\ at = "idle" => exit \/ (Settled /\ (Silent => link # "up"))
    /\ IntroducedOnce(sent) /\ AsksAfter(sent)

\* Until the constructor has connected or given up there is no heartbeat thread, and
\* nothing is sent.
Alone ==
  first => /\ at \notin {"asking", "idle", "ended"}
           /\ sent = <<>> \/ at = "broken"

CInv ==
  /\ TypeOK /\ BelievesRight /\ LinkOwned /\ ToldToLeave
  /\ Counted /\ Alone /\ Introduced

-----------------------------------------------------------------------------
\* What a message appended to the messages sent makes of them: the first Connect
\* stays the only one, and the request may follow it.
LEMMA Appends ==
  ASSUME NEW s \in Seq(Message), NEW m \in Message
  PROVE  /\ Append(s, m) \in Seq(Message)
         /\ Says(Append(s, m), "Connect") <=> (Says(s, "Connect") \/ m = "Connect")
         /\ IntroducedOnce(s) /\ (m = "Connect" => ~Says(s, "Connect"))
              => IntroducedOnce(Append(s, m))
         /\ AsksAfter(s) /\ (m = "RequestKeyFrame" => Says(s, "Connect"))
              => AsksAfter(Append(s, m))
<1> DEFINE t == Append(s, m)
           n == Len(s)
<1>1. /\ t \in Seq(Message) /\ n \in Nat /\ Len(t) = n + 1
      /\ \A i \in 1..n : t[i] = s[i]
      /\ t[n + 1] = m
  BY AppendProperties
<1> HIDE DEF t, n
<1>2. \A i \in 1..Len(t) : i \in 1..n \/ i = n + 1
  BY <1>1
<1>3. \A i \in 1..n : i \in 1..Len(t)
  BY <1>1
<1>4. n + 1 \in 1..Len(t)
  BY <1>1
<1>5. Says(t, "Connect") <=> (Says(s, "Connect") \/ m = "Connect")
  <2>1. Says(s, "Connect") <=> \E i \in 1..n : s[i] = "Connect"
    BY DEF Says, n
  <2>2. Says(t, "Connect") <=> \E i \in 1..Len(t) : t[i] = "Connect"
    BY DEF Says
  <2>3. QED
    BY <1>1, <1>2, <1>3, <1>4, <2>1, <2>2
<1>6. ASSUME IntroducedOnce(s), m = "Connect" => ~Says(s, "Connect")
      PROVE  IntroducedOnce(t)
  <2>1. \A i, j \in 1..n : s[i] = "Connect" /\ s[j] = "Connect" => i = j
    BY <1>6 DEF IntroducedOnce, n
  <2>2. m = "Connect" => \A i \in 1..n : s[i] # "Connect"
    BY <1>6 DEF Says, n
  <2>3. \A i, j \in 1..Len(t) : t[i] = "Connect" /\ t[j] = "Connect" => i = j
    BY <1>1, <1>2, <2>1, <2>2
  <2>4. QED
    BY <2>3 DEF IntroducedOnce
<1>7. ASSUME AsksAfter(s), m = "RequestKeyFrame" => Says(s, "Connect")
      PROVE  AsksAfter(t)
  <2>1. SUFFICES ASSUME NEW i \in 1..Len(t), t[i] = "RequestKeyFrame"
                 PROVE  \E j \in 1..(i - 1) : t[j] = "Connect"
    BY DEF AsksAfter
  <2>2. CASE i \in 1..n
    <3>1. PICK j \in 1..(i - 1) : s[j] = "Connect"
      BY <1>1, <1>7, <2>1, <2>2 DEF AsksAfter, n
    <3>2. j \in 1..n
      BY <1>1, <2>2
    <3>3. QED
      BY <1>1, <3>1, <3>2
  <2>3. CASE i = n + 1
    <3>1. PICK j \in 1..n : s[j] = "Connect"
      BY <1>1, <1>7, <2>1, <2>3 DEF Says, n
    <3>2. j \in 1..(i - 1)
      BY <1>1, <2>3
    <3>3. QED
      BY <1>1, <3>1, <3>2
  <2>4. QED
    BY <1>2, <2>2, <2>3
<1>8. QED
  BY <1>1, <1>5, <1>6, <1>7 DEF t

\* Of no messages at all the same is true.
LEMMA Nothing ==
  ~Says(<<>>, "Connect") /\ IntroducedOnce(<<>>) /\ AsksAfter(<<>>)
BY DEF Says, IntroducedOnce, AsksAfter

\* What a send of the caller makes of the messages.
LEMMA SendsOne ==
  ASSUME sent \in Seq(Message), NEW m \in Message, Sends(m)
  PROVE  /\ sent' \in Seq(Message)
         /\ Says(sent', "Connect") <=>
              (Says(sent, "Connect") \/ (m = "Connect" /\ state = "established"))
         /\ IntroducedOnce(sent) /\ (m = "Connect" => ~Says(sent, "Connect"))
              => IntroducedOnce(sent')
         /\ AsksAfter(sent)
              /\ (m = "RequestKeyFrame" /\ state = "established" => Says(sent, "Connect"))
              => AsksAfter(sent')
<1>1. CASE state = "established"
  <2>1. sent' = Append(sent, m)
    BY <1>1 DEF Sends
  <2>2. QED
    BY <1>1, <2>1, Appends
<1>2. CASE state # "established"
  <2>1. sent' = sent
    BY <1>2 DEF Sends
  <2>2. QED
    BY <1>2, <2>1
<1>3. QED
  BY <1>1, <1>2

\* What the message of another thread makes of them.
LEMMA OthersSendOne ==
  ASSUME CInv, OthersSend
  PROVE  /\ sent' \in Seq(Message)
         /\ Silent' <=> Silent
         /\ IntroducedOnce(sent) => IntroducedOnce(sent')
         /\ AsksAfter(sent) => AsksAfter(sent')
<1>1. sent \in Seq(Message) /\ "Other" \in Message
  BY DEF CInv, TypeOK, Message
<1>2. sent' = Append(sent, "Other")
  BY DEF OthersSend
<1>3. QED
  BY <1>1, <1>2, Appends DEF Silent

\* The invariant holds before the first attempt.
LEMMA InitHolds == Init => CInv
<1> SUFFICES ASSUME Init PROVE CInv
  OBVIOUS
<1>1. sent \in Seq(Message)
  BY DEF Init
<1>2. retry \in 0..Retries /\ retry >= 1
  BY RetriesAssumption DEF Init
<1>3. /\ exit \in BOOLEAN /\ first \in BOOLEAN /\ quit \in BOOLEAN
      /\ notified \in BOOLEAN /\ spurious \in BOOLEAN
  BY DEF Init
<1>4. TypeOK
  BY <1>1, <1>2, <1>3 DEF Init, TypeOK
<1>5. BelievesRight /\ LinkOwned /\ ToldToLeave /\ Counted /\ Alone /\ Introduced
  BY <1>2, Nothing
     DEF Init, BelievesRight, LinkOwned, ToldToLeave, Counted, Alone, Introduced, Silent
<1>6. QED
  BY <1>4, <1>5 DEF CInv

-----------------------------------------------------------------------------
(* Each step keeps each part. *)

\* The caller's steps keep the shape.
LEMMA CallerType ==
  ASSUME CInv, Attempt \/ Constructor \/ HeartbeatThread
  PROVE  TypeOK' /\ Counted'
<1> USE DEF CInv, TypeOK, Counted
<1>1. /\ Sends("Connect") => sent' \in Seq(Message)
      /\ Sends("RequestKeyFrame") => sent' \in Seq(Message)
  BY SendsOne DEF Message
<1>2. CASE Attempt
  <2>1. CASE ResetBegins
    BY <2>1 DEF ResetBegins, Goes
  <2>2. CASE ThreadStarts
    <3>1. sent' \in Seq(Message)
      BY <2>2 DEF ThreadStarts
    <3>2. QED
      BY <2>2, <3>1 DEF ThreadStarts, Goes
  <2>3. CASE TestsState
    BY <2>3 DEF TestsState, Goes
  <2>4. CASE EntersWait
    <3>1. notified' \in BOOLEAN
      BY <2>4 DEF EntersWait
    <3>2. /\ at' = "waiting" /\ at # "ended"
          /\ UNCHANGED <<state, exit, ws, link, sent, first, retry, quit, ui, spurious>>
      BY <2>4 DEF EntersWait, Goes
    <3>3. QED
      BY <3>1, <3>2
  <2>5. CASE WakesUp
    <3>1. spurious' = spurious \/ spurious' = TRUE
      BY <2>5 DEF WakesUp
    <3>2. spurious' \in BOOLEAN
      BY <3>1
    <3>3. /\ at = "waiting" /\ at' \in {"refused", "connected"}
          /\ UNCHANGED <<state, exit, ws, link, sent, notified, first, retry, quit, ui>>
      BY <2>5 DEF WakesUp, Goes
    <3>4. QED
      BY <3>2, <3>3
  <2>6. CASE TimesOut
    BY <2>6 DEF TimesOut, Goes
  <2>7. QED
    BY <1>2, <2>1, <2>2, <2>3, <2>4, <2>5, <2>6 DEF Attempt
<1>3. CASE Constructor
  BY <1>1, <1>3 DEF Constructor, ConstructorConnected, ConstructorRefused, Goes
<1>4. CASE HeartbeatThread
  <2>1. CASE HeartbeatConnected
    BY <1>1, <2>1 DEF HeartbeatConnected, Goes
  <2>2. CASE HeartbeatAsks
    BY <1>1, <2>2, RetriesAssumption DEF HeartbeatAsks, Goes
  <2>3. CASE HeartbeatRefused
    BY <2>3, RetriesAssumption DEF HeartbeatRefused, Goes
  <2>4. CASE HeartbeatLoops
    BY <2>4 DEF HeartbeatLoops, Goes
  <2>5. QED
    BY <1>4, <2>1, <2>2, <2>3, <2>4 DEF HeartbeatThread
<1>5. QED
  BY <1>2, <1>3, <1>4

\* So do those of the websocket thread, of the server and of the destructor.
LEMMA OthersType ==
  ASSUME CInv, RunWebSocketClient \/ Server \/ OthersSend \/ DeleteBegins \/ Destructor
           \/ UNCHANGED vars
  PROVE  TypeOK' /\ Counted'
<1> USE DEF CInv, TypeOK, Counted, caller
<1>1. CASE RunWebSocketClient
  <2>1. CASE Connects
    BY <2>1 DEF Connects
  <2>2. CASE Leaves
    BY <2>2 DEF Leaves
  <2>3. CASE ContextDestroyed
    BY <2>3 DEF ContextDestroyed, SetConnectState
  <2>4. CASE SetupFails \/ ServiceFails
    BY <2>4 DEF SetupFails, ServiceFails
  <2>5. QED
    BY <1>1, <2>1, <2>2, <2>3, <2>4 DEF RunWebSocketClient, Progress
<1>2. CASE Server
  <2>1. CASE Established
    BY <2>1 DEF Established, SetConnectState
  <2>2. CASE Refused
    BY <2>2 DEF Refused, SetConnectState
  <2>3. CASE Closed
    BY <2>3 DEF Closed, SetConnectState
  <2>4. QED
    BY <1>2, <2>1, <2>2, <2>3 DEF Server
<1>3. CASE DeleteBegins
  BY <1>3 DEF DeleteBegins
<1>4. CASE Destructor
  <2>1. CASE HeartbeatJoined
    BY <2>1 DEF HeartbeatJoined
  <2>2. CASE GarbageJoined
    BY <2>2 DEF GarbageJoined
  <2>3. CASE ThreadJoined
    BY <2>3 DEF ThreadJoined
  <2>4. QED
    BY <1>4, <2>1, <2>2, <2>3 DEF Destructor
<1>5. CASE OthersSend
  BY <1>5, OthersSendOne DEF OthersSend
<1>6. CASE UNCHANGED vars
  BY <1>6 DEF vars
<1>7. QED
  BY <1>1, <1>2, <1>3, <1>4, <1>5, <1>6

\* The connection and what m_State says of it change together.
LEMMA BelievesStep ==
  ASSUME CInv, [Next]_vars
  PROVE  BelievesRight' /\ LinkOwned' /\ ToldToLeave'
<1> USE DEF CInv, TypeOK, BelievesRight, LinkOwned, ToldToLeave, caller
<1>1. CASE Attempt
  <2>1. CASE ResetBegins
    BY <2>1 DEF ResetBegins, Goes
  <2>2. CASE ThreadStarts
    BY <2>2 DEF ThreadStarts, Goes
  <2>3. CASE TestsState \/ EntersWait \/ WakesUp
    BY <2>3 DEF TestsState, EntersWait, WakesUp, Goes
  <2>4. CASE TimesOut
    BY <2>4 DEF TimesOut, Goes
  <2>5. QED
    BY <1>1, <2>1, <2>2, <2>3, <2>4 DEF Attempt
<1>2. CASE Constructor
  BY <1>2 DEF Constructor, ConstructorConnected, ConstructorRefused, Goes
<1>3. CASE HeartbeatThread
  BY <1>3 DEF HeartbeatThread, HeartbeatConnected, HeartbeatAsks, HeartbeatRefused,
              HeartbeatLoops, Goes
<1>4. CASE RunWebSocketClient
  <2>1. CASE Connects
    BY <2>1 DEF Connects
  <2>2. CASE Leaves
    BY <2>2 DEF Leaves
  <2>3. CASE ContextDestroyed
    BY <2>3 DEF ContextDestroyed, SetConnectState
  <2>4. CASE SetupFails \/ ServiceFails
    BY <2>4 DEF SetupFails, ServiceFails
  <2>5. QED
    BY <1>4, <2>1, <2>2, <2>3, <2>4 DEF RunWebSocketClient, Progress
<1>5. CASE Server
  BY <1>5 DEF Server, Established, Refused, Closed, SetConnectState
<1>6. CASE DeleteBegins \/ Destructor
  BY <1>6 DEF DeleteBegins, Destructor, HeartbeatJoined, GarbageJoined, ThreadJoined
<1>7. CASE OthersSend \/ UNCHANGED vars
  BY <1>7 DEF OthersSend, vars
<1>8. QED
  BY <1>1, <1>2, <1>3, <1>4, <1>5, <1>6, <1>7 DEF Next, Finished

\* Nothing is sent before the constructor's Connect.
LEMMA AloneStep ==
  ASSUME CInv, [Next]_vars
  PROVE  Alone'
<1> USE DEF CInv, TypeOK, Alone, caller
<1>1. CASE Attempt
  BY <1>1 DEF Attempt, ResetBegins, ThreadStarts, TestsState, EntersWait, WakesUp, TimesOut, Goes
<1>2. CASE Constructor
  BY <1>2 DEF Constructor, ConstructorConnected, ConstructorRefused, Goes
<1>3. CASE HeartbeatThread
  BY <1>3 DEF HeartbeatThread, HeartbeatConnected, HeartbeatAsks, HeartbeatRefused,
              HeartbeatLoops, Goes
<1>4. CASE RunWebSocketClient \/ Server
  BY <1>4 DEF RunWebSocketClient, Progress, Connects, Leaves, ContextDestroyed, SetupFails,
              ServiceFails, Server, Established, Refused, Closed
<1>5. CASE OthersSend
  BY <1>5 DEF OthersSend, Constructed
<1>6. CASE DeleteBegins \/ Destructor
  BY <1>6 DEF DeleteBegins, Destructor, HeartbeatJoined, GarbageJoined, ThreadJoined
<1>7. CASE UNCHANGED vars
  BY <1>7 DEF vars
<1>8. QED
  BY <1>1, <1>2, <1>3, <1>4, <1>5, <1>6, <1>7 DEF Next, Finished

\* What the caller's steps do to the messages sent.
LEMMA CallerIntroduces ==
  ASSUME CInv, ~spurious', Attempt \/ Constructor \/ HeartbeatThread
  PROVE  Introduced'
<1> USE DEF CInv, TypeOK, BelievesRight, LinkOwned, ToldToLeave, Introduced, Settled, Silent
<1>1. CASE Attempt
  <2>1. CASE ResetBegins
    BY <2>1 DEF ResetBegins, Goes
  <2>2. CASE ThreadStarts
    BY <2>2, Nothing DEF ThreadStarts, Goes
  <2>3. CASE TestsState
    BY <2>3 DEF TestsState, Goes
  <2>4. CASE EntersWait
    BY <2>4 DEF EntersWait, Goes
  <2>5. CASE WakesUp
    <3>1. notified
      BY <2>5 DEF WakesUp
    <3>2. QED
      BY <2>5, <3>1 DEF WakesUp, Goes
  <2>6. CASE TimesOut
    BY <2>6 DEF TimesOut, Goes
  <2>7. QED
    BY <1>1, <2>1, <2>2, <2>3, <2>4, <2>5, <2>6 DEF Attempt
<1>2. CASE Constructor
  <2>1. CASE ConstructorConnected
    <3>1. /\ at = "connected" /\ at' = "idle" /\ Sends("Connect") /\ ~spurious
          /\ UNCHANGED <<state, ws, link, exit, notified>>
      BY <2>1 DEF ConstructorConnected, Goes
    <3>2. Settled /\ Silent /\ (state = "established" <=> link = "up")
      BY <3>1
    <3>3. /\ Silent' <=> link # "up"
          /\ IntroducedOnce(sent') /\ AsksAfter(sent')
      BY <3>1, <3>2, SendsOne DEF Message
    <3>4. QED
      BY <3>1, <3>2, <3>3
  <2>2. CASE ConstructorRefused
    BY <2>2 DEF ConstructorRefused, Goes
  <2>3. QED
    BY <1>2, <2>1, <2>2 DEF Constructor
<1>3. CASE HeartbeatThread
  <2>1. CASE HeartbeatConnected
    <3>1. /\ at = "connected" /\ at' = "asking" /\ Sends("Connect") /\ ~spurious
          /\ UNCHANGED <<state, ws, link, exit, notified>>
      BY <2>1 DEF HeartbeatConnected, Goes
    <3>2. Settled /\ Silent /\ (state = "established" <=> link = "up")
      BY <3>1
    <3>3. /\ Silent' <=> link # "up"
          /\ IntroducedOnce(sent') /\ AsksAfter(sent')
      BY <3>1, <3>2, SendsOne DEF Message
    <3>4. QED
      BY <3>1, <3>2, <3>3
  <2>2. CASE HeartbeatAsks
    <3>1. /\ at = "asking" /\ at' = "idle"
          /\ Sends("RequestKeyFrame") \/ sent' = sent
          /\ UNCHANGED <<state, ws, link, exit>> /\ ~spurious
      BY <2>2 DEF HeartbeatAsks, Goes
    <3>2. Settled /\ (~Silent \/ link # "up") /\ (state = "established" <=> link = "up")
      BY <3>1
    <3>3. /\ Silent' <=> Silent
          /\ IntroducedOnce(sent') /\ AsksAfter(sent')
      <4>1. CASE Sends("RequestKeyFrame")
        BY <3>1, <3>2, <4>1, SendsOne DEF Message
      <4>2. CASE sent' = sent
        BY <3>1, <4>2
      <4>3. QED
        BY <3>1, <4>1, <4>2
    <3>4. QED
      BY <3>1, <3>2, <3>3
  <2>3. CASE HeartbeatRefused
    BY <2>3 DEF HeartbeatRefused, Goes
  <2>4. CASE HeartbeatLoops
    BY <2>4 DEF HeartbeatLoops, Goes
  <2>5. QED
    BY <1>3, <2>1, <2>2, <2>3, <2>4 DEF HeartbeatThread
<1>4. QED
  BY <1>1, <1>2, <1>3

\* An attempt that is decided stays so, and no other thread sends a Connect.
LEMMA OthersIntroduce ==
  ASSUME CInv, ~spurious',
         RunWebSocketClient \/ Server \/ OthersSend \/ DeleteBegins \/ Destructor
           \/ UNCHANGED vars
  PROVE  Introduced'
<1> USE DEF CInv, TypeOK, BelievesRight, LinkOwned, ToldToLeave, Introduced, Settled, Silent, caller
<1>1. CASE RunWebSocketClient
  <2>1. CASE Connects
    BY <2>1 DEF Connects
  <2>2. CASE Leaves
    BY <2>2 DEF Leaves
  <2>3. CASE ContextDestroyed
    BY <2>3 DEF ContextDestroyed, SetConnectState
  <2>4. CASE SetupFails \/ ServiceFails
    BY <2>4 DEF SetupFails, ServiceFails
  <2>5. QED
    BY <1>1, <2>1, <2>2, <2>3, <2>4 DEF RunWebSocketClient, Progress
<1>2. CASE Server
  <2>1. CASE Established
    BY <2>1 DEF Established, SetConnectState
  <2>2. CASE Refused
    BY <2>2 DEF Refused, SetConnectState
  <2>3. CASE Closed
    BY <2>3 DEF Closed, SetConnectState
  <2>4. QED
    BY <1>2, <2>1, <2>2, <2>3 DEF Server
<1>3. CASE DeleteBegins \/ Destructor
  BY <1>3 DEF DeleteBegins, Destructor, HeartbeatJoined, GarbageJoined, ThreadJoined
<1>4. CASE OthersSend
  BY <1>4, OthersSendOne DEF OthersSend
<1>5. CASE UNCHANGED vars
  BY <1>5 DEF vars
<1>6. QED
  BY <1>1, <1>2, <1>3, <1>4, <1>5

\* Every step keeps the invariant.
LEMMA StepKeeps == CInv /\ [Next]_vars => CInv'
<1> SUFFICES ASSUME CInv, [Next]_vars PROVE CInv'
  OBVIOUS
<1>1. \/ Attempt \/ Constructor \/ HeartbeatThread
      \/ RunWebSocketClient \/ Server \/ OthersSend \/ DeleteBegins \/ Destructor
           \/ UNCHANGED vars
  BY DEF Next, Finished
<1>2. TypeOK' /\ Counted'
  BY <1>1, CallerType, OthersType
<1>3. BelievesRight' /\ LinkOwned' /\ ToldToLeave'
  BY BelievesStep
<1>4. ~spurious' => Introduced'
  BY <1>1, CallerIntroduces, OthersIntroduce
<1>5. spurious' => Introduced'
  BY DEF Introduced
<1>6. Alone'
  BY AloneStep
<1>7. QED
  BY <1>2, <1>3, <1>4, <1>5, <1>6 DEF CInv

-----------------------------------------------------------------------------
\* The invariant holds in every reachable state.
LEMMA Inductive == Spec => []CInv
BY InitHolds, StepKeeps, PTL DEF Spec

\* The state keeps its shape: a heartbeat thread has no fewer than no attempts
\* left, however they fail.
THEOREM TypeCorrect == Spec => []TypeOK
<1>1. CInv => TypeOK
  BY DEF CInv
<1>2. QED
  BY <1>1, Inductive, PTL

\* is_connected() says what the connection is, through timeouts, lost
\* notifications and the end of the websocket thread.
THEOREM StateIsTrue == Spec => []BelievesRight
<1>1. CInv => BelievesRight
  BY DEF CInv
<1>2. QED
  BY <1>1, Inductive, PTL

\* Unless the wait for it was cut short, a connection has at most one Connect, however
\* the other threads' messages fall between, and the heartbeat thread's request comes
\* after it; nothing comes before that of the constructor unless it has given up.
THEOREM IntroducesOnce == Spec => []Introduces
<1>1. CInv => Introduces
  BY DEF CInv, Alone, Introduced, Introduces
<1>2. QED
  BY <1>1, Inductive, PTL

\* Unless the wait for it was cut short, no connection stands that the session
\* does not know the user of.
THEOREM StandsAnnounced == Spec => []Announced
<1>1. CInv => Announced
  BY DEF CInv, Introduced, Announced, Silent
<1>2. QED
  BY <1>1, Inductive, PTL
=============================================================================
