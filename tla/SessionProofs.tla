--------------------------- MODULE SessionProofs ---------------------------
(***************************************************************************)
(* Theorems about Session, for any number of sockets, users and sequence   *)
(* numbers, whatever the clients send.                                     *)
(***************************************************************************)
EXTENDS Session, ClientTableProofs

-----------------------------------------------------------------------------
(* Messages the handlers write are well typed. *)

\* What Deliver writes is a set of addressed messages.
LEMMA DeliverType ==
  ASSUME NEW cs \in Seq(Conn), NEW I, I \subseteq DOMAIN cs, NEW m \in Message
  PROVE  Deliver(cs, I, m) \subseteq [to: Wsi, msg: Message]
<1>1. ASSUME NEW i \in I
      PROVE  [to |-> cs[i].wsi, msg |-> m] \in [to: Wsi, msg: Message]
  <2>1. cs[i].wsi \in Wsi
    BY TableElements DEF Conn
  <2>2. QED
    BY <2>1
<1>2. QED
  BY <1>1 DEF Deliver

\* Every selection of clients is a set of positions of the table.
LEMMA PositionsInTable ==
  ASSUME NEW cs \in Seq(Conn), NEW u, NEW w, NEW idr
  PROVE  /\ FirstOf(Named(cs, u)) \subseteq DOMAIN cs
         /\ FirstOf(Controllers(cs)) \subseteq DOMAIN cs
         /\ Publishers(cs) \subseteq DOMAIN cs
         /\ Viewers(cs) \subseteq DOMAIN cs
         /\ Forwarded(cs, idr) \subseteq DOMAIN cs
         /\ At(cs, w) \subseteq DOMAIN cs
         /\ DOMAIN cs \ At(cs, w) \subseteq DOMAIN cs
BY DEF FirstOf, Named, Controllers, Publishers, Viewers, Forwarded, At

\* A message without a number is a message.
LEMMA PlainType ==
  ASSUME NEW t \in {"StartStream", "StopStream", "StartStreamAck", "StopStreamAck",
                    "RequestKeyFrame", "StreamQuit", "AudioData", "Message", "MessageAck"}
  PROVE  Plain(t) \in Message
BY DEF Plain, Message

\* So is a frame or an acknowledgement.
LEMMA NumberedType ==
  ASSUME NEW n \in Num, NEW idr \in BOOLEAN
  PROVE  /\ Frame(idr, n) \in Message
         /\ [type |-> "VideoAck", num |-> n] \in Message
         /\ [type |-> "DropAck", num |-> n] \in Message
BY DEF Frame, Message

\* The name of a selection is a user's, or none.
LEMMA NameType ==
  ASSUME NEW cs \in Seq(Conn), NEW I, I \subseteq DOMAIN cs
  PROVE  NameOf(cs, I) \in User \cup {NoUser}
<1>1. CASE I = {}
  BY <1>1 DEF NameOf
<1>2. CASE I # {}
  <2>1. LastOf(I) # {} /\ LastOf(I) \subseteq I
    <3>1. I \in SUBSET (1..Len(cs)) /\ Len(cs) \in Nat
      BY TableElements
    <3>2. QED
      BY <1>2, <3>1, LastExists
  <2>2. (CHOOSE i \in LastOf(I) : TRUE) \in 1..Len(cs)
    BY <2>1, TableElements
  <2>3. QED
    BY <1>2, <2>2, TableElements DEF NameOf, Conn
<1>3. QED
  BY <1>1, <1>2

\* So the heartbeat's content is a message.
LEMMA HeartbeatType ==
  ASSUME NEW cs \in Seq(Conn)
  PROVE  HeartbeatInfo(cs) \in Message
<1>1. Publishers(cs) \subseteq DOMAIN cs /\ Controllers(cs) \subseteq DOMAIN cs
  BY DEF Publishers, Controllers
<1>2. /\ NameOf(cs, Publishers(cs)) \in User \cup {NoUser}
      /\ NameOf(cs, Controllers(cs)) \in User \cup {NoUser}
  BY <1>1, NameType
<1>3. QED
  BY <1>2 DEF HeartbeatInfo, Message

-----------------------------------------------------------------------------
(* Type correctness. *)

\* What every message handler has in common.
LEMMA HandledType ==
  ASSUME TypeOK, NEW cs \in Seq(Conn), NEW o, o \subseteq [to: Wsi, msg: Message],
         Handled(cs, o)
  PROVE  TypeOK'
BY DEF TypeOK, Handled

\* Every message handler keeps the shape.
LEMMA MessageType ==
  ASSUME TypeOK, NEW w \in Wsi, Messages(w)
  PROVE  TypeOK'
<1> USE HandledType
<1>0. conns \in Seq(Conn)
  BY DEF TypeOK
<1> USE <1>0, DeliverType, PositionsInTable, PlainType
<1>1. ASSUME NEW u \in User, StartStream(w, u)
      PROVE  TypeOK'
  <2>1. AfterStart(conns, u) \in Seq(Conn)
    BY StartKeepsClients DEF SameClients
  <2>2. Deliver(conns, FirstOf(Named(conns, u)), Plain("StartStream")) \subseteq [to: Wsi, msg: Message]
    OBVIOUS
  <2>3. QED
    BY <1>1, <2>1, <2>2 DEF StartStream
<1>2. ASSUME NEW u \in User, AssignController(w, u)
      PROVE  TypeOK'
  <2>1. AfterAssign(conns, u) \in Seq(Conn)
    BY AssignKeepsClients DEF SameClients
  <2>2. QED
    BY <1>2, <2>1 DEF AssignController
<1>3. CASE StartStreamAck(w)
  <2>1. Deliver(conns, FirstOf(Controllers(conns)), Plain("StartStreamAck")) \subseteq [to: Wsi, msg: Message]
    OBVIOUS
  <2>2. QED
    BY <1>3, <2>1 DEF StartStreamAck
<1>4. CASE StopStream(w)
  <2>1. AfterStop(conns) \in Seq(Conn)
    BY StopKeepsClients DEF SameClients
  <2>2. Deliver(conns, Publishers(conns), Plain("StopStream")) \subseteq [to: Wsi, msg: Message]
    OBVIOUS
  <2>3. QED
    BY <1>4, <2>1, <2>2 DEF StopStream
<1>5. CASE StopStreamAck(w)
  <2>1. Deliver(conns, FirstOf(Controllers(conns)), Plain("StopStreamAck")) \subseteq [to: Wsi, msg: Message]
    OBVIOUS
  <2>2. QED
    BY <1>5, <2>1 DEF StopStreamAck
<1>6. ASSUME NEW idr \in BOOLEAN, NEW n \in Num, VideoData(w, idr, n)
      PROVE  TypeOK'
  <2>1. AfterFrame(conns, idr) \in Seq(Conn)
    BY FrameKeepsClients DEF SameClients
  <2>2. Deliver(conns, Forwarded(conns, idr), Frame(idr, n)) \subseteq [to: Wsi, msg: Message]
    BY NumberedType
  <2>3. {[to |-> w, msg |-> [type |-> "DropAck", num |-> n]] : i \in Swallowed(conns, idr)}
          \subseteq [to: Wsi, msg: Message]
    <3>1. [to |-> w, msg |-> [type |-> "DropAck", num |-> n]] \in [to: Wsi, msg: Message]
      BY NumberedType
    <3>2. QED
      BY <3>1
  <2>4. QED
    BY <1>6, <2>1, <2>2, <2>3 DEF VideoData
<1>7. ASSUME NEW n \in Num, VideoAck(w, n)
      PROVE  TypeOK'
  <2>1. Deliver(conns, Publishers(conns), [type |-> "VideoAck", num |-> n]) \subseteq [to: Wsi, msg: Message]
    BY NumberedType
  <2>2. QED
    BY <1>7, <2>1 DEF VideoAck
<1>8. ASSUME NEW ok \in SUBSET DOMAIN conns, RequestKeyFrame(w, ok)
      PROVE  TypeOK'
  <2>1. AfterKeyRequest(conns, ok) \in Seq(Conn)
    BY KeyRequestKeepsClients DEF SameClients
  <2>2. ok \subseteq DOMAIN conns
    BY <1>8 DEF RequestKeyFrame
  <2>3. Deliver(conns, ok, Plain("RequestKeyFrame")) \subseteq [to: Wsi, msg: Message]
    BY <2>2
  <2>4. QED
    BY <1>8, <2>1, <2>3 DEF RequestKeyFrame
<1>9. CASE AudioData(w)
  <2>1. Deliver(conns, Viewers(conns), Plain("AudioData")) \subseteq [to: Wsi, msg: Message]
    OBVIOUS
  <2>2. QED
    BY <1>9, <2>1 DEF AudioData
<1>10. CASE StreamQuit(w)
  <2>1. AfterStop(conns) \in Seq(Conn)
    BY StopKeepsClients DEF SameClients
  <2>2. Deliver(conns, Viewers(conns), Plain("StreamQuit")) \subseteq [to: Wsi, msg: Message]
    OBVIOUS
  <2>3. QED
    BY <1>10, <2>1, <2>2 DEF StreamQuit
<1>11. CASE TextMessage(w)
  <2>1. Deliver(conns, At(conns, w), Plain("MessageAck")) \subseteq [to: Wsi, msg: Message]
    OBVIOUS
  <2>2. Deliver(conns, DOMAIN conns \ At(conns, w), Plain("Message")) \subseteq [to: Wsi, msg: Message]
    OBVIOUS
  <2>3. QED
    BY <1>11, <2>1, <2>2 DEF TextMessage
<1>12. QED
  BY ONLY Messages(w), <1>1, <1>2, <1>3, <1>4, <1>5, <1>6, <1>7, <1>8, <1>9, <1>10, <1>11
     DEF Messages

\* The heartbeat walk, SIGALRM and the end of the process.
LEMMA MainType ==
  ASSUME TypeOK, Main
  PROVE  TypeOK'
<1>0. conns \in Seq(Conn) /\ <<>> \in Seq(Conn)
  BY DEF TypeOK
<1>1. CASE HeartbeatStarts
  BY <1>1 DEF HeartbeatStarts, TypeOK
<1>2. CASE HeartbeatServes
  <2>1. Deliver(conns, {beat}, HeartbeatInfo(conns)) \subseteq [to: Wsi, msg: Message]
    BY <1>0, <1>2, HeartbeatType, DeliverType DEF HeartbeatServes
  <2>2. beat + 1 \in Nat
    BY DEF TypeOK
  <2>3. QED
    BY <1>2, <2>1, <2>2 DEF HeartbeatServes, TypeOK
<1>3. CASE HeartbeatEnds
  BY <1>3 DEF HeartbeatEnds, TypeOK
<1>4. CASE IteratorCrash
  BY <1>0, <1>4 DEF IteratorCrash, Gone, TypeOK
<1>5. CASE AlarmFires
  BY <1>5 DEF AlarmFires, TypeOK
<1>6. CASE RunLeaves
  BY <1>6 DEF RunLeaves, TypeOK
<1>7. CASE ServerStops
  BY <1>0, <1>7 DEF ServerStops, Gone, TypeOK
<1>8. QED
  BY <1>1, <1>2, <1>3, <1>4, <1>5, <1>6, <1>7 DEF Main, Heartbeat

\* Sockets opening, registering and closing, and the passing of time.
LEMMA ConnectionType ==
  ASSUME TypeOK, NEW w \in Wsi, Connections(w)
  PROVE  TypeOK'
<1>0. conns \in Seq(Conn)
  BY DEF TypeOK
<1>1. CASE Established(w)
  BY <1>1 DEF Established, TypeOK
<1>2. ASSUME NEW u \in User, NEW c \in BOOLEAN, NEW p \in BOOLEAN, Connect(w, u, c, p)
      PROVE  TypeOK'
  <2>1. NewConn(w, u, c, p) \in Conn
    BY DEF NewConn, Conn
  <2>2. Appended(conns, NewConn(w, u, c, p)) \in Seq(Conn)
    BY <1>0, <2>1 DEF Appended
  <2>3. QED
    BY <1>2, <2>2 DEF Connect, TableChanged, TypeOK
<1>3. CASE Closed(w)
  <2>1. AfterClose(conns, w) \in Seq(Conn)
    BY <1>0, CloseType
  <2>2. conns' \in Seq(Conn) /\ sock' \in [Wsi -> {"closed", "open", "joined"}]
    BY <1>3, <2>1 DEF Closed, TypeOK
  <2>3. alarm' \in BOOLEAN /\ stale' \in BOOLEAN /\ out' = {}
    BY <1>3 DEF Closed, TableChanged, TypeOK
  <2>4. QED
    BY <1>3, <2>2, <2>3 DEF Closed, TypeOK
<1>4. QED
  BY <1>1, <1>2, <1>3 DEF Connections

\* The end of a 500 ms window touches that window only.
LEMMA KeyWindowKeepsClients ==
  ASSUME NEW cs \in Seq(Conn), NEW i \in 1..Len(cs)
  PROVE  /\ SameClients(cs, [cs EXCEPT ![i].recent = FALSE])
         /\ SameControllers(cs, [cs EXCEPT ![i].recent = FALSE])
<1> DEFINE c == [cs[i] EXCEPT !.recent = FALSE]
<1>1. /\ c \in Conn
      /\ c.wsi = cs[i].wsi /\ c.user = cs[i].user /\ (c.controller <=> cs[i].controller)
  BY TableElements DEF Conn
<1> HIDE DEF c
<1>2. [cs EXCEPT ![i] = c] \in [1..Len(cs) -> Conn]
  BY <1>1, TableElements
<1>3. SameClients(cs, [cs EXCEPT ![i] = c]) /\ SameControllers(cs, [cs EXCEPT ![i] = c])
  BY <1>1, <1>2, TableOf, TableElements DEF SameClients, SameControllers
<1>4. QED
  BY <1>3 DEF c

\* It keeps the shape.
LEMMA KeyWindowType ==
  ASSUME TypeOK, NEW i \in DOMAIN conns, KeyWindowPasses(i)
  PROVE  TypeOK'
<1>1. [conns EXCEPT ![i].recent = FALSE] \in Seq(Conn)
  BY KeyWindowKeepsClients, TableElements DEF SameClients, TypeOK
<1>2. QED
  BY <1>1 DEF KeyWindowPasses, Handled, TypeOK

\* Every step keeps the shape.
LEMMA TypeStep ==
  ASSUME TypeOK, [Next]_vars
  PROVE  TypeOK'
<1>1. CASE UNCHANGED vars
  BY <1>1 DEF vars, TypeOK
<1>2. CASE Finished
  BY <1>2 DEF Finished, vars, TypeOK
<1>3. QED
  BY <1>1, <1>2, ConnectionType, MessageType, KeyWindowType, MainType DEF Next

\* The initial state has it.
LEMMA TypeInit == Init => TypeOK
<1> SUFFICES ASSUME Init PROVE TypeOK
  OBVIOUS
<1>1. conns \in Seq(Conn) /\ out \subseteq [to: Wsi, msg: Message]
  BY DEF Init
<1>2. sock \in [Wsi -> {"closed", "open", "joined"}]
  BY DEF Init
<1>3. /\ claimed \in BOOLEAN /\ alarm \in BOOLEAN /\ exit \in BOOLEAN /\ stale \in BOOLEAN
      /\ proc \in {"running", "stopping", "ended", "crashed"} /\ beat \in Nat
  BY DEF Init
<1>4. QED
  BY <1>1, <1>2, <1>3 DEF TypeOK

\* Every variable keeps its type; in particular everything the session
\* writes is a well-formed message to one of its sockets, and the heartbeat
\* names a user or nobody.
THEOREM TypeCorrect == Spec => []TypeOK
BY TypeInit, TypeStep, PTL DEF Spec

-----------------------------------------------------------------------------
(* What the steps do to the table, for the invariants below. *)

\* A message changes flags only, and control only by an assignment.
LEMMA MessageKeeps ==
  ASSUME TypeOK, NEW w \in Wsi, Messages(w)
  PROVE  /\ SameClients(conns, conns')
         /\ UNCHANGED <<sock, claimed>>
         /\ \/ SameControllers(conns, conns')
            \/ \E u \in User : AssignController(w, u) /\ conns' = AfterAssign(conns, u)
<1>0. conns \in Seq(Conn) /\ SameClients(conns, conns) /\ SameControllers(conns, conns)
  BY DEF TypeOK, SameClients, SameControllers
<1>1. ASSUME NEW u \in User, StartStream(w, u)
      PROVE  /\ SameClients(conns, conns') /\ UNCHANGED <<sock, claimed>>
             /\ SameControllers(conns, conns')
  BY <1>0, <1>1, StartKeepsClients DEF StartStream, Handled
<1>2. ASSUME NEW u \in User, AssignController(w, u)
      PROVE  /\ SameClients(conns, conns') /\ UNCHANGED <<sock, claimed>>
             /\ conns' = AfterAssign(conns, u)
  BY <1>0, <1>2, AssignKeepsClients DEF AssignController, Handled
<1>3. CASE StopStream(w) \/ StreamQuit(w)
  BY <1>0, <1>3, StopKeepsClients DEF StopStream, StreamQuit, Handled
<1>4. ASSUME NEW idr \in BOOLEAN, NEW n \in Num, VideoData(w, idr, n)
      PROVE  /\ SameClients(conns, conns') /\ UNCHANGED <<sock, claimed>>
             /\ SameControllers(conns, conns')
  BY <1>0, <1>4, FrameKeepsClients DEF VideoData, Handled
<1>5. ASSUME NEW ok \in SUBSET DOMAIN conns, RequestKeyFrame(w, ok)
      PROVE  /\ SameClients(conns, conns') /\ UNCHANGED <<sock, claimed>>
             /\ SameControllers(conns, conns')
  BY <1>0, <1>5, KeyRequestKeepsClients DEF RequestKeyFrame, Handled
<1>6. CASE \/ StartStreamAck(w) \/ StopStreamAck(w) \/ AudioData(w) \/ TextMessage(w)
           \/ \E n \in Num : VideoAck(w, n)
  BY <1>0, <1>6 DEF StartStreamAck, StopStreamAck, AudioData, TextMessage, VideoAck, Handled
<1>7. QED
  BY ONLY Messages(w), <1>1, <1>2, <1>3, <1>4, <1>5, <1>6 DEF Messages

\* For the table's clients and controllers, the end of a window is nothing.
LEMMA KeyWindowKeeps ==
  ASSUME TypeOK, NEW i \in DOMAIN conns, KeyWindowPasses(i)
  PROVE  /\ SameClients(conns, conns') /\ UNCHANGED <<sock, claimed>>
         /\ SameControllers(conns, conns')
BY KeyWindowKeepsClients, TableElements DEF KeyWindowPasses, Handled, TypeOK

\* The main thread only reads the table, until the process is gone.
Emptied == conns' = <<>> /\ sock' = [w \in Wsi |-> "closed"] /\ claimed' = claimed

\* The main thread changes no entry, or ends the process.
LEMMA MainKeeps ==
  ASSUME Main
  PROVE  UNCHANGED <<conns, sock, claimed>> \/ Emptied
BY DEF Main, Heartbeat, HeartbeatStarts, HeartbeatServes, HeartbeatEnds, IteratorCrash,
       AlarmFires, RunLeaves, ServerStops, Gone, Emptied

\* Every step, seen through the table, the sockets and the claim.
LEMMA StepCases ==
  ASSUME TypeOK, [Next]_vars
  PROVE  \/ \E w \in Wsi : Connections(w)
         \/ /\ SameClients(conns, conns') /\ UNCHANGED <<sock, claimed>>
            /\ \/ SameControllers(conns, conns')
               \/ \E w \in Wsi, u \in User :
                     AssignController(w, u) /\ conns' = AfterAssign(conns, u)
         \/ Emptied
<1>0. SameClients(conns, conns) /\ SameControllers(conns, conns)
  BY DEF TypeOK, SameClients, SameControllers
<1>1. CASE UNCHANGED vars \/ Finished
  BY <1>0, <1>1 DEF Finished, vars
<1>2. CASE Main
  BY <1>0, <1>2, MainKeeps
<1>3. ASSUME NEW w \in Wsi, Messages(w)
      PROVE  /\ SameClients(conns, conns') /\ UNCHANGED <<sock, claimed>>
             /\ \/ SameControllers(conns, conns')
                \/ \E x \in Wsi, u \in User :
                      AssignController(x, u) /\ conns' = AfterAssign(conns, u)
  BY <1>3, MessageKeeps
<1>4. ASSUME NEW i \in DOMAIN conns, KeyWindowPasses(i)
      PROVE  /\ SameClients(conns, conns') /\ UNCHANGED <<sock, claimed>>
             /\ SameControllers(conns, conns')
  BY <1>4, KeyWindowKeeps
<1>5. QED
  BY <1>1, <1>2, <1>3, <1>4 DEF Next

-----------------------------------------------------------------------------
(* The table and the sockets. *)

\* A close drops exactly the connection of its socket.
LEMMA CloseDropsOne ==
  ASSUME TypeOK, ConnsMatchSockets, NEW w \in Wsi, Closed(w)
  PROVE  ConnsMatchSockets'
<1> DEFINE n == Len(conns)
<1>0. /\ conns \in Seq(Conn) /\ n \in Nat /\ DOMAIN conns = 1..n
      /\ conns' = AfterClose(conns, w)
      /\ sock' = [sock EXCEPT ![w] = "closed"]
  BY TableElements DEF TypeOK, Closed
<1>1. CASE At(conns, w) = {} /\ conns' = conns
  <2>1. sock[w] # "joined" /\ sock'[w] # "joined"
    BY <1>0, <1>1 DEF ConnsMatchSockets, TypeOK
  <2>2. \A v \in Wsi : v # w => sock'[v] = sock[v]
    BY <1>0 DEF TypeOK
  <2>3. \A v : At(conns', v) = At(conns, v)
    BY <1>1 DEF At
  <2>4. \A v \in Wsi : sock'[v] = "joined" <=> At(conns', v) # {}
    BY <1>1, <2>1, <2>2, <2>3 DEF ConnsMatchSockets
  <2>5. QED
    BY <1>1, <2>4 DEF ConnsMatchSockets
<1>2. ASSUME NEW i \in At(conns, w), i \in 1..n,
             conns' = IF conns[i].controller
                        THEN WithController(Without(conns, i), {1})
                        ELSE Without(conns, i)
      PROVE  ConnsMatchSockets'
  <2>1. /\ DOMAIN conns' = 1..(n - 1)
        /\ \A j \in 1..(n - 1) : conns'[j].wsi = conns[Origin(i, j)].wsi
    <3>1. /\ conns' \in Seq(Conn) /\ Len(conns') = n - 1
          /\ \A j \in 1..(n - 1) : conns'[j].wsi = conns[Origin(i, j)].wsi
      <4>1. /\ conns' \in Seq(Conn) /\ Len(conns') = Len(conns) - 1
            /\ \A j \in 1..(Len(conns) - 1) :
                 /\ conns'[j].wsi = conns[Origin(i, j)].wsi
                 /\ conns'[j].user = conns[Origin(i, j)].user
                 /\ conns'[j].controller <=>
                      (conns[Origin(i, j)].controller \/ (conns[i].controller /\ j = 1))
        BY <1>0, <1>2, EraseProperties
      <4>2. QED
        BY <4>1
    <3>2. QED
      BY <3>1, TableElements
  <2>2. /\ \A j \in 1..(n - 1) : Origin(i, j) \in 1..n /\ Origin(i, j) # i
        /\ \A j, k \in 1..(n - 1) : Origin(i, j) = Origin(i, k) => j = k
        /\ \A k \in 1..n : k # i => \E j \in 1..(n - 1) : Origin(i, j) = k
    BY <1>0, <1>2, OriginProperties
  <2>5. \A j, k \in DOMAIN conns' : conns'[j].wsi = conns'[k].wsi => j = k
    <3> SUFFICES ASSUME NEW j \in 1..(n - 1), NEW k \in 1..(n - 1),
                        conns'[j].wsi = conns'[k].wsi
                 PROVE  j = k
      BY <2>1
    <3>1. conns[Origin(i, j)].wsi = conns[Origin(i, k)].wsi
      BY <2>1
    <3>2. Origin(i, j) = Origin(i, k)
      BY <1>0, <2>2, <3>1 DEF ConnsMatchSockets
    <3>3. QED
      BY <2>2, <3>2
  <2>6. conns[i].wsi = w
    BY <1>2 DEF At
  <2>7. At(conns', w) = {} /\ sock'[w] # "joined"
    <3>1. ASSUME NEW j \in 1..(n - 1), conns'[j].wsi = w
          PROVE  FALSE
      <4>1. Origin(i, j) \in DOMAIN conns /\ Origin(i, j) # i /\ i \in DOMAIN conns
        BY <1>0, <1>2, <2>2 DEF At
      <4>2. conns[Origin(i, j)].wsi = conns[i].wsi
        BY <2>1, <2>6, <3>1
      <4>3. QED
        BY <4>1, <4>2 DEF ConnsMatchSockets
    <3>2. QED
      BY <1>0, <2>1, <3>1 DEF At, TypeOK
  <2>8. ASSUME NEW v \in Wsi, v # w
        PROVE  sock'[v] = "joined" <=> At(conns', v) # {}
    <3>1. sock'[v] = sock[v]
      BY <1>0, <2>8 DEF TypeOK
    <3>2. At(conns', v) # {} => At(conns, v) # {}
      BY <1>0, <2>1, <2>2 DEF At
    <3>3. At(conns, v) # {} => At(conns', v) # {}
      <4> SUFFICES ASSUME NEW k \in 1..n, conns[k].wsi = v
                   PROVE  At(conns', v) # {}
        BY <1>0 DEF At
      <4>1. PICK j \in 1..(n - 1) : Origin(i, j) = k
        BY <2>2, <2>6, <2>8
      <4>2. j \in At(conns', v)
        BY <2>1, <4>1 DEF At
      <4>3. QED
        BY <4>2
    <3>4. QED
      BY <3>1, <3>2, <3>3 DEF ConnsMatchSockets
  <2>9. QED
    BY <2>5, <2>7, <2>8 DEF ConnsMatchSockets
<1>3. QED
  <2>1. \/ At(conns, w) = {} /\ conns' = conns
        \/ \E i \in At(conns, w) :
              /\ i \in 1..n
              /\ conns' = IF conns[i].controller
                            THEN WithController(Without(conns, i), {1})
                            ELSE Without(conns, i)
    BY <1>0, CloseProperties
  <2>2. QED
    BY <1>1, <1>2, <2>1

\* Connect appends a socket that was not in the table.
LEMMA ConnectAddsOne ==
  ASSUME TypeOK, ConnsMatchSockets, NEW w \in Wsi, NEW u \in User, NEW c, NEW p,
         Connect(w, u, c, p)
  PROVE  ConnsMatchSockets'
<1> DEFINE n == Len(conns)
<1>1. /\ conns \in Seq(Conn) /\ n \in Nat /\ DOMAIN conns = 1..n
      /\ conns' = Append(conns, NewConn(w, u, c, p))
      /\ sock' = [sock EXCEPT ![w] = "joined"] /\ sock[w] = "open"
  BY TableElements DEF TypeOK, Connect, Appended
<1>2. /\ DOMAIN conns' = 1..(n + 1)
      /\ \A i \in 1..n : conns'[i] = conns[i]
      /\ conns'[n + 1].wsi = w
  BY <1>1 DEF NewConn
<1>3. \A i \in 1..n : conns[i].wsi # w
  BY <1>1 DEF ConnsMatchSockets, At
<1>4. \A i, j \in DOMAIN conns' : conns'[i].wsi = conns'[j].wsi => i = j
  BY <1>1, <1>2, <1>3 DEF ConnsMatchSockets
<1>5. ASSUME NEW v \in Wsi
      PROVE  sock'[v] = "joined" <=> At(conns', v) # {}
  <2>1. CASE v = w
    BY <1>1, <1>2, <2>1 DEF At, TypeOK
  <2>2. CASE v # w
    <3>1. sock'[v] = sock[v]
      BY <1>1, <2>2 DEF TypeOK
    <3>2. At(conns', v) = At(conns, v)
      BY <1>1, <1>2, <2>2 DEF At
    <3>3. QED
      BY <3>1, <3>2 DEF ConnsMatchSockets
  <2>3. QED
    BY <2>1, <2>2
<1>6. QED
  BY <1>4, <1>5 DEF ConnsMatchSockets

\* Every step keeps table and sockets in agreement.
LEMMA SocketsStep ==
  ASSUME TypeOK, ConnsMatchSockets, [Next]_vars
  PROVE  ConnsMatchSockets'
<1>1. CASE SameClients(conns, conns') /\ UNCHANGED <<sock, claimed>>
  <2>1. DOMAIN conns' = DOMAIN conns /\ \A i \in DOMAIN conns : conns'[i].wsi = conns[i].wsi
    BY <1>1, TableElements DEF SameClients, TypeOK
  <2>2. \A w : At(conns', w) = At(conns, w)
    BY <2>1 DEF At
  <2>3. QED
    BY <1>1, <2>1, <2>2 DEF ConnsMatchSockets
<1>2. CASE Emptied
  <2>1. DOMAIN conns' = {} /\ \A w \in Wsi : sock'[w] = "closed" /\ At(conns', w) = {}
    BY <1>2 DEF Emptied, At
  <2>2. QED
    BY <2>1 DEF ConnsMatchSockets
<1>3. ASSUME NEW w \in Wsi, Established(w)
      PROVE  ConnsMatchSockets'
  <2>1. /\ conns' = conns
        /\ \A v \in Wsi : sock'[v] = "joined" <=> sock[v] = "joined"
    BY <1>3 DEF Established, TypeOK
  <2>2. QED
    BY <2>1 DEF ConnsMatchSockets, At
<1>4. QED
  BY <1>1, <1>2, <1>3, StepCases, CloseDropsOne, ConnectAddsOne DEF Connections

\* The table holds every joined socket exactly once, and nothing else, in
\* every state of every session: on_connection_closed removes the entry of
\* the socket that closed, and no other handler moves one.
THEOREM SocketsMatch == Spec => []ConnsMatchSockets
<1>1. Init => ConnsMatchSockets
  BY DEF Init, ConnsMatchSockets, At
<1>2. TypeOK /\ ConnsMatchSockets /\ [Next]_vars => ConnsMatchSockets'
  BY SocketsStep
<1>3. QED
  BY <1>1, <1>2, TypeCorrect, PTL DEF Spec

-----------------------------------------------------------------------------
(* Control of the room. *)

\* What is said of the table: every name is there once.
NamesDiffer(cs) == \A i, j \in DOMAIN cs : cs[i].user = cs[j].user => i = j

\* Inductive strengthening of AtMostOneController: names are unique, so an
\* assignment picks at most one connection; before the creator's claim that one
\* is all there is, and the claim, which comes once, adds one to it.
ControlInv ==
  ~Ghosts =>
    /\ NamesDiffer(conns)
    /\ ~claimed => OneControls(conns)
    /\ TwoControl(conns)

\* No step but the claim makes a second controller.
ControlPasses ==
  ~Ghosts /\ OneControls(conns) => OneControls(conns)' \/ (claimed' /\ ~claimed)

\* Leaving out the entry at i, and handing its control on, adds no controller.
LEMMA ErasedControl ==
  ASSUME NEW cs \in Seq(Conn), NEW i \in 1..Len(cs), NEW ds,
         ds = IF cs[i].controller THEN WithController(Without(cs, i), {1}) ELSE Without(cs, i)
  PROVE  /\ NamesDiffer(cs) => NamesDiffer(ds)
         /\ OneControls(cs) => OneControls(ds)
         /\ TwoControl(cs) => TwoControl(ds)
<1> DEFINE n == Len(cs)
           From(j) == IF cs[i].controller /\ j = 1 /\ ~cs[Origin(i, j)].controller
                        THEN i ELSE Origin(i, j)
<1>1. /\ ds \in Seq(Conn) /\ Len(ds) = n - 1
      /\ \A j \in 1..(n - 1) :
           /\ ds[j].user = cs[Origin(i, j)].user
           /\ ds[j].controller <=>
                (cs[Origin(i, j)].controller \/ (cs[i].controller /\ j = 1))
  BY EraseProperties
<1>2. DOMAIN ds = 1..(n - 1) /\ DOMAIN cs = 1..n /\ n \in Nat
  BY <1>1, TableElements
<1>3. /\ \A j \in 1..(n - 1) : Origin(i, j) \in 1..n /\ Origin(i, j) # i
      /\ \A j, k \in 1..(n - 1) : Origin(i, j) = Origin(i, k) => j = k
  <2>1. n \in Nat /\ i \in 1..n
    BY <1>2
  <2>2. QED
    BY <2>1, OriginProperties
<1>4. \A j \in 1..(n - 1) : From(j) \in 1..n
  BY <1>3
<1>5. \A j \in 1..(n - 1) : ds[j].controller => cs[From(j)].controller
  BY <1>1
<1>6. \A j, k \in 1..(n - 1) : From(j) = From(k) => j = k
  BY <1>3
<1> HIDE DEF From, n
<1>7. ASSUME NamesDiffer(cs) PROVE NamesDiffer(ds)
  <2> SUFFICES ASSUME NEW j \in 1..(n - 1), NEW k \in 1..(n - 1), ds[j].user = ds[k].user
               PROVE  j = k
    BY <1>2 DEF NamesDiffer
  <2>1. /\ cs[Origin(i, j)].user = cs[Origin(i, k)].user
        /\ Origin(i, j) \in DOMAIN cs /\ Origin(i, k) \in DOMAIN cs
    BY <1>1, <1>2, <1>3
  <2>2. Origin(i, j) = Origin(i, k)
    BY <1>7, <2>1 DEF NamesDiffer
  <2>3. QED
    BY <1>3, <2>2
<1>8. /\ \A j \in Controllers(ds) : j \in 1..(n - 1) /\ From(j) \in Controllers(cs)
      /\ \A j, k \in Controllers(ds) : From(j) = From(k) => j = k
  BY <1>2, <1>4, <1>5, <1>6 DEF Controllers
<1>9. OneControls(cs) => OneControls(ds)
  BY ONLY <1>8 DEF OneControls
<1>10. TwoControl(cs) => TwoControl(ds)
  <2> SUFFICES ASSUME TwoControl(cs), NEW j \in Controllers(ds), NEW k \in Controllers(ds),
                      NEW l \in Controllers(ds)
               PROVE  j = k \/ k = l \/ j = l
    BY DEF TwoControl
  <2>1. From(j) = From(k) \/ From(k) = From(l) \/ From(j) = From(l)
    BY <1>8 DEF TwoControl
  <2>2. QED
    BY <1>8, <2>1
<1>11. QED
  BY <1>7, <1>9, <1>10

\* A close keeps the controllers there are, or promotes the first client left.
LEMMA ControlClose ==
  ASSUME TypeOK, ControlInv, NEW w \in Wsi, Closed(w)
  PROVE  ControlInv' /\ ControlPasses
<1>0. /\ conns \in Seq(Conn) /\ conns' = AfterClose(conns, w)
      /\ UNCHANGED claimed
  BY DEF TypeOK, Closed
<1>1. \/ conns' = conns
      \/ \E i \in 1..Len(conns) : conns' = IF conns[i].controller
                                             THEN WithController(Without(conns, i), {1})
                                             ELSE Without(conns, i)
  BY <1>0, CloseProperties
<1>2. /\ NamesDiffer(conns) => NamesDiffer(conns')
      /\ OneControls(conns) => OneControls(conns')
      /\ TwoControl(conns) => TwoControl(conns')
  <2>1. PICK ds : ds = conns'
    OBVIOUS
  <2>2. CASE conns' = conns
    BY <2>2
  <2>3. ASSUME NEW i \in 1..Len(conns),
               ds = IF conns[i].controller
                      THEN WithController(Without(conns, i), {1})
                      ELSE Without(conns, i)
        PROVE  /\ NamesDiffer(conns) => NamesDiffer(ds)
               /\ OneControls(conns) => OneControls(ds)
               /\ TwoControl(conns) => TwoControl(ds)
    BY <1>0, <2>3, ErasedControl
  <2>4. QED
    BY <1>1, <2>1, <2>2, <2>3
<1>3. QED
  BY <1>0, <1>2 DEF ControlInv, ControlPasses

\* A newcomer has a new name, and claims control only if nobody has claimed it.
LEMMA ControlConnect ==
  ASSUME TypeOK, ControlInv, NEW w \in Wsi, NEW u \in User, NEW c \in BOOLEAN, NEW p \in BOOLEAN,
         Connect(w, u, c, p)
  PROVE  ControlInv' /\ ControlPasses
<1> DEFINE n == Len(conns)
<1> SUFFICES ASSUME ~Ghosts PROVE ControlInv' /\ ControlPasses
  BY DEF ControlInv, ControlPasses
<1>1. /\ conns \in Seq(Conn) /\ n \in Nat /\ DOMAIN conns = 1..n
      /\ conns' = Append(conns, NewConn(w, u, c, p))
      /\ Named(conns, u) = {}
      /\ c => ~claimed
      /\ claimed' = (claimed \/ c)
  BY TableElements DEF TypeOK, Connect, Appended
<1>2. /\ DOMAIN conns' = 1..(n + 1)
      /\ \A i \in 1..n : conns'[i] = conns[i]
      /\ conns'[n + 1].user = u
      /\ conns'[n + 1].controller <=> c
  BY <1>1 DEF NewConn
<1>3. \A i \in 1..n : conns[i].user # u
  BY <1>1 DEF Named
<1>4. NamesDiffer(conns')
  BY <1>1, <1>2, <1>3 DEF ControlInv, NamesDiffer
<1>5. \A i \in 1..(n + 1) : i \in 1..n \/ i = n + 1
  BY <1>1
<1>6. \A i \in Controllers(conns') : i \in Controllers(conns) \/ (c /\ i = n + 1)
  BY <1>1, <1>2, <1>5 DEF Controllers
<1>7. CASE c
  <2>1. OneControls(conns) /\ claimed' /\ ~claimed
    BY <1>1, <1>7 DEF ControlInv
  <2>2. TwoControl(conns')
    BY <1>6, <2>1 DEF OneControls, TwoControl
  <2>3. QED
    BY <1>4, <2>1, <2>2 DEF ControlInv, ControlPasses
<1>8. CASE ~c
  <2>1. claimed' = claimed
    BY <1>1, <1>8 DEF TypeOK
  <2>2. /\ OneControls(conns) => OneControls(conns')
        /\ TwoControl(conns) => TwoControl(conns')
    BY <1>6, <1>8 DEF OneControls, TwoControl
  <2>3. QED
    BY <1>4, <2>1, <2>2 DEF ControlInv, ControlPasses
<1>9. QED
  BY <1>7, <1>8

\* Every step keeps the control invariant, and passes control on.
LEMMA ControlStep ==
  ASSUME TypeOK, ControlInv, [Next]_vars
  PROVE  ControlInv' /\ ControlPasses
<1>0. conns \in Seq(Conn)
  BY DEF TypeOK
<1>1. ASSUME SameClients(conns, conns'), UNCHANGED <<sock, claimed>>,
             \/ SameControllers(conns, conns')
             \/ \E u \in User : conns' = AfterAssign(conns, u)
      PROVE  ControlInv' /\ ControlPasses
  <2>1. DOMAIN conns' = DOMAIN conns /\ \A i \in DOMAIN conns : conns'[i].user = conns[i].user
    BY <1>0, <1>1, TableElements DEF SameClients
  <2>2. NamesDiffer(conns) => NamesDiffer(conns')
    BY <2>1 DEF NamesDiffer
  <2>3. CASE SameControllers(conns, conns')
    <3>1. \A i \in DOMAIN conns : conns'[i].controller <=> conns[i].controller
      BY <1>0, <2>3, TableElements DEF SameControllers
    <3>2. Controllers(conns') = Controllers(conns)
      BY <2>1, <3>1 DEF Controllers
    <3>3. /\ OneControls(conns) => OneControls(conns')
          /\ TwoControl(conns) => TwoControl(conns')
      BY <3>2 DEF OneControls, TwoControl
    <3>4. QED
      BY <1>1, <2>2, <2>3, <3>3 DEF ControlInv, ControlPasses
  <2>4. ASSUME NEW u \in User, conns' = AfterAssign(conns, u)
        PROVE  ControlInv' /\ ControlPasses
    <3>1. \A i \in DOMAIN conns : conns'[i].controller <=> conns[i].user = u
      BY <1>0, <2>4, AssignProperties, TableElements
    <3>2. \A i \in Controllers(conns') : i \in DOMAIN conns /\ conns[i].user = u
      BY <2>1, <3>1 DEF Controllers
    <3>3. NamesDiffer(conns) => OneControls(conns') /\ TwoControl(conns')
      BY <3>2 DEF NamesDiffer, OneControls, TwoControl
    <3>4. QED
      BY <1>1, <2>2, <3>3 DEF ControlInv, ControlPasses
  <2>5. QED
    BY <1>1, <2>3, <2>4
<1>2. CASE Emptied
  <2>1. DOMAIN conns' = {} /\ Controllers(conns') = {}
    BY <1>2 DEF Emptied, Controllers
  <2>2. QED
    BY <2>1 DEF ControlInv, ControlPasses, NamesDiffer, OneControls, TwoControl
<1>3. ASSUME NEW w \in Wsi, Established(w)
      PROVE  ControlInv' /\ ControlPasses
  <2>1. UNCHANGED <<conns, claimed>>
    BY <1>3 DEF Established
  <2>2. QED
    BY <2>1 DEF ControlInv, ControlPasses
<1>4. ASSUME NEW w \in Wsi, Connections(w)
      PROVE  ControlInv' /\ ControlPasses
  BY <1>3, <1>4, ControlClose, ControlConnect DEF Connections
<1>5. QED
  BY <1>1, <1>2, <1>4, StepCases

\* With every user in the table at most once, no step makes a second controller,
\* assignment, close or promotion, except the creator's Connect when somebody was
\* assigned before it; and nothing makes a third.
THEOREM OneController == Spec => AtMostOneController
<1>1. Init => ControlInv
  BY DEF Init, ControlInv, NamesDiffer, OneControls, TwoControl, Controllers
<1>2. TypeOK /\ ControlInv /\ [Next]_vars => ControlInv' /\ ControlPasses
  BY ControlStep
<1>3. ControlInv => (~Ghosts => TwoControl(conns) /\ (~claimed => OneControls(conns)))
  BY DEF ControlInv
<1>4. ControlPasses
        => (~Ghosts /\ OneControls(conns) => OneControls(conns)' \/ (claimed' /\ ~claimed))
  BY DEF ControlPasses
<1>5. QED
  BY <1>1, <1>2, <1>3, <1>4, TypeCorrect, PTL DEF Spec, AtMostOneController

\* A room that has a controller keeps one as long as it has a client at
\* all, except by an assignment to a user who is not there.
ControllerKept ==
  [][ Controllers(conns) # {} /\ Controllers(conns') = {} =>
        \/ conns' = <<>>
        \/ \E w \in Wsi, u \in User : AssignController(w, u) /\ Named(conns, u) = {} ]_vars

\* A step that takes the last controller away empties the room or assigns
\* control to somebody who is not in it.
LEMMA ControlLost ==
  ASSUME TypeOK, [Next]_vars, Controllers(conns) # {}, Controllers(conns') = {}
  PROVE  \/ conns' = <<>>
         \/ \E w \in Wsi, u \in User : AssignController(w, u) /\ Named(conns, u) = {}
<1>0. conns \in Seq(Conn) /\ Len(conns) \in Nat /\ DOMAIN conns = 1..Len(conns)
  BY TableElements DEF TypeOK
<1>1. PICK k \in 1..Len(conns) : conns[k].controller
  BY <1>0 DEF Controllers
<1>2. CASE SameClients(conns, conns') /\ SameControllers(conns, conns')
  <2>1. k \in DOMAIN conns' /\ conns'[k].controller
    BY <1>1, <1>2, TableElements DEF SameClients, SameControllers
  <2>2. QED
    BY <2>1 DEF Controllers
<1>3. ASSUME NEW w \in Wsi, NEW u \in User, AssignController(w, u),
             SameClients(conns, conns'), conns' = AfterAssign(conns, u)
      PROVE  Named(conns, u) = {}
  <2>1. DOMAIN conns' = DOMAIN conns
    BY <1>0, <1>3, TableElements DEF SameClients
  <2>2. \A i \in DOMAIN conns : conns'[i].controller <=> conns[i].user = u
    BY <1>0, <1>3, AssignProperties
  <2>3. QED
    BY <2>1, <2>2 DEF Controllers, Named
<1>4. ASSUME NEW w \in Wsi, Closed(w)
      PROVE  conns' = <<>>
  <2>1. conns' = AfterClose(conns, w)
    BY <1>4 DEF Closed
  <2>2. CASE conns' = conns
    BY <2>2
  <2>3. ASSUME NEW i \in 1..Len(conns),
               conns' = IF conns[i].controller
                          THEN WithController(Without(conns, i), {1})
                          ELSE Without(conns, i)
        PROVE  conns' = <<>>
    <3>0. conns \in Seq(Conn)
      BY <1>0
    <3>1. /\ conns' \in Seq(Conn) /\ Len(conns') = Len(conns) - 1
          /\ \A j \in 1..(Len(conns) - 1) :
               /\ conns'[j].wsi = conns[Origin(i, j)].wsi
               /\ conns'[j].user = conns[Origin(i, j)].user
               /\ conns'[j].controller <=>
                    (conns[Origin(i, j)].controller \/ (conns[i].controller /\ j = 1))
      BY <3>0, <2>3, EraseProperties
    <3> SUFFICES ASSUME conns' # <<>> PROVE FALSE
      OBVIOUS
    <3>2. DOMAIN conns' = 1..(Len(conns) - 1) /\ 1 \in 1..(Len(conns) - 1)
      <4>1. Len(conns') # 0 /\ Len(conns') \in Nat
        BY <3>1
      <4>2. QED
        BY <3>1, <4>1, TableElements
    <3>3. CASE conns[i].controller
      <4>1. conns'[1].controller
        BY <3>1, <3>2, <3>3
      <4>2. QED
        BY <3>2, <4>1 DEF Controllers
    <3>4. CASE ~conns[i].controller
      <4>1. k # i
        BY <1>1, <3>4
      <4>2. PICK j \in 1..(Len(conns) - 1) : Origin(i, j) = k
        BY <1>0, <4>1, OriginProperties
      <4>3. conns'[j].controller
        BY <1>1, <3>1, <4>2
      <4>4. QED
        BY <3>2, <4>2, <4>3 DEF Controllers
    <3>5. QED
      BY <3>3, <3>4
  <2>4. \/ conns' = conns
        \/ \E i \in 1..Len(conns) : conns' = IF conns[i].controller
                                               THEN WithController(Without(conns, i), {1})
                                               ELSE Without(conns, i)
    BY <1>0, <2>1, CloseProperties
  <2>5. QED
    BY <2>2, <2>3, <2>4
<1>5. ASSUME NEW w \in Wsi, NEW u \in User, NEW c \in BOOLEAN, NEW p \in BOOLEAN, Connect(w, u, c, p)
      PROVE  FALSE
  <2>1. conns' = Append(conns, NewConn(w, u, c, p))
    BY <1>5 DEF Connect, Appended
  <2>2. k \in DOMAIN conns' /\ conns'[k] = conns[k]
    BY <1>0, <2>1
  <2>3. QED
    BY <1>1, <2>2 DEF Controllers
<1>6. ASSUME NEW w \in Wsi, Established(w)
      PROVE  FALSE
  BY <1>6 DEF Established
<1>7. ASSUME NEW w \in Wsi, Connections(w)
      PROVE  conns' = <<>>
  BY <1>4, <1>5, <1>6, <1>7 DEF Connections
<1>8. CASE Emptied
  BY <1>8 DEF Emptied
<1>9. QED
  BY <1>2, <1>3, <1>7, <1>8, StepCases

\* Control is never lost by accident: from any reachable state, only the
\* last client leaving or an assignment to an absent user leaves a room
\* without the controller it had.
THEOREM ControlKept == Spec => ControllerKept
<1> DEFINE Lost == Controllers(conns) # {} /\ Controllers(conns') = {} =>
                     \/ conns' = <<>>
                     \/ \E w \in Wsi, u \in User : AssignController(w, u) /\ Named(conns, u) = {}
<1>1. TypeOK /\ [Next]_vars => [Lost]_vars
  BY ControlLost
<1>2. Spec => [][Lost]_vars
  BY <1>1, TypeCorrect, PTL DEF Spec
<1>3. QED
  BY <1>2 DEF ControllerKept
-----------------------------------------------------------------------------
(* Clearing. *)

\* No client that keeps its place in the table begins to be cleared.
NobodyCleared ==
  \A i \in DOMAIN conns :
    i \in DOMAIN conns' /\ conns'[i].wsi = conns[i].wsi /\ conns'[i].clear => conns[i].clear

\* Starting, stopping and assigning touch other flags.
LEMMA FlagsKeepClear ==
  ASSUME NEW cs \in Seq(Conn), NEW i \in 1..Len(cs), NEW u
  PROVE  /\ AfterStart(cs, u)[i].clear = cs[i].clear
         /\ AfterStop(cs)[i].clear = cs[i].clear
         /\ AfterAssign(cs, u)[i].clear = cs[i].clear
<1>1. AfterStart(cs, u)[i] = [cs[i] EXCEPT !.publisher = @ \/ i \in FirstOf(Named(cs, u))]
  BY DEF AfterStart
<1>2. AfterStop(cs)[i] = [cs[i] EXCEPT !.publisher = FALSE]
  BY DEF AfterStop
<1>3. AfterAssign(cs, u)[i] = [cs[i] EXCEPT !.controller = (cs[i].user = u)]
  BY DEF AfterAssign
<1>4. \A x : [cs[i] EXCEPT !.publisher = x].clear = cs[i].clear
  BY TableElements DEF Conn
<1>5. \A x : [cs[i] EXCEPT !.controller = x].clear = cs[i].clear
  BY TableElements DEF Conn
<1>6. AfterStart(cs, u)[i].clear = cs[i].clear
  BY <1>1, <1>4
<1>7. AfterStop(cs)[i].clear = cs[i].clear /\ AfterAssign(cs, u)[i].clear = cs[i].clear
  BY <1>2, <1>3, <1>4, <1>5
<1>8. QED
  BY <1>6, <1>7

\* A message clears somebody only if it is a request for a key frame, and one
\* that could be written to a publisher.
LEMMA MessageClears ==
  ASSUME TypeOK, NEW w \in Wsi, Messages(w)
  PROVE  NobodyCleared \/ \E d \in out' : d.msg.type = "RequestKeyFrame"
<1>0. conns \in Seq(Conn) /\ DOMAIN conns = 1..Len(conns)
  BY TableElements DEF TypeOK
<1>1. ASSUME NEW u \in User, StartStream(w, u) \/ AssignController(w, u)
      PROVE  NobodyCleared
  BY <1>0, <1>1, FlagsKeepClear DEF StartStream, AssignController, Handled, NobodyCleared
<1>2. CASE StopStream(w) \/ StreamQuit(w)
  BY <1>0, <1>2, FlagsKeepClear DEF StopStream, StreamQuit, Handled, NobodyCleared
<1>3. ASSUME NEW idr \in BOOLEAN, NEW n \in Num, VideoData(w, idr, n)
      PROVE  NobodyCleared
  BY <1>0, <1>3, FrameClears DEF VideoData, Handled, NobodyCleared
<1>4. ASSUME NEW ok \in SUBSET DOMAIN conns, RequestKeyFrame(w, ok)
      PROVE  NobodyCleared \/ \E d \in out' : d.msg.type = "RequestKeyFrame"
  <2>1. /\ conns' = AfterKeyRequest(conns, ok)
        /\ out' = Deliver(conns, ok, Plain("RequestKeyFrame"))
    BY <1>4 DEF RequestKeyFrame, Handled
  <2>2. CASE ok = {}
    BY <1>0, <2>1, <2>2, KeyRequestClears DEF NobodyCleared
  <2>3. CASE ok # {}
    <3>1. PICK i \in ok : TRUE
      BY <2>3
    <3>2. [to |-> conns[i].wsi, msg |-> Plain("RequestKeyFrame")] \in out'
      BY <2>1, <3>1 DEF Deliver
    <3>3. Plain("RequestKeyFrame").type = "RequestKeyFrame"
      BY DEF Plain
    <3>4. QED
      BY <3>2, <3>3
  <2>4. QED
    BY <2>2, <2>3
<1>5. CASE \/ StartStreamAck(w) \/ StopStreamAck(w) \/ AudioData(w) \/ TextMessage(w)
           \/ \E n \in Num : VideoAck(w, n)
  BY <1>5 DEF StartStreamAck, StopStreamAck, AudioData, TextMessage, VideoAck, Handled, NobodyCleared
<1>6. QED
  BY ONLY Messages(w), <1>1, <1>2, <1>3, <1>4, <1>5 DEF Messages

\* Clients that come and go clear nobody: an entry that moves up into the
\* place of another one has another socket.
LEMMA ConnectionsClear ==
  ASSUME TypeOK, ConnsMatchSockets, NEW w \in Wsi, Connections(w)
  PROVE  NobodyCleared
<1>0. conns \in Seq(Conn) /\ DOMAIN conns = 1..Len(conns) /\ Len(conns) \in Nat
  BY TableElements DEF TypeOK
<1>1. CASE Established(w)
  BY <1>1 DEF Established, NobodyCleared
<1>2. ASSUME NEW u \in User, NEW c \in BOOLEAN, NEW p \in BOOLEAN, Connect(w, u, c, p)
      PROVE  NobodyCleared
  <2>1. conns' = Append(conns, NewConn(w, u, c, p))
    BY <1>2 DEF Connect, Appended
  <2>2. \A i \in 1..Len(conns) : conns'[i] = conns[i]
    BY <1>0, <2>1
  <2>3. QED
    BY <1>0, <2>2 DEF NobodyCleared
<1>3. CASE Closed(w)
  <2>1. conns' = AfterClose(conns, w) /\ conns' \in Seq(Conn)
    BY <1>0, <1>3, CloseType DEF Closed
  <2>2. ComesFrom(conns', conns, w)
    BY <1>0, <2>1, CloseOrigins
  <2>3. ASSUME NEW j \in DOMAIN conns, j \in DOMAIN conns',
               conns'[j].wsi = conns[j].wsi, conns'[j].clear
        PROVE  conns[j].clear
    <3>1. j \in 1..Len(conns')
      BY <2>1, <2>3, TableElements
    <3>2. PICK i \in 1..Len(conns) : /\ conns'[j].wsi = conns[i].wsi
                                     /\ conns'[j].clear <=> conns[i].clear
      BY <2>2, <3>1 DEF ComesFrom
    <3>3. i = j
      BY <1>0, <2>3, <3>2 DEF ConnsMatchSockets
    <3>4. QED
      BY <2>3, <3>2, <3>3
  <2>4. QED
    BY <2>3 DEF NobodyCleared
<1>4. QED
  BY <1>1, <1>2, <1>3 DEF Connections

\* Every step clears nobody, or asks for the key frame that ends it.
LEMMA ClearingStep ==
  ASSUME TypeOK, ConnsMatchSockets, [Next]_vars
  PROVE  NobodyCleared \/ \E d \in out' : d.msg.type = "RequestKeyFrame"
<1>1. CASE UNCHANGED vars \/ Finished
  BY <1>1 DEF Finished, vars, NobodyCleared
<1>2. CASE Main
  <2>1. CASE conns' = conns
    BY <2>1 DEF NobodyCleared
  <2>2. CASE conns' = <<>>
    <3>1. DOMAIN conns' = {}
      BY <2>2
    <3>2. QED
      BY <3>1 DEF NobodyCleared
  <2>3. QED
    BY <1>2, <2>1, <2>2, MainKeeps DEF Emptied
<1>3. ASSUME NEW w \in Wsi, Connections(w) \/ Messages(w)
      PROVE  NobodyCleared \/ \E d \in out' : d.msg.type = "RequestKeyFrame"
  BY <1>3, ConnectionsClear, MessageClears
<1>4. ASSUME NEW i \in DOMAIN conns, KeyWindowPasses(i)
      PROVE  NobodyCleared
  <2>1. conns \in Seq(Conn) /\ conns' = [conns EXCEPT ![i].recent = FALSE]
    BY <1>4 DEF TypeOK, KeyWindowPasses, Handled
  <2> DEFINE e == [conns[i] EXCEPT !.recent = FALSE]
  <2>2. e.clear = conns[i].clear
    BY <2>1 DEF Conn
  <2>3. conns' = [conns EXCEPT ![i] = e]
    BY <2>1
  <2> HIDE DEF e
  <2>4. \A j \in DOMAIN conns : conns'[j] = IF j = i THEN e ELSE conns[j]
    BY <2>1, <2>3
  <2>5. QED
    BY <2>2, <2>4 DEF NobodyCleared
<1>5. QED
  BY <1>1, <1>2, <1>3, <1>4 DEF Next

\* No viewer is ever cleared by a request that reached no publisher: from any
\* reachable state, a step that starts to swallow a viewer's frames also
\* wrote a request for the key frame.
THEOREM ClearingAsked == Spec => ClearIsAskedFor
<1> DEFINE Asked == (\E i \in DOMAIN conns : i \in DOMAIN conns' /\ ~conns[i].clear /\ conns'[i].clear
                                             /\ conns[i].wsi = conns'[i].wsi)
                      => \E d \in out' : d.msg.type = "RequestKeyFrame"
<1>1. TypeOK /\ ConnsMatchSockets /\ [Next]_vars => [Asked]_vars
  BY ClearingStep DEF NobodyCleared
<1>2. Spec => [][Asked]_vars
  BY <1>1, TypeCorrect, SocketsMatch, PTL DEF Spec
<1>3. QED
  BY <1>2 DEF ClearIsAskedFor

-----------------------------------------------------------------------------
(* The roster. *)

\* What the roster promises of a step.
RosterStep == Roster!Next \/ UNCHANGED Roster!vars

\* With the roles it had, the table is the same roster.
LEMMA RosterSame ==
  ASSUME TypeOK, SameClients(conns, conns'), SamePublishers(conns, conns'),
         SameControllers(conns, conns'), UNCHANGED claimed
  PROVE  RosterStep
<1>1. /\ Seats(conns') = Seats(conns)
      /\ Sockets(conns', Publishers(conns')) = Sockets(conns, Publishers(conns))
      /\ Sockets(conns', Controllers(conns')) = Sockets(conns, Controllers(conns))
  BY SeatsKept DEF TypeOK
<1>2. QED
  BY <1>1 DEF RosterStep, Roster!vars

\* A message starts, stops, assigns, or changes nothing in the roster.
LEMMA RosterMessage ==
  ASSUME TypeOK, NEW w \in Wsi, Messages(w)
  PROVE  RosterStep
<1>0. /\ conns \in Seq(Conn) /\ SameClients(conns, conns) /\ SameControllers(conns, conns)
      /\ SamePublishers(conns, conns)
  BY DEF TypeOK, SameClients, SameControllers, SamePublishers
<1>1. ASSUME NEW u \in User, StartStream(w, u)
      PROVE  RosterStep
  <2>1. conns' = AfterStart(conns, u) /\ claimed' = claimed
    BY <1>1 DEF StartStream, Handled
  <2>2. SameClients(conns, conns') /\ SameControllers(conns, conns')
    BY <1>0, <2>1, StartKeepsClients
  <2>3. /\ Seats(conns') = Seats(conns)
        /\ Sockets(conns', Controllers(conns')) = Sockets(conns, Controllers(conns))
    BY <1>0, <2>2, SeatsKept
  <2>4. Sockets(conns', Publishers(conns')) =
          Sockets(conns, Publishers(conns)) \cup Sockets(conns, FirstOf(Named(conns, u)))
    BY <1>0, <2>1, StartMarks
  <2>5. {Seats(conns)[i].client : i \in Roster!NamedFirst(u)} =
          Sockets(conns, FirstOf(Named(conns, u)))
    <3>1. Roster!NamedFirst(u) = FirstOf(Named(conns, u))
      BY <1>0, RosterNames DEF Roster!NamedFirst
    <3>2. FirstOf(Named(conns, u)) \subseteq 1..Len(conns)
      BY <1>0, TableElements DEF FirstOf, Named
    <3>3. QED
      BY <1>0, <3>1, <3>2, RosterNames
  <2>6. Roster!Starts(u)
    BY <2>1, <2>3, <2>4, <2>5 DEF Roster!Starts
  <2>7. QED
    BY <2>6 DEF RosterStep, Roster!Next
<1>2. CASE StopStream(w) \/ StreamQuit(w)
  <2>1. conns' = AfterStop(conns) /\ claimed' = claimed
    BY <1>2 DEF StopStream, StreamQuit, Handled
  <2>2. SameClients(conns, conns') /\ SameControllers(conns, conns')
    BY <1>0, <2>1, StopKeepsClients
  <2>3. /\ Seats(conns') = Seats(conns)
        /\ Sockets(conns', Controllers(conns')) = Sockets(conns, Controllers(conns))
        /\ Sockets(conns', Publishers(conns')) = {}
    BY <1>0, <2>1, <2>2, SeatsKept, StopMarks
  <2>4. Roster!Stops
    BY <2>1, <2>3 DEF Roster!Stops
  <2>5. QED
    BY <2>4 DEF RosterStep, Roster!Next
<1>3. ASSUME NEW u \in User, AssignController(w, u)
      PROVE  RosterStep
  <2>1. conns' = AfterAssign(conns, u) /\ claimed' = claimed
    BY <1>3 DEF AssignController, Handled
  <2>2. /\ SameClients(conns, conns') /\ SamePublishers(conns, conns')
        /\ Sockets(conns', Controllers(conns')) = Sockets(conns, Named(conns, u))
    BY <1>0, <2>1, AssignKeepsClients, AssignMarks
  <2>3. /\ Seats(conns') = Seats(conns)
        /\ Sockets(conns', Publishers(conns')) = Sockets(conns, Publishers(conns))
    BY <1>0, <2>2, SeatsKept
  <2>4. {Seats(conns)[i].client : i \in {j \in DOMAIN Seats(conns) : Seats(conns)[j].user = u}}
          = Sockets(conns, Named(conns, u))
    <3>1. {j \in DOMAIN Seats(conns) : Seats(conns)[j].user = u} = Named(conns, u)
      BY <1>0, RosterNames
    <3>2. Named(conns, u) \subseteq 1..Len(conns)
      BY <1>0, TableElements DEF Named
    <3>3. QED
      BY <1>0, <3>1, <3>2, RosterNames
  <2>5. Roster!Assigns(u)
    BY <2>1, <2>2, <2>3, <2>4 DEF Roster!Assigns
  <2>6. QED
    BY <2>5 DEF RosterStep, Roster!Next
<1>4. ASSUME NEW idr \in BOOLEAN, NEW n \in Num, VideoData(w, idr, n)
      PROVE  RosterStep
  <2>1. conns' = AfterFrame(conns, idr) /\ claimed' = claimed
    BY <1>4 DEF VideoData, Handled
  <2>2. SameClients(conns, conns') /\ SameControllers(conns, conns')
    BY <1>0, <2>1, FrameKeepsClients
  <2>3. SamePublishers(conns, conns')
    BY <1>0, <2>1, FrameClears DEF SamePublishers
  <2>4. QED
    BY <2>1, <2>2, <2>3, RosterSame
<1>5. ASSUME NEW ok \in SUBSET DOMAIN conns, RequestKeyFrame(w, ok)
      PROVE  RosterStep
  <2>1. conns' = AfterKeyRequest(conns, ok) /\ claimed' = claimed
    BY <1>5 DEF RequestKeyFrame, Handled
  <2>2. SameClients(conns, conns') /\ SameControllers(conns, conns')
    BY <1>0, <2>1, KeyRequestKeepsClients
  <2>3. SamePublishers(conns, conns')
    BY <1>0, <2>1, KeyRequestClears DEF SamePublishers
  <2>4. QED
    BY <2>1, <2>2, <2>3, RosterSame
<1>6. CASE \/ StartStreamAck(w) \/ StopStreamAck(w) \/ AudioData(w) \/ TextMessage(w)
           \/ \E n \in Num : VideoAck(w, n)
  <2>1. conns' = conns /\ claimed' = claimed
    BY <1>6 DEF StartStreamAck, StopStreamAck, AudioData, TextMessage, VideoAck, Handled
  <2>2. QED
    BY <1>0, <2>1, RosterSame
<1>7. QED
  BY ONLY Messages(w), <1>1, <1>2, <1>3, <1>4, <1>5, <1>6 DEF Messages

\* A connection joins, or leaves with its roles.
LEMMA RosterConnection ==
  ASSUME TypeOK, ConnsMatchSockets, NEW w \in Wsi, Connections(w)
  PROVE  RosterStep
<1>0. /\ conns \in Seq(Conn) /\ SameClients(conns, conns) /\ SameControllers(conns, conns)
      /\ SamePublishers(conns, conns) /\ DOMAIN conns = 1..Len(conns)
  BY TableElements DEF TypeOK, SameClients, SameControllers, SamePublishers
<1>1. CASE Established(w)
  <2>1. conns' = conns /\ claimed' = claimed
    BY <1>1 DEF Established
  <2>2. QED
    BY <1>0, <2>1, RosterSame
<1>2. ASSUME NEW u \in User, NEW c \in BOOLEAN, NEW p \in BOOLEAN, Connect(w, u, c, p)
      PROVE  RosterStep
  <2>1. /\ conns' = Append(conns, NewConn(w, u, c, p))
        /\ claimed' = (claimed \/ c) /\ (c => ~claimed) /\ sock[w] = "open"
    BY <1>2 DEF Connect, Appended
  <2>2. w \notin Roster!Listed
    <3>1. At(conns, w) = {}
      BY <2>1 DEF ConnsMatchSockets
    <3>2. DOMAIN Seats(conns) = 1..Len(conns)
          /\ \A i \in 1..Len(conns) : Seats(conns)[i].client = conns[i].wsi
      BY <1>0, SeatsList
    <3>3. QED
      BY <1>0, <3>1, <3>2 DEF Roster!Listed, At
  <2>3. /\ Seats(conns') = Append(Seats(conns), [client |-> w, user |-> u])
        /\ Sockets(conns', Publishers(conns')) =
             IF p THEN Sockets(conns, Publishers(conns)) \cup {w}
             ELSE Sockets(conns, Publishers(conns))
        /\ Sockets(conns', Controllers(conns')) =
             IF c THEN Sockets(conns, Controllers(conns)) \cup {w}
             ELSE Sockets(conns, Controllers(conns))
    <3>1. conns \in Seq(Conn)
      BY <1>0
    <3>2. PICK ds : ds = conns'
      OBVIOUS
    <3>3. ds = Append(conns, NewConn(w, u, c, p))
      BY <2>1, <3>2
    <3>4. ListedLast(conns, ds, w, u, c, p)
      BY ONLY <3>1, <3>3, JoinSeats, w \in Wsi, u \in User, c \in BOOLEAN, p \in BOOLEAN
    <3>5. QED
      BY <3>2, <3>4 DEF ListedLast
  <2>4. Roster!Joins(w, u, p, c)
    BY <2>1, <2>2, <2>3 DEF Roster!Joins
  <2>5. QED
    BY <2>4 DEF RosterStep, Roster!Next
<1>3. CASE Closed(w)
  <2>1. conns' = AfterClose(conns, w) /\ claimed' = claimed
    BY <1>3 DEF Closed
  <2>2. CASE conns' = conns
    BY <1>0, <2>1, <2>2, RosterSame
  <2>3. ASSUME NEW i \in 1..Len(conns),
               conns' = IF conns[i].controller
                          THEN WithController(Without(conns, i), {1})
                          ELSE Without(conns, i)
        PROVE  RosterStep
    <3>1. \A j, k \in DOMAIN conns : conns[j].wsi = conns[k].wsi => j = k
      BY DEF ConnsMatchSockets
    <3>2. /\ Seats(conns') =
               [j \in 1..(Len(Seats(conns)) - 1) |-> Seats(conns)[IF j < i THEN j ELSE j + 1]]
          /\ Sockets(conns', Publishers(conns')) =
               Sockets(conns, Publishers(conns)) \ {conns[i].wsi}
          /\ Sockets(conns', Controllers(conns')) =
               IF conns[i].wsi \in Sockets(conns, Controllers(conns))
               THEN (Sockets(conns, Controllers(conns)) \ {conns[i].wsi})
                      \cup {Seats(conns')[j].client : j \in DOMAIN Seats(conns') \cap {1}}
               ELSE Sockets(conns, Controllers(conns))
      <4>1. conns \in Seq(Conn)
        BY <1>0
      <4>2. PICK ds : ds = conns'
        OBVIOUS
      <4>3. ds = IF conns[i].controller
                   THEN WithController(Without(conns, i), {1})
                   ELSE Without(conns, i)
        BY <2>3, <4>2
      <4>4. NoLongerListed(conns, ds, i)
        BY ONLY <3>1, <4>1, <4>3, i \in 1..Len(conns), CloseSeats
      <4>5. QED
        BY <4>2, <4>4 DEF NoLongerListed
    <3>3. i \in DOMAIN Seats(conns) /\ Seats(conns)[i].client = conns[i].wsi
      BY <1>0, SeatsList
    <3>4. Roster!Leaves(i)
      BY <2>1, <3>2, <3>3 DEF Roster!Leaves
    <3>5. QED
      BY <3>3, <3>4 DEF RosterStep, Roster!Next
  <2>4. \/ conns' = conns
        \/ \E i \in 1..Len(conns) : conns' = IF conns[i].controller
                                               THEN WithController(Without(conns, i), {1})
                                               ELSE Without(conns, i)
    BY <1>0, <2>1, CloseProperties
  <2>5. QED
    BY <2>2, <2>3, <2>4
<1>4. QED
  BY <1>1, <1>2, <1>3 DEF Connections

\* Every step of a session is one of the roster, or none.
LEMMA RosterNext ==
  ASSUME TypeOK, ConnsMatchSockets, [Next]_vars
  PROVE  RosterStep
<1>0. /\ conns \in Seq(Conn) /\ SameClients(conns, conns) /\ SameControllers(conns, conns)
      /\ SamePublishers(conns, conns)
  BY DEF TypeOK, SameClients, SameControllers, SamePublishers
<1>1. CASE UNCHANGED <<conns, claimed>>
  BY <1>0, <1>1, RosterSame
<1>2. CASE Emptied
  <2>1. conns' = <<>> /\ claimed' = claimed /\ <<>> \in Seq(Conn)
    BY <1>2 DEF Emptied
  <2>2. Seats(conns') = <<>>
    BY <2>1 DEF Seats
  <2>3. /\ Sockets(conns', Publishers(conns')) = {}
        /\ Sockets(conns', Controllers(conns')) = {}
    BY <2>1 DEF Sockets, Publishers, Controllers
  <2>4. Roster!Ends
    BY <2>1, <2>2, <2>3 DEF Roster!Ends
  <2>5. QED
    BY <2>4 DEF RosterStep, Roster!Next
<1>3. ASSUME NEW i \in DOMAIN conns, KeyWindowPasses(i)
      PROVE  RosterStep
  <2>1. SameClients(conns, conns') /\ SameControllers(conns, conns') /\ UNCHANGED claimed
    BY <1>3, KeyWindowKeeps
  <2>2. SamePublishers(conns, conns')
    BY <1>0, <1>3, TableElements DEF KeyWindowPasses, Handled, SamePublishers, Conn
  <2>3. QED
    BY <2>1, <2>2, RosterSame
<1>4. CASE Main
  BY <1>1, <1>2, <1>4, MainKeeps
<1>5. CASE Finished \/ UNCHANGED vars
  BY <1>1, <1>5 DEF Finished, vars
<1>6. QED
  BY <1>3, <1>4, <1>5, RosterMessage, RosterConnection DEF Next

\* A session implements the roster, for any number of sockets and users and whatever
\* reconnects, is assigned or dies: those who are listed are listed once and in their
\* order, nobody else publishes or controls, and who leaves with control leaves it to
\* the oldest.  It holds because the table and the sockets match.
THEOREM RosterIsKept == Spec => KeepsRoster
<1>1. Init => Roster!Init
  <2> SUFFICES ASSUME Init PROVE Roster!Init
    OBVIOUS
  <2>1. conns = <<>> /\ claimed \in BOOLEAN
    BY DEF Init
  <2>2. Seats(conns) = <<>>
    BY <2>1 DEF Seats
  <2>3. Sockets(conns, Publishers(conns)) = {} /\ Sockets(conns, Controllers(conns)) = {}
    BY <2>1 DEF Sockets, Publishers, Controllers
  <2>4. QED
    BY <2>1, <2>2, <2>3 DEF Roster!Init
<1>2. TypeOK /\ ConnsMatchSockets /\ [Next]_vars => [Roster!Next]_(Roster!vars)
  BY RosterNext DEF RosterStep
<1>3. Spec => Roster!Spec
  BY <1>1, <1>2, TypeCorrect, SocketsMatch, PTL DEF Spec, Roster!Spec
<1>4. QED
  BY <1>3 DEF KeepsRoster

=============================================================================
