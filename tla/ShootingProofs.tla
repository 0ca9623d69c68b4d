--------------------------- MODULE ShootingProofs ---------------------------
(***************************************************************************)
(* What the handlers of the user interface may rely on, however they nest: *)
(* for any rooms, any depth and any number of clients.                     *)
(***************************************************************************)
EXTENDS Shooting, FiniteSetTheorems, SequenceTheorems, TLAPS

Handler ==
  [op : Ops, room : Room \cup {NoRoom}, reply : {"waiting", "ok"}, elsewhere : BOOLEAN]

\* Positions of handlers of some kinds.
Of(ops) == {i \in DOMAIN stack : stack[i].op \in ops}

Shape ==
  /\ stack \in Seq(Handler) /\ Len(stack) <= MaxDepth
  /\ shown \in {{}, {"widget"}, {"room"}}
  /\ room_id \in Room \cup {NoRoom} /\ session \in Room \cup {NoRoom}
  /\ made \in Nat /\ live \subseteq 1 .. made /\ made + Entering <= MaxDaemons
  /\ timer \in BOOLEAN /\ closing \in BOOLEAN /\ crashed \in BOOLEAN
  /\ poll \in {"idle", "asking"} \cup Room
  /\ where \in {"gone", "0"} \cup Room /\ doubt \in BOOLEAN /\ overtaken \in BOOLEAN
  /\ late \subseteq [op : Places, room : Room \cup {NoRoom}]

\* Who joins knows the room, and who makes one once the server has answered; so does
\* who joined and gave up.
Framed ==
  /\ \A i \in DOMAIN stack :
       stack[i].op = "join" \/ (stack[i].op = "instant" /\ stack[i].reply = "ok")
         => stack[i].room \in Room
  /\ \A q \in late : q.op = "join" => q.room \in Room

\* The constructor and the destructor run alone.
Alone ==
  /\ \A i \in Of({"start"}) : Len(stack) = 1 /\ shown = {} /\ ~timer /\ session = NoRoom
  /\ \A i \in Of({"exit"}) : "exit" \in history
  /\ "exit" \in history => closing /\ DOMAIN stack = Of({"exit"})

\* The window of the room is shown with a session, and then with a live client.
Windows ==
  /\ "room" \in shown <=> session # NoRoom
  /\ ~crashed /\ "room" \in shown => made \in live

\* One "enter" at a time leaves no client behind.
EnteredOnce ==
  "enter" \notin history =>
    /\ ~crashed => live = IF "room" \in shown THEN {made} ELSE {}
    /\ \A i, j \in Of(Enters) : "room" \notin shown /\ i = j

\* One "quit" at a time finds the room shown, and nobody enters before it is done.
QuitOnce ==
  "quit" \notin history =>
    /\ timer => "room" \in shown
    /\ \A i \in Of({"quit"}) :
         /\ "room" \in shown /\ ~timer
         /\ \A j \in Of({"quit"}) : i = j
         /\ \A j \in Of(Enters) : j < i

\* A refresh that waits for the room just left finds no room_id.
RefreshOff ==
  /\ crashed => history \cap {"quit", "revived"} # {}
  /\ history \cap {"quit", "revived"} = {} /\ made \notin live
       => Of({"refresh", "oldRefresh"}) = {} \/ room_id = NoRoom

\* Where the server has the host: as the one answer not yet taken says, or as
\* the user sees it.
Answered(ops) == {i \in Of(ops) : stack[i].reply = "ok"}

Placement ==
  ~doubt /\ history \cap {"enter", "quit"} = {} =>
    /\ where = "gone" /\ "exit" \notin history =>
         /\ session = NoRoom \/ Answered({"quit"}) # {}
         /\ Answered(Enters) = {}
    /\ where # "gone" =>
         /\ \A i \in Answered(Enters) : where = stack[i].room
         /\ Answered({"quit"}) # {} => where = "0"
         /\ Answered(Enters \cup {"quit"}) = {} =>
              where = IF session = NoRoom THEN "0" ELSE session

\* An invitation under way was asked for before the room was entered.
PolledBefore == overtaken /\ session # NoRoom => poll = "idle"

IInv ==
  /\ Shape /\ Framed /\ Alone /\ Windows /\ EnteredOnce /\ QuitOnce
  /\ RefreshOff /\ Placement /\ PolledBefore

-----------------------------------------------------------------------------
(* What the actions do to the stack. *)

\* Positions of the stack.
LEMMA Positions ==
  ASSUME Shape
  PROVE  /\ Len(stack) \in Nat /\ DOMAIN stack = 1 .. Len(stack)
         /\ \A i \in DOMAIN stack : stack[i] \in Handler
         /\ stack # <<>> => /\ Len(stack) \in DOMAIN stack
                            /\ Last(stack) = stack[Len(stack)]
         /\ stack = <<>> => DOMAIN stack = {}
BY DEF Shape, Last

\* The handlers that enter are finitely many.
LEMMA Enterings ==
  ASSUME Shape
  PROVE  /\ IsFiniteSet(Of(Enters)) /\ Entering = Cardinality(Of(Enters)) /\ Entering \in Nat
         /\ Entering = 0 <=> Of(Enters) = {}
<1>1. Of(Enters) \subseteq 1 .. Len(stack) /\ Len(stack) \in Nat  BY DEF Shape, Of
<1>2. IsFiniteSet(1 .. Len(stack))  BY <1>1, FS_Interval
<1>3. IsFiniteSet(Of(Enters))  BY <1>1, <1>2, FS_Subset
<1>4. Entering = Cardinality(Of(Enters))  BY DEF Entering, Of
<1>5. QED  BY <1>3, <1>4, FS_CardinalityType, FS_EmptySet

\* A handler begins; that of the settings marks those under way.
LEMMA Pushed ==
  ASSUME Shape, NEW op \in Ops, NEW room \in Room \cup {NoRoom},
         Push(op, room) \/ (op = "config" /\ room = NoRoom /\ ConfigDone)
  PROVE  /\ stack' \in Seq(Handler) /\ Len(stack') = Len(stack) + 1 /\ Len(stack') <= MaxDepth
         /\ DOMAIN stack' = DOMAIN stack \cup {Len(stack) + 1} /\ Len(stack) + 1 \notin DOMAIN stack
         /\ \A i \in DOMAIN stack :
              /\ stack'[i].op = stack[i].op /\ stack'[i].room = stack[i].room
              /\ stack'[i].reply = stack[i].reply /\ i < Len(stack) + 1
         /\ stack'[Len(stack) + 1] = Frame(op, room)
         /\ \A ops : Of(ops)' = IF op \in ops THEN Of(ops) \cup {Len(stack) + 1} ELSE Of(ops)
         /\ Entering' = IF op \in Enters THEN Entering + 1 ELSE Entering
<1>1. Frame(op, room) \in Handler  BY DEF Frame, Handler
<1>2. PICK s : /\ s = stack \/ s = Moved(stack)
               /\ stack' = Append(s, Frame(op, room)) /\ Len(stack) < MaxDepth
  BY DEF Push, ConfigDone
<1>3. /\ s \in Seq(Handler) /\ Len(s) = Len(stack)
      /\ \A i \in DOMAIN stack :
           /\ s[i].op = stack[i].op /\ s[i].room = stack[i].room /\ s[i].reply = stack[i].reply
  <2>1. CASE s = stack  BY <2>1 DEF Shape
  <2>2. CASE s = Moved(stack)
    <3>1. s = [i \in 1 .. Len(stack) |->
                [stack[i] EXCEPT !.elsewhere = @ \/ stack[i].op \in Places]]
          /\ Len(stack) \in Nat
      BY <2>2, Positions DEF Moved
    <3>2. ASSUME NEW i \in 1 .. Len(stack)
          PROVE  /\ s[i] \in Handler
                 /\ s[i].op = stack[i].op /\ s[i].room = stack[i].room
                 /\ s[i].reply = stack[i].reply
      <4>1. stack[i] \in Handler  BY Positions
      <4>2. (stack[i].elsewhere \/ stack[i].op \in Places) \in BOOLEAN  OBVIOUS
      <4>3. QED  BY <3>1, <4>1, <4>2 DEF Handler
    <3>3. s \in Seq(Handler) /\ Len(s) = Len(stack)
      <4>1. \A i \in 1 .. Len(stack) : s[i] \in Handler  BY <3>2
      <4>2. s \in [1 .. Len(stack) -> Handler]  BY <3>1, <4>1
      <4>3. QED  BY <3>1, <4>2
    <3>4. DOMAIN stack = 1 .. Len(stack)  BY Positions
    <3>5. QED  BY <3>2, <3>3, <3>4
  <2>3. QED  BY <1>2, <2>1, <2>2
<1>4. /\ stack' \in Seq(Handler) /\ Len(stack') = Len(stack) + 1 /\ Len(stack') <= MaxDepth
      /\ DOMAIN stack' = DOMAIN stack \cup {Len(stack) + 1} /\ Len(stack) + 1 \notin DOMAIN stack
      /\ \A i \in DOMAIN stack : stack'[i] = s[i] /\ i < Len(stack) + 1
      /\ stack'[Len(stack) + 1] = Frame(op, room)
  <2>1. DOMAIN stack = 1 .. Len(stack) /\ Len(stack) \in Nat  BY Positions
  <2>2. DOMAIN s = 1 .. Len(s)  BY <1>3
  <2>3. QED  BY <1>1, <1>2, <1>3, <2>1, <2>2, ShootingAssumption
<1>5. Frame(op, room).op = op  BY DEF Frame
<1>6. ASSUME NEW ops
      PROVE  Of(ops)' = IF op \in ops THEN Of(ops) \cup {Len(stack) + 1} ELSE Of(ops)
  <2>1. Of(ops)' = {i \in DOMAIN stack' : stack'[i].op \in ops}  BY DEF Of
  <2>2. QED  BY <2>1, <1>3, <1>4, <1>5 DEF Of
<1>7. Len(stack) + 1 \notin Of(Enters)  BY <1>4 DEF Of
<1>8. Entering' = Cardinality(Of(Enters)')  BY DEF Entering, Of
<1>9. Entering' = IF op \in Enters THEN Entering + 1 ELSE Entering
  BY <1>6, <1>7, <1>8, Enterings, FS_AddElement
<1>10. QED  BY <1>3, <1>4, <1>6, <1>9

\* The innermost handler returns, and refreshes may be retired.
LEMMA Popped ==
  ASSUME Shape, stack # <<>>, stack' = Front(stack) \/ stack' = Retired(Front(stack))
  PROVE  /\ stack' \in Seq(Handler) /\ Len(stack') = Len(stack) - 1
         /\ DOMAIN stack' = DOMAIN stack \ {Len(stack)}
         /\ \A i \in DOMAIN stack' :
              /\ stack'[i].room = stack[i].room /\ stack'[i].reply = stack[i].reply
              /\ stack'[i].op = stack[i].op
                   \/ (stack[i].op = "refresh" /\ stack'[i].op = "oldRefresh")
         /\ \A op \in Ops \ {"refresh", "oldRefresh"} : Of({op})' = Of({op}) \ {Len(stack)}
         /\ Of(Enters)' = Of(Enters) \ {Len(stack)}
         /\ Of({"refresh", "oldRefresh"})' = Of({"refresh", "oldRefresh"}) \ {Len(stack)}
         /\ Entering' = IF Last(stack).op \in Enters THEN Entering - 1 ELSE Entering
<1> DEFINE f == Front(stack)
<1>1. /\ f \in Seq(Handler) /\ Len(f) = Len(stack) - 1 /\ Len(stack) \in Nat \ {0}
      /\ \A i \in 1 .. Len(f) : f[i] = stack[i]
  <2> DEFINE n == Len(stack) - 1
  <2>1. Len(stack) \in Nat \ {0} /\ n \in Nat /\ \A i \in 1 .. n : stack[i] \in Handler
    BY DEF Shape
  <2>2. f = SubSeq(stack, 1, n)  BY DEF Front
  <2> HIDE DEF n
  <2>3. /\ SubSeq(stack, 1, n) \in Seq(Handler)
        /\ Len(SubSeq(stack, 1, n)) = IF 1 <= n THEN n - 1 + 1 ELSE 0
        /\ \A i \in 1 .. n - 1 + 1 : SubSeq(stack, 1, n)[i] = stack[1 + i - 1]
    BY <2>1, SubSeqProperties
  <2>4. Len(f) = n  BY <2>1, <2>2, <2>3
  <2>5. \A i \in 1 .. n : f[i] = stack[i]
    <3>1. TAKE i \in 1 .. n
    <3>2. i \in 1 .. n - 1 + 1 /\ 1 + i - 1 = i  BY <2>1
    <3>3. SubSeq(stack, 1, n)[i] = stack[1 + i - 1]  BY <2>3, <3>2
    <3>4. QED  BY <3>2, <3>3, <2>2
  <2>6. QED  BY <2>1, <2>2, <2>3, <2>4, <2>5 DEF n
<1>2. DOMAIN f = DOMAIN stack \ {Len(stack)}
  <2>1. DOMAIN f = 1 .. Len(f) /\ DOMAIN stack = 1 .. Len(stack)  BY <1>1, Positions
  <2>2. QED  BY <2>1, <1>1
<1>3. Ops = {"start", "config", "exit", "quit", "instant", "join", "refresh", "oldRefresh", "invite"}
  BY DEF Ops, Places, Enters
<1> HIDE DEF f
<1>4. /\ stack' \in Seq(Handler) /\ Len(stack') = Len(f) /\ DOMAIN stack' = DOMAIN f
      /\ \A i \in DOMAIN f :
           /\ stack'[i].room = stack[i].room /\ stack'[i].reply = stack[i].reply
           /\ stack'[i].op = IF stack' # f /\ stack[i].op = "refresh" THEN "oldRefresh" ELSE stack[i].op
  <2>1. CASE stack' = f  BY <2>1, <1>1
  <2>2. CASE stack' = Retired(f) /\ stack' # f
    <3>1. stack' = [i \in 1 .. Len(f) |->
                      IF f[i].op = "refresh" THEN [f[i] EXCEPT !.op = "oldRefresh"] ELSE f[i]]
      BY <2>2, <1>1 DEF Retired
    <3>2. \A i \in 1 .. Len(f) : stack'[i] \in Handler
      <4>1. TAKE i \in 1 .. Len(f)
      <4>2. f[i] \in Handler  BY <1>1
      <4>3. [f[i] EXCEPT !.op = "oldRefresh"] \in Handler  BY <4>2, <1>3 DEF Handler
      <4>4. QED  BY <3>1, <4>2, <4>3
    <3>3. stack' \in Seq(Handler) /\ Len(stack') = Len(f) /\ DOMAIN stack' = DOMAIN f
      BY <3>1, <3>2, <1>1
    <3>4. \A i \in DOMAIN f : f[i] \in Handler  BY <1>1
    <3>5. QED  BY <2>2, <3>1, <3>3, <3>4, <1>1 DEF Handler
  <2>3. QED  BY <2>1, <2>2 DEF f
<1>5. ASSUME NEW ops, "refresh" \in ops <=> "oldRefresh" \in ops
      PROVE  Of(ops)' = Of(ops) \ {Len(stack)}
  <2>1. Of(ops)' = {i \in DOMAIN stack' : stack'[i].op \in ops}  BY DEF Of
  <2>2. \A i \in DOMAIN f : stack'[i].op \in ops <=> stack[i].op \in ops  BY <1>4, <1>5
  <2>3. QED  BY <2>1, <2>2, <1>2, <1>4 DEF Of
<1>6. Of(Enters)' = Of(Enters) \ {Len(stack)}  BY <1>5 DEF Enters
<1>7. Entering' = IF Last(stack).op \in Enters THEN Entering - 1 ELSE Entering
  <2>1. Entering' = Cardinality(Of(Enters)')  BY DEF Entering, Of
  <2>2. Len(stack) \in Of(Enters) <=> Last(stack).op \in Enters  BY Positions DEF Of
  <2>3. QED  BY <2>1, <2>2, <1>6, Enterings, FS_RemoveElement
<1>8. \A op \in Ops \ {"refresh", "oldRefresh"} : Of({op})' = Of({op}) \ {Len(stack)}
  BY <1>5
<1>9. Of({"refresh", "oldRefresh"})' = Of({"refresh", "oldRefresh"}) \ {Len(stack)}  BY <1>5
<1>10. QED  BY <1>1, <1>2, <1>4, <1>6, <1>7, <1>8, <1>9

\* An answer ends one wait, and moves the host.
LEMMA Replied ==
  ASSUME Shape, NEW i \in DOMAIN stack, Answers(i)
  PROVE  /\ stack' \in Seq(Handler) /\ Len(stack') = Len(stack) /\ DOMAIN stack' = DOMAIN stack
         /\ stack[i].reply = "waiting" /\ stack'[i].op = stack[i].op /\ stack'[i].reply = "ok"
         /\ \A j \in DOMAIN stack : stack'[j].op = stack[j].op /\ (j # i => stack'[j] = stack[j])
         /\ \A ops : Of(ops)' = Of(ops)
         /\ Entering' = Entering
         /\ stack'[i].room \in IF stack[i].op = "instant" THEN Room ELSE {stack[i].room}
         /\ \/ Handles(stack[i].op, stack'[i].room)
            \/ stack[i].elsewhere /\ where' = where
<1>1. /\ stack \in Seq(Handler) /\ stack[i] \in Handler
      /\ Len(stack) \in Nat /\ DOMAIN stack = 1 .. Len(stack)
  BY DEF Shape
<1>2. PICK r \in IF stack[i].op = "instant" THEN Room ELSE {stack[i].room} :
        /\ Handles(stack[i].op, r) \/ (stack[i].elsewhere /\ where' = where)
        /\ stack' = [stack EXCEPT ![i].reply = "ok", ![i].room = r]
  BY DEF Answers
<1>3. r \in Room \cup {NoRoom} /\ stack[i].reply = "waiting"
  BY <1>1, <1>2 DEF Handler, Answers
<1> DEFINE h == [stack[i] EXCEPT !.reply = "ok", !.room = r]
<1>4. h \in Handler /\ h.op = stack[i].op /\ h.reply = "ok" /\ h.room = r
  BY <1>1, <1>3 DEF Handler
<1>5. stack' = [stack EXCEPT ![i] = h]  BY <1>1, <1>2
<1> HIDE DEF h
<1>6. /\ stack' \in Seq(Handler) /\ Len(stack') = Len(stack) /\ DOMAIN stack' = DOMAIN stack
      /\ stack'[i] = h
      /\ \A j \in DOMAIN stack : stack'[j].op = stack[j].op /\ (j # i => stack'[j] = stack[j])
  BY <1>1, <1>4, <1>5
<1>7. \A ops : Of(ops)' = Of(ops)
  <2>1. TAKE ops
  <2>2. Of(ops)' = {j \in DOMAIN stack' : stack'[j].op \in ops}  BY DEF Of
  <2>3. QED  BY <2>2, <1>6 DEF Of
<1>8. Entering' = Entering  BY <1>6 DEF Entering
<1>9. QED  BY <1>2, <1>3, <1>4, <1>6, <1>7, <1>8

-----------------------------------------------------------------------------
(* Every action keeps the invariant. *)

\* A handler that begins has no answer yet.
LEMMA PushFrames ==
  ASSUME Shape, Framed, NEW op \in Ops, NEW room \in Room \cup {NoRoom},
         Push(op, room) \/ (op = "config" /\ room = NoRoom /\ ConfigDone),
         op = "join" => room \in Room, late' = late
  PROVE  Framed' /\ \A ops : /\ Answered(ops)' = Answered(ops)
                             /\ \A i \in Answered(ops) : stack'[i].room = stack[i].room
<1>1. Frame(op, room).op = op /\ Frame(op, room).reply = "waiting" /\ Frame(op, room).room = room
  BY DEF Frame
<1>2. Framed'
  <2>1. ASSUME NEW i \in DOMAIN stack',
               stack'[i].op = "join" \/ (stack'[i].op = "instant" /\ stack'[i].reply = "ok")
        PROVE  stack'[i].room \in Room
    <3>1. CASE i \in DOMAIN stack  BY <2>1, <3>1, Pushed DEF Framed
    <3>2. CASE i = Len(stack) + 1  BY <2>1, <3>2, <1>1, Pushed
    <3>3. QED  BY <2>1, <3>1, <3>2, Pushed
  <2>2. QED  BY <2>1 DEF Framed
<1>3. ASSUME NEW ops
      PROVE  /\ Answered(ops)' = Answered(ops)
             /\ \A i \in Answered(ops) : stack'[i].room = stack[i].room
  <2>1. Answered(ops)' = {i \in Of(ops)' : stack'[i].reply = "ok"}  BY DEF Answered
  <2>2. \A i \in Of(ops) : i \in DOMAIN stack /\ stack'[i].reply = stack[i].reply
                           /\ stack'[i].room = stack[i].room
    BY Pushed DEF Of
  <2>3. \A i : i \in Of(ops)' /\ stack'[i].reply = "ok" <=> i \in Of(ops) /\ stack[i].reply = "ok"
    BY <2>2, <1>1, Pushed
  <2>4. QED  BY <2>1, <2>2, <2>3 DEF Answered
<1>4. QED  BY <1>2, <1>3

\* Nor does it disturb where the host is.
LEMMA PushKeeps ==
  ASSUME Shape, Framed, Placement,
         NEW op \in Ops, NEW room \in Room \cup {NoRoom}, Push(op, room),
         op = "join" => room \in Room, op \in Enters => made + Entering < MaxDaemons,
         history \subseteq history', timer' \in BOOLEAN,
         UNCHANGED <<shown, room_id, session, live, made, closing, overtaken, poll, server, crashed>>
  PROVE  Shape' /\ Framed' /\ Placement'
<1>1. Shape'
  <2>1. made' + Entering' <= MaxDaemons
    BY Pushed, Enterings, ShootingAssumption DEF Shape
  <2>2. QED  BY <2>1, Pushed DEF Shape, server
<1>2. /\ Framed' /\ Answered(Enters)' = Answered(Enters) /\ Answered({"quit"})' = Answered({"quit"})
      /\ Answered(Enters \cup {"quit"})' = Answered(Enters \cup {"quit"})
      /\ \A i \in Answered(Enters) : stack'[i].room = stack[i].room
  BY PushFrames DEF server
<1>3. Placement'  BY <1>2 DEF Placement, server
<1>4. QED  BY <1>1, <1>2, <1>3

\* A click to enter.
LEMMA EnterClickedKeeps == ASSUME IInv, EnterClicked PROVE IInv'
<1> USE DEF Enters, Places, Ops
<1>1. PICK op \in Enters, room \in Room \cup {NoRoom} :
        Push(op, room) /\ (op = "join" => room \in Room)
  BY DEF EnterClicked
<1>2. /\ "widget" \in shown /\ made + Entering < MaxDaemons /\ ~crashed /\ ~closing
      /\ history' = history \cup IF Entering > 0 THEN {"enter"} ELSE {}
      /\ UNCHANGED <<gui, rest, poll, server, crashed>>
  BY <1>1 DEF EnterClicked, Push, Serves
<1>3. shown = {"widget"} /\ session = NoRoom  BY <1>2 DEF IInv, Shape, Windows
<1>4. Shape' /\ Framed' /\ Placement'
  <2>1. history \subseteq history' /\ timer' \in BOOLEAN  BY <1>2 DEF IInv, Shape, gui
  <2>2. QED  BY <2>1, <1>1, <1>2, PushKeeps DEF IInv, gui, rest
<1>5. Alone'
  <2>1. Of({"start"}) = {} /\ Of({"exit"}) = {} /\ "exit" \notin history
    BY <1>2, <1>3 DEF IInv, Alone
  <2>2. Of({"start"})' = {} /\ Of({"exit"})' = {}  BY <2>1, <1>1, Pushed DEF IInv
  <2>3. QED  BY <2>1, <2>2, <1>2 DEF Alone
<1>6. EnteredOnce'
  <2>1. SUFFICES ASSUME "enter" \notin history'  PROVE EnteredOnce'  BY DEF EnteredOnce
  <2>2. Entering = 0 /\ "enter" \notin history  BY <1>2, <2>1, Enterings DEF IInv
  <2>3. Of(Enters) = {}  BY <2>2, Enterings DEF IInv
  <2>4. Of(Enters)' = {Len(stack) + 1}  BY <2>3, <1>1, Pushed DEF IInv
  <2>5. QED  BY <2>2, <2>4, <1>2, <1>3 DEF IInv, EnteredOnce, gui
<1>7. QuitOnce'
  <2>1. SUFFICES ASSUME "quit" \notin history'  PROVE QuitOnce'  BY DEF QuitOnce
  <2>2. Of({"quit"}) = {} /\ ~timer  BY <1>2, <1>3, <2>1 DEF IInv, QuitOnce
  <2>3. Of({"quit"})' = {}  BY <2>2, <1>1, Pushed DEF IInv
  <2>4. QED  BY <2>2, <2>3, <1>2 DEF QuitOnce, gui
<1>8. RefreshOff'
  <2>1. Of({"refresh", "oldRefresh"})' = Of({"refresh", "oldRefresh"})  BY <1>1, Pushed DEF IInv
  <2>2. QED  BY <2>1, <1>2 DEF IInv, RefreshOff, gui
<1>9. Windows' /\ PolledBefore'  BY <1>2 DEF IInv, Windows, PolledBefore, gui, rest
<1>10. QED  BY <1>4, <1>5, <1>6, <1>7, <1>8, <1>9 DEF IInv

\* Other settings, and an invitation of somebody else, concern the server only.
LEMMA AskedKeeps == ASSUME IInv, ConfigDone \/ InviteClicked PROVE IInv'
<1> USE DEF Enters, Places, Ops
<1>1. PICK op \in {"config", "invite"} :
        Push(op, NoRoom) \/ (op = "config" /\ NoRoom = NoRoom /\ ConfigDone)
  BY DEF InviteClicked
<1>2. shown # {} /\ ~closing /\ UNCHANGED <<gui, rest, poll, crashed, history, late>>
  BY DEF ConfigDone, InviteClicked, Push, Serves, server
<1>3. /\ Of({"start"})' = Of({"start"}) /\ Of({"exit"})' = Of({"exit"})
      /\ Of(Enters)' = Of(Enters) /\ Of({"quit"})' = Of({"quit"})
      /\ Of({"refresh", "oldRefresh"})' = Of({"refresh", "oldRefresh"})
      /\ stack' \in Seq(Handler) /\ Len(stack') <= MaxDepth /\ Entering' = Entering
  BY <1>1, Pushed DEF IInv
<1>4. /\ Framed' /\ Answered(Enters)' = Answered(Enters) /\ Answered({"quit"})' = Answered({"quit"})
      /\ Answered(Enters \cup {"quit"})' = Answered(Enters \cup {"quit"})
      /\ \A i \in Answered(Enters) : stack'[i].room = stack[i].room
  BY <1>1, <1>2, PushFrames DEF IInv
<1>5. Shape'
  <2>1. where' \in {"gone", "0"} \cup Room /\ doubt' \in BOOLEAN
    BY DEF ConfigDone, InviteClicked, IInv, Shape, server
  <2>2. QED  BY <2>1, <1>2, <1>3 DEF IInv, Shape, gui, rest
<1>6. Placement'
  <2>1. CASE InviteClicked  BY <2>1, <1>2, <1>4 DEF InviteClicked, IInv, Placement, gui, server
  <2>2. CASE ConfigDone
    <3>1. SUFFICES ASSUME ~doubt'  PROVE Placement'  BY DEF Placement
    <3>2. session = NoRoom /\ where' \in {"gone", "0"}
          /\ \A i \in DOMAIN stack : stack[i].op \notin Moves
      BY <2>2, <3>1 DEF ConfigDone
    <3>3. \A ops : ops \subseteq Moves => Answered(ops) = {}
      BY <3>2 DEF Answered, Of
    <3>4. Answered(Enters) = {} /\ Answered({"quit"}) = {} /\ Answered(Enters \cup {"quit"}) = {}
      BY <3>3 DEF Moves
    <3>5. QED  BY <3>2, <3>4, <1>2, <1>4 DEF Placement, gui
  <2>3. QED  BY <2>1, <2>2
<1>7. Alone'
  <2>1. Of({"start"}) = {} /\ Of({"exit"}) = {} /\ "exit" \notin history
    BY <1>2 DEF IInv, Alone
  <2>2. QED  BY <2>1, <1>2, <1>3 DEF Alone
<1>8. EnteredOnce' /\ QuitOnce' /\ RefreshOff' /\ Windows' /\ PolledBefore'
  BY <1>2, <1>3 DEF IInv, EnteredOnce, QuitOnce, RefreshOff, Windows, PolledBefore, gui, rest
<1>9. QED  BY <1>4, <1>5, <1>6, <1>7, <1>8 DEF IInv

\* A click to leave.
LEMMA QuitClickedKeeps == ASSUME IInv, QuitClicked PROVE IInv'
<1> USE DEF Enters, Places, Ops
<1>1. /\ "room" \in shown /\ Push("quit", NoRoom) /\ ~closing /\ timer' = FALSE
      /\ history' = history \cup IF Waits("quit") THEN {"quit"} ELSE {}
      /\ UNCHANGED <<shown, room_id, session, live, made, rest, poll, server, crashed>>
  BY DEF QuitClicked, Push, Serves
<1>2. Shape' /\ Framed' /\ Placement'
  <2>1. history \subseteq history' /\ timer' \in BOOLEAN  BY <1>1
  <2>2. QED  BY <2>1, <1>1, PushKeeps DEF IInv, rest
<1>3. /\ Of({"start"})' = Of({"start"}) /\ Of({"exit"})' = Of({"exit"})
      /\ Of(Enters)' = Of(Enters) /\ Of({"quit"})' = Of({"quit"}) \cup {Len(stack) + 1}
      /\ Of({"refresh", "oldRefresh"})' = Of({"refresh", "oldRefresh"})
      /\ \A i \in DOMAIN stack : i < Len(stack) + 1
  BY <1>1, Pushed DEF IInv
<1>4. Alone'
  <2>1. Of({"start"}) = {} /\ Of({"exit"}) = {} /\ "exit" \notin history
    BY <1>1 DEF IInv, Alone
  <2>2. QED  BY <2>1, <1>1, <1>3 DEF Alone
<1>5. QuitOnce'
  <2>1. SUFFICES ASSUME "quit" \notin history'  PROVE QuitOnce'  BY DEF QuitOnce
  <2>2. Of({"quit"}) = {}  BY <2>1, <1>1 DEF Waits, Of
  <2>3. Of(Enters) \subseteq DOMAIN stack  BY DEF Of
  <2>4. QED  BY <2>2, <2>3, <1>1, <1>3 DEF QuitOnce
<1>6. EnteredOnce' /\ RefreshOff' /\ Windows' /\ PolledBefore'
  BY <1>1, <1>3 DEF IInv, EnteredOnce, RefreshOff, Windows, PolledBefore, rest
<1>7. QED  BY <1>2, <1>4, <1>5, <1>6 DEF IInv

\* The timer asks for the list.
LEMMA RefreshFiresKeeps == ASSUME IInv, RefreshFires PROVE IInv'
<1> USE DEF Enters, Places, Ops
<1>1. /\ timer /\ Push("refresh", NoRoom) /\ ~closing /\ ~crashed
      /\ UNCHANGED <<gui, rest, poll, server, crashed, history>>
  BY DEF RefreshFires, Push, Serves
<1>2. Shape' /\ Framed' /\ Placement'
  <2>1. history \subseteq history' /\ timer' \in BOOLEAN  BY <1>1 DEF IInv, Shape, gui
  <2>2. QED  BY <2>1, <1>1, PushKeeps DEF IInv, gui, rest
<1>3. /\ Of({"start"})' = Of({"start"}) /\ Of({"exit"})' = Of({"exit"})
      /\ Of(Enters)' = Of(Enters) /\ Of({"quit"})' = Of({"quit"})
  BY <1>1, Pushed DEF IInv
<1>4. Alone'
  <2>1. Of({"start"}) = {} /\ Of({"exit"}) = {} /\ "exit" \notin history
    BY <1>1 DEF IInv, Alone
  <2>2. QED  BY <2>1, <1>1, <1>3 DEF Alone
<1>5. RefreshOff'
  <2>1. "quit" \notin history => made \in live  BY <1>1 DEF IInv, QuitOnce, Windows
  <2>2. QED  BY <2>1, <1>1 DEF IInv, RefreshOff, gui
<1>6. EnteredOnce' /\ QuitOnce' /\ Windows' /\ PolledBefore'
  BY <1>1, <1>3 DEF IInv, EnteredOnce, QuitOnce, Windows, PolledBefore, gui, rest
<1>7. QED  BY <1>2, <1>4, <1>5, <1>6 DEF IInv

\* The last window is closed.
LEMMA CloseClickedKeeps == ASSUME IInv, CloseClicked PROVE IInv'
<1>1. /\ "widget" \in shown /\ closing' /\ shown' = shown \ {"widget"}
      /\ UNCHANGED <<stack, room_id, session, live, made, timer, overtaken, poll, server, crashed, history>>
  BY DEF CloseClicked
<1>2. shown = {"widget"} /\ shown' = {}  BY <1>1 DEF IInv, Shape
<1>3. \A ops : Of(ops)' = Of(ops) /\ Answered(ops)' = Answered(ops)  BY <1>1 DEF Answered, Of
<1>4. Shape' /\ Framed'
  <2>1. Entering' = Entering  BY <1>1 DEF Entering
  <2>2. closing' \in BOOLEAN  BY DEF CloseClicked
  <2>3. QED  BY <2>1, <2>2, <1>1, <1>2 DEF IInv, Shape, Framed, server
<1>5. Alone' /\ Windows' /\ EnteredOnce' /\ QuitOnce'
  BY <1>1, <1>2, <1>3 DEF IInv, Alone, Windows, EnteredOnce, QuitOnce
<1>6. RefreshOff' /\ Placement' /\ PolledBefore'
  BY <1>1, <1>3 DEF IInv, RefreshOff, Placement, PolledBefore, server
<1>7. QED  BY <1>4, <1>5, <1>6 DEF IInv

\* The destructor begins when nothing waits.
LEMMA ExitsKeeps == ASSUME IInv, Exits PROVE IInv'
<1> USE DEF Enters, Places, Ops
<1>1. /\ closing /\ stack = <<>> /\ stack' = <<Frame("exit", NoRoom)>>
      /\ history' = history \cup {"exit"} /\ UNCHANGED <<gui, rest, poll, server, crashed>>
  BY DEF Exits
<1>2. /\ stack' \in Seq(Handler) /\ Len(stack') = 1 /\ DOMAIN stack' = {1}
      /\ stack'[1].op = "exit" /\ stack'[1].reply = "waiting"
  BY <1>1 DEF Frame, Handler
<1>3. /\ \A ops : Of(ops) = {} /\ Answered(ops) = {} /\ Answered(ops)' = {}
      /\ \A ops : Of(ops)' = IF "exit" \in ops THEN {1} ELSE {}
  <2>1. DOMAIN stack = {}  BY <1>1
  <2>2. \A ops : Of(ops)' = {i \in {1} : stack'[i].op \in ops}  BY <1>2 DEF Of
  <2>3. \A ops : Of(ops)' = IF "exit" \in ops THEN {1} ELSE {}  BY <2>2, <1>2
  <2>4. \A ops : Answered(ops)' = {i \in Of(ops)' : stack'[i].reply = "ok"}  BY DEF Answered
  <2>5. QED  BY <2>1, <2>3, <2>4, <1>2 DEF Answered, Of
<1>4. Shape' /\ Framed'
  <2>1. Entering' = Cardinality(Of(Enters)') /\ Entering = Cardinality(Of(Enters))
    BY DEF Entering, Of
  <2>2. Entering' = Entering  BY <2>1, <1>3
  <2>3. QED
    BY <2>2, <1>1, <1>2, ShootingAssumption DEF IInv, Shape, Framed, gui, rest, server
<1>5. Alone' /\ Windows' /\ EnteredOnce'
  BY <1>1, <1>2, <1>3 DEF IInv, Alone, Windows, EnteredOnce, gui, rest
<1>6. QuitOnce' /\ RefreshOff' /\ PolledBefore'
  BY <1>1, <1>3 DEF IInv, QuitOnce, RefreshOff, PolledBefore, gui, rest
<1>7. Placement'  BY <1>1, <1>3 DEF IInv, Placement, gui, server
<1>8. QED  BY <1>4, <1>5, <1>6, <1>7 DEF IInv

\* The server answers one of those that wait.
LEMMA AnswersKeeps == ASSUME IInv, NEW i \in DOMAIN stack, Answers(i) PROVE IInv'
<1> USE DEF Enters, Places, Ops
<1>1. /\ stack[i].op \in Ops /\ stack[i].elsewhere \in BOOLEAN
      /\ UNCHANGED <<late, gui, rest, poll, crashed, history>> /\ doubt' = Settled(stack[i])
  BY Positions DEF IInv, Handler, Answers
<1>2. \A ops : Of(ops)' = Of(ops)  BY Replied DEF IInv
<1>3. Framed'  BY <1>1, Replied DEF IInv, Framed
<1>4. stack[i].op \in Enters => stack'[i].room \in Room
  BY Replied DEF IInv, Framed
<1>5. Shape'
  <2>1. where' \in {"gone", "0"} \cup Room
    <3>1. CASE Handles(stack[i].op, stack'[i].room)
      BY <3>1, <1>1, <1>4 DEF IInv, Shape, Handles, Placed
    <3>2. CASE where' = where  BY <3>2 DEF IInv, Shape
    <3>3. QED  BY <3>1, <3>2, Replied DEF IInv
  <2>2. doubt' \in BOOLEAN  BY <1>1 DEF Settled, IInv, Shape
  <2>3. QED  BY <2>1, <2>2, <1>1, Replied DEF IInv, Shape, gui, rest
<1>6. Alone' /\ Windows' /\ EnteredOnce' /\ QuitOnce' /\ RefreshOff' /\ PolledBefore'
  BY <1>1, <1>2, Replied
  DEF IInv, Alone, Windows, EnteredOnce, QuitOnce, RefreshOff, PolledBefore, gui, rest
<1>7. Placement'
  <2>1. SUFFICES ASSUME ~doubt', history \cap {"enter", "quit"} = {}  PROVE Placement'
    BY <1>1 DEF Placement
  <2>2. /\ \A j \in Of(Enters) : "room" \notin shown /\ \A k \in Of(Enters) : j = k
        /\ \A j \in Of({"quit"}) : "room" \in shown /\ \A k \in Of({"quit"}) : j = k
    BY <2>1 DEF IInv, EnteredOnce, QuitOnce
  <2>3. \A ops : Answered(ops)' = {j \in Of(ops) : stack'[j].reply = "ok"}
    BY <1>2 DEF Answered
  <2>4. \A ops : \A j \in Of(ops) :
          j # i => stack'[j] = stack[j] /\ (j \in Answered(ops)' <=> j \in Answered(ops))
    <3>1. \A ops : \A j \in Of(ops) : j \in DOMAIN stack  BY DEF Of
    <3>2. QED  BY <3>1, <2>3, Replied DEF IInv, Answered
  <2>5. \A ops : Answered(ops) \subseteq Of(ops) /\ i \notin Answered(ops)
    BY Replied DEF IInv, Answered
  <2>6. \A ops : i \in Of(ops) <=> stack[i].op \in ops  BY DEF Of
  <2>7. session' = session  BY <1>1 DEF gui
  <2>8. stack'[i].reply = "ok"  BY Replied DEF IInv
  <2>9. CASE stack[i].op \in Enters
    <3>1. ~stack[i].elsewhere /\ where # "gone"  BY <2>1, <2>9, <1>1 DEF Settled
    <3>2. where' = stack'[i].room
      BY <2>9, <3>1, Replied DEF IInv, Handles, Placed
    <3>3. where' # "gone"  BY <3>2, <2>9, <1>4, ShootingAssumption
    <3>4. Of(Enters) = {i} /\ Of({"quit"}) = {}  BY <2>2, <2>6, <2>9
    <3>5. Answered(Enters)' = {i} /\ Answered({"quit"})' = {} /\ i \in Answered(Enters \cup {"quit"})'
      BY <3>4, <2>3, <2>6, <2>8, <2>9
    <3>6. QED  BY <3>2, <3>3, <3>5 DEF Placement
  <2>10. CASE stack[i].op = "quit"
    <3>1. Of({"quit"}) = {i} /\ Of(Enters) = {}  BY <2>2, <2>6, <2>10
    <3>2. ~stack[i].elsewhere  BY <2>1, <2>10, <1>1 DEF Settled
    <3>3. where' = IF where = "gone" THEN "gone" ELSE "0"
      BY <2>10, <3>2, Replied DEF IInv, Handles, Placed
    <3>4. Answered(Enters)' = {} /\ Answered({"quit"})' = {i} /\ i \in Answered(Enters \cup {"quit"})'
      BY <3>1, <2>3, <2>6, <2>8, <2>10
    <3>5. QED  BY <3>3, <3>4 DEF Placement
  <2>11. CASE stack[i].op \notin Enters \cup {"quit"}
    <3>1. /\ Answered(Enters)' = Answered(Enters) /\ Answered({"quit"})' = Answered({"quit"})
          /\ Answered(Enters \cup {"quit"})' = Answered(Enters \cup {"quit"})
          /\ \A j \in Answered(Enters) : stack'[j] = stack[j]
      <4>1. i \notin Of(Enters) /\ i \notin Of({"quit"}) /\ i \notin Of(Enters \cup {"quit"})
        BY <2>6, <2>11
      <4>2. QED  BY <4>1, <2>3, <2>4, <2>5
    <3>2. \/ stack[i].op = "exit" /\ where' = "gone"
          \/ stack[i].op \in {"start", "config"} /\ where = "gone" /\ where' = "0"
          \/ where' = where
      BY <2>11, <1>1, Replied DEF IInv, Handles, Placed
    <3>3. ~doubt  BY <2>1, <2>11, <1>1 DEF Settled
    <3>4. CASE stack[i].op = "exit" /\ where' = "gone"
      <4>1. "exit" \in history'  BY <3>4, <1>1, <2>6 DEF IInv, Alone
      <4>2. QED  BY <3>4, <4>1 DEF Placement
    <3>5. CASE stack[i].op \in {"start", "config"} /\ where = "gone" /\ where' = "0"
      <4>1. "exit" \notin history
        <5>1. i \notin Of({"exit"})  BY <3>5, <2>6
        <5>2. QED  BY <5>1 DEF IInv, Alone
      <4>2. (session = NoRoom \/ Answered({"quit"}) # {}) /\ Answered(Enters) = {}
        BY <4>1, <3>3, <3>5, <2>1 DEF IInv, Placement
      <4>3. Answered({"quit"}) \subseteq Answered(Enters \cup {"quit"})  BY DEF Answered, Of
      <4>4. QED  BY <4>2, <4>3, <3>1, <3>5, <2>7 DEF Placement
    <3>6. CASE where' = where
      BY <3>6, <3>1, <3>3, <2>1, <2>7, <1>1 DEF IInv, Placement
    <3>7. QED  BY <3>2, <3>4, <3>5, <3>6
  <2>12. QED  BY <2>9, <2>10, <2>11
<1>8. QED  BY <1>3, <1>5, <1>6, <1>7 DEF IInv

\* A request given up is handled: where the host is, is in doubt if that changes it.
LEMMA HandledLateKeeps == ASSUME IInv, HandledLate PROVE IInv'
<1> USE DEF Enters, Places, Ops
<1>1. PICK q \in late : /\ \E r \in IF q.op = "instant" THEN Room ELSE {q.room} : Handles(q.op, r)
                        /\ late' = late \ {q} /\ doubt' = (doubt \/ where' # where)
                        /\ UNCHANGED <<stack, gui, rest, poll, crashed, history>>
  BY DEF HandledLate
<1>2. \A ops : Of(ops)' = Of(ops) /\ Answered(ops)' = Answered(ops)  BY <1>1 DEF Answered, Of
<1>3. where' \in {"gone", "0"} \cup Room
  <2>1. PICK r : /\ q.op = "instant" => r \in Room
                 /\ q.op # "instant" => r = q.room
                 /\ where' = Placed(q.op, r)
    BY <1>1 DEF Handles
  <2>2. q.op \in Places  BY DEF IInv, Shape
  <2>3. q.op \in Enters => r \in Room  BY <2>1 DEF IInv, Framed
  <2>4. QED  BY <2>1, <2>2, <2>3 DEF IInv, Shape, Placed
<1>4. Shape' /\ Framed'
  <2>1. Entering' = Entering  BY <1>1 DEF Entering
  <2>2. doubt' \in BOOLEAN  BY <1>1 DEF IInv, Shape
  <2>3. QED  BY <2>1, <2>2, <1>1, <1>3 DEF IInv, Shape, Framed, gui, rest
<1>5. Alone' /\ Windows' /\ EnteredOnce' /\ QuitOnce' /\ RefreshOff' /\ PolledBefore'
  BY <1>1, <1>2
  DEF IInv, Alone, Windows, EnteredOnce, QuitOnce, RefreshOff, PolledBefore, gui, rest
<1>6. Placement'
  <2>1. CASE where' = where /\ doubt' = doubt  BY <2>1, <1>1, <1>2 DEF IInv, Placement, gui
  <2>2. CASE doubt'  BY <2>2 DEF Placement
  <2>3. QED  BY <2>1, <2>2, <1>1 DEF IInv, Shape
<1>7. QED  BY <1>4, <1>5, <1>6 DEF IInv

\* Whether a poll is answered or fails is seen only when the poll writes.
LEMMA OutsideKeeps == ASSUME IInv, PollBegins \/ PollAnswered \/ PollFails PROVE IInv'
<1>1. UNCHANGED <<stack, gui, rest, server, crashed, history>>
  BY DEF PollBegins, PollAnswered, PollFails
<1>2. \A ops : Of(ops)' = Of(ops) /\ Answered(ops)' = Answered(ops)  BY <1>1 DEF Answered, Of
<1>3. Shape'
  <2>1. poll' \in {"idle", "asking"} \cup Room
    BY ShootingAssumption DEF PollBegins, PollAnswered, PollFails, IInv, Shape
  <2>2. Entering' = Entering  BY <1>1 DEF Entering
  <2>3. QED  BY <1>1, <2>1, <2>2 DEF IInv, Shape, gui, rest, server
<1>4. Framed' /\ Alone' /\ Windows' /\ EnteredOnce' /\ QuitOnce' /\ RefreshOff' /\ Placement'
  BY <1>1, <1>2
  DEF IInv, Framed, Alone, Windows, EnteredOnce, QuitOnce, RefreshOff, Placement, gui, rest, server
<1>5. PolledBefore'
  <2>1. CASE PollBegins  BY <1>1, <2>1 DEF PollBegins, PolledBefore, gui
  <2>2. CASE PollFails  BY <2>2 DEF PollFails, PolledBefore
  <2>3. CASE PollAnswered  BY <1>1, <2>3 DEF IInv, PollAnswered, PolledBefore, gui, rest
  <2>4. QED  BY <2>1, <2>2, <2>3
<1>6. QED  BY <1>3, <1>4, <1>5 DEF IInv

\* The poll writes the room it was told.
LEMMA PollWritesKeeps == ASSUME IInv, PollWrites PROVE IInv'
<1>1. /\ poll \in Room /\ poll' = "idle" /\ room_id' = poll
      /\ overtaken' = (session # NoRoom)
      /\ history' = history \cup IF made \notin live /\ (Waits("refresh") \/ Waits("oldRefresh"))
                                 THEN {"revived"} ELSE {}
      /\ UNCHANGED <<stack, shown, session, live, made, timer, closing, server, crashed>>
  BY DEF PollWrites
<1>2. \A ops : Of(ops)' = Of(ops) /\ Answered(ops)' = Answered(ops)  BY <1>1 DEF Answered, Of
<1>3. Shape' /\ Framed'
  <2>1. Entering' = Entering  BY <1>1 DEF Entering
  <2>2. QED  BY <2>1, <1>1 DEF IInv, Shape, Framed, server
<1>4. RefreshOff'
  <2>1. Waits("refresh") \/ Waits("oldRefresh") <=> Of({"refresh", "oldRefresh"}) # {}
    BY DEF Waits, Of
  <2>2. QED  BY <2>1, <1>1, <1>2 DEF IInv, RefreshOff
<1>5. Alone' /\ Windows' /\ EnteredOnce' /\ QuitOnce' /\ Placement' /\ PolledBefore'
  BY <1>1, <1>2
  DEF IInv, Alone, Windows, EnteredOnce, QuitOnce, Placement, PolledBefore, server
<1>6. QED  BY <1>3, <1>4, <1>5 DEF IInv

\* What a handler that returns leaves of the stack.
LEMMA PopKeeps ==
  ASSUME IInv, stack # <<>>, stack' = Front(stack) \/ stack' = Retired(Front(stack)),
         history \subseteq history', closing' = closing,
         "exit" \in history' => "exit" \in history,
         late' = late \/ late' = late \cup {[op |-> Last(stack).op, room |-> Last(stack).room]}
  PROVE  /\ Framed' /\ Of({"start"})' = {}
         /\ \A i \in Of({"exit"})' : "exit" \in history'
         /\ "exit" \in history' => closing' /\ DOMAIN stack' = Of({"exit"})'
         /\ Answered(Enters)' = Answered(Enters) \ {Len(stack)}
         /\ Answered({"quit"})' = Answered({"quit"}) \ {Len(stack)}
         /\ Answered(Enters \cup {"quit"})' = Answered(Enters \cup {"quit"}) \ {Len(stack)}
         /\ \A i \in Answered(Enters)' : stack'[i].room = stack[i].room
<1> USE DEF Enters, Places, Ops
<1>1. Framed'
  <2>1. ASSUME NEW i \in DOMAIN stack',
               stack'[i].op = "join" \/ (stack'[i].op = "instant" /\ stack'[i].reply = "ok")
        PROVE  stack'[i].room \in Room
    <3>1. i \in DOMAIN stack  BY Popped DEF IInv
    <3>2. stack'[i].op = stack[i].op  BY <2>1, Popped DEF IInv
    <3>3. QED  BY <2>1, <3>1, <3>2, Popped DEF IInv, Framed
  <2>2. Len(stack) \in DOMAIN stack /\ Last(stack) = stack[Len(stack)]  BY Positions DEF IInv
  <2>3. \A q \in late' : q.op = "join" => q.room \in Room  BY <2>2 DEF IInv, Framed
  <2>4. QED  BY <2>1, <2>3 DEF Framed
<1>2. Of({"start"})' = {}
  <2>1. Of({"start"})' = Of({"start"}) \ {Len(stack)}  BY Popped DEF IInv
  <2>2. \A i \in Of({"start"}) : i = Len(stack)
    BY Positions DEF IInv, Alone, Of
  <2>3. QED  BY <2>1, <2>2
<1>3. /\ \A i \in Of({"exit"})' : "exit" \in history'
      /\ "exit" \in history' => closing' /\ DOMAIN stack' = Of({"exit"})'
  BY Popped DEF IInv, Alone
<1>4. Of({"quit"})' = Of({"quit"}) \ {Len(stack)} /\ Of(Enters)' = Of(Enters) \ {Len(stack)}
  BY Popped DEF IInv
<1>5. \A ops : Answered(ops)' = {i \in Of(ops)' : stack'[i].reply = "ok"}
  BY DEF Answered
<1>6. \A ops : \A i \in Of(ops)' : i \in DOMAIN stack'  BY DEF Of
<1>7. Of(Enters \cup {"quit"})' = Of(Enters \cup {"quit"}) \ {Len(stack)}
  <2>1. Of(Enters \cup {"quit"}) = Of(Enters) \cup Of({"quit"})  BY DEF Of
  <2>2. Of(Enters \cup {"quit"})' = Of(Enters)' \cup Of({"quit"})'  BY DEF Of
  <2>3. QED  BY <2>1, <2>2, <1>4
<1>8. ASSUME NEW ops, Of(ops)' = Of(ops) \ {Len(stack)}
      PROVE  Answered(ops)' = Answered(ops) \ {Len(stack)}
  <2>1. \A i \in Of(ops)' : stack'[i].reply = stack[i].reply  BY <1>6, Popped DEF IInv
  <2>2. QED  BY <2>1, <1>5, <1>8 DEF Answered
<1>9. \A i \in Answered(Enters)' : stack'[i].room = stack[i].room
  BY <1>5, <1>6, Popped DEF IInv
<1>10. QED  BY <1>1, <1>2, <1>3, <1>4, <1>7, <1>8, <1>9

\* A room is entered.
LEMMA EnterReturnsKeeps == ASSUME IInv, EnterReturns PROVE IInv'
<1> USE DEF Enters, Places, Ops
<1>1. /\ stack # <<>> /\ ~crashed /\ Last(stack).op \in Enters /\ Last(stack).reply = "ok"
      /\ UNCHANGED <<server, history>> /\ stack' = Retired(Front(stack))
      /\ room_id' = Last(stack).room /\ session' = Last(stack).room
      /\ made' = made + 1 /\ live' = live \cup {made + 1}
      /\ shown' = (shown \ {"widget"}) \cup {"room"} /\ timer' = TRUE
      /\ overtaken' = FALSE /\ UNCHANGED <<closing, poll, crashed>>
  BY DEF EnterReturns, Resumes, Succeeded, server
<1> DEFINE n == Len(stack)
<1>2. n \in Of(Enters) /\ n \in Answered(Enters) /\ n \in DOMAIN stack /\ Last(stack) = stack[n]
  BY <1>1, Positions DEF IInv, Of, Answered
<1>3. Last(stack).room \in Room /\ Last(stack).room # NoRoom
  BY <1>1, <1>2, ShootingAssumption DEF IInv, Framed
<1>4. shown' = {"room"}  BY <1>1 DEF IInv, Shape
<1>5. /\ Framed' /\ Of({"start"})' = {}
      /\ \A i \in Of({"exit"})' : "exit" \in history'
      /\ "exit" \in history' => closing' /\ DOMAIN stack' = Of({"exit"})'
      /\ Answered(Enters)' = Answered(Enters) \ {n}
      /\ Answered({"quit"})' = Answered({"quit"}) \ {n}
      /\ Answered(Enters \cup {"quit"})' = Answered(Enters \cup {"quit"}) \ {n}
  BY <1>1, PopKeeps DEF server
<1>6. /\ Of(Enters)' = Of(Enters) \ {n} /\ Of({"quit"})' = Of({"quit"}) \ {n}
      /\ Of({"refresh", "oldRefresh"})' = Of({"refresh", "oldRefresh"}) \ {n}
      /\ stack' \in Seq(Handler) /\ Len(stack') = n - 1
  BY <1>1, Popped DEF IInv
<1>7. Shape'
  <2>1. made' + Entering' = made + Entering
    <3>1. Entering' = Entering - 1  BY <1>1, Popped DEF IInv
    <3>2. Entering \in Nat /\ made \in Nat  BY Enterings DEF IInv, Shape
    <3>3. QED  BY <3>1, <3>2, <1>1
  <2>2. Len(stack') <= MaxDepth  BY <1>6, ShootingAssumption, Positions DEF IInv, Shape
  <2>3. live' \subseteq 1 .. made' /\ made' \in Nat
    BY <1>1 DEF IInv, Shape
  <2>4. timer' \in BOOLEAN /\ overtaken' \in BOOLEAN  BY <1>1
  <2>5. QED  BY <2>1, <2>2, <2>3, <2>4, <1>1, <1>3, <1>4, <1>6 DEF IInv, Shape, server
<1>8. Alone'  BY <1>5 DEF Alone
<1>9. Windows' /\ PolledBefore'
  BY <1>1, <1>3, <1>4 DEF IInv, Shape, Windows, PolledBefore
<1>10. EnteredOnce'
  <2>1. SUFFICES ASSUME "enter" \notin history  PROVE EnteredOnce'  BY <1>1 DEF EnteredOnce
  <2>2. live = {} /\ Of(Enters) = {n}  BY <2>1, <1>1, <1>2 DEF IInv, EnteredOnce
  <2>3. QED  BY <2>2, <1>1, <1>4, <1>6 DEF EnteredOnce
<1>11. QuitOnce'
  <2>1. SUFFICES ASSUME "quit" \notin history  PROVE QuitOnce'  BY <1>1 DEF QuitOnce
  <2>2. Of({"quit"}) = {}
    <3>1. \A i \in Of({"quit"}) : n < i  BY <2>1, <1>2 DEF IInv, QuitOnce
    <3>2. \A i \in Of({"quit"}) : i <= n /\ n \in Nat /\ i \in Nat  BY Positions DEF IInv, Of
    <3>3. QED  BY <3>1, <3>2
  <2>3. QED  BY <2>2, <1>4, <1>6 DEF QuitOnce
<1>12. RefreshOff'  BY <1>1 DEF IInv, RefreshOff
<1>13. Placement'
  <2>1. SUFFICES ASSUME ~doubt, history \cap {"enter", "quit"} = {}  PROVE Placement'
    BY <1>1 DEF Placement, server
  <2>2. Of(Enters) = {n} /\ "room" \notin shown  BY <2>1, <1>2 DEF IInv, EnteredOnce
  <2>3. Of({"quit"}) = {}  BY <2>1, <2>2 DEF IInv, QuitOnce
  <2>4. Answered(Enters)' = {} /\ Answered({"quit"})' = {} /\ Answered(Enters \cup {"quit"})' = {}
    BY <2>2, <2>3, <1>5 DEF Answered, Of
  <2>5. where # "gone" => where = stack[n].room  BY <2>1, <1>2 DEF IInv, Placement
  <2>6. where = "gone" => "exit" \in history  BY <2>1, <1>2 DEF IInv, Placement
  <2>7. "exit" \notin history
    <3>1. n \notin Of({"exit"})  BY <1>1, <1>2 DEF Of
    <3>2. QED  BY <3>1, <1>2 DEF IInv, Alone
  <2>8. QED  BY <2>4, <2>5, <2>6, <2>7, <1>1, <1>2, <1>3 DEF Placement, server
<1>14. QED
  BY <1>5, <1>7, <1>8, <1>9, <1>10, <1>11, <1>12, <1>13 DEF IInv

\* Whoever resumes has been answered or gives up, and who gives up leaving is in doubt.
LEMMA Resumed ==
  ASSUME IInv, NEW ops, Resumes(ops)
  PROVE  /\ stack # <<>> /\ ~crashed /\ Last(stack).op \in ops
         /\ Len(stack) \in DOMAIN stack /\ Last(stack) = stack[Len(stack)]
         /\ where' = where /\ doubt' \in BOOLEAN /\ (doubt => doubt')
         /\ Last(stack).op # "quit" => doubt' = doubt
         /\ Last(stack).op = "quit" => Last(stack).reply = "ok" \/ doubt'
         /\ late' = late \/ late' = late \cup {[op |-> Last(stack).op, room |-> Last(stack).room]}
         /\ late' \subseteq [op : Places, room : Room \cup {NoRoom}]
<1>1. stack # <<>> /\ ~crashed /\ Last(stack).op \in ops /\ where' = where
  BY DEF Resumes
<1>2. Len(stack) \in DOMAIN stack /\ Last(stack) = stack[Len(stack)] /\ Last(stack) \in Handler
  BY <1>1, Positions DEF IInv
<1>3. Last(stack).reply \in {"waiting", "ok"} /\ Last(stack).room \in Room \cup {NoRoom}
  BY <1>2 DEF Handler
<1>4. doubt \in BOOLEAN /\ late \subseteq [op : Places, room : Room \cup {NoRoom}]
  BY DEF IInv, Shape
<1>5. CASE Last(stack).reply # "waiting" /\ UNCHANGED <<late, doubt>>
  BY <1>1, <1>2, <1>3, <1>4, <1>5
<1>6. CASE Last(stack).reply = "waiting" /\ GivenUp(Last(stack))
  <2>1. doubt' = (doubt \/ Last(stack).op = "quit")  BY <1>6 DEF GivenUp
  <2>2. \/ late' = late
        \/ /\ Last(stack).op \in Places
           /\ late' = late \cup {[op |-> Last(stack).op, room |-> Last(stack).room]}
    BY <1>6 DEF GivenUp
  <2>3. late' \subseteq [op : Places, room : Room \cup {NoRoom}]  BY <2>2, <1>3, <1>4
  <2>4. /\ doubt' \in BOOLEAN /\ (doubt => doubt')
        /\ Last(stack).op # "quit" => doubt' = doubt
        /\ Last(stack).op = "quit" => doubt'
    BY <2>1, <1>4, Zenon
  <2>5. QED  BY <1>1, <1>2, <2>2, <2>3, <2>4
<1>7. QED  BY <1>5, <1>6 DEF Resumes

\* The stack after any return but that of an "enter" answered.
LEMMA ReturnKeeps ==
  ASSUME IInv, NEW ops, Resumes(ops), Done, UNCHANGED <<closing, made, poll, overtaken, history>>
  PROVE  /\ stack' \in Seq(Handler) /\ Len(stack') <= MaxDepth /\ made' + Entering' <= MaxDaemons
         /\ Framed' /\ Of({"start"})' = {}
         /\ \A i \in Of({"exit"})' : "exit" \in history'
         /\ "exit" \in history' => closing' /\ DOMAIN stack' = Of({"exit"})'
         /\ \A i \in Of(Enters)' : i \in Of(Enters)
         /\ Of({"quit"})' = Of({"quit"}) \ {Len(stack)}
         /\ Of({"refresh", "oldRefresh"})' \subseteq Of({"refresh", "oldRefresh"})
         /\ Answered(Enters)' = Answered(Enters) \ {Len(stack)}
         /\ Answered({"quit"})' = Answered({"quit"}) \ {Len(stack)}
         /\ Answered(Enters \cup {"quit"})' = Answered(Enters \cup {"quit"}) \ {Len(stack)}
         /\ \A i \in Answered(Enters)' : stack'[i].room = stack[i].room
<1> USE DEF Enters, Places, Ops
<1>1. stack # <<>> /\ stack' = Front(stack)
  BY Resumed DEF Done
<1>2. Len(stack') = Len(stack) - 1 /\ Len(stack) \in Nat /\ Len(stack) <= MaxDepth
      /\ stack' \in Seq(Handler)
  BY <1>1, Popped, Positions DEF IInv, Shape
<1>3. Len(stack') <= MaxDepth  BY <1>2, ShootingAssumption
<1>4. made' + Entering' <= MaxDaemons
  <2>1. /\ Entering' = Entering \/ Entering' = Entering - 1
        /\ Entering \in Nat /\ made \in Nat /\ made' = made
    BY <1>1, Popped, Enterings DEF IInv, Shape
  <2>2. made + Entering <= MaxDaemons  BY DEF IInv, Shape
  <2>3. QED  BY <2>1, <2>2, ShootingAssumption
<1>5. Of(Enters)' = Of(Enters) \ {Len(stack)} /\ Of({"quit"})' = Of({"quit"}) \ {Len(stack)}
      /\ Of({"refresh", "oldRefresh"})' = Of({"refresh", "oldRefresh"}) \ {Len(stack)}
  BY <1>1, Popped DEF IInv
<1>6. QED  BY <1>1, <1>2, <1>3, <1>4, <1>5, PopKeeps, Resumed

\* The room could not be entered.
LEMMA EnterFailsKeeps == ASSUME IInv, EnterFails PROVE IInv'
<1> USE DEF Enters, Places, Ops
<1>1. Resumes(Enters) /\ Last(stack).reply # "ok" /\ Done
      /\ UNCHANGED <<gui, rest, poll, crashed, history>>
  BY DEF EnterFails, Succeeded
<1>2. Shape' /\ Framed'  BY <1>1, ReturnKeeps, Resumed DEF IInv, Shape, gui, rest
<1>3. Alone'  BY <1>1, ReturnKeeps DEF Alone, gui, rest
<1>4. where' = where /\ doubt' = doubt  BY <1>1, Resumed
<1>5. Windows' /\ EnteredOnce' /\ QuitOnce' /\ RefreshOff' /\ PolledBefore'
  BY <1>1, ReturnKeeps
  DEF IInv, Windows, EnteredOnce, QuitOnce, RefreshOff, PolledBefore, gui, rest
<1>6. Placement'
  <2>1. /\ Len(stack) \notin Answered(Enters) /\ Len(stack) \notin Answered({"quit"})
        /\ Len(stack) \notin Answered(Enters \cup {"quit"})
    BY <1>1, Resumed DEF Answered
  <2>2. /\ Answered(Enters)' = Answered(Enters) /\ Answered({"quit"})' = Answered({"quit"})
        /\ Answered(Enters \cup {"quit"})' = Answered(Enters \cup {"quit"})
        /\ \A i \in Answered(Enters) : stack'[i].room = stack[i].room
    BY <2>1, <1>1, ReturnKeeps DEF gui, rest
  <2>3. QED  BY <2>2, <1>1, <1>4 DEF IInv, Placement, gui
<1>7. QED  BY <1>2, <1>3, <1>5, <1>6 DEF IInv

\* The room is left.
LEMMA QuitReturnsKeeps == ASSUME IInv, QuitReturns PROVE IInv'
<1> USE DEF Enters, Places, Ops
<1>1. /\ Resumes({"quit"}) /\ Done /\ crashed' = (made \notin live) /\ live' = live \ {made}
      /\ room_id' = NoRoom /\ session' = NoRoom /\ shown' = (shown \ {"room"}) \cup {"widget"}
      /\ UNCHANGED <<made, timer, rest, poll, history>>
  BY DEF QuitReturns
<1> DEFINE n == Len(stack)
<1>2. /\ ~crashed /\ Last(stack).op = "quit" /\ n \in Of({"quit"}) /\ Last(stack) = stack[n]
      /\ where' = where /\ (doubt => doubt') /\ (Last(stack).reply = "ok" \/ doubt')
  BY <1>1, Resumed DEF Of
<1>3. shown' = {"widget"}  BY <1>1 DEF IInv, Shape
<1>4. Shape' /\ Framed'
  BY <1>1, <1>3, ReturnKeeps, Resumed DEF IInv, Shape, rest
<1>5. Alone'  BY <1>1, ReturnKeeps DEF Alone, rest
<1>6. Windows' /\ PolledBefore'  BY <1>1, <1>3 DEF Windows, PolledBefore
<1>7. EnteredOnce'
  <2>1. SUFFICES ASSUME "enter" \notin history'  PROVE EnteredOnce'  BY DEF EnteredOnce
  <2>2. live \subseteq {made} /\ \A i, j \in Of(Enters) : i = j
    BY <2>1, <1>1, <1>2 DEF IInv, EnteredOnce
  <2>3. QED  BY <2>2, <1>1, <1>3, ReturnKeeps DEF EnteredOnce, rest
<1>8. "quit" \notin history =>
        /\ "room" \in shown /\ ~timer /\ Of({"quit"}) = {n} /\ made \in live
  BY <1>2 DEF IInv, QuitOnce, Windows
<1>9. QuitOnce'
  <2>1. SUFFICES ASSUME "quit" \notin history'  PROVE QuitOnce'  BY DEF QuitOnce
  <2>2. ~timer' /\ Of({"quit"})' = {}  BY <2>1, <1>1, <1>2, <1>8, ReturnKeeps DEF rest
  <2>3. QED  BY <2>2 DEF QuitOnce
<1>10. RefreshOff'  BY <1>1, <1>2, <1>8 DEF RefreshOff
<1>11. Placement'
  <2>1. SUFFICES ASSUME ~doubt', history \cap {"enter", "quit"} = {}  PROVE Placement'
    BY <1>1 DEF Placement
  <2>2. ~doubt /\ Last(stack).reply = "ok"  BY <2>1, <1>2
  <2>3. Of({"quit"}) = {n} /\ Of(Enters) = {}  BY <2>1, <1>8 DEF IInv, EnteredOnce
  <2>4. Answered(Enters)' = {} /\ Answered({"quit"})' = {} /\ Answered(Enters \cup {"quit"})' = {}
    BY <2>3, <1>1, ReturnKeeps DEF Answered, Of, rest
  <2>5. n \in Answered({"quit"})  BY <2>2, <1>2 DEF Answered
  <2>6. where # "gone" => where = "0"  BY <2>1, <2>2, <2>5 DEF IInv, Placement
  <2>7. QED  BY <2>4, <2>6, <1>1, <1>2 DEF Placement
<1>12. QED
  BY <1>4, <1>5, <1>6, <1>7, <1>9, <1>10, <1>11 DEF IInv

\* Where a handler that neither enters nor leaves leaves the host.
LEMMA OtherPlacement ==
  ASSUME IInv, NEW ops, ops \cap (Enters \cup {"quit"}) = {}, Resumes(ops), Done,
         UNCHANGED <<session, rest, made, poll, history>>
  PROVE  Placement'
<1>1. Last(stack).op \notin Enters \cup {"quit"} /\ Last(stack) = stack[Len(stack)]
      /\ where' = where /\ doubt' = doubt
  BY Resumed
<1>2. /\ Len(stack) \notin Answered(Enters) /\ Len(stack) \notin Answered({"quit"})
      /\ Len(stack) \notin Answered(Enters \cup {"quit"})
  BY <1>1 DEF Answered, Of
<1>3. /\ Answered(Enters)' = Answered(Enters) /\ Answered({"quit"})' = Answered({"quit"})
      /\ Answered(Enters \cup {"quit"})' = Answered(Enters \cup {"quit"})
      /\ \A i \in Answered(Enters) : stack'[i].room = stack[i].room
  BY <1>2, ReturnKeeps DEF rest
<1>4. QED  BY <1>1, <1>3 DEF IInv, Placement

\* The list of the room has been fetched.
LEMMA RefreshReturnsKeeps == ASSUME IInv, RefreshReturns PROVE IInv'
<1> USE DEF Enters, Places, Ops
<1>1. /\ Resumes({"refresh", "oldRefresh"}) /\ Done
      /\ crashed' = crashed \/ (room_id # NoRoom /\ crashed' = (made \notin live))
      /\ UNCHANGED <<shown, room_id, session, live, made, timer, rest, poll, history>>
  BY DEF RefreshReturns
<1>2. ~crashed /\ Len(stack) \in Of({"refresh", "oldRefresh"}) /\ Last(stack) = stack[Len(stack)]
  BY <1>1, Resumed DEF Of
<1>3. Shape' /\ Framed'
  <2>1. crashed' \in BOOLEAN  BY <1>1 DEF IInv, Shape
  <2>2. QED  BY <2>1, <1>1, ReturnKeeps, Resumed DEF IInv, Shape, rest
<1>4. Alone'  BY <1>1, ReturnKeeps DEF Alone, rest
<1>5. Windows' /\ EnteredOnce' /\ QuitOnce' /\ PolledBefore'
  BY <1>1, <1>2, ReturnKeeps DEF IInv, Windows, EnteredOnce, QuitOnce, PolledBefore, rest
<1>6. RefreshOff'
  <2>1. crashed' => history \cap {"quit", "revived"} # {}
    BY <1>1, <1>2 DEF IInv, RefreshOff
  <2>2. QED  BY <2>1, <1>1, <1>2, ReturnKeeps DEF IInv, RefreshOff, rest
<1>7. Placement'  BY <1>1, OtherPlacement DEF rest
<1>8. QED  BY <1>3, <1>4, <1>5, <1>6, <1>7 DEF IInv

\* The constructor, the settings, an invitation, the destructor.
LEMMA OtherReturnsKeeps == ASSUME IInv, OtherReturns PROVE IInv'
<1> USE DEF Enters, Places, Ops
<1>1. /\ Resumes({"start", "config", "invite", "exit"}) /\ Done
      /\ shown' = IF Last(stack).op = "start" THEN {"widget"} ELSE shown
      /\ UNCHANGED <<room_id, session, live, made, timer, rest, poll, crashed, history>>
  BY DEF OtherReturns
<1>2. ~crashed /\ Len(stack) \in DOMAIN stack /\ Last(stack) = stack[Len(stack)]
  BY <1>1, Resumed
<1>3. Last(stack).op = "start" => shown = {} /\ ~timer /\ session = NoRoom /\ Len(stack) = 1
  BY <1>2 DEF IInv, Alone, Of
<1>4. "room" \in shown' <=> "room" \in shown  BY <1>1, <1>3
<1>5. Shape' /\ Framed'
  BY <1>1, <1>3, ReturnKeeps, Resumed DEF IInv, Shape, rest
<1>6. Alone'  BY <1>1, ReturnKeeps DEF Alone, rest
<1>7. Windows' /\ EnteredOnce' /\ QuitOnce' /\ PolledBefore' /\ RefreshOff'
  BY <1>1, <1>2, <1>4, ReturnKeeps
  DEF IInv, Windows, EnteredOnce, QuitOnce, PolledBefore, RefreshOff, rest
<1>8. Placement'  BY <1>1, OtherPlacement DEF rest
<1>9. QED  BY <1>5, <1>6, <1>7, <1>8 DEF IInv

-----------------------------------------------------------------------------
(* The theorems. *)

\* Initially no room is entered.
LEMMA InitHolds == Init => IInv
<1> USE DEF Enters, Places, Ops
<1> SUFFICES ASSUME Init PROVE IInv  OBVIOUS
<1>1. CASE stack = <<>>
  <2>1. \A ops : Of(ops) = {} /\ Answered(ops) = {}  BY <1>1 DEF Of, Answered
  <2>2. Entering = 0  BY <2>1, FS_EmptySet DEF Entering, Of
  <2>3. Shape
    <3>1. stack \in Seq(Handler) /\ Len(stack) = 0 /\ Len(stack) <= MaxDepth /\ 0 <= MaxDaemons
      BY <1>1, ShootingAssumption
    <3>2. late \subseteq [op : Places, room : Room \cup {NoRoom}] /\ doubt \in BOOLEAN  BY DEF Init
    <3>3. made + Entering <= MaxDaemons /\ live \subseteq 1 .. made  BY <2>2, <3>1 DEF Init
    <3>4. timer \in BOOLEAN /\ closing \in BOOLEAN /\ crashed \in BOOLEAN  BY DEF Init
    <3>5. shown \in {{}, {"widget"}, {"room"}}  BY <1>1, Zenon DEF Init
    <3>6. /\ room_id \in Room \cup {NoRoom} /\ session \in Room \cup {NoRoom}
          /\ poll \in {"idle", "asking"} \cup Room /\ where \in {"gone", "0"} \cup Room
          /\ made \in Nat /\ overtaken \in BOOLEAN
      BY DEF Init
    <3>7. QED  BY <1>1, <3>1, <3>2, <3>3, <3>4, <3>5, <3>6 DEF Shape
  <2>4. Framed /\ Alone /\ Windows /\ EnteredOnce /\ QuitOnce
    BY <1>1, <2>1 DEF Init, Framed, Alone, Windows, EnteredOnce, QuitOnce
  <2>5. RefreshOff /\ Placement /\ PolledBefore
    BY <2>1 DEF Init, RefreshOff, Placement, PolledBefore
  <2>6. QED  BY <2>3, <2>4, <2>5 DEF IInv
<1>2. CASE stack = <<Frame("start", NoRoom)>>
  <2>1. stack \in Seq(Handler) /\ Len(stack) = 1 /\ DOMAIN stack = {1} /\ stack[1].op = "start"
        /\ stack[1].reply = "waiting"
    BY <1>2 DEF Frame, Handler
  <2>2. /\ \A ops : Answered(ops) = {}
        /\ Of({"exit"}) = {} /\ Of({"quit"}) = {} /\ Of(Enters) = {}
        /\ Of({"refresh", "oldRefresh"}) = {}
    BY <2>1 DEF Of, Answered
  <2>3. Entering = 0  BY <2>2, FS_EmptySet DEF Entering, Of
  <2>4. shown = {}
    <3>1. stack # <<>>  BY <1>2
    <3>2. QED  BY <3>1, Zenon DEF Init
  <2>5. Shape
    <3>1. Len(stack) <= MaxDepth /\ 0 <= MaxDaemons  BY <2>1, ShootingAssumption
    <3>2. late \subseteq [op : Places, room : Room \cup {NoRoom}] /\ doubt \in BOOLEAN  BY DEF Init
    <3>3. made + Entering <= MaxDaemons /\ live \subseteq 1 .. made  BY <2>3, <3>1 DEF Init
    <3>4. timer \in BOOLEAN /\ closing \in BOOLEAN /\ crashed \in BOOLEAN  BY DEF Init
    <3>5. shown \in {{}, {"widget"}, {"room"}}  BY <2>1, <2>4, Zenon DEF Init
    <3>6. /\ room_id \in Room \cup {NoRoom} /\ session \in Room \cup {NoRoom}
          /\ poll \in {"idle", "asking"} \cup Room /\ where \in {"gone", "0"} \cup Room
          /\ made \in Nat /\ overtaken \in BOOLEAN
      BY DEF Init
    <3>7. QED  BY <2>1, <2>4, <3>1, <3>2, <3>3, <3>4, <3>5, <3>6 DEF Shape
  <2>6. Framed /\ Alone
    BY <2>1, <2>2, <2>4 DEF Init, Framed, Alone
  <2>7. Windows /\ EnteredOnce /\ QuitOnce
    BY <2>2, <2>4 DEF Init, Windows, EnteredOnce, QuitOnce
  <2>8. RefreshOff /\ Placement /\ PolledBefore
    BY <2>2 DEF Init, RefreshOff, Placement, PolledBefore
  <2>9. QED  BY <2>5, <2>6, <2>7, <2>8 DEF IInv
<1>3. QED  BY <1>1, <1>2 DEF Init

\* Every step keeps the invariant.
LEMMA NextKeeps == IInv /\ [Next]_vars => IInv'
<1> SUFFICES ASSUME IInv, [Next]_vars PROVE IInv'  OBVIOUS
<1>1. CASE EnterClicked  BY <1>1, EnterClickedKeeps
<1>2. CASE ConfigDone \/ InviteClicked  BY <1>2, AskedKeeps
<1>3. CASE QuitClicked  BY <1>3, QuitClickedKeeps
<1>4. CASE RefreshFires  BY <1>4, RefreshFiresKeeps
<1>5. CASE CloseClicked  BY <1>5, CloseClickedKeeps
<1>6. CASE Exits  BY <1>6, ExitsKeeps
<1>7. CASE \E i \in DOMAIN stack : Answers(i)  BY <1>7, AnswersKeeps
<1>8. CASE PollBegins \/ PollAnswered \/ PollFails  BY <1>8, OutsideKeeps
<1>9. CASE EnterReturns  BY <1>9, EnterReturnsKeeps
<1>10. CASE EnterFails  BY <1>10, EnterFailsKeeps
<1>11. CASE QuitReturns  BY <1>11, QuitReturnsKeeps
<1>12. CASE RefreshReturns  BY <1>12, RefreshReturnsKeeps
<1>13. CASE OtherReturns  BY <1>13, OtherReturnsKeeps
<1>14. CASE PollWrites  BY <1>14, PollWritesKeeps
<1>15. CASE HandledLate  BY <1>15, HandledLateKeeps
<1>16. CASE UNCHANGED vars
  <2>1. UNCHANGED <<stack, gui, rest, poll, where, late, doubt, crashed, history>>
    BY <1>16 DEF vars, server
  <2>2. \A ops : Of(ops)' = Of(ops) /\ Answered(ops)' = Answered(ops)  BY <2>1 DEF Answered, Of
  <2>3. Entering' = Entering  BY <2>1 DEF Entering
  <2>4. Shape' /\ Framed'  BY <2>1, <2>3 DEF IInv, Shape, Framed, gui, rest
  <2>5. Alone' /\ Windows' /\ EnteredOnce' /\ QuitOnce'
    BY <2>1, <2>2 DEF IInv, Alone, Windows, EnteredOnce, QuitOnce, gui, rest
  <2>6. RefreshOff' /\ Placement' /\ PolledBefore'
    BY <2>1, <2>2 DEF IInv, RefreshOff, Placement, PolledBefore, gui, rest
  <2>7. QED  BY <2>4, <2>5, <2>6 DEF IInv
<1>17. QED
  BY <1>1, <1>2, <1>3, <1>4, <1>5, <1>6, <1>7, <1>8, <1>9, <1>10, <1>11, <1>12, <1>13, <1>14,
     <1>15, <1>16
  DEF Next, Returns

\* The invariant holds in every reachable state.
THEOREM HandlersSafe == Spec => []IInv
<1>1. QED  BY InitHolds, NextKeeps, PTL DEF Spec

\* Whether the user is in a room, has a client and has the list refreshed agree,
\* whatever handlers nest in whatever order.
THEOREM AlwaysInTheRoom == Spec => []InTheRoom
<1>1. IInv => TypeOK
  <2>1. SUFFICES ASSUME IInv PROVE TypeOK  OBVIOUS
  <2>2. \A i \in DOMAIN stack : stack[i] \in Handler  BY <2>1, Positions DEF IInv
  <2>3. \A i \in DOMAIN stack :
          /\ stack[i].op \in Ops /\ stack[i].room \in Room \cup {NoRoom}
          /\ stack[i].reply \in {"waiting", "ok"} /\ stack[i].elsewhere \in BOOLEAN
    BY <2>2 DEF Handler
  <2>4. \A q \in late : q.op \in Places /\ q.room \in Room \cup {NoRoom}
    BY <2>1 DEF IInv, Shape
  <2>5. QED  BY <2>1, <2>3, <2>4 DEF IInv, Shape, TypeOK
<1>2. IInv => RoomHasDaemon  BY DEF IInv, Windows, EnteredOnce, RoomHasDaemon
<1>3. IInv => RefreshInRoom  BY DEF IInv, QuitOnce, RefreshInRoom
<1>4. IInv => InTheRoom  BY <1>1, <1>2, <1>3 DEF InTheRoom
<1>5. QED  BY <1>4, HandlersSafe, PTL

\* A deleted client is used after one of two overlaps only.
THEOREM DeadUseOverlaps == Spec => []DeadUseNeedsOverlap
<1>1. IInv => DeadUseNeedsOverlap  BY DEF IInv, RefreshOff, DeadUseNeedsOverlap
<1>2. QED  BY <1>1, HandlersSafe, PTL

\* Once nothing waits, the server has the host where its user sees it, whatever was
\* given up, handled late or asked of another server before, unless the last answer to
\* an entering or leaving was followed by one of what puts that in doubt.
THEOREM HostPlaced == Spec => []PlacedRight
<1>1. IInv => PlacedRight
  <2>1. SUFFICES ASSUME IInv, stack = <<>>, where # "gone", ~doubt,
                        history \cap {"enter", "quit"} = {}
                 PROVE  where = IF session = NoRoom THEN "0" ELSE session
    BY DEF PlacedRight
  <2>2. Answered(Enters \cup {"quit"}) = {}  BY <2>1 DEF Answered, Of
  <2>3. QED  BY <2>1, <2>2 DEF IInv, Placement
<1>2. QED  BY <1>1, HandlersSafe, PTL

\* A stale invitation overwrites room_id once per room.
THEOREM OvertakenAtMostOnce == Spec => OvertakenOnce
<1>1. IInv /\ [Next]_vars =>
        [/\ overtaken /\ session # NoRoom /\ session' = session /\ made' = made
         => room_id' = room_id /\ ~PollWrites]_vars
  <2>1. SUFFICES ASSUME IInv, Next, overtaken, session # NoRoom,
                        session' = session, made' = made
                 PROVE  room_id' = room_id /\ ~PollWrites
    OBVIOUS
  <2>2. ~PollWrites  BY <2>1, ShootingAssumption DEF IInv, PolledBefore, PollWrites
  <2>3. ~EnterReturns  BY <2>1 DEF IInv, Shape, EnterReturns
  <2>4. ~QuitReturns  BY <2>1 DEF QuitReturns
  <2>5. QED
    BY <2>1, <2>2, <2>3, <2>4
    DEF Next, EnterClicked, ConfigDone, InviteClicked, QuitClicked, RefreshFires, CloseClicked,
        Exits, Answers, HandledLate, Returns, EnterFails, RefreshReturns, OtherReturns, PollBegins,
        PollAnswered, PollFails, gui
<1>2. QED  BY <1>1, HandlersSafe, PTL DEF Spec, OvertakenOnce
=============================================================================
