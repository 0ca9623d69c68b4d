----------------------------- MODULE PartsProofs -----------------------------
(***************************************************************************)
(* The safety of the small parts of a client, each by itself: the send     *)
(* buffer that the threads share, the sizes of pictures, the life of a     *)
(* capture, the ways to grab a screen, the loop of Linux, the camera       *)
(* library, the arithmetic on pixels and JSON arrays, for any threads,     *)
(* sizes, modes and numbers of frames.                                     *)
(***************************************************************************)
EXTENDS Parts, Sequences, WellFoundedInduction, TLAPS

-----------------------------------------------------------------------------
(* The send buffer. *)

Busy(t) == send_call[t].at # "idle"

PartSeq == {p \in Seq(Nat \ {0}) : Len(p) <= 3}
Call == [at : {"idle", "append", "copy", "advance", "write", "clear"}, parts : PartSeq,
         sum : Nat, seen : Nat, alone : BOOLEAN]

SendShape ==
  /\ send_pos \in Nat /\ send_call \in [Thread -> Call]
  /\ send_state \in BOOLEAN

\* What is left to append of a send that no other overlaps, and that what it has
\* appended is all there is.
Whole(t) ==
  /\ Busy(t) /\ \A u \in Thread : Busy(u) => u = t
  /\ send_pos <= BufferSize
  /\ send_call[t].at \in {"copy", "advance"} =>
       send_call[t].seen = send_pos /\ send_pos + Head(send_call[t].parts) <= BufferSize
  /\ send_call[t].sum <= BufferSize =>
       send_pos + Send!Total(send_call[t].parts) = send_call[t].sum

SendSteps ==
  \A t \in Thread :
    /\ send_call[t].at \in {"copy", "advance"} => send_call[t].parts # <<>>
    /\ send_call[t].at \in {"write", "clear"} => send_call[t].parts = <<>>
    /\ send_call[t].alone => Whole(t)
    /\ Busy(t) => send_call[t].alone \/ "overlap" \in send_happened
    /\ send_call[t].at = "write" => send_wsi = "open" \/ "raced" \in send_happened

SendInv ==
  /\ SendShape /\ SendSteps
  /\ send_state => send_wsi = "open"
  /\ Send!SendsWhole

\* Taking the first part of a message.
LEMMA TotalTail ==
  ASSUME NEW p \in PartSeq
  PROVE  /\ Send!Total(p) \in Nat /\ Send!Total(<<>>) = 0
         /\ p # <<>> => /\ Tail(p) \in PartSeq /\ Head(p) \in Nat \ {0}
                        /\ Send!Total(p) = Head(p) + Send!Total(Tail(p))
<1>1. Send!Total(<<>>) = 0  BY DEF Send!Total
<1>2. /\ p \in Seq(Nat \ {0}) /\ Len(p) \in Nat /\ Len(p) <= 3 /\ DOMAIN p = 1 .. Len(p)
      /\ \A i \in DOMAIN p : p[i] \in Nat \ {0}
  BY DEF PartSeq
<1>3. Send!Total(p) \in Nat
  <2> DEFINE size(i) == IF i \in DOMAIN p THEN p[i] ELSE 0
  <2>1. \A i \in {1, 2, 3} : size(i) \in Nat  BY <1>2
  <2>2. Send!Total(p) = size(1) + size(2) + size(3)  BY DEF Send!Total
  <2> HIDE DEF size
  <2>3. QED  BY <2>1, <2>2
<1>4. ASSUME p # <<>>
      PROVE  /\ Tail(p) \in PartSeq /\ Head(p) \in Nat \ {0}
             /\ Send!Total(p) = Head(p) + Send!Total(Tail(p))
  <2>1. /\ Tail(p) \in Seq(Nat \ {0}) /\ Len(Tail(p)) = Len(p) - 1 /\ Len(p) > 0
        /\ Head(p) = p[1] /\ \A i \in 1 .. Len(p) - 1 : Tail(p)[i] = p[i + 1]
        /\ DOMAIN Tail(p) = 1 .. Len(p) - 1
    BY <1>2, <1>4
  <2>2. Tail(p) \in PartSeq  BY <2>1, <1>2 DEF PartSeq
  <2>3. Head(p) \in Nat \ {0}  BY <2>1, <1>2
  <2> DEFINE size(i) == IF i \in DOMAIN p THEN p[i] ELSE 0
             rest(i) == IF i \in DOMAIN Tail(p) THEN Tail(p)[i] ELSE 0
  <2>4. size(1) = Head(p) /\ size(1) \in Nat /\ rest(1) = size(2) /\ rest(2) = size(3) /\ rest(3) = 0
        /\ size(2) \in Nat /\ size(3) \in Nat
    BY <2>1, <1>2
  <2>5. Send!Total(p) = size(1) + size(2) + size(3)
        /\ Send!Total(Tail(p)) = rest(1) + rest(2) + rest(3)
    BY DEF Send!Total
  <2> HIDE DEF size, rest
  <2>6. Send!Total(p) = Head(p) + Send!Total(Tail(p))  BY <2>4, <2>5
  <2>7. QED  BY <2>2, <2>3, <2>6
<1>5. QED  BY <1>1, <1>3, <1>4

\* A step of a send under way leaves the others where they were; none of them is
\* alone.
LEMMA SendStep ==
  ASSUME SendInv, NEW t \in Thread, Busy(t), NEW c \in Call,
         send_call' = [send_call EXCEPT ![t] = c], send_pos' \in Nat,
         UNCHANGED <<send_state, send_wsi>>, send_happened \subseteq send_happened',
         c.alone => send_call[t].alone,
         c.at # "idle" => c.alone = send_call[t].alone,
         c.at \in {"copy", "advance"} => c.parts # <<>>,
         c.at \in {"write", "clear"} => c.parts = <<>>,
         c.alone /\ Whole(t) =>
           /\ c.at # "idle" /\ send_pos' <= BufferSize
           /\ c.at \in {"copy", "advance"} => c.seen = send_pos' /\ send_pos' + Head(c.parts) <= BufferSize
           /\ c.sum <= BufferSize => send_pos' + Send!Total(c.parts) = c.sum,
         c.at = "write" => send_wsi = "open" \/ "raced" \in send_happened'
  PROVE  SendShape' /\ SendSteps' /\ (send_state' => send_wsi' = "open")
<1>1. /\ send_call' \in [Thread -> Call] /\ send_call'[t] = c
      /\ \A u \in Thread : u # t => send_call'[u] = send_call[u]
  BY DEF SendInv, SendShape
<1>2. SendShape'  BY <1>1 DEF SendInv, SendShape
<1>3. \A u \in Thread : u # t => ~send_call[u].alone
  BY DEF SendInv, SendSteps, Whole
<1>4. \A u \in Thread : u # t =>
        /\ send_call'[u].at \in {"copy", "advance"} => send_call'[u].parts # <<>>
        /\ send_call'[u].at \in {"write", "clear"} => send_call'[u].parts = <<>>
        /\ ~send_call'[u].alone
        /\ Busy(u)' => "overlap" \in send_happened'
        /\ send_call'[u].at = "write" => send_wsi' = "open" \/ "raced" \in send_happened'
  BY <1>1, <1>3 DEF SendInv, SendSteps, Busy
<1>5. ASSUME c.alone PROVE Whole(t)'
  <2>1. send_call[t].alone /\ Whole(t)  BY <1>5 DEF SendInv, SendSteps
  <2>2. Busy(t)' /\ \A u \in Thread : Busy(u)' => u = t
    BY <2>1, <1>1, <1>5 DEF Whole, Busy
  <2>3. QED  BY <2>1, <2>2, <1>1, <1>5 DEF Whole
<1>6. Busy(t)' => c.alone \/ "overlap" \in send_happened'
  BY <1>1 DEF SendInv, SendSteps, Busy
<1>7. SendSteps'
  <2>1. SUFFICES ASSUME NEW u \in Thread
                 PROVE  /\ send_call'[u].at \in {"copy", "advance"} => send_call'[u].parts # <<>>
                        /\ send_call'[u].at \in {"write", "clear"} => send_call'[u].parts = <<>>
                        /\ send_call'[u].alone => Whole(u)'
                        /\ Busy(u)' => send_call'[u].alone \/ "overlap" \in send_happened'
                        /\ send_call'[u].at = "write" =>
                             send_wsi' = "open" \/ "raced" \in send_happened'
    BY DEF SendSteps
  <2>2. CASE u = t  BY <2>2, <1>1, <1>5, <1>6
  <2>3. CASE u # t  BY <2>3, <1>4
  <2>4. QED  BY <2>2, <2>3
<1>8. QED  BY <1>2, <1>7 DEF SendInv

\* A send begins: with nobody else sending, on an empty buffer.
LEMMA BeginsKeeps ==
  ASSUME BufferSize \in Nat, SendInv, NEW t \in Thread, Send!Begins(t)
  PROVE  SendInv'
<1>1. PICK p \in Send!Parts(t) :
        send_call' = [u \in Thread |->
          IF u = t THEN [at |-> "append", parts |-> p, sum |-> Send!Total(p), seen |-> 0,
                         alone |-> \A v \in Thread : send_call[v].at = "idle"]
          ELSE [send_call[u] EXCEPT !.alone = FALSE]]
  BY DEF Send!Begins
<1>2. /\ send_call[t].at = "idle" /\ UNCHANGED <<send_pos, send_state, send_wsi>>
      /\ send_happened' = send_happened \cup IF \A u \in Thread : send_call[u].at = "idle"
                                             THEN {} ELSE {"overlap"}
  BY DEF Send!Begins
<1>3. p \in PartSeq /\ p # <<>>
  <2>1. p = <<1>> \/ p = <<1, 1>> \/ \E n \in 1 .. 2 : p = <<1, 1, n>>
    BY DEF Send!Parts, Send!send_video_data, Send!send_stop_stream, Send!send_text
  <2>2. 1 \in Nat \ {0} /\ \A n \in 1 .. 2 : n \in Nat \ {0}  OBVIOUS
  <2>3. CASE p = <<1>>  BY <2>2, <2>3 DEF PartSeq
  <2>4. CASE p = <<1, 1>>  BY <2>2, <2>4 DEF PartSeq
  <2>5. CASE \E n \in 1 .. 2 : p = <<1, 1, n>>  BY <2>2, <2>5 DEF PartSeq
  <2>6. QED  BY <2>1, <2>3, <2>4, <2>5
<1>4. Send!Total(p) \in Nat  BY <1>3, TotalTail
<1>5. PICK a \in BOOLEAN : a = (\A v \in Thread : send_call[v].at = "idle")  OBVIOUS
<1>6. /\ send_call'[t] = [at |-> "append", parts |-> p, sum |-> Send!Total(p), seen |-> 0, alone |-> a]
      /\ \A u \in Thread : u # t =>
           /\ send_call'[u] = [send_call[u] EXCEPT !.alone = FALSE]
           /\ send_call[u] \in Call
  BY <1>1, <1>5 DEF SendInv, SendShape
<1>7. \A u \in Thread : u # t =>
        /\ send_call'[u] \in Call /\ send_call'[u].alone = FALSE
        /\ send_call'[u].at = send_call[u].at /\ send_call'[u].parts = send_call[u].parts
  BY <1>6 DEF Call
<1>8. SendShape'
  <2>1. send_call'[t] \in Call  BY <1>3, <1>4, <1>6 DEF Call
  <2>2. \A u \in Thread : send_call'[u] \in Call  BY <2>1, <1>7
  <2>3. send_call' \in [Thread -> Call]  BY <2>2, <1>1
  <2>4. QED  BY <2>3, <1>2 DEF SendInv, SendShape
<1>9. ASSUME a PROVE Whole(t)'
  <2>1. send_pos = 0  BY <1>5, <1>9 DEF SendInv, Send!SendsWhole, Send!QuietIsEmpty
  <2>2. \A v \in Thread : send_call[v].at = "idle"  BY <1>5, <1>9
  <2>3. Busy(t)'  BY <1>6 DEF Busy
  <2>4. \A u \in Thread : u # t => ~Busy(u)'  BY <2>2, <1>7 DEF Busy
  <2>5. QED  BY <2>1, <2>3, <2>4, <1>2, <1>4, <1>6 DEF Whole
<1>10. SendSteps'
  <2>1. /\ send_call'[t].at = "append" /\ send_call'[t].alone = a
        /\ a \/ "overlap" \in send_happened'
    BY <1>2, <1>5, <1>6
  <2>2. \A u \in Thread : u # t =>
          /\ Busy(u)' => "overlap" \in send_happened'
          /\ send_call'[u].at = "write" => send_wsi' = "open" \/ "raced" \in send_happened'
          /\ send_call'[u].at \in {"copy", "advance"} => send_call'[u].parts # <<>>
          /\ send_call'[u].at \in {"write", "clear"} => send_call'[u].parts = <<>>
    BY <1>2, <1>5, <1>7 DEF SendInv, SendSteps, Busy
  <2>3. SUFFICES ASSUME NEW u \in Thread
                 PROVE  /\ send_call'[u].at \in {"copy", "advance"} => send_call'[u].parts # <<>>
                        /\ send_call'[u].at \in {"write", "clear"} => send_call'[u].parts = <<>>
                        /\ send_call'[u].alone => Whole(u)'
                        /\ Busy(u)' => send_call'[u].alone \/ "overlap" \in send_happened'
                        /\ send_call'[u].at = "write" =>
                             send_wsi' = "open" \/ "raced" \in send_happened'
    BY DEF SendSteps
  <2>4. CASE u = t  BY <2>1, <2>4, <1>9
  <2>5. CASE u # t  BY <2>2, <2>5, <1>7
  <2>6. QED  BY <2>4, <2>5
<1>11. Send!SendsWhole'
  <2>1. Send!QuietIsEmpty'  BY <1>6 DEF Send!QuietIsEmpty
  <2>2. QED  BY <2>1, <1>2 DEF SendInv, Send!SendsWhole, Send!WholeUnlessOverlapped,
              Send!InsideUnlessOverlapped, Send!DeadWriteNeedsRace
<1>12. QED  BY <1>8, <1>10, <1>11, <1>2 DEF SendInv

\* append() tests that the bytes fit.
LEMMA TestsFitKeeps ==
  ASSUME SendInv, BufferSize \in Nat, NEW t \in Thread, Send!TestsFit(t)
  PROVE  SendInv'
<1> DEFINE c == [send_call[t] EXCEPT !.at = "copy", !.seen = send_pos]
<1>1. /\ send_call[t].at = "append" /\ send_call[t].parts # <<>>
      /\ send_pos + Head(send_call[t].parts) <= BufferSize
      /\ send_call' = [send_call EXCEPT ![t] = c]
      /\ UNCHANGED <<send_pos, send_state, send_wsi, send_happened>>
  BY DEF Send!TestsFit, Send!Fits
<1>2. send_call[t] \in Call /\ send_pos \in Nat  BY DEF SendInv, SendShape
<1>3. Head(send_call[t].parts) \in Nat /\ Send!Total(send_call[t].parts) \in Nat
  BY <1>1, <1>2, TotalTail DEF Call
<1>4. /\ c \in Call /\ c.at = "copy" /\ c.parts = send_call[t].parts /\ c.seen = send_pos
      /\ c.sum = send_call[t].sum /\ c.alone = send_call[t].alone
  BY <1>2 DEF Call
<1> HIDE DEF c
<1>5. Busy(t) /\ send_happened \subseteq send_happened'  BY <1>1 DEF Busy
<1>6. Whole(t) => /\ c.at # "idle" /\ send_pos' <= BufferSize
                  /\ c.seen = send_pos' /\ send_pos' + Head(c.parts) <= BufferSize
                  /\ c.sum <= BufferSize => send_pos' + Send!Total(c.parts) = c.sum
  BY <1>1, <1>4 DEF Whole
<1>7. SendShape' /\ SendSteps' /\ (send_state' => send_wsi' = "open")
  BY <1>1, <1>2, <1>4, <1>5, <1>6, SendStep
<1>8. send_call'[t].at = "copy"  BY <1>1, <1>4 DEF SendInv, SendShape
<1>9. send_happened' = send_happened  BY <1>1
<1>10. Send!SendsWhole'
  BY <1>8, <1>9 DEF SendInv, Send!SendsWhole, Send!WholeUnlessOverlapped, Send!QuietIsEmpty,
       Send!InsideUnlessOverlapped, Send!DeadWriteNeedsRace
<1>11. QED  BY <1>7, <1>10 DEF SendInv

\* append() copies, to where it points by now or to where it pointed.
LEMMA CopiesKeeps ==
  ASSUME SendInv, BufferSize \in Nat, NEW t \in Thread, Send!Copies(t)
  PROVE  SendInv'
<1>1. PICK p \in {send_pos, send_call[t].seen} :
        /\ send_call' = [send_call EXCEPT ![t] = [send_call[t] EXCEPT !.at = "advance", !.seen = p]]
        /\ send_happened' =
             send_happened \cup IF p + Head(send_call[t].parts) > BufferSize THEN {"outside"} ELSE {}
  BY DEF Send!Copies
<1>2. send_call[t].at = "copy" /\ UNCHANGED <<send_pos, send_state, send_wsi>>
  BY DEF Send!Copies
<1> DEFINE c == [send_call[t] EXCEPT !.at = "advance", !.seen = p]
<1>3. send_call[t] \in Call /\ send_pos \in Nat /\ send_call[t].parts # <<>>
  BY <1>2 DEF SendInv, SendShape, SendSteps
<1>4. p \in Nat /\ Head(send_call[t].parts) \in Nat /\ Send!Total(send_call[t].parts) \in Nat
  BY <1>3, TotalTail DEF Call
<1>5. /\ c \in Call /\ c.at = "advance" /\ c.parts = send_call[t].parts /\ c.seen = p
      /\ c.sum = send_call[t].sum /\ c.alone = send_call[t].alone
  BY <1>3, <1>4 DEF Call
<1>6. send_call' = [send_call EXCEPT ![t] = c]  BY <1>1
<1> HIDE DEF c
<1>7. Busy(t) /\ send_happened \subseteq send_happened'  BY <1>1, <1>2 DEF Busy
<1>8. Whole(t) => /\ p = send_pos /\ send_pos + Head(send_call[t].parts) <= BufferSize
                  /\ send_pos <= BufferSize
                  /\ c.sum <= BufferSize => send_pos + Send!Total(c.parts) = c.sum
  BY <1>2, <1>5 DEF Whole
<1>9. SendShape' /\ SendSteps' /\ (send_state' => send_wsi' = "open")
  BY <1>2, <1>3, <1>5, <1>6, <1>7, <1>8, SendStep
<1>10. send_call'[t].at = "advance"  BY <1>5, <1>6 DEF SendInv, SendShape
<1>11. send_happened' = send_happened
       \/ (send_happened' = send_happened \cup {"outside"} /\ "overlap" \in send_happened)
  <2>1. CASE send_call[t].alone
    <3>1. Whole(t)  BY <2>1 DEF SendInv, SendSteps
    <3>2. ~(p + Head(send_call[t].parts) > BufferSize)  BY <3>1, <1>4, <1>8
    <3>3. QED  BY <3>2, <1>1
  <2>2. CASE ~send_call[t].alone
    <3>1. "overlap" \in send_happened  BY <2>2, <1>7 DEF SendInv, SendSteps
    <3>2. QED  BY <3>1, <1>1
  <2>3. QED  BY <2>1, <2>2
<1>12. Send!SendsWhole'
  BY <1>10, <1>11 DEF SendInv, Send!SendsWhole, Send!WholeUnlessOverlapped, Send!QuietIsEmpty,
       Send!InsideUnlessOverlapped, Send!DeadWriteNeedsRace
<1>13. QED  BY <1>9, <1>12 DEF SendInv

\* append() moves on, from where it is or from where it was.
LEMMA AdvancesKeeps ==
  ASSUME SendInv, NEW t \in Thread, Send!Advances(t)
  PROVE  SendInv'
<1> DEFINE c == [send_call[t] EXCEPT !.at = "append", !.seen = 0, !.parts = Tail(@)]
<1>1. /\ send_call[t].at = "advance"
      /\ \E p \in {send_pos, send_call[t].seen} : send_pos' = p + Head(send_call[t].parts)
      /\ send_call' = [send_call EXCEPT ![t] = c]
      /\ UNCHANGED <<send_state, send_wsi, send_happened>>
  BY DEF Send!Advances
<1>2. send_call[t] \in Call /\ send_pos \in Nat /\ send_call[t].parts # <<>>
  BY <1>1 DEF SendInv, SendShape, SendSteps
<1>3. /\ send_call[t].parts \in PartSeq /\ send_call[t].seen \in Nat /\ send_call[t].sum \in Nat
      /\ send_call[t].alone \in BOOLEAN
  BY <1>2 DEF Call
<1>4. /\ Tail(send_call[t].parts) \in PartSeq /\ Head(send_call[t].parts) \in Nat
      /\ Send!Total(Tail(send_call[t].parts)) \in Nat
      /\ Send!Total(send_call[t].parts)
           = Head(send_call[t].parts) + Send!Total(Tail(send_call[t].parts))
  BY <1>2, <1>3, TotalTail
<1>5. /\ c \in Call /\ c.at = "append" /\ c.parts = Tail(send_call[t].parts)
      /\ c.sum = send_call[t].sum /\ c.alone = send_call[t].alone
  BY <1>2, <1>4 DEF Call
<1> HIDE DEF c
<1>6. send_pos' \in Nat  BY <1>1, <1>2, <1>3, <1>4
<1>7. Whole(t) => /\ send_pos' <= BufferSize
                  /\ c.sum <= BufferSize => send_pos' + Send!Total(c.parts) = c.sum
  <2>1. SUFFICES ASSUME Whole(t)
                 PROVE  /\ send_pos' <= BufferSize
                        /\ c.sum <= BufferSize => send_pos' + Send!Total(c.parts) = c.sum
    OBVIOUS
  <2>2. /\ send_pos' = send_pos + Head(send_call[t].parts)
        /\ send_pos + Head(send_call[t].parts) <= BufferSize
        /\ c.sum <= BufferSize => send_pos + Send!Total(send_call[t].parts) = c.sum
    BY <2>1, <1>1, <1>5 DEF Whole
  <2>3. QED  BY <2>2, <1>2, <1>4, <1>5
<1>8. Busy(t)  BY <1>1 DEF Busy
<1>9. SendShape' /\ SendSteps' /\ (send_state' => send_wsi' = "open")
  BY <1>1, <1>5, <1>6, <1>7, <1>8, SendStep
<1>10. send_call'[t].at = "append"  BY <1>1, <1>5 DEF SendInv, SendShape
<1>11. Send!SendsWhole'
  BY <1>1, <1>10 DEF SendInv, Send!SendsWhole, Send!WholeUnlessOverlapped, Send!QuietIsEmpty,
       Send!InsideUnlessOverlapped, Send!DeadWriteNeedsRace
<1>12. QED  BY <1>9, <1>11 DEF SendInv

\* What does not fit is left out, of a message that is too large or overlapped.
LEMMA LeavesOutKeeps ==
  ASSUME SendInv, BufferSize \in Nat, NEW t \in Thread, Send!LeavesOut(t)
  PROVE  SendInv'
<1> DEFINE c == [send_call[t] EXCEPT !.parts = Tail(@)]
<1>1. /\ send_call[t].at = "append" /\ send_call[t].parts # <<>>
      /\ ~(send_pos + Head(send_call[t].parts) <= BufferSize)
      /\ send_call' = [send_call EXCEPT ![t] = c]
      /\ UNCHANGED <<send_pos, send_state, send_wsi, send_happened>>
  BY DEF Send!LeavesOut, Send!Fits
<1>2. send_call[t] \in Call /\ send_pos \in Nat  BY DEF SendInv, SendShape
<1>3. send_call[t].parts \in PartSeq /\ send_call[t].sum \in Nat  BY <1>2 DEF Call
<1>4. /\ Tail(send_call[t].parts) \in PartSeq /\ Head(send_call[t].parts) \in Nat
      /\ Send!Total(Tail(send_call[t].parts)) \in Nat
      /\ Send!Total(send_call[t].parts)
           = Head(send_call[t].parts) + Send!Total(Tail(send_call[t].parts))
  BY <1>1, <1>3, TotalTail
<1>5. /\ c \in Call /\ c.at = "append" /\ c.parts = Tail(send_call[t].parts)
      /\ c.sum = send_call[t].sum /\ c.alone = send_call[t].alone
  BY <1>1, <1>2, <1>4 DEF Call
<1> HIDE DEF c
<1>6. Whole(t) => send_pos' <= BufferSize /\ ~(c.sum <= BufferSize)
  BY <1>1, <1>2, <1>3, <1>4, <1>5 DEF Whole
<1>7. Busy(t)  BY <1>1 DEF Busy
<1>8. SendShape' /\ SendSteps' /\ (send_state' => send_wsi' = "open")
  BY <1>1, <1>2, <1>5, <1>6, <1>7, SendStep
<1>9. send_call'[t].at = "append"  BY <1>1, <1>5 DEF SendInv, SendShape
<1>10. Send!SendsWhole'
  BY <1>1, <1>9 DEF SendInv, Send!SendsWhole, Send!WholeUnlessOverlapped, Send!QuietIsEmpty,
       Send!InsideUnlessOverlapped, Send!DeadWriteNeedsRace
<1>11. QED  BY <1>8, <1>10 DEF SendInv

\* send_msg() tests the state.
LEMMA TestsStateKeeps ==
  ASSUME SendInv, NEW t \in Thread, Send!TestsState(t)
  PROVE  SendInv'
<1> DEFINE c == [send_call[t] EXCEPT !.at = IF send_state THEN "write" ELSE "clear"]
<1>1. /\ send_call[t].at = "append" /\ send_call[t].parts = <<>>
      /\ send_call' = [send_call EXCEPT ![t] = c]
      /\ UNCHANGED <<send_pos, send_state, send_wsi, send_happened>>
  BY DEF Send!TestsState, Send!Goes
<1>2. send_call[t] \in Call /\ send_pos \in Nat /\ send_state \in BOOLEAN
  BY DEF SendInv, SendShape
<1>3. /\ c \in Call /\ c.at \in {"write", "clear"} /\ c.parts = send_call[t].parts
      /\ c.sum = send_call[t].sum /\ c.alone = send_call[t].alone
      /\ c.at = "write" => send_state
  BY <1>2 DEF Call
<1> HIDE DEF c
<1>4. c.at = "write" => send_wsi = "open"  BY <1>3 DEF SendInv
<1>5. Busy(t)  BY <1>1 DEF Busy
<1>6. Whole(t) => /\ send_pos' <= BufferSize
                  /\ c.sum <= BufferSize => send_pos' + Send!Total(c.parts) = c.sum
  BY <1>1, <1>3 DEF Whole
<1>7. SendShape' /\ SendSteps' /\ (send_state' => send_wsi' = "open")
  BY <1>1, <1>2, <1>3, <1>4, <1>5, <1>6, SendStep
<1>8. send_call'[t].at # "idle"  BY <1>1, <1>3 DEF SendInv, SendShape
<1>9. Send!SendsWhole'
  BY <1>1, <1>8 DEF SendInv, Send!SendsWhole, Send!WholeUnlessOverlapped, Send!QuietIsEmpty,
       Send!InsideUnlessOverlapped, Send!DeadWriteNeedsRace
<1>10. QED  BY <1>7, <1>9 DEF SendInv

\* send_msg() writes: all of the message if it was alone and not too large.
LEMMA WritesKeeps ==
  ASSUME SendInv, NEW t \in Thread, Send!Writes(t)
  PROVE  SendInv'
<1> DEFINE c == [send_call[t] EXCEPT !.at = "clear"]
<1>1. /\ send_call[t].at = "write" /\ send_call' = [send_call EXCEPT ![t] = c]
      /\ UNCHANGED <<send_pos, send_state, send_wsi>>
      /\ send_happened' = send_happened
           \cup (IF send_wsi = "open" THEN {} ELSE {"dead write"})
           \cup (IF send_call[t].alone /\ send_pos # send_call[t].sum /\ send_call[t].sum <= BufferSize
                 THEN {"not whole"} ELSE {})
  BY DEF Send!Writes, Send!Goes
<1>2. send_call[t] \in Call /\ send_pos \in Nat /\ send_call[t].parts = <<>>
  BY <1>1 DEF SendInv, SendShape, SendSteps
<1>3. /\ c \in Call /\ c.at = "clear" /\ c.parts = <<>>
      /\ c.sum = send_call[t].sum /\ c.alone = send_call[t].alone
  BY <1>2 DEF Call
<1> HIDE DEF c
<1>4. Busy(t) /\ send_happened \subseteq send_happened'  BY <1>1 DEF Busy
<1>5. Whole(t) => /\ send_pos' <= BufferSize
                  /\ c.sum <= BufferSize => send_pos' + Send!Total(c.parts) = c.sum
  BY <1>1, <1>2, <1>3 DEF Whole
<1>6. SendShape' /\ SendSteps' /\ (send_state' => send_wsi' = "open")
  BY <1>1, <1>2, <1>3, <1>4, <1>5, SendStep
<1>7. send_call'[t].at # "idle"  BY <1>1, <1>3 DEF SendInv, SendShape
<1>8. send_call[t].alone /\ send_call[t].sum <= BufferSize => send_pos = send_call[t].sum
  <2>1. <<>> \in PartSeq  BY DEF PartSeq
  <2>2. Send!Total(<<>>) = 0  BY <2>1, TotalTail
  <2>3. QED  BY <2>2, <1>2 DEF SendInv, SendSteps, Whole
<1>9. send_wsi # "open" => "raced" \in send_happened  BY <1>1 DEF SendInv, SendSteps
<1>10. /\ "not whole" \in send_happened' <=> "not whole" \in send_happened
       /\ "outside" \in send_happened' <=> "outside" \in send_happened
       /\ "dead write" \in send_happened' => "raced" \in send_happened \/ "dead write" \in send_happened
  BY <1>1, <1>8, <1>9
<1>11. Send!SendsWhole'
  BY <1>4, <1>7, <1>10 DEF SendInv, Send!SendsWhole, Send!WholeUnlessOverlapped, Send!QuietIsEmpty,
       Send!InsideUnlessOverlapped, Send!DeadWriteNeedsRace
<1>12. QED  BY <1>6, <1>11 DEF SendInv

\* reset() leaves an empty buffer.
LEMMA ResetsKeeps ==
  ASSUME SendInv, BufferSize \in Nat, NEW t \in Thread, Send!Resets(t)
  PROVE  SendInv'
<1>1. /\ send_call[t].at = "clear" /\ send_call' = [send_call EXCEPT ![t] = Send!Idle]
      /\ send_pos' = 0 /\ UNCHANGED <<send_state, send_wsi>>
      /\ send_happened' = send_happened \cup IF send_pos > BufferSize THEN {"outside"} ELSE {}
  BY DEF Send!Resets
<1>2. <<>> \in PartSeq  BY DEF PartSeq
<1>3. PICK c : c = Send!Idle  OBVIOUS
<1>4. c \in Call /\ c.at = "idle" /\ c.alone = FALSE
  BY <1>2, <1>3 DEF Send!Idle, Call
<1>5. Busy(t) /\ send_happened \subseteq send_happened' /\ send_pos' \in Nat  BY <1>1 DEF Busy
<1>6. SendShape' /\ SendSteps' /\ (send_state' => send_wsi' = "open")
  BY <1>1, <1>3, <1>4, <1>5, SendStep
<1>7. send_pos > BufferSize => "overlap" \in send_happened
  BY <1>5 DEF SendInv, SendSteps, SendShape, Whole
<1>8. Send!SendsWhole'
  BY <1>1, <1>7 DEF SendInv, Send!SendsWhole, Send!WholeUnlessOverlapped, Send!QuietIsEmpty,
       Send!InsideUnlessOverlapped, Send!DeadWriteNeedsRace
<1>9. QED  BY <1>6, <1>8 DEF SendInv

\* The connection under it opens, closes, is freed and made again.
LEMMA ConnectionKeeps ==
  ASSUME SendInv, Send!Establishes \/ Send!Closes \/ Send!Frees \/ Send!Reconnects
  PROVE  SendInv'
<1>1. /\ UNCHANGED <<send_pos, send_call>> /\ send_state' \in BOOLEAN
      /\ send_state' => send_wsi' = "open"
      /\ send_happened' = send_happened \/ send_happened' = send_happened \cup {"raced"}
      /\ \A t \in Thread : send_call[t].at = "write" =>
           (send_wsi = "open" => send_wsi' = "open" \/ "raced" \in send_happened')
  <2>1. CASE Send!Establishes  BY <2>1 DEF Send!Establishes
  <2>2. CASE Send!Closes  BY <2>2 DEF Send!Closes
  <2>3. CASE Send!Frees  BY <2>3 DEF Send!Frees, SendInv, SendShape
  <2>4. CASE Send!Reconnects  BY <2>4 DEF Send!Reconnects, SendInv, SendShape
  <2>5. QED  BY <2>1, <2>2, <2>3, <2>4
<1>2. SendShape'  BY <1>1 DEF SendInv, SendShape
<1>3. \A t \in Thread : (Whole(t) => Whole(t)') /\ (Busy(t)' <=> Busy(t))
  BY <1>1 DEF Whole, Busy
<1>4. SendSteps'  BY <1>1, <1>3 DEF SendInv, SendSteps
<1>5. Send!SendsWhole'
  BY <1>1 DEF SendInv, Send!SendsWhole, Send!WholeUnlessOverlapped, Send!QuietIsEmpty,
       Send!InsideUnlessOverlapped, Send!DeadWriteNeedsRace
<1>6. QED  BY <1>1, <1>2, <1>4, <1>5 DEF SendInv

\* A message that no other overlaps goes out whole, an overlap garbles nothing that
\* is sent after it, and nothing is written behind the buffer or to a connection
\* that is gone without one, whatever threads there are and however large the
\* buffer is.
THEOREM SendBufferSafe == Send!Spec => []SendsWhole
<1>0. BufferSize \in Nat  BY PartsAssumption
<1>1. Send!Init => SendInv
  <2> SUFFICES ASSUME Send!Init PROVE SendInv
    OBVIOUS
  <2>1. /\ send_pos = 0 /\ send_call = [t \in Thread |-> Send!Idle]
        /\ send_state = FALSE /\ send_happened = {}
    BY DEF Send!Init
  <2>2. <<>> \in PartSeq  BY DEF PartSeq
  <2>3. PICK c : c = Send!Idle  OBVIOUS
  <2>4. c \in Call /\ c.at = "idle" /\ c.alone = FALSE
    BY <2>2, <2>3 DEF Send!Idle, Call
  <2>5. \A t \in Thread : send_call[t] = c  BY <2>1, <2>3
  <2>6. SendShape  BY <2>1, <2>3, <2>4 DEF SendShape
  <2>7. SendSteps  BY <2>4, <2>5 DEF SendSteps, Busy
  <2>8. Send!SendsWhole
    BY <2>1 DEF Send!SendsWhole, Send!WholeUnlessOverlapped, Send!QuietIsEmpty,
         Send!InsideUnlessOverlapped, Send!DeadWriteNeedsRace
  <2>9. QED  BY <2>1, <2>6, <2>7, <2>8 DEF SendInv
<1>2. SendInv /\ [Send!Next]_(Send!vars) => SendInv'
  <2> SUFFICES ASSUME SendInv, [Send!Next]_(Send!vars) PROVE SendInv'
    OBVIOUS
  <2>1. CASE UNCHANGED Send!vars
    <3>1. UNCHANGED <<send_pos, send_call, send_state, send_wsi, send_happened>>
      BY <2>1 DEF Send!vars
    <3>2. SendShape' /\ SendSteps' /\ Send!SendsWhole' /\ (send_state' => send_wsi' = "open")
      BY <3>1 DEF SendInv, SendShape, SendSteps, Whole, Busy, Send!SendsWhole,
           Send!WholeUnlessOverlapped, Send!QuietIsEmpty, Send!InsideUnlessOverlapped,
           Send!DeadWriteNeedsRace
    <3>3. QED  BY <3>2 DEF SendInv
  <2>2. ASSUME NEW t \in Thread,
               \/ Send!Begins(t) \/ Send!TestsFit(t) \/ Send!Copies(t) \/ Send!Advances(t)
               \/ Send!LeavesOut(t) \/ Send!TestsState(t) \/ Send!Writes(t) \/ Send!Resets(t)
        PROVE  SendInv'
    BY <1>0, <2>2, BeginsKeeps, TestsFitKeeps, CopiesKeeps, AdvancesKeeps, LeavesOutKeeps,
       TestsStateKeeps, WritesKeeps, ResetsKeeps
  <2>3. CASE Send!Establishes \/ Send!Closes \/ Send!Frees \/ Send!Reconnects
    BY <2>3, ConnectionKeeps
  <2>4. QED  BY <2>1, <2>2, <2>3 DEF Send!Next, Send!Sends
<1>3. SendInv => SendsWhole  BY DEF SendInv, SendsWhole
<1>4. QED  BY <1>1, <1>2, <1>3, PTL DEF Send!Spec

-----------------------------------------------------------------------------
(* The sizes of pictures. *)

\* While capturing, and unless a stop did not wait, the buffer and the encoder have
\* the size that is noted, and a picture on its way has it too.
PicMatching ==
  /\ pic_phase \in {"capturing", "stopping"} /\ pic_yuv # 0 =>
       pic_frame = pic_yuv /\ pic_encoder \in {pic_yuv, 0, -1}
  /\ pic_at # "idle" => pic_phase \in {"capturing", "stopping"} /\ pic_frame = pic_grab

PicInv ==
  /\ pic_at \in {"sized", "converted"} => pic_yuv # 0
  /\ pic_phase = "before" => pic_at = "idle" /\ pic_yuv = 0
  /\ pic_yuv # 0 /\ pic_encoder \in {0, -1} => "no encoder" \in pic_happened
  /\ "late" \in pic_happened \/ PicMatching
  /\ Pic!PicturesFit

\* No size is taken for an encoder that is not there.
LEMMA SizesApart == \A n \in Nat \ {0} : n # 0 /\ n # -1
<1>1. \A n \in Nat : n >= 0  OBVIOUS
<1>2. ~(-1 >= 0)  OBVIOUS
<1>3. QED  BY <1>1, <1>2

\* A picture is converted and encoded with a buffer and an encoder of its own size,
\* whatever sizes a screen and the streams that were watched before have, unless a
\* stop did not wait for the capture thread; none is left out but for want of an encoder.
THEOREM PicturesFitAlways == Pic!Spec => []PicturesFit
<1>0. PictureSize \subseteq Nat \ {0}  BY PartsAssumption
<1>1. Pic!Init => PicInv
  BY DEF Pic!Init, PicInv, PicMatching, Pic!PicturesFit, Pic!PictureFits, Pic!LeftOutNeedsFailure
<1>2. PicInv /\ [Pic!Next]_(Pic!vars) => PicInv'
  <2> SUFFICES ASSUME PicInv, [Pic!Next]_(Pic!vars) PROVE PicInv'
    OBVIOUS
  <2> USE DEF PicInv, PicMatching, Pic!PicturesFit, Pic!PictureFits, Pic!LeftOutNeedsFailure
  <2>1. CASE Pic!OnFrame
    <3>1. CASE UNCHANGED <<pic_frame, pic_yuv, pic_encoder, pic_happened>>
               /\ pic_frame = pic_grab' /\ pic_yuv # 0
      BY <2>1, <3>1 DEF Pic!OnFrame
    <3>2. CASE pic_grab' \in PictureSize /\ Pic!Resizes(pic_grab')
      <4>1. pic_grab' # 0 /\ pic_grab' # -1  BY <1>0, <3>2, SizesApart
      <4>2. CASE pic_encoder' = pic_grab' /\ UNCHANGED pic_happened
        <5>1. /\ pic_at' = "sized" /\ pic_phase \in {"capturing", "stopping"} /\ pic_phase' = pic_phase
              /\ pic_yuv' = pic_grab' /\ pic_frame' = pic_grab' /\ pic_encoder' = pic_grab'
              /\ pic_happened' = pic_happened
          BY <2>1, <3>2, <4>2 DEF Pic!OnFrame, Pic!Resizes
        <5>2. pic_encoder' \notin {0, -1} /\ pic_yuv' # 0  BY <4>1, <5>1
        <5>3. QED  BY <5>1, <5>2
      <4>3. CASE pic_encoder' \in {0, -1} /\ Pic!Notes({"no encoder"})
        BY <2>1, <3>2, <4>1, <4>3 DEF Pic!OnFrame, Pic!Resizes, Pic!Notes
      <4>4. QED  BY <3>2, <4>2, <4>3 DEF Pic!Resizes
    <3>3. QED  BY <2>1, <3>1, <3>2 DEF Pic!OnFrame
  <2>2. CASE Pic!Converts
    BY <2>2 DEF Pic!Converts, Pic!Notes, Pic!If
  <2>3. CASE Pic!Encodes
    BY <2>3 DEF Pic!Encodes, Pic!Notes, Pic!If
  <2>4. CASE Pic!Start \/ Pic!Stop
    BY <2>4 DEF Pic!Start, Pic!Stop
  <2>5. CASE Pic!Stopped
    BY <2>5 DEF Pic!Stopped, Pic!Notes, Pic!If
  <2>6. CASE Pic!Show
    BY <2>6 DEF Pic!Show
  <2>7. CASE UNCHANGED Pic!vars
    BY <2>7 DEF Pic!vars
  <2>8. QED  BY <2>1, <2>2, <2>3, <2>4, <2>5, <2>6, <2>7 DEF Pic!Next
<1>3. PicInv => PicturesFit  BY DEF PicInv, PicturesFit
<1>4. QED  BY <1>1, <1>2, <1>3, PTL DEF Pic!Spec

-----------------------------------------------------------------------------
(* The life of a capture. *)

VideoShape ==
  video_loop \in [Video!Loop -> {"none", "starting", "opening", "running", "encoding", "over"}]

\* Where everybody is as long as nothing happened that excuses the rest: one loop
\* at most, the one whose handle is known, and none where a stop or the deletion
\* is past it.
VideoOrder ==
  /\ Video!Alive \subseteq {video_handle}
  /\ ~video_pub /\ video_ws # "stopping" /\ video_ui # "stopping" => Video!Alive = {}
  /\ video_ws = "starting" => Video!Alive = {}
  /\ video_ui # "alive" => video_ws \in {"idle", "out"}
  /\ video_ws \in {"starting", "created", "waiting", "woken", "tested"} => video_pub
  /\ video_ui = "tested" => video_pub
  /\ video_ws = "stopping" \/ video_ui = "stopping" => ~video_pub
  /\ video_ui \in {"joining", "gone"} => Video!Alive = {}
  /\ video_file = "closed" =>
       Video!Alive = {} /\ ~video_pub /\ video_ws # "stopping" /\ video_ui # "stopping"

VideoInv ==
  /\ VideoShape
  /\ Video!Excused \/ VideoOrder
  /\ video_quit \/ video_after = {}
  /\ Video!Orderly /\ Video!StoppedForGood

\* What has happened stays, and with it the excuse.
LEMMA ExcusedStays ==
  ASSUME video_happened \subseteq video_happened', Video!Excused
  PROVE  Video!Excused' /\ Video!Orderly'
BY DEF Video!Excused, Video!Orderly

\* A step of a capture thread.
LEMMA LoopEffect ==
  ASSUME VideoInv, NEW n \in Video!Loop, Video!LoopWorks(n)
  PROVE  /\ VideoShape' /\ n \in Video!Alive /\ Video!Alive' \subseteq Video!Alive
         /\ UNCHANGED <<video_pub, video_file, video_quit, video_handle, video_ui, video_after>>
         /\ video_ws' = video_ws \/ (video_ws = "waiting" /\ video_ws' = "woken")
         /\ video_happened \subseteq video_happened'
         /\ video_happened' \subseteq
              video_happened \cup Video!If(video_ui = "gone", "dead use")
                \cup Video!If(video_file = "closed", "written closed")
                \cup Video!If(~video_quit /\ n \in video_after, "late picture")
<1> USE DEF Video!Uses, Video!Notes, Video!If, Video!SetsEvent
<1>1. PICK from \in {"starting", "opening", "running", "encoding"},
           to \in {"opening", "running", "encoding", "over"} :
        Video!Goes(n, from, to)
  BY DEF Video!LoopWorks, Video!MakesWindow, Video!Fails, Video!Runs, Video!Grabs,
       Video!WritesFrame, Video!Ends
<1>2. /\ VideoShape' /\ n \in Video!Alive
      /\ \A k \in Video!Loop : video_loop'[k] # video_loop[k] => k = n
  BY <1>1 DEF VideoInv, VideoShape, Video!Goes, Video!Alive, Video!Over
<1>3. Video!Alive' \subseteq Video!Alive  BY <1>2 DEF Video!Alive
<1>4. CASE Video!MakesWindow(n)  BY <1>2, <1>3, <1>4 DEF Video!MakesWindow
<1>5. CASE Video!Fails(n)  BY <1>2, <1>3, <1>5 DEF Video!Fails
<1>6. CASE Video!Runs(n)  BY <1>2, <1>3, <1>6 DEF Video!Runs
<1>7. CASE Video!Grabs(n)  BY <1>2, <1>3, <1>7 DEF Video!Grabs
<1>8. CASE Video!WritesFrame(n)  BY <1>2, <1>3, <1>8 DEF Video!WritesFrame
<1>9. CASE Video!Ends(n)  BY <1>2, <1>3, <1>9 DEF Video!Ends
<1>10. QED  BY <1>4, <1>5, <1>6, <1>7, <1>8, <1>9 DEF Video!LoopWorks

\* A capture thread that is there has a client, and its file is open.
LEMMA LoopKeeps ==
  ASSUME VideoInv, NEW n \in Video!Loop, Video!LoopWorks(n)
  PROVE  VideoInv'
<1>1. /\ VideoShape' /\ n \in Video!Alive /\ Video!Alive' \subseteq Video!Alive
      /\ UNCHANGED <<video_pub, video_file, video_quit, video_handle, video_ui, video_after>>
      /\ video_ws' = video_ws \/ (video_ws = "waiting" /\ video_ws' = "woken")
      /\ video_happened \subseteq video_happened'
      /\ video_happened' \subseteq
           video_happened \cup Video!If(video_ui = "gone", "dead use")
             \cup Video!If(video_file = "closed", "written closed")
             \cup Video!If(~video_quit /\ n \in video_after, "late picture")
  BY LoopEffect
<1>2. ~(~video_quit /\ n \in video_after)  BY DEF VideoInv
<1>3. Video!StoppedForGood'
  BY <1>1, <1>2 DEF VideoInv, Video!StoppedForGood, Video!If
<1>4. CASE Video!Excused
  BY <1>1, <1>3, <1>4, ExcusedStays DEF VideoInv
<1>5. CASE ~Video!Excused
  <2>1. VideoOrder  BY <1>5 DEF VideoInv
  <2>2. video_ui # "gone" /\ video_file # "closed"  BY <2>1, <1>1 DEF VideoOrder
  <2>3. video_happened' = video_happened  BY <2>2, <1>1, <1>2 DEF Video!If
  <2>4. Video!Orderly'
    BY <2>3 DEF VideoInv, Video!Orderly, Video!Excused
  <2>5. VideoOrder'  BY <2>1, <1>1 DEF VideoOrder
  <2>6. QED  BY <2>4, <2>5, <1>1, <1>3 DEF VideoInv
<1>6. QED  BY <1>4, <1>5

\* The wait of a stop: past it, either there is no capture thread or it came too late.
LEMMA AwaitedEffect ==
  ASSUME VideoInv, Video!Awaited
  PROVE  /\ video_happened \subseteq video_happened'
         /\ Video!Excused' \/ ~Video!Excused
         /\ ~Video!Excused' => Video!Alive = {}
         /\ "closed twice" \in video_happened' =>
              "closed twice" \in video_happened \/ video_file = "closed"
         /\ \A what \in {"dead use", "written closed", "late picture"} :
              what \in video_happened' => what \in video_happened
<1>1. video_happened' = video_happened
        \cup Video!If(video_handle # 0 /\ video_loop[video_handle] # "over", "late")
        \cup Video!If(video_file = "null", "closed nothing")
        \cup Video!If(video_file = "closed", "closed twice")
  BY DEF Video!Awaited, Video!Notes
<1>2. video_happened \subseteq video_happened' /\ (Video!Excused => Video!Excused')
  BY <1>1, ExcusedStays
<1>3. ASSUME ~Video!Excused' PROVE Video!Alive = {}
  <2>1. "late" \notin video_happened'  BY <1>3 DEF Video!Excused, Video!Causes
  <2>2. ~(video_handle # 0 /\ video_loop[video_handle] # "over")  BY <2>1, <1>1 DEF Video!If
  <2>3. Video!Alive \subseteq {video_handle}  BY <1>2, <1>3 DEF VideoInv, VideoOrder
  <2>4. video_handle \notin Video!Alive
    BY <2>2 DEF Video!Alive, Video!Loop, Video!Over
  <2>5. QED  BY <2>3, <2>4
<1>4. /\ "closed twice" \in video_happened' =>
           "closed twice" \in video_happened \/ video_file = "closed"
      /\ \A what \in {"dead use", "written closed", "late picture"} :
           what \in video_happened' => what \in video_happened
  BY <1>1 DEF Video!If
<1>5. QED  BY <1>2, <1>3, <1>4

\* The websocket thread starts and stops captures.
LEMMA WsKeeps ==
  ASSUME VideoInv,
         \/ Video!Starts \/ Video!TestsForStop \/ Video!WsWorks \/ Video!Leaves
  PROVE  VideoInv'
<1> USE DEF Video!Notes, Video!If
<1>1. CASE Video!Starts
  <2>1. /\ VideoShape' /\ Video!Alive' = Video!Alive /\ video_happened \subseteq video_happened'
        /\ UNCHANGED <<video_quit, video_after, video_handle, video_ui>>
        /\ video_ws' = "starting" /\ video_pub' /\ video_file' # "closed"
        /\ ~Video!Excused' => ~video_pub /\ Video!Alive = {} /\ video_ui = "alive" /\ ~Video!Excused
        /\ video_happened' \subseteq video_happened \cup {"twice", "torn"}
    BY <1>1 DEF Video!Starts, VideoInv, VideoShape, Video!Alive, Video!Excused, Video!Causes
  <2>2. Video!StoppedForGood'  BY <2>1 DEF VideoInv, Video!StoppedForGood
  <2>3. Video!Excused' \/ VideoOrder'  BY <2>1 DEF VideoInv, VideoOrder
  <2>4. Video!Orderly'
    BY <2>1 DEF VideoInv, Video!Orderly, Video!Excused, Video!Causes
  <2>5. QED  BY <2>1, <2>2, <2>3, <2>4 DEF VideoInv
<1>2. CASE Video!TestsForStop
  <2>1. /\ VideoShape' /\ Video!Alive' = Video!Alive /\ video_happened \subseteq video_happened'
        /\ UNCHANGED <<video_quit, video_after, video_handle, video_ui, video_pub, video_file>>
        /\ video_ws = "idle" /\ video_ws' = "tested" /\ video_pub
        /\ ~Video!Excused' => video_ui = "alive" /\ ~Video!Excused
        /\ video_happened' \subseteq video_happened \cup {"torn"}
    BY <1>2 DEF Video!TestsForStop, VideoInv, VideoShape, Video!Alive, Video!Excused, Video!Causes
  <2>2. Video!StoppedForGood'  BY <2>1 DEF VideoInv, Video!StoppedForGood
  <2>3. Video!Excused' \/ VideoOrder'  BY <2>1 DEF VideoInv, VideoOrder
  <2>4. Video!Orderly'
    BY <2>1 DEF VideoInv, Video!Orderly, Video!Excused, Video!Causes
  <2>5. QED  BY <2>1, <2>2, <2>3, <2>4 DEF VideoInv
<1>3. CASE Video!CreatesLoop
  <2>1. /\ video_ws = "starting"
        /\ UNCHANGED <<video_pub, video_file, video_quit, video_ui, video_happened>>
        /\ \/ /\ video_ws' = "created"
              /\ video_loop' = [video_loop EXCEPT ![video_handle'] = "starting"]
           \/ video_ws' = "idle" /\ UNCHANGED video_loop
        /\ video_quit \/ video_after' = video_after
    BY <1>3 DEF Video!CreatesLoop
  <2>2. VideoShape' /\ Video!Alive' \subseteq Video!Alive \cup {video_handle'}
    BY <2>1 DEF VideoInv, VideoShape, Video!Alive
  <2>3. (Video!Excused' <=> Video!Excused) /\ Video!Orderly' /\ Video!StoppedForGood'
    BY <2>1 DEF VideoInv, Video!Orderly, Video!StoppedForGood, Video!Excused
  <2>4. video_quit' \/ video_after' = {}  BY <2>1 DEF VideoInv
  <2>5. ASSUME VideoOrder PROVE VideoOrder'
    <3>1. Video!Alive = {} /\ video_pub /\ video_ui = "alive"  BY <2>1, <2>5 DEF VideoOrder
    <3>2. video_ws' = "idle" => Video!Alive' = {}
      BY <2>1, <3>1 DEF Video!Alive
    <3>3. Video!Alive' \subseteq {video_handle'}  BY <2>2, <3>1
    <3>4. QED  BY <3>1, <3>2, <3>3, <2>1, <2>5 DEF VideoOrder
  <2>6. QED  BY <2>2, <2>3, <2>4, <2>5 DEF VideoInv
<1>4. CASE Video!Waits \/ Video!Started \/ Video!Leaves
  <2>1. /\ UNCHANGED <<video_pub, video_file, video_quit, video_handle, video_ui, video_loop,
                      video_after, video_happened>>
        /\ \/ video_ws = "created" /\ video_ws' \in {"waiting", "woken"}
           \/ video_ws = "woken" /\ video_ws' = "idle"
           \/ video_ws = "idle" /\ video_ws' = "out"
    BY <1>4 DEF Video!Waits, Video!Started, Video!Leaves
  <2>2. VideoShape' /\ Video!Alive' = Video!Alive /\ (Video!Excused' <=> Video!Excused)
        /\ Video!Orderly' /\ Video!StoppedForGood'
    BY <2>1 DEF VideoInv, VideoShape, Video!Alive, Video!Orderly, Video!StoppedForGood, Video!Excused
  <2>3. VideoOrder => VideoOrder'  BY <2>1, <2>2 DEF VideoOrder
  <2>4. QED  BY <2>1, <2>2, <2>3 DEF VideoInv
<1>5. CASE Video!Stops
  <2>1. /\ UNCHANGED <<video_file, video_handle, video_ui, video_loop, video_after, video_happened>>
        /\ video_ws = "tested" /\ video_ws' = "stopping" /\ ~video_pub' /\ video_quit'
    BY <1>5 DEF Video!Stops, Video!Signals
  <2>2. VideoShape' /\ Video!Alive' = Video!Alive /\ (Video!Excused' <=> Video!Excused)
        /\ Video!Orderly' /\ Video!StoppedForGood'
    BY <2>1 DEF VideoInv, VideoShape, Video!Alive, Video!Orderly, Video!StoppedForGood, Video!Excused
  <2>3. VideoOrder => VideoOrder'  BY <2>1, <2>2 DEF VideoOrder
  <2>4. QED  BY <2>1, <2>2, <2>3 DEF VideoInv
<1>6. CASE Video!Stopped
  <2>1. /\ UNCHANGED <<video_pub, video_quit, video_ui, video_loop, video_after>>
        /\ video_ws = "stopping" /\ video_ws' = "idle" /\ Video!Awaited
    BY <1>6 DEF Video!Stopped
  <2>2. VideoShape' /\ Video!Alive' = Video!Alive
    BY <2>1 DEF VideoInv, VideoShape, Video!Alive
  <2>3. /\ video_happened \subseteq video_happened' /\ (~Video!Excused' => Video!Alive = {})
        /\ Video!Excused' \/ ~Video!Excused
        /\ "closed twice" \in video_happened' =>
             "closed twice" \in video_happened \/ video_file = "closed"
        /\ \A what \in {"dead use", "written closed", "late picture"} :
             what \in video_happened' => what \in video_happened
    BY <2>1, AwaitedEffect
  <2>4. Video!StoppedForGood'  BY <2>3 DEF VideoInv, Video!StoppedForGood
  <2>5. CASE Video!Excused'
    BY <2>1, <2>2, <2>4, <2>5 DEF VideoInv, Video!Orderly
  <2>6. CASE ~Video!Excused'
    <3>1. VideoOrder /\ Video!Alive = {}  BY <2>3, <2>6 DEF VideoInv
    <3>2. VideoOrder'  BY <2>1, <2>2, <3>1 DEF VideoOrder
    <3>3. Video!Orderly'
      BY <2>1, <2>3, <2>6, <3>1 DEF VideoInv, VideoOrder, Video!Orderly
    <3>4. QED  BY <2>1, <2>2, <2>4, <3>2, <3>3 DEF VideoInv
  <2>7. QED  BY <2>5, <2>6
<1>7. QED  BY <1>1, <1>2, <1>3, <1>4, <1>5, <1>6 DEF Video!WsWorks

\* The user interface deletes the client.
LEMMA UiKeeps ==
  ASSUME VideoInv, Video!Deletes \/ Video!UiWorks
  PROVE  VideoInv'
<1> USE DEF Video!Notes, Video!If
<1>1. CASE Video!Deletes
  <2>1. /\ VideoShape' /\ Video!Alive' = Video!Alive /\ video_happened \subseteq video_happened'
        /\ UNCHANGED <<video_quit, video_after, video_handle, video_ws, video_pub, video_file>>
        /\ video_ui = "alive" /\ video_ui' = IF video_pub THEN "tested" ELSE "joining"
        /\ ~Video!Excused' => video_ws = "idle" /\ ~Video!Excused
        /\ video_happened' \subseteq video_happened \cup {"torn"}
    BY <1>1 DEF Video!Deletes, VideoInv, VideoShape, Video!Alive, Video!Excused, Video!Causes
  <2>2. Video!StoppedForGood'  BY <2>1 DEF VideoInv, Video!StoppedForGood
  <2>3. Video!Excused' \/ VideoOrder'  BY <2>1 DEF VideoInv, VideoOrder
  <2>4. Video!Orderly'
    BY <2>1 DEF VideoInv, Video!Orderly, Video!Excused, Video!Causes
  <2>5. QED  BY <2>1, <2>2, <2>3, <2>4 DEF VideoInv
<1>2. CASE Video!DeleteStops
  <2>1. /\ UNCHANGED <<video_file, video_handle, video_ws, video_loop, video_after, video_happened>>
        /\ video_ui = "tested" /\ video_ui' = "stopping" /\ ~video_pub' /\ video_quit'
    BY <1>2 DEF Video!DeleteStops, Video!Signals
  <2>2. VideoShape' /\ Video!Alive' = Video!Alive /\ (Video!Excused' <=> Video!Excused)
        /\ Video!Orderly' /\ Video!StoppedForGood'
    BY <2>1 DEF VideoInv, VideoShape, Video!Alive, Video!Orderly, Video!StoppedForGood, Video!Excused
  <2>3. VideoOrder => VideoOrder'  BY <2>1, <2>2 DEF VideoOrder
  <2>4. QED  BY <2>1, <2>2, <2>3 DEF VideoInv
<1>3. CASE Video!DeleteStopped
  <2>1. /\ UNCHANGED <<video_pub, video_quit, video_ws, video_loop, video_after>>
        /\ video_ui = "stopping" /\ video_ui' = "joining" /\ Video!Awaited
    BY <1>3 DEF Video!DeleteStopped
  <2>2. VideoShape' /\ Video!Alive' = Video!Alive
    BY <2>1 DEF VideoInv, VideoShape, Video!Alive
  <2>3. /\ video_happened \subseteq video_happened' /\ (~Video!Excused' => Video!Alive = {})
        /\ Video!Excused' \/ ~Video!Excused
        /\ "closed twice" \in video_happened' =>
             "closed twice" \in video_happened \/ video_file = "closed"
        /\ \A what \in {"dead use", "written closed", "late picture"} :
             what \in video_happened' => what \in video_happened
    BY <2>1, AwaitedEffect
  <2>4. Video!StoppedForGood'  BY <2>3 DEF VideoInv, Video!StoppedForGood
  <2>5. CASE Video!Excused'
    BY <2>1, <2>2, <2>4, <2>5 DEF VideoInv, Video!Orderly
  <2>6. CASE ~Video!Excused'
    <3>1. VideoOrder /\ Video!Alive = {}  BY <2>3, <2>6 DEF VideoInv
    <3>2. VideoOrder'  BY <2>1, <2>2, <3>1 DEF VideoOrder
    <3>3. Video!Orderly'
      BY <2>1, <2>3, <2>6, <3>1 DEF VideoInv, VideoOrder, Video!Orderly
    <3>4. QED  BY <2>1, <2>2, <2>4, <3>2, <3>3 DEF VideoInv
  <2>7. QED  BY <2>5, <2>6
<1>4. CASE Video!Deleted
  <2>1. /\ UNCHANGED <<video_pub, video_file, video_quit, video_handle, video_ws, video_loop,
                      video_after, video_happened>>
        /\ video_ui = "joining" /\ video_ui' = "gone"
    BY <1>4 DEF Video!Deleted
  <2>2. VideoShape' /\ Video!Alive' = Video!Alive /\ (Video!Excused' <=> Video!Excused)
        /\ Video!Orderly' /\ Video!StoppedForGood'
    BY <2>1 DEF VideoInv, VideoShape, Video!Alive, Video!Orderly, Video!StoppedForGood, Video!Excused
  <2>3. VideoOrder => VideoOrder'  BY <2>1, <2>2 DEF VideoOrder
  <2>4. QED  BY <2>1, <2>2, <2>3 DEF VideoInv
<1>5. QED  BY <1>1, <1>2, <1>3, <1>4 DEF Video!UiWorks

\* No capture thread touches a client that is deleted or a file that is closed, and no
\* file is closed twice, however often captures are started, unless a stop did not
\* wait long enough, a start came while one was running or the client was deleted in
\* the middle of one; and a client that was stopped once never captures again.
THEOREM CapturesOrderly == Video!Spec => []LifeOrderly
<1>1. Video!Init => VideoInv
  <2> SUFFICES ASSUME Video!Init PROVE VideoInv
    OBVIOUS
  <2>1. VideoShape /\ Video!Alive = {}
    BY DEF Video!Init, VideoShape, Video!Alive, Video!Over
  <2>2. QED
    BY <2>1 DEF Video!Init, VideoInv, VideoOrder, Video!Excused, Video!Orderly, Video!StoppedForGood
<1>2. VideoInv /\ [Video!Next]_(Video!vars) => VideoInv'
  <2> SUFFICES ASSUME VideoInv, [Video!Next]_(Video!vars) PROVE VideoInv'
    OBVIOUS
  <2>1. CASE UNCHANGED Video!vars
    <3>1. UNCHANGED <<video_pub, video_file, video_quit, video_handle, video_ws, video_ui,
                     video_loop, video_after, video_happened>>
      BY <2>1 DEF Video!vars
    <3>2. VideoShape' /\ Video!Alive' = Video!Alive /\ (Video!Excused' <=> Video!Excused)
          /\ Video!Orderly' /\ Video!StoppedForGood'
      BY <3>1 DEF VideoInv, VideoShape, Video!Alive, Video!Orderly, Video!StoppedForGood, Video!Excused
    <3>3. VideoOrder => VideoOrder'  BY <3>1, <3>2 DEF VideoOrder
    <3>4. QED  BY <3>1, <3>2, <3>3 DEF VideoInv
  <2>2. QED  BY <2>1, LoopKeeps, WsKeeps, UiKeeps DEF Video!Next
<1>3. VideoInv => LifeOrderly  BY DEF VideoInv, LifeOrderly, Video!LifeOrderly
<1>4. QED  BY <1>1, <1>2, <1>3, PTL DEF Video!Spec

-----------------------------------------------------------------------------
(* The ways to grab a screen. *)

Height == Lines \cup {0}

\* Heights are numbers.
LEMMA HeightsCount ==
  ASSUME Lines \subseteq Nat \ {0}, NEW h \in Height
  PROVE  h \in Nat /\ (h \in Lines => h # 0)
<1>1. CASE h \in Lines
  <2>1. h \in Nat \ {0}  BY <1>1
  <2>2. QED  BY <2>1
<1>2. CASE h = 0  BY <1>2
<1>3. QED  BY <1>1, <1>2 DEF Height

GrabShape ==
  /\ grab_mode \in Lines /\ grab_gdi \in Height
  /\ grab_dx \in [cy : Height, dup : Height, valid : BOOLEAN, text : Height]
  /\ grab_mirror \in [size : Height, view : Height]
  /\ grab_kind \in {"auto", "mirror", "directx", "gdi"}

\* What is set up at each stage.
GrabStages ==
  /\ grab_at \in {"camera", "loop", "grab", "send"} => grab_kind # "auto"
  /\ grab_at = "mirror" => grab_kind = "auto"
  /\ grab_at \in {"directx", "duplicate"} => grab_kind \in {"auto", "directx"}
  /\ grab_at = "gdi" => grab_kind \in {"auto", "gdi"}
  /\ grab_at = "send" => grab_kind = "directx" /\ grab_dx.text # 0
  /\ grab_at \in {"mirror", "directx"} => grab_dx = Grab!NoDx
  /\ grab_at = "duplicate" => grab_dx.text = 0 /\ grab_dx.cy # 0 /\ grab_dx.dup = 0
  /\ grab_dx.dup # 0 => grab_dx.cy # 0
  /\ grab_dx.text # 0 => grab_dx.text = grab_dx.dup
  /\ grab_mirror.view \in {0, grab_mirror.size}

Moved == grab_happened \cap {"between", "not followed"} # {}

\* Every size that was asked for is still the one it was.
GrabFresh ==
  /\ grab_kind = "mirror" /\ ~grab_told => grab_mirror.size = grab_mode
  /\ grab_at = "grab" /\ grab_kind = "mirror" => ~grab_told
  /\ grab_dx.dup # 0 => grab_dx.cy = grab_dx.dup
  /\ grab_at = "duplicate" => grab_dx.cy = grab_mode

\* Every size that was asked for has room for the camera's picture.
GrabHigh ==
  /\ grab_mode >= CameraLines
  /\ grab_dx.cy # 0 => grab_dx.cy >= CameraLines
  /\ grab_gdi # 0 => grab_gdi >= CameraLines

\* There is something to grab from.
GrabSourced ==
  /\ grab_kind = "directx" /\ grab_at \in {"camera", "loop", "grab", "send"} => grab_dx.dup # 0
  /\ grab_kind = "gdi" /\ grab_at \in {"camera", "loop", "grab"} => grab_gdi # 0

GrabInv ==
  /\ GrabShape /\ GrabStages
  /\ Moved \/ GrabFresh
  /\ "low" \in grab_happened \/ GrabHigh
  /\ "failed" \in grab_happened \/ GrabSourced
  /\ Grab!FrameFits /\ Grab!OverlayInside

\* A frame no larger than its buffer, and as high as the camera's picture, fits.
LEMMA SendsEffect ==
  ASSUME CameraLines \in Nat, NEW lines \in Nat, NEW buffer \in Nat, Grab!Sends(lines, buffer)
  PROVE  /\ grab_happened \subseteq grab_happened'
         /\ grab_happened' \subseteq grab_happened \cup {"overrun", "outside"}
         /\ lines <= buffer => ("overrun" \in grab_happened' => "overrun" \in grab_happened)
         /\ CameraLines <= lines \/ grab_kind = "mirror" =>
              ("outside" \in grab_happened' => "outside" \in grab_happened)
<1>1. grab_happened' = grab_happened \cup (Grab!If(lines > buffer, "overrun")
        \cup Grab!If(grab_camera /\ grab_kind # "mirror"
                     /\ ~(Grab!Overlay(lines) \subseteq 1 .. lines), "outside"))
  BY DEF Grab!Sends, Grab!Notes
<1>2. CameraLines <= lines => Grab!Overlay(lines) \subseteq 1 .. lines
  BY DEF Grab!Overlay
<1>3. lines <= buffer => ~(lines > buffer)  OBVIOUS
<1> HIDE DEF Grab!Overlay
<1>4. QED  BY <1>1, <1>2, <1>3 DEF Grab!If

\* What the invariant asks of a step that sends no frame that does not fit: the
\* history only grows, and each part is kept or excused.
GrabGrows ==
  /\ grab_happened \subseteq grab_happened'
  /\ "overrun" \in grab_happened' => "overrun" \in grab_happened
  /\ "outside" \in grab_happened' => "outside" \in grab_happened

LEMMA GrabKept ==
  ASSUME GrabInv, GrabGrows, GrabShape', GrabStages',
         GrabFresh => (Moved' \/ GrabFresh'),
         GrabHigh => ("low" \in grab_happened' \/ GrabHigh'),
         GrabSourced => ("failed" \in grab_happened' \/ GrabSourced')
  PROVE  GrabInv'
<1>1. Moved => Moved'  BY DEF Moved, GrabGrows
<1>2. Grab!FrameFits' /\ Grab!OverlayInside'
  BY DEF GrabInv, GrabGrows, Moved, Grab!FrameFits, Grab!OverlayInside
<1> HIDE DEF GrabShape, GrabStages, Moved, GrabFresh, GrabHigh, GrabSourced
<1>3. QED  BY <1>1, <1>2 DEF GrabInv, GrabGrows

\* The steps that initialise.
LEMMA GrabInitKeeps ==
  ASSUME Lines \subseteq Nat \ {0}, CameraLines \in Nat, GrabInv, Grab!InitWorks
  PROVE  GrabInv'
<1> USE DEF Height
<1>1. CASE Grab!InitMirror
  <2>1. UNCHANGED <<grab_mode, grab_told, grab_dx, grab_gdi>> /\ grab_at = "mirror"
    BY <1>1 DEF Grab!InitMirror
  <2>2. GrabShape /\ GrabStages  BY DEF GrabInv
  <2>3. CASE /\ grab_kind' = "mirror" /\ grab_at' = "camera"
             /\ \E h \in Height :
                  grab_mirror' = [size |-> h, view |-> 0]
                  /\ Grab!Notes(Grab!If(h # grab_mode, "not followed"))
    <3>1. PICK h \in Height : /\ grab_mirror' = [size |-> h, view |-> 0]
                              /\ Grab!Notes(Grab!If(h # grab_mode, "not followed"))
      BY <2>3
    <3> HIDE DEF Height
    <3>2. grab_mirror' \in [size : Height, view : Height]
      <4>1. 0 \in Height  BY DEF Height
      <4>2. QED  BY <3>1, <4>1
    <3>3. grab_mirror'.size = h /\ grab_mirror'.view = 0  BY <3>1
    <3>4. GrabShape'  BY <2>1, <2>2, <2>3, <3>2 DEF GrabShape
    <3>5. GrabStages'  BY <2>1, <2>2, <2>3, <3>3 DEF GrabStages, Grab!NoDx
    <3>6. GrabFresh => (Moved' \/ GrabFresh')
      <4>1. CASE h = grab_mode  BY <2>1, <2>3, <3>3, <4>1 DEF GrabFresh
      <4>2. CASE h # grab_mode
        <5>1. "not followed" \in grab_happened'  BY <3>1, <4>2 DEF Grab!Notes, Grab!If
        <5>2. Moved'  BY <5>1 DEF Moved
        <5>3. QED  BY <5>2
      <4>3. QED  BY <4>1, <4>2
    <3>7. GrabHigh => GrabHigh'  BY <2>1 DEF GrabHigh
    <3>8. GrabSourced => GrabSourced'  BY <2>1, <2>3 DEF GrabSourced
    <3>9. GrabGrows  BY <3>1 DEF GrabGrows, Grab!Notes, Grab!If
    <3>10. QED  BY <3>4, <3>5, <3>6, <3>7, <3>8, <3>9, GrabKept
  <2>4. CASE grab_at' = "directx" /\ UNCHANGED <<grab_kind, grab_mirror, grab_happened>>
    <3>1. GrabShape'  BY <2>1, <2>2, <2>4 DEF GrabShape
    <3>2. GrabStages'  BY <2>1, <2>2, <2>4 DEF GrabStages, Grab!NoDx
    <3>3. GrabFresh => GrabFresh'  BY <2>1, <2>2, <2>4 DEF GrabStages, GrabFresh
    <3>4. GrabHigh => GrabHigh'  BY <2>1 DEF GrabHigh
    <3>5. GrabSourced => GrabSourced'  BY <2>1, <2>2, <2>4 DEF GrabStages, GrabSourced
    <3>6. GrabGrows  BY <2>4 DEF GrabGrows
    <3>7. QED  BY <3>1, <3>2, <3>3, <3>4, <3>5, <3>6, GrabKept
  <2>5. QED  BY <1>1, <2>3, <2>4 DEF Grab!InitMirror, Grab!active_mirror_driver
<1>2. CASE Grab!ReadsMode
  <2>1. /\ UNCHANGED <<grab_mode, grab_told, grab_kind, grab_mirror, grab_gdi>>
        /\ grab_at = "directx"
        /\ GrabGrows
        /\ \/ /\ grab_dx' = [grab_dx EXCEPT !.cy = grab_mode] /\ grab_at' = "duplicate"
           \/ /\ grab_dx' = grab_dx
              /\ \/ grab_at' = "gdi" /\ grab_kind = "auto"
                 \/ grab_at' = "loop" /\ grab_kind # "auto" /\ "failed" \in grab_happened'
    BY <1>2 DEF Grab!ReadsMode, Grab!find_display_device, GrabGrows, Grab!Notes, Grab!If, Grab!Starting
  <2>2. GrabShape /\ GrabStages  BY DEF GrabInv
  <2>3. GrabShape'  BY <2>1, <2>2 DEF GrabShape
  <2>4. GrabStages'  BY <2>1, <2>2 DEF GrabShape, GrabStages, Grab!NoDx
  <2>5. GrabFresh => GrabFresh'  BY <2>1, <2>2 DEF GrabShape, GrabStages, GrabFresh, Grab!NoDx
  <2>6. GrabHigh => GrabHigh'  BY <2>1, <2>2 DEF GrabShape, GrabHigh
  <2>7. GrabSourced => ("failed" \in grab_happened' \/ GrabSourced')
    BY <2>1, <2>2 DEF GrabShape, GrabStages, GrabSourced
  <2>8. QED  BY <2>1, <2>3, <2>4, <2>5, <2>6, <2>7, GrabKept
<1>3. CASE Grab!Duplicates
  <2>1. /\ UNCHANGED <<grab_mode, grab_told, grab_mirror, grab_gdi>>
        /\ grab_at = "duplicate"
        /\ GrabGrows
        /\ \/ /\ grab_dx' = [grab_dx EXCEPT !.dup = grab_mode, !.valid = TRUE]
              /\ grab_kind' = "directx" /\ grab_at' \in {"camera", "loop"}
           \/ /\ UNCHANGED <<grab_dx, grab_kind>>
              /\ \/ grab_at' = "gdi" /\ grab_kind = "auto"
                 \/ grab_at' = "loop" /\ grab_kind # "auto" /\ "failed" \in grab_happened'
    BY <1>3 DEF Grab!Duplicates, GrabGrows, Grab!Notes, Grab!If, Grab!Starting
  <2>2. GrabShape /\ GrabStages  BY DEF GrabInv
  <2>3. GrabShape'  BY <2>1, <2>2 DEF GrabShape
  <2>4. GrabStages'  BY <2>1, <2>2 DEF GrabShape, GrabStages, Grab!NoDx
  <2>5. GrabFresh => GrabFresh'  BY <2>1, <2>2 DEF GrabShape, GrabStages, GrabFresh, Grab!NoDx
  <2>6. GrabHigh => GrabHigh'  BY <2>1, <2>2 DEF GrabShape, GrabHigh
  <2>7. GrabSourced => ("failed" \in grab_happened' \/ GrabSourced')
    BY <2>1, <2>2 DEF GrabShape, GrabStages, GrabSourced
  <2>8. QED  BY <2>1, <2>3, <2>4, <2>5, <2>6, <2>7, GrabKept
<1>4. CASE Grab!InitGdi
  <2>1. /\ UNCHANGED <<grab_mode, grab_told, grab_mirror, grab_dx>>
        /\ grab_at = "gdi"
        /\ GrabGrows
        /\ \/ grab_gdi' = grab_mode /\ grab_kind' = "gdi" /\ grab_at' \in {"camera", "loop"}
           \/ /\ UNCHANGED <<grab_gdi, grab_kind>>
              /\ \/ grab_at' = "failed"
                 \/ grab_at' = "loop" /\ grab_kind # "auto" /\ "failed" \in grab_happened'
    BY <1>4 DEF Grab!InitGdi, GrabGrows, Grab!Notes, Grab!If, Grab!Starting
  <2>2. GrabShape /\ GrabStages  BY DEF GrabInv
  <2>3. GrabShape'  BY <2>1, <2>2 DEF GrabShape
  <2>4. GrabStages'  BY <2>1, <2>2 DEF GrabShape, GrabStages
  <2>5. GrabFresh => GrabFresh'  BY <2>1, <2>2 DEF GrabStages, GrabFresh
  <2>6. GrabHigh => GrabHigh'  BY <2>1, <2>2 DEF GrabHigh
  <2>7. GrabSourced => ("failed" \in grab_happened' \/ GrabSourced')
    BY <2>1, <2>2 DEF GrabShape, GrabStages, GrabSourced
  <2>8. QED  BY <2>1, <2>3, <2>4, <2>5, <2>6, <2>7, GrabKept
<1>5. CASE Grab!InitCamera
  <2>1. /\ UNCHANGED <<grab_mode, grab_told, grab_kind, grab_mirror, grab_dx, grab_gdi, grab_happened>>
        /\ grab_at = "camera" /\ grab_at' \in {"loop", "failed"}
    BY <1>5 DEF Grab!InitCamera
  <2>2. GrabShape /\ GrabStages  BY DEF GrabInv
  <2>3. GrabShape'  BY <2>1, <2>2 DEF GrabShape
  <2>4. GrabStages'  BY <2>1, <2>2 DEF GrabStages
  <2>5. GrabFresh => GrabFresh'  BY <2>1 DEF GrabFresh
  <2>6. GrabHigh => GrabHigh'  BY <2>1 DEF GrabHigh
  <2>7. GrabSourced => GrabSourced'  BY <2>1 DEF GrabSourced
  <2>8. QED  BY <2>1, <2>3, <2>4, <2>5, <2>6, <2>7, GrabKept DEF GrabGrows
<1>6. QED  BY <1>1, <1>2, <1>3, <1>4, <1>5 DEF Grab!InitWorks

\* The steps of the loop that send nothing.
LEMMA GrabLoopKeeps ==
  ASSUME Lines \subseteq Nat \ {0}, CameraLines \in Nat, GrabInv,
         Grab!DisplayChanged \/ Grab!Turns \/ Grab!DxLost \/ Grab!DxNothing \/ Grab!DxFirst \/ Grab!DxNext
  PROVE  GrabInv'
<1> USE DEF Height
<1>0. GrabShape /\ GrabStages  BY DEF GrabInv
<1>1. CASE Grab!DisplayChanged
  <2>1. /\ UNCHANGED <<grab_mode, grab_kind>>
        /\ grab_at = "loop" /\ ~grab_told'
        /\ GrabGrows
        /\ \/ /\ grab_kind = "mirror" /\ UNCHANGED <<grab_at, grab_dx, grab_gdi>>
              /\ \/ grab_mirror' = [size |-> grab_mode, view |-> 0]
                 \/ grab_mirror' = [grab_mirror EXCEPT !.view = 0] /\ "not followed" \in grab_happened'
           \/ /\ grab_kind = "directx" /\ grab_dx' = Grab!NoDx /\ grab_at' = "directx"
              /\ UNCHANGED <<grab_mirror, grab_gdi>>
           \/ /\ grab_kind = "gdi" /\ grab_gdi' = 0 /\ grab_at' = "gdi"
              /\ UNCHANGED <<grab_mirror, grab_dx>>
    BY <1>1 DEF Grab!DisplayChanged, GrabGrows, Grab!Notes
  <2>2. CASE grab_kind = "mirror" /\ UNCHANGED <<grab_at, grab_dx, grab_gdi>>
    <3>1. /\ grab_mirror'.view = 0 /\ grab_mirror' \in [size : Height, view : Height]
          /\ grab_mirror'.size = grab_mode \/ "not followed" \in grab_happened'
      <4>1. CASE grab_mirror' = [size |-> grab_mode, view |-> 0]
        BY <1>0, <4>1 DEF GrabShape
      <4>2. CASE grab_mirror' = [grab_mirror EXCEPT !.view = 0] /\ "not followed" \in grab_happened'
        BY <1>0, <4>2 DEF GrabShape
      <4>3. QED  BY <2>1, <2>2, <4>1, <4>2
    <3>2. GrabShape'  BY <1>0, <2>1, <2>2, <3>1 DEF GrabShape
    <3>3. GrabStages'  BY <1>0, <2>1, <2>2, <3>1 DEF GrabStages
    <3>4. GrabFresh => (Moved' \/ GrabFresh')  BY <2>1, <2>2, <3>1 DEF GrabFresh, Moved
    <3>5. GrabHigh => GrabHigh'  BY <2>1, <2>2 DEF GrabHigh
    <3>6. GrabSourced => GrabSourced'  BY <2>1, <2>2 DEF GrabSourced
    <3>7. QED  BY <2>1, <3>2, <3>3, <3>4, <3>5, <3>6, GrabKept
  <2>3. CASE /\ grab_kind = "directx" /\ grab_dx' = Grab!NoDx /\ grab_at' = "directx"
             /\ UNCHANGED <<grab_mirror, grab_gdi>>
    <3>1. GrabShape'  BY <1>0, <2>1, <2>3 DEF GrabShape, Grab!NoDx
    <3>2. GrabStages'  BY <1>0, <2>1, <2>3 DEF GrabStages, Grab!NoDx
    <3>3. GrabFresh => GrabFresh'  BY <2>1, <2>3 DEF GrabFresh, Grab!NoDx
    <3>4. GrabHigh => GrabHigh'  BY <2>1, <2>3 DEF GrabHigh, Grab!NoDx
    <3>5. GrabSourced => GrabSourced'  BY <2>1, <2>3 DEF GrabSourced
    <3>6. QED  BY <2>1, <3>1, <3>2, <3>3, <3>4, <3>5, GrabKept
  <2>4. CASE grab_kind = "gdi" /\ grab_gdi' = 0 /\ grab_at' = "gdi" /\ UNCHANGED <<grab_mirror, grab_dx>>
    <3>1. GrabShape'  BY <1>0, <2>1, <2>4 DEF GrabShape
    <3>2. GrabStages'  BY <1>0, <2>1, <2>4 DEF GrabStages
    <3>3. GrabFresh => GrabFresh'  BY <2>1, <2>4 DEF GrabFresh
    <3>4. GrabHigh => GrabHigh'  BY <2>1, <2>4 DEF GrabHigh
    <3>5. GrabSourced => GrabSourced'  BY <2>1, <2>4 DEF GrabSourced
    <3>6. QED  BY <2>1, <3>1, <3>2, <3>3, <3>4, <3>5, GrabKept
  <2>5. QED  BY <2>1, <2>2, <2>3, <2>4
<1>2. CASE Grab!DxLost
  <2>1. /\ UNCHANGED <<grab_mode, grab_told, grab_kind, grab_mirror, grab_gdi, grab_happened>>
        /\ grab_at = "grab" /\ grab_kind = "directx" /\ grab_dx' = Grab!NoDx /\ grab_at' = "directx"
    BY <1>2 DEF Grab!DxLost
  <2>2. GrabShape'  BY <1>0, <2>1 DEF GrabShape, Grab!NoDx
  <2>3. GrabStages'  BY <1>0, <2>1 DEF GrabShape, GrabStages, Grab!NoDx
  <2>4. GrabFresh => GrabFresh'  BY <2>1 DEF GrabFresh, Grab!NoDx
  <2>5. GrabHigh => GrabHigh'  BY <2>1 DEF GrabHigh, Grab!NoDx
  <2>6. GrabSourced => GrabSourced'  BY <2>1 DEF GrabSourced, Grab!NoDx
  <2>7. QED  BY <2>1, <2>2, <2>3, <2>4, <2>5, <2>6, GrabKept DEF GrabGrows
<1>3. CASE Grab!Turns \/ Grab!DxNothing \/ Grab!DxFirst \/ Grab!DxNext
  <2>1. /\ UNCHANGED <<grab_mode, grab_told, grab_kind, grab_mirror, grab_gdi, grab_happened>>
        /\ \/ grab_at = "loop" /\ ~grab_told /\ grab_at' = "grab" /\ grab_dx' = grab_dx
           \/ grab_at = "grab" /\ grab_kind = "directx" /\ grab_at' = "loop" /\ grab_dx' = grab_dx
           \/ /\ grab_at = "grab" /\ grab_kind = "directx" /\ grab_at' = "send"
              /\ grab_dx.dup # 0 /\ grab_dx' = [grab_dx EXCEPT !.text = grab_dx.dup]
           \/ /\ grab_at = "grab" /\ grab_kind = "directx" /\ grab_at' = "send"
              /\ grab_dx.text # 0 /\ grab_dx' = grab_dx
    BY <1>3 DEF Grab!Turns, Grab!DxNothing, Grab!DxFirst, Grab!DxNext
  <2>2. GrabShape'  BY <1>0, <2>1 DEF GrabShape
  <2>3. GrabStages'  BY <1>0, <2>1 DEF GrabShape, GrabStages
  <2>4. GrabFresh => GrabFresh'  BY <1>0, <2>1 DEF GrabShape, GrabFresh
  <2>5. GrabHigh => GrabHigh'  BY <1>0, <2>1 DEF GrabShape, GrabHigh
  <2>6. GrabSourced => GrabSourced'  BY <1>0, <2>1 DEF GrabShape, GrabSourced
  <2>7. QED  BY <2>1, <2>2, <2>3, <2>4, <2>5, <2>6, GrabKept DEF GrabGrows
<1>4. QED  BY <1>1, <1>2, <1>3

\* A step that may send a frame, back to the loop with all else kept but the mapped
\* buffer: the frame fits if the sizes are fresh, and has room for the camera's
\* picture if they are high.
LEMMA GrabSent ==
  ASSUME Lines \subseteq Nat \ {0}, CameraLines \in Nat, GrabInv,
         grab_at \in {"grab", "send"}, grab_at' = "loop",
         UNCHANGED <<grab_mode, grab_told, grab_kind, grab_dx, grab_gdi>>,
         grab_mirror' \in {grab_mirror, [grab_mirror EXCEPT !.view = grab_mirror.size]},
         grab_happened \subseteq grab_happened',
         ~Moved => ("overrun" \in grab_happened' => "overrun" \in grab_happened),
         "low" \notin grab_happened => ("outside" \in grab_happened' => "outside" \in grab_happened)
  PROVE  GrabInv'
<1> USE DEF Height
<1>0. GrabShape /\ GrabStages  BY DEF GrabInv
<1>1. GrabShape'  BY <1>0 DEF GrabShape
<1>2. GrabStages'  BY <1>0 DEF GrabShape, GrabStages
<1>3. GrabFresh => GrabFresh'  BY <1>0 DEF GrabShape, GrabFresh
<1>4. GrabHigh => GrabHigh'  BY DEF GrabHigh
<1>5. GrabSourced => GrabSourced'  BY <1>0 DEF GrabStages, GrabSourced
<1>6. Moved => Moved'  BY DEF Moved
<1>7. Grab!FrameFits'  BY <1>6 DEF GrabInv, Grab!FrameFits, Moved
<1>8. Grab!OverlayInside'  BY DEF GrabInv, Grab!OverlayInside
<1> HIDE DEF GrabShape, GrabStages, Moved, GrabFresh, GrabHigh, GrabSourced, Grab!FrameFits, Grab!OverlayInside
<1>9. QED  BY <1>1, <1>2, <1>3, <1>4, <1>5, <1>6, <1>7, <1>8 DEF GrabInv

\* The steps that send.
LEMMA GrabSendKeeps ==
  ASSUME Lines \subseteq Nat \ {0}, CameraLines \in Nat, GrabInv,
         Grab!CaptureMirror \/ Grab!SendDx \/ Grab!CaptureGdi
  PROVE  GrabInv'
<1>0. GrabShape /\ GrabStages  BY DEF GrabInv
<1>1. CASE Grab!CaptureMirror
  <2>1. /\ UNCHANGED <<grab_mode, grab_told, grab_kind, grab_dx, grab_gdi>>
        /\ grab_at = "grab" /\ grab_kind = "mirror" /\ grab_at' = "loop"
        /\ grab_mirror' \in {grab_mirror, [grab_mirror EXCEPT !.view = grab_mirror.size]}
        /\ \/ UNCHANGED grab_happened
           \/ grab_mirror.view # 0 /\ Grab!Sends(grab_mode, grab_mirror.view)
    BY <1>1 DEF Grab!CaptureMirror, Grab!map_and_unmap_buffer
  <2>2. CASE UNCHANGED grab_happened  BY <2>1, <2>2, GrabSent
  <2>3. CASE grab_mirror.view # 0 /\ Grab!Sends(grab_mode, grab_mirror.view)
    <3>1. grab_mode \in Nat /\ grab_mirror.view \in Nat
      <4>1. grab_mode \in Height /\ grab_mirror.view \in Height  BY <1>0 DEF GrabShape, Height
      <4>2. QED  BY <4>1, HeightsCount
    <3>2. GrabFresh => grab_mode <= grab_mirror.view
      BY <1>0, <2>1, <2>3, <3>1 DEF GrabFresh, GrabStages
    <3>3. ~Moved => grab_mode <= grab_mirror.view  BY <3>2 DEF GrabInv
    <3>4. /\ grab_happened \subseteq grab_happened'
          /\ ~Moved => ("overrun" \in grab_happened' => "overrun" \in grab_happened)
          /\ "outside" \in grab_happened' => "outside" \in grab_happened
      BY <2>1, <2>3, <3>1, <3>3, SendsEffect
    <3>5. QED  BY <2>1, <3>4, GrabSent
  <2>4. QED  BY <2>1, <2>2, <2>3
<1>2. CASE Grab!SendDx
  <2>1. /\ UNCHANGED <<grab_mode, grab_told, grab_kind, grab_mirror, grab_dx, grab_gdi>>
        /\ grab_at = "send" /\ grab_at' = "loop"
        /\ UNCHANGED grab_happened \/ Grab!Sends(grab_dx.cy, grab_dx.text)
    BY <1>2 DEF Grab!SendDx
  <2>2. CASE UNCHANGED grab_happened  BY <2>1, <2>2, GrabSent
  <2>3. CASE Grab!Sends(grab_dx.cy, grab_dx.text)
    <3>1. grab_dx.cy \in Nat /\ grab_dx.text \in Nat
      <4>1. grab_dx.cy \in Height /\ grab_dx.text \in Height  BY <1>0 DEF GrabShape
      <4>2. QED  BY <4>1, HeightsCount
    <3>2. grab_dx.text # 0 /\ grab_dx.text = grab_dx.dup /\ grab_dx.cy # 0
      BY <1>0, <2>1 DEF GrabStages
    <3>3. ~Moved => grab_dx.cy <= grab_dx.text  BY <3>1, <3>2 DEF GrabInv, GrabFresh
    <3>4. "low" \notin grab_happened => CameraLines <= grab_dx.cy
      BY <3>1, <3>2 DEF GrabInv, GrabHigh
    <3>5. /\ grab_happened \subseteq grab_happened'
          /\ ~Moved => ("overrun" \in grab_happened' => "overrun" \in grab_happened)
          /\ "low" \notin grab_happened => ("outside" \in grab_happened' => "outside" \in grab_happened)
      BY <2>3, <3>1, <3>3, <3>4, SendsEffect
    <3>6. QED  BY <2>1, <3>5, GrabSent
  <2>4. QED  BY <2>1, <2>2, <2>3
<1>3. CASE Grab!CaptureGdi
  <2>1. /\ UNCHANGED <<grab_mode, grab_told, grab_kind, grab_mirror, grab_dx, grab_gdi>>
        /\ grab_at = "grab" /\ grab_at' = "loop"
        /\ \/ UNCHANGED grab_happened
           \/ grab_happened' = grab_happened \cup {"not copied"}
           \/ grab_gdi # 0 /\ Grab!Sends(grab_gdi, grab_gdi)
    BY <1>3 DEF Grab!CaptureGdi, Grab!Notes
  <2>2. CASE grab_happened' = grab_happened \/ grab_happened' = grab_happened \cup {"not copied"}
    <3>1. /\ grab_happened \subseteq grab_happened'
          /\ "overrun" \in grab_happened' => "overrun" \in grab_happened
          /\ "outside" \in grab_happened' => "outside" \in grab_happened
      BY <2>2
    <3>2. QED  BY <2>1, <3>1, GrabSent
  <2>3. CASE grab_gdi # 0 /\ Grab!Sends(grab_gdi, grab_gdi)
    <3>1. grab_gdi \in Nat /\ grab_gdi <= grab_gdi  BY <1>0 DEF GrabShape, Height
    <3>2. "low" \notin grab_happened => CameraLines <= grab_gdi  BY <2>3, <3>1 DEF GrabInv, GrabHigh
    <3>3. /\ grab_happened \subseteq grab_happened'
          /\ "overrun" \in grab_happened' => "overrun" \in grab_happened
          /\ "low" \notin grab_happened => ("outside" \in grab_happened' => "outside" \in grab_happened)
      BY <2>3, <3>1, <3>2, SendsEffect
    <3>4. QED  BY <2>1, <3>3, GrabSent
  <2>4. QED  BY <2>1, <2>2, <2>3
<1>4. QED  BY <1>1, <1>2, <1>3

\* What happens around the loop.
LEMMA GrabAroundKeeps ==
  ASSUME Lines \subseteq Nat \ {0}, CameraLines \in Nat, GrabInv,
         Grab!ModeChanges \/ Grab!ResetsSequence \/ UNCHANGED Grab!vars
  PROVE  GrabInv'
<1> USE DEF Height
<1>0. GrabShape /\ GrabStages  BY DEF GrabInv
<1>1. CASE Grab!ModeChanges
  <2>1. /\ UNCHANGED <<grab_kind, grab_at, grab_mirror, grab_gdi>>
        /\ grab_mode' \in Lines /\ grab_told'
        /\ grab_dx' = [grab_dx EXCEPT !.valid = FALSE]
        /\ GrabGrows
        /\ grab_at = "duplicate" \/ (grab_at = "grab" /\ grab_kind = "mirror") =>
             "between" \in grab_happened'
        /\ grab_mode' < CameraLines => "low" \in grab_happened'
    BY <1>1 DEF Grab!ModeChanges, GrabGrows, Grab!Notes, Grab!If
  <2>2. GrabShape'  BY <1>0, <2>1 DEF GrabShape
  <2>3. GrabStages'
    <3>1. ASSUME grab_dx = Grab!NoDx
          PROVE  grab_dx' = Grab!NoDx
      <4>1. grab_dx' = [[cy |-> 0, dup |-> 0, valid |-> FALSE, text |-> 0] EXCEPT !.valid = FALSE]
        BY <2>1, <3>1 DEF Grab!NoDx
      <4>2. QED  BY <4>1 DEF Grab!NoDx
    <3>2. /\ grab_dx'.cy = grab_dx.cy /\ grab_dx'.dup = grab_dx.dup
          /\ grab_dx'.text = grab_dx.text
      BY <1>0, <2>1 DEF GrabShape
    <3>3. QED  BY <1>0, <2>1, <3>1, <3>2 DEF GrabStages
  <2>4. GrabFresh => (Moved' \/ GrabFresh')  BY <1>0, <2>1 DEF GrabShape, GrabFresh, Moved
  <2>5. GrabHigh => ("low" \in grab_happened' \/ GrabHigh')  BY <1>0, <2>1 DEF GrabShape, GrabHigh
  <2>6. GrabSourced => GrabSourced'  BY <1>0, <2>1 DEF GrabShape, GrabSourced
  <2>7. QED  BY <2>1, <2>2, <2>3, <2>4, <2>5, <2>6, GrabKept
<1>2. CASE Grab!ResetsSequence \/ UNCHANGED Grab!vars
  <2>1. UNCHANGED <<grab_mode, grab_told, grab_kind, grab_at, grab_mirror, grab_dx, grab_gdi, grab_happened>>
    BY <1>2 DEF Grab!ResetsSequence, Grab!vars
  <2>2. GrabShape'  BY <1>0, <2>1 DEF GrabShape
  <2>3. GrabStages'  BY <1>0, <2>1 DEF GrabStages
  <2>4. GrabFresh => GrabFresh'  BY <2>1 DEF GrabFresh
  <2>5. GrabHigh => GrabHigh'  BY <2>1 DEF GrabHigh
  <2>6. GrabSourced => GrabSourced'  BY <2>1 DEF GrabSourced
  <2>7. QED  BY <2>1, <2>2, <2>3, <2>4, <2>5, <2>6, GrabKept DEF GrabGrows
<1>3. QED  BY <1>1, <1>2

\* Whatever way the screen is grabbed, and however often its mode changes: no frame is
\* larger than the buffer it is read from, unless the mode changed between two
\* questions about it or the driver did not follow; the camera's picture stays inside
\* the frame, unless the display was lower than it; and a loop with nothing to grab
\* from has failed to set it up again.
THEOREM GrabbedFits == Grab!Spec => []FramesFit
<1>0. Lines \subseteq Nat \ {0} /\ CameraLines \in Nat  BY PartsAssumption
<1>1. Grab!Init => GrabInv
  <2> SUFFICES ASSUME Grab!Init PROVE GrabInv
    OBVIOUS
  <2> USE DEF Height, Grab!Init
  <2>1. GrabShape  BY DEF GrabShape, Grab!NoDx
  <2>2. GrabStages  BY DEF GrabStages, Grab!NoDx
  <2>3. GrabFresh  BY DEF GrabFresh, Grab!NoDx
  <2>4. "low" \in grab_happened \/ GrabHigh  BY <1>0 DEF GrabHigh, Grab!NoDx, Grab!If
  <2>5. GrabSourced  BY DEF GrabSourced
  <2>6. Grab!FrameFits /\ Grab!OverlayInside  BY DEF Grab!FrameFits, Grab!OverlayInside, Grab!If
  <2>7. QED  BY <2>1, <2>2, <2>3, <2>4, <2>5, <2>6 DEF GrabInv
<1>2. GrabInv /\ [Grab!Next]_(Grab!vars) => GrabInv'
  BY <1>0, GrabInitKeeps, GrabLoopKeeps, GrabSendKeeps, GrabAroundKeeps
     DEF Grab!Next, Grab!LoopWorks, Grab!DxWorks
<1>3. GrabInv => Grab!FrameFits /\ Grab!OverlayInside /\ Grab!BlindNeedsFailure
  BY <1>0 DEF GrabInv, GrabShape, GrabStages, GrabSourced, Grab!BlindNeedsFailure, Grab!Source
<1>4. GrabInv => FramesFit  BY <1>3 DEF FramesFit, Grab!FramesFit
<1>5. QED  BY <1>1, <1>2, <1>4, PTL DEF Grab!Spec

-----------------------------------------------------------------------------
(* The capture library on X11. *)

\* The numbers of the frames, and what is acknowledged of them.
XNumbers ==
  /\ x_seq \in Nat /\ x_ack \in Nat /\ x_seq <= MaxSeq /\ x_ack <= MaxSeq
  /\ x_thread \in {"grab", "sent", "skipped"} => x_seq < MaxSeq
  /\ x_ack <= x_seq \/ (x_thread = "skipped" /\ x_ack <= x_seq + 1)

\* The sizes, and what excuses a frame that does not have its own.
XExcused == "not resized" \in x_happened

\* Where the thread has an image, if it can share one.
XRunning == {"waiting", "grab", "sent", "skipped"}

XSizes ==
  /\ x_thread \in XRunning /\ x_valid /\ ~XExcused => x_image = x_size
  /\ X!FrameFits

\* Below the width of a word, counting does not wrap.
LEMMA Unwrapped ==
  ASSUME NEW w \in Nat, NEW n \in Nat, n < w
  PROVE  n % w = n
OBVIOUS

\* The steps keep the numbers.
LEMMA XNumbersKept ==
  ASSUME MaxSeq \in Nat, Word \in Nat, MaxSeq < Word, XNumbers, X!Next \/ UNCHANGED X!vars
  PROVE  XNumbers'
<1>1. CASE UNCHANGED <<x_thread, x_seq, x_ack>>  BY <1>1 DEF XNumbers
<1>2. ASSUME NEW n \in 0 .. X!Sent - 1, X!set_ack_sequence(n)
      PROVE  XNumbers'
  <2>1. X!Sent = IF x_thread \in {"sent", "skipped"} THEN x_seq + 1 ELSE x_seq
    <3>1. CASE x_thread \in {"sent", "skipped"}
      <4>1. x_seq + 1 \in Nat /\ x_seq + 1 < Word  BY <3>1 DEF XNumbers
      <4>2. (x_seq + 1) % Word = x_seq + 1  BY <4>1, Unwrapped
      <4>3. QED  BY <3>1, <4>2 DEF X!Sent
    <3>2. QED  BY <3>1 DEF X!Sent
  <2>2. n \in Nat /\ n < X!Sent  BY <2>1 DEF XNumbers
  <2>3. x_ack' = n /\ UNCHANGED <<x_thread, x_seq>>  BY <1>2 DEF X!set_ack_sequence
  <2>4. QED  BY <2>1, <2>2, <2>3 DEF XNumbers
<1>3. CASE X!reset_sequence
  <2>1. x_ack' = x_seq /\ UNCHANGED <<x_thread, x_seq>>  BY <1>3 DEF X!reset_sequence
  <2>2. QED  BY <2>1 DEF XNumbers
<1>4. CASE X!XshmInit
  <2>1. x_thread = "init" /\ x_thread' \in {"over", "waiting"} /\ UNCHANGED <<x_seq, x_ack>>
    BY <1>4 DEF X!XshmInit
  <2>2. QED  BY <2>1 DEF XNumbers
<1>5. CASE X!WindowOpens
  <2>1. x_thread = "waiting" /\ x_thread' = "grab" /\ x_seq < MaxSeq /\ UNCHANGED <<x_seq, x_ack>>
    BY <1>5 DEF X!WindowOpens
  <2>2. QED  BY <2>1 DEF XNumbers
<1>6. CASE X!Grabs
  <2>1. /\ x_thread = "grab" /\ UNCHANGED x_ack
        /\ \/ x_thread' = "sent" /\ UNCHANGED x_seq
           \/ x_seq > 0 /\ x_thread' = "skipped" /\ x_seq' = (x_seq - 1) % Word
    BY <1>6 DEF X!Grabs
  <2>2. CASE x_thread' = "sent" /\ UNCHANGED x_seq  BY <2>1, <2>2 DEF XNumbers
  <2>3. CASE x_seq > 0 /\ x_thread' = "skipped" /\ x_seq' = (x_seq - 1) % Word
    <3>1. x_seq - 1 \in Nat /\ x_seq - 1 < Word  BY <2>3 DEF XNumbers
    <3>2. x_seq' = x_seq - 1  BY <2>3, <3>1, Unwrapped
    <3>3. QED  BY <2>1, <2>3, <3>1, <3>2 DEF XNumbers
  <2>4. QED  BY <2>1, <2>2, <2>3
<1>7. CASE X!Counts
  <2>1. /\ x_thread \in {"sent", "skipped"} /\ x_thread' = "waiting" /\ UNCHANGED x_ack
        /\ x_seq' = (x_seq + 1) % Word
    BY <1>7 DEF X!Counts
  <2>2. x_seq + 1 \in Nat /\ x_seq + 1 < Word  BY <2>1 DEF XNumbers
  <2>3. x_seq' = x_seq + 1  BY <2>1, <2>2, Unwrapped
  <2>4. QED  BY <2>1, <2>2, <2>3 DEF XNumbers
<1>8. CASE X!Creates \/ X!Ends
  <2>1. x_thread' \in {"init", "over"} /\ x_thread \in {"none", "waiting"} /\ UNCHANGED <<x_seq, x_ack>>
    BY <1>8 DEF X!Creates, X!Ends
  <2>2. QED  BY <2>1 DEF XNumbers
<1>9. CASE X!StartWorks \/ X!Stops \/ X!Resized \/ UNCHANGED X!vars
  BY <1>1, <1>9 DEF X!StartWorks, X!Waits, X!Returns, X!Stops, X!Resized, X!vars
<1>10. QED  BY <1>2, <1>3, <1>4, <1>5, <1>6, <1>7, <1>8, <1>9 DEF X!Next, X!ThreadWorks

\* The steps keep the sizes.
LEMMA XSizesKept ==
  ASSUME XSizes, X!Next \/ UNCHANGED X!vars
  PROVE  XSizes'
<1> USE DEF XSizes, XExcused, XRunning, X!FrameFits
<1>1. CASE X!Creates \/ X!StartWorks \/ X!Stops \/ X!reset_sequence \/ X!Counts \/ X!Ends \/ X!Resized
  <2>1. UNCHANGED <<x_valid, x_size, x_image, x_happened>>
    BY <1>1 DEF X!Creates, X!StartWorks, X!Waits, X!Returns, X!Stops, X!reset_sequence, X!Counts,
                X!Ends, X!Resized
  <2>2. UNCHANGED x_thread \/ x_thread' \notin XRunning \/ x_thread \in XRunning
    BY <1>1 DEF X!Creates, X!StartWorks, X!Waits, X!Returns, X!Stops, X!reset_sequence, X!Counts,
                X!Ends, X!Resized
  <2>3. QED  BY <2>1, <2>2
<1>2. ASSUME NEW n, X!set_ack_sequence(n)
      PROVE  XSizes'
  BY <1>2 DEF X!set_ack_sequence
<1>3. CASE X!XshmInit
  <2>1. /\ x_happened \subseteq x_happened'
        /\ x_thread' = "over" \/ (x_valid' => x_image' = x_size')
        /\ "misfit" \in x_happened' => "misfit" \in x_happened
    BY <1>3 DEF X!XshmInit, X!Notes
  <2>2. QED  BY <2>1
<1>4. CASE X!WindowOpens
  <2>1. /\ x_happened \subseteq x_happened' /\ x_thread = "waiting" /\ x_valid' = x_valid
        /\ "misfit" \in x_happened' => "misfit" \in x_happened
        /\ \/ x_valid' /\ "not resized" \notin x_happened' => x_image' = x_size'
           \/ UNCHANGED <<x_image, x_size>>
    BY <1>4 DEF X!WindowOpens, X!Notes
  <2>2. QED  BY <2>1
<1>5. CASE X!Grabs
  <2>1. /\ x_thread = "grab" /\ UNCHANGED <<x_valid, x_size>>
        /\ x_image' = IF x_valid THEN x_image ELSE x_size
        /\ x_happened' = x_happened \cup (IF x_image' = x_size THEN {} ELSE {"misfit"})
    BY <1>5 DEF X!Grabs, X!Notes
  <2>2. "not resized" \notin x_happened => x_image' = x_size  BY <2>1
  <2>3. QED  BY <2>1, <2>2
<1>6. CASE UNCHANGED X!vars  BY <1>6 DEF X!vars
<1>7. QED  BY <1>1, <1>2, <1>3, <1>4, <1>5, <1>6 DEF X!Next, X!ThreadWorks

\* A frame of the Linux loop has the size that it says, unless no image of a new size
\* could be made; and as long as the sequence numbers do not wrap, an acknowledgement
\* is never ahead of the frame that comes next, though the numbers are unsigned, a
\* skipped frame takes its own back and a reset sets the one to the other.
THEOREM XFramesSized == X!Spec => []XFramesFit
<1>0. MaxSeq \in Nat /\ Word \in Nat /\ MaxSeq < Word  BY PartsAssumption
<1>1. X!Init => XNumbers  BY <1>0 DEF X!Init, XNumbers
<1>2. X!Init => XSizes  BY DEF X!Init, XSizes, X!FrameFits
<1>3. XNumbers /\ [X!Next]_(X!vars) => XNumbers'  BY <1>0, XNumbersKept
<1>4. XSizes /\ [X!Next]_(X!vars) => XSizes'  BY XSizesKept
<1>5. XNumbers => X!NeverAhead
  <2> SUFFICES ASSUME XNumbers, x_thread = "waiting" PROVE X!Distance = x_seq - x_ack
    BY DEF X!NeverAhead
  <2>1. x_seq - x_ack \in Nat /\ x_seq - x_ack < Word  BY <1>0 DEF XNumbers
  <2>2. QED  BY <1>0, <2>1, Unwrapped DEF X!Distance
<1>6. XSizes => X!FrameFits  BY DEF XSizes
<1>7. XNumbers /\ XSizes => XFramesFit  BY <1>5, <1>6 DEF XFramesFit, X!XFramesFit
<1>8. QED  BY <1>1, <1>2, <1>3, <1>4, <1>7, PTL DEF X!Spec

-----------------------------------------------------------------------------
(* The camera library under a capture thread. *)

\* The lesser of two naturals is well-founded: there is a least one.
Less == {pair \in Nat \X Nat : pair[1] < pair[2]}

LEMMA LeastNatural ==
  ASSUME NEW S \in SUBSET Nat, S # {}
  PROVE  \E n \in S : \A k \in S : n <= k
<1>1. IsWellFoundedOn(Less, Nat)  BY NatLessThanWellFounded DEF OpToRel, Less
<1>2. PICK n \in S : \A k \in S : ~(<<k, n>> \in Less)  BY <1>1, WFMin
<1>3. \A k \in S : n <= k
  <2> TAKE k \in S
  <2>1. k \in Nat /\ n \in Nat  OBVIOUS
  <2>2. ~(k < n)  BY <1>2, <2>1 DEF Less
  <2>3. QED  BY <2>1, <2>2
<1>4. QED  BY <1>3

\* The mode that fits best is a mode in question, if there is one.
LEMMA ScanFinds ==
  ASSUME Modes \in Nat \ {0}, cam_misfit \in [Cam!Mode -> 0 .. 1], NEW B
  PROVE  /\ Cam!scanMediaTypes(B) \in Cam!Mode
         /\ (\E m \in Cam!Mode : Cam!isMediaOk(m, B)) => Cam!isMediaOk(Cam!scanMediaTypes(B), B)
<1> DEFINE ok == {m \in Cam!Mode : Cam!isMediaOk(m, B)}
           best == {m \in ok : \A k \in ok : cam_misfit[m] <= cam_misfit[k]}
<1>1. CASE ok = {}
  <2>1. Cam!scanMediaTypes(B) = 1  BY <1>1 DEF Cam!scanMediaTypes
  <2>2. 1 \in Cam!Mode  BY DEF Cam!Mode
  <2>3. QED  BY <1>1, <2>1, <2>2
<1>2. CASE ok # {}
  <2>1. best # {}
    <3>1. \A m \in ok : cam_misfit[m] \in 0 .. 1  OBVIOUS
    <3>2. CASE \E m \in ok : cam_misfit[m] = 0
      <4>1. PICK m \in ok : cam_misfit[m] = 0  BY <3>2
      <4>2. m \in best  BY <3>1, <4>1
      <4>3. QED  BY <4>2
    <3>3. CASE \A m \in ok : cam_misfit[m] = 1
      <4>1. PICK m \in ok : TRUE  BY <1>2
      <4>2. m \in best  BY <3>3, <4>1
      <4>3. QED  BY <4>2
    <3>4. QED  BY <3>1, <3>2, <3>3
  <2>2. best \subseteq Nat /\ best \subseteq ok  BY DEF Cam!Mode
  <2>3. PICK n \in best : \A k \in best : n <= k  BY <2>1, <2>2, LeastNatural
  <2>4. Cam!Min(best) \in best  BY <2>3 DEF Cam!Min
  <2>5. Cam!scanMediaTypes(B) = Cam!Min(best)  BY <1>2 DEF Cam!scanMediaTypes
  <2>6. QED  BY <2>2, <2>4, <2>5
<1>3. QED  BY <1>1, <1>2

CamShape ==
  /\ cam_misfit \in [Cam!Mode -> 0 .. 1] /\ cam_good \subseteq Cam!Mode
  /\ cam_used \in Cam!Mode /\ cam_request \in Cam!Mode \cup {0}

\* Whose turn it is with the picture.
CamTurns ==
  /\ cam_at = "off" => cam_request = 0 /\ cam_callback = "none" /\ ~cam_dev
  /\ cam_doCapture \in {-1, 0, 1}
  /\ cam_at = "reading" => cam_doCapture # -1
  /\ cam_callback = "copying" => cam_doCapture = -1

\* What is not up when an error is, or when the device is to be set up again.
CamErrors ==
  /\ cam_callback # "none" => ~cam_error
  /\ cam_callback \in Cam!InLock => ~cam_redo /\ cam_request = 0
  /\ cam_error => ~cam_redo /\ cam_request = 0
  /\ cam_redo => cam_request = 0

Okay == \E m \in Cam!Mode : Cam!isMediaOk(m, cam_bad)
Raced == "raced" \in cam_happened

\* The mode that samples are requested of is the one in use, and did not fail.
CamAvoids ==
  /\ cam_request # 0 => cam_request = cam_used
  /\ cam_callback = "failing" => cam_request = 0
  /\ Okay /\ (cam_request # 0 \/ cam_callback \in Cam!InLock) => cam_used \notin cam_bad

CamInv == CamShape /\ CamTurns /\ CamErrors /\ Cam!NoDeadReader /\ (Raced \/ CamAvoids)

\* What setting up the device answers with.
LEMMA OpensEffect ==
  ASSUME Modes \in Nat \ {0}, CamShape, NEW B, Cam!Opens(B)
  PROVE  /\ cam_used' \in Cam!Mode /\ cam_request' \in {0, cam_used'}
         /\ ~cam_dev' => cam_request' = 0
         /\ (\E m \in Cam!Mode : Cam!isMediaOk(m, B)) => cam_used' \notin B
<1>1. cam_used' = Cam!scanMediaTypes(B) /\ cam_request' \in {0, cam_used'}
      /\ (~cam_dev' => cam_request' = 0)
  BY DEF Cam!Opens
<1>2. cam_misfit \in [Cam!Mode -> 0 .. 1]  BY DEF CamShape
<1>3. Cam!scanMediaTypes(B) \in Cam!Mode
      /\ ((\E m \in Cam!Mode : Cam!isMediaOk(m, B)) => Cam!scanMediaTypes(B) \notin B)
  BY <1>2, ScanFinds DEF Cam!isMediaOk
<1>4. QED  BY <1>1, <1>3

\* What the look for a failed mode does, when no error is noted with it.
LEMMA CheckEffect ==
  ASSUME Modes \in Nat \ {0}, CamInv, Cam!CheckForFail
  PROVE  /\ cam_redo' => cam_redo
         /\ cam_happened \subseteq cam_happened'
         /\ Cam!NoDeadReader'
         /\ \/ UNCHANGED <<cam_dev, cam_used, cam_request, cam_happened>>
            \/ /\ cam_callback \notin Cam!InLock /\ ~cam_error /\ ~cam_redo' /\ cam_dev
               /\ cam_callback = "none" \/ Raced'
               /\ cam_used' \in Cam!Mode /\ cam_request' \in {0, cam_used'}
               /\ Okay => cam_used' \notin cam_bad
<1>1. CASE ~cam_dev \/ ~cam_redo
  <2>1. UNCHANGED <<cam_dev, cam_used, cam_request, cam_happened>> /\ (cam_redo' => cam_redo)
    BY <1>1 DEF Cam!CheckForFail
  <2>2. QED  BY <2>1 DEF CamInv, Cam!NoDeadReader
<1>2. CASE cam_dev /\ cam_redo
  <2>1. ~cam_error  BY <1>2 DEF CamInv, CamErrors
  <2>2. /\ ~cam_redo' /\ Cam!Closable /\ Cam!Opens(cam_bad)
        /\ cam_happened' = IF cam_callback = "none" THEN cam_happened
                           ELSE cam_happened \cup {"raced"}
    BY <1>2, <2>1 DEF Cam!CheckForFail
  <2>3. Cam!NoDeadReader'  BY <2>2 DEF CamInv, Cam!NoDeadReader
  <2>4. cam_happened \subseteq cam_happened' /\ (cam_callback = "none" \/ Raced')
    BY <2>2 DEF Raced
  <2>5. /\ cam_used' \in Cam!Mode /\ cam_request' \in {0, cam_used'}
        /\ Okay => cam_used' \notin cam_bad
    BY <2>2, OpensEffect DEF CamInv, Okay
  <2>6. QED  BY <1>2, <2>1, <2>2, <2>3, <2>4, <2>5 DEF Cam!Closable
<1>3. QED  BY <1>1, <1>2

\* A step that looks for a failed mode and leaves the callback alone.
LEMMA ChecksKeep ==
  ASSUME Modes \in Nat \ {0}, CamInv, Cam!CheckForFail, CamTurns', cam_at # "off",
         UNCHANGED <<cam_good, cam_misfit, cam_format, cam_bad, cam_error, cam_callback>>
  PROVE  CamInv'
<1>1. Okay' = Okay /\ Cam!Mode' = Cam!Mode /\ Cam!InLock' = Cam!InLock
  BY DEF Okay, Cam!isMediaOk, Cam!isFormatSupported, Cam!Mode, Cam!InLock
<1>2. Raced => Raced'  BY CheckEffect DEF Raced
<1>3. Cam!NoDeadReader'  BY CheckEffect
<1>4. CASE UNCHANGED <<cam_dev, cam_used, cam_request, cam_happened>> /\ (cam_redo' => cam_redo)
  <2>1. CamShape'  BY <1>4 DEF CamInv, CamShape, Cam!Mode
  <2>2. CamErrors'  BY <1>1, <1>4 DEF CamInv, CamErrors
  <2>3. CamAvoids => CamAvoids'  BY <1>1, <1>4 DEF CamAvoids
  <2>4. QED  BY <1>2, <1>3, <2>1, <2>2, <2>3 DEF CamInv
<1>5. CASE /\ cam_callback \notin Cam!InLock /\ ~cam_error /\ ~cam_redo'
           /\ cam_callback = "none" \/ Raced'
           /\ cam_used' \in Cam!Mode /\ cam_request' \in {0, cam_used'}
           /\ Okay => cam_used' \notin cam_bad
  <2>1. CamShape'  BY <1>5 DEF CamInv, CamShape, Cam!Mode
  <2>2. CamErrors'  BY <1>1, <1>5 DEF CamInv, CamErrors
  <2>3. Raced' \/ CamAvoids'  BY <1>1, <1>5 DEF CamAvoids, Cam!InLock
  <2>4. QED  BY <1>3, <2>1, <2>2, <2>3 DEF CamInv
<1>6. QED  BY <1>4, <1>5, CheckEffect

\* The capture thread.
LEMMA CamThreadKeeps ==
  ASSUME Modes \in Nat \ {0}, CamInv,
         Cam!InitCapture \/ Cam!CaptureWorks \/ Cam!DeinitCapture
  PROVE  CamInv'
<1>0. CamShape /\ CamTurns /\ CamErrors /\ Cam!NoDeadReader  BY DEF CamInv
<1>1. CASE Cam!InitCapture
  <2>1. /\ cam_callback = "none" /\ Cam!Opens({})
        /\ UNCHANGED <<cam_good, cam_misfit, cam_callback, cam_happened>>
        /\ cam_doCapture' = 0 /\ ~cam_redo' /\ ~cam_error' /\ cam_bad' = {}
        /\ cam_at' = IF cam_dev' THEN "asking" ELSE "off"
    BY <1>1 DEF Cam!InitCapture, Cam!camera
  <2>2. /\ cam_used' \in Cam!Mode /\ cam_request' \in {0, cam_used'}
        /\ ~cam_dev' => cam_request' = 0
    BY <1>0, <2>1, OpensEffect
  <2>3. CamShape'  BY <1>0, <2>1, <2>2 DEF CamShape, Cam!Mode
  <2>4. CamTurns'  BY <2>1, <2>2 DEF CamTurns
  <2>5. CamErrors'  BY <2>1 DEF CamErrors, Cam!InLock
  <2>6. CamAvoids'  BY <2>1, <2>2 DEF CamAvoids
  <2>7. Cam!NoDeadReader'  BY <1>0, <2>1 DEF Cam!NoDeadReader
  <2>8. QED  BY <2>3, <2>4, <2>5, <2>6, <2>7 DEF CamInv
<1>2. CASE Cam!Asks
  <2>1. /\ cam_at = "asking" /\ cam_at' = "polling" /\ cam_doCapture' = -1 /\ Cam!CheckForFail
        /\ UNCHANGED <<cam_good, cam_misfit, cam_format, cam_bad, cam_error, cam_callback>>
    BY <1>2 DEF Cam!Asks, Cam!camera
  <2>2. CamTurns'  BY <1>0, <2>1 DEF CamTurns
  <2>3. QED  BY <2>1, <2>2, ChecksKeep
<1>3. CASE Cam!Polls
  <2>1. /\ cam_at = "polling" /\ cam_at' = "testing" /\ cam_doCapture' = cam_doCapture
        /\ Cam!CheckForFail
        /\ UNCHANGED <<cam_good, cam_misfit, cam_format, cam_bad, cam_error, cam_callback>>
    BY <1>3 DEF Cam!Polls, Cam!camera
  <2>2. CamTurns'  BY <1>0, <2>1 DEF CamTurns
  <2>3. QED  BY <2>1, <2>2, ChecksKeep
<1>4. CASE Cam!Tests \/ Cam!Reads
  <2>1. /\ cam_at' \in {"polling", "asking", "reading"}
        /\ cam_at' = "reading" => cam_doCapture = 1
        /\ UNCHANGED <<cam_good, cam_misfit, cam_format, cam_dev, cam_used, cam_bad, cam_redo,
                       cam_error, cam_request, cam_doCapture, cam_callback, cam_happened>>
    BY <1>4 DEF Cam!Tests, Cam!Reads, Cam!camera
  <2>2. CamTurns'  BY <1>0, <2>1 DEF CamTurns
  <2>3. CamShape'  BY <1>0, <2>1 DEF CamShape, Cam!Mode
  <2>4. CamErrors'  BY <1>0, <2>1 DEF CamErrors, Cam!InLock
  <2>5. CamAvoids => CamAvoids'
    BY <2>1 DEF CamAvoids, Okay, Cam!isMediaOk, Cam!isFormatSupported, Cam!Mode, Cam!InLock
  <2>6. (Raced => Raced') /\ Cam!NoDeadReader'  BY <1>0, <2>1 DEF Raced, Cam!NoDeadReader
  <2>7. QED  BY <2>2, <2>3, <2>4, <2>5, <2>6 DEF CamInv
<1>5. CASE Cam!DeinitCapture
  <2>1. /\ cam_at' = "off" /\ ~cam_dev' /\ cam_request' = 0 /\ cam_callback' = "none"
        /\ UNCHANGED <<cam_good, cam_misfit, cam_used, cam_bad, cam_redo, cam_error,
                       cam_doCapture, cam_happened>>
    BY <1>5 DEF Cam!DeinitCapture, Cam!camera
  <2>2. CamTurns'  BY <1>0, <2>1 DEF CamTurns
  <2>3. CamShape'  BY <1>0, <2>1 DEF CamShape, Cam!Mode
  <2>4. CamErrors'  BY <1>0, <2>1 DEF CamErrors, Cam!InLock
  <2>5. CamAvoids'  BY <2>1 DEF CamAvoids, Cam!InLock
  <2>6. Cam!NoDeadReader'  BY <1>0, <2>1 DEF Cam!NoDeadReader
  <2>7. QED  BY <2>2, <2>3, <2>4, <2>5, <2>6 DEF CamInv
<1>6. QED  BY <1>1, <1>2, <1>3, <1>4, <1>5 DEF Cam!CaptureWorks

\* What the callback keeps for itself: it never touches what is being opened.
CamSame == UNCHANGED <<cam_misfit, cam_format, cam_dev, cam_used, cam_at, cam_happened>>

\* The callback, and a mode that stops to work.
LEMMA CamCallbackKeeps ==
  ASSUME Modes \in Nat \ {0}, CamInv,
         Cam!CallbackWorks \/ Cam!ModeBreaks \/ UNCHANGED Cam!vars
  PROVE  CamInv'
<1>0. CamShape /\ CamTurns /\ CamErrors /\ Cam!NoDeadReader  BY DEF CamInv
<1>1. SUFFICES ASSUME CamSame, CamShape', CamTurns', CamErrors', CamAvoids => CamAvoids'
               PROVE  CamInv'
  <2>1. CASE Cam!SampleFails
    <3>1. /\ cam_callback = "none" /\ cam_request # 0 /\ cam_request' = 0
          /\ cam_callback' = "failing" /\ cam_redo' /\ CamSame
          /\ UNCHANGED <<cam_good, cam_bad, cam_error, cam_doCapture>>
      BY <2>1 DEF Cam!SampleFails, Cam!camera, CamSame
    <3>2. CamShape'  BY <1>0, <3>1 DEF CamShape, Cam!Mode, CamSame
    <3>3. CamTurns'  BY <1>0, <3>1 DEF CamTurns, CamSame
    <3>4. CamErrors'  BY <1>0, <3>1 DEF CamErrors, Cam!InLock, CamSame
    <3>5. CamAvoids'  BY <3>1 DEF CamAvoids, Cam!InLock
    <3>6. QED  BY <1>1, <3>1, <3>2, <3>3, <3>4, <3>5
  <2>2. CASE Cam!NotesBad
    <3>1. /\ cam_callback = "failing" /\ cam_callback' = "none" /\ CamSame
          /\ UNCHANGED <<cam_good, cam_redo, cam_error, cam_request, cam_doCapture>>
      BY <2>2 DEF Cam!NotesBad, Cam!camera, CamSame
    <3>2. CamShape'  BY <1>0, <3>1 DEF CamShape, Cam!Mode, CamSame
    <3>3. CamTurns'  BY <1>0, <3>1 DEF CamTurns, CamSame
    <3>4. CamErrors'  BY <1>0, <3>1 DEF CamErrors, Cam!InLock, CamSame
    <3>5. CamAvoids => CamAvoids'  BY <3>1 DEF CamAvoids, Cam!InLock
    <3>6. QED  BY <1>1, <3>1, <3>2, <3>3, <3>4, <3>5
  <2>3. CASE Cam!SampleArrives
    <3>1. /\ cam_callback = "none" /\ cam_request # 0 /\ cam_request' = 0
          /\ cam_callback' = IF cam_doCapture = -1 THEN "copying" ELSE "requesting"
          /\ UNCHANGED <<cam_good, cam_bad, cam_redo, cam_error, cam_doCapture>> /\ CamSame
      <4>1. 0 \notin cam_good  BY <1>0 DEF CamShape, Cam!Mode
      <4>2. QED  BY <2>3, <4>1 DEF Cam!SampleArrives, Cam!camera, CamSame
    <3>2. CamShape'  BY <1>0, <3>1 DEF CamShape, Cam!Mode, CamSame
    <3>3. CamTurns'  BY <1>0, <3>1 DEF CamTurns, CamSame
    <3>4. CamErrors'  BY <1>0, <3>1 DEF CamErrors, Cam!InLock, CamSame
    <3>5. CamAvoids => CamAvoids'
      BY <3>1 DEF CamAvoids, CamSame, Okay, Cam!isMediaOk, Cam!isFormatSupported, Cam!Mode
    <3>6. QED  BY <1>1, <3>1, <3>2, <3>3, <3>4, <3>5
  <2>4. CASE Cam!CopyFails
    <3>1. /\ cam_callback = "copying" /\ cam_callback' = "none" /\ cam_error' /\ CamSame
          /\ UNCHANGED <<cam_good, cam_bad, cam_redo, cam_request, cam_doCapture>>
      BY <2>4 DEF Cam!CopyFails, Cam!camera, CamSame
    <3>2. CamShape'  BY <1>0, <3>1 DEF CamShape, Cam!Mode, CamSame
    <3>3. CamTurns'  BY <1>0, <3>1 DEF CamTurns, CamSame
    <3>4. CamErrors'  BY <1>0, <3>1 DEF CamErrors, Cam!InLock, CamSame
    <3>5. CamAvoids'  BY <1>0, <3>1 DEF CamErrors, CamAvoids, Cam!InLock
    <3>6. QED  BY <1>1, <3>1, <3>2, <3>3, <3>4, <3>5
  <2>5. CASE Cam!Copies
    <3>1. /\ cam_callback = "copying" /\ cam_callback' = "requesting" /\ cam_doCapture' = 1
          /\ UNCHANGED <<cam_good, cam_bad, cam_redo, cam_error, cam_request>> /\ CamSame
      BY <2>5 DEF Cam!Copies, Cam!camera, CamSame
    <3>2. CamShape'  BY <1>0, <3>1 DEF CamShape, Cam!Mode, CamSame
    <3>3. CamTurns'  BY <1>0, <3>1 DEF CamTurns, CamSame
    <3>4. CamErrors'  BY <1>0, <3>1 DEF CamErrors, Cam!InLock, CamSame
    <3>5. CamAvoids => CamAvoids'
      BY <3>1 DEF CamAvoids, CamSame, Cam!InLock, Okay, Cam!isMediaOk, Cam!isFormatSupported, Cam!Mode
    <3>6. QED  BY <1>1, <3>1, <3>2, <3>3, <3>4, <3>5
  <2>6. CASE Cam!RequestsNext
    <3>1. /\ cam_callback = "requesting" /\ cam_callback' = "none"
          /\ \/ cam_request' = cam_used /\ UNCHANGED cam_error
             \/ cam_request' = 0 /\ cam_error'
          /\ UNCHANGED <<cam_good, cam_bad, cam_redo, cam_doCapture>> /\ CamSame
      BY <2>6 DEF Cam!RequestsNext, Cam!camera, CamSame
    <3>2. CamShape'  BY <1>0, <3>1 DEF CamShape, Cam!Mode, CamSame
    <3>3. CamTurns'  BY <1>0, <3>1 DEF CamTurns, CamSame
    <3>4. CamErrors'  BY <1>0, <3>1 DEF CamErrors, Cam!InLock, CamSame
    <3>5. CamAvoids => CamAvoids'
      BY <3>1 DEF CamAvoids, CamSame, Cam!InLock, Okay, Cam!isMediaOk, Cam!isFormatSupported, Cam!Mode
    <3>6. QED  BY <1>1, <3>1, <3>2, <3>3, <3>4, <3>5
  <2>7. CASE Cam!ModeBreaks \/ UNCHANGED Cam!vars
    <3>1. /\ cam_good' \subseteq cam_good /\ CamSame
          /\ UNCHANGED <<cam_bad, cam_redo, cam_error, cam_request, cam_doCapture, cam_callback>>
      BY <2>7 DEF Cam!ModeBreaks, Cam!vars, CamSame
    <3>2. CamShape'  BY <1>0, <3>1 DEF CamShape, Cam!Mode, CamSame
    <3>3. CamTurns'  BY <1>0, <3>1 DEF CamTurns, CamSame
    <3>4. CamErrors'  BY <1>0, <3>1 DEF CamErrors, Cam!InLock, CamSame
    <3>5. CamAvoids => CamAvoids'
      BY <3>1 DEF CamAvoids, CamSame, Cam!InLock, Okay, Cam!isMediaOk, Cam!isFormatSupported, Cam!Mode
    <3>6. QED  BY <1>1, <3>1, <3>2, <3>3, <3>4, <3>5
  <2>8. QED  BY <2>1, <2>2, <2>3, <2>4, <2>5, <2>6, <2>7 DEF Cam!CallbackWorks
<1>2. (Raced => Raced') /\ Cam!NoDeadReader'  BY <1>0, <1>1 DEF CamSame, Raced, Cam!NoDeadReader
<1>3. QED  BY <1>1, <1>2 DEF CamInv

\* The callback never writes the picture that the capture thread reads, the device is
\* never set up again on a reader with an error, and a mode that failed is not tried
\* again as long as there is another, unless the capture thread was first to set up
\* the device: for every number of modes, and whatever works of them, fits or fails.
THEOREM CameraSharedSafely == Cam!Spec => []CameraShared
<1>0. Modes \in Nat \ {0}  BY PartsAssumption
<1>1. Cam!Init => CamInv
  <2> SUFFICES ASSUME Cam!Init PROVE CamInv
    OBVIOUS
  <2>1. CamShape  BY <1>0 DEF Cam!Init, CamShape, Cam!Mode
  <2>2. CamTurns  BY DEF Cam!Init, CamTurns
  <2>3. CamErrors  BY DEF Cam!Init, CamErrors, Cam!InLock
  <2>4. CamAvoids  BY DEF Cam!Init, CamAvoids, Cam!InLock
  <2>5. Cam!NoDeadReader  BY DEF Cam!Init, Cam!NoDeadReader
  <2>6. QED  BY <2>1, <2>2, <2>3, <2>4, <2>5 DEF CamInv
<1>2. CamInv /\ [Cam!Next]_(Cam!vars) => CamInv'
  BY <1>0, CamThreadKeeps, CamCallbackKeeps DEF Cam!Next
<1>3. CamInv => Cam!TargetOwned /\ Cam!NoDeadReader /\ Cam!BadAvoided
  <2> SUFFICES ASSUME CamInv PROVE Cam!TargetOwned /\ Cam!NoDeadReader /\ Cam!BadAvoided
    OBVIOUS
  <2>1. Cam!TargetOwned  BY DEF CamInv, CamTurns, Cam!TargetOwned
  <2>2. Cam!NoDeadReader  BY DEF CamInv
  <2>3. Cam!BadAvoided  BY DEF CamInv, CamAvoids, Okay, Raced, Cam!BadAvoided
  <2>4. QED  BY <2>1, <2>2, <2>3
<1>4. CamInv => CameraShared  BY <1>3 DEF CameraShared, Cam!CameraShared
<1>5. QED  BY <1>1, <1>2, <1>4, PTL DEF Cam!Spec

-----------------------------------------------------------------------------
(* The arithmetic on pictures. *)

PxInv ==
  \/ px_screen = Px!None /\ px_other = Px!None /\ px_changed = {}
  \/ px_screen \in Px!Picture /\ px_other \in Px!Picture /\ px_changed \subseteq Px!Within(px_screen)

\* Rounding down to a multiple.
LEMMA Rounded ==
  ASSUME NEW n \in Nat, NEW d \in Nat \ {0}
  PROVE  /\ n - (n % d) \in Nat /\ n - (n % d) <= n /\ n < n - (n % d) + d
         /\ (n - (n % d)) % d = 0
<1>1. n = d * (n \div d) + (n % d) /\ n % d \in 0 .. d - 1 /\ n \div d \in Nat  OBVIOUS
<1>2. ((n \div d) * d) % d = 0  BY <1>1
<1>3. n - (n % d) = (n \div d) * d /\ (n \div d) * d \in Nat  BY <1>1
<1>4. QED  BY <1>1, <1>2, <1>3

\* A place in a row, and a row in a picture, are inside the picture.
LEMMA Inside ==
  ASSUME NEW y \in Nat, NEW x \in Nat, NEW w \in Nat, NEW h \in Nat, y < h, x < w
  PROVE  y * w + x \in Nat /\ y * w + x < w * h /\ w * h \in Nat
OBVIOUS

\* A scaled index is less than what it is scaled to.
LEMMA ScaledIndex ==
  ASSUME NEW i \in Nat, NEW n \in Nat \ {0}, NEW m \in Nat \ {0}, i < n
  PROVE  (i * m) \div n \in Nat /\ (i * m) \div n < m
OBVIOUS

\* Every changed pixel is in a tile that is seen to have changed: each row of a tile
\* has its turn.
LEMMA ChangesAreFound ==
  ASSUME Side \in Nat, Tile \in Nat \ {0}, px_screen \in Px!Picture,
         px_changed \subseteq Px!Within(px_screen)
  PROVE  Px!ChangesFound
<1> DEFINE w == px_screen.w
           h == px_screen.h
<1>1. w \in Nat \ {0} /\ h \in Nat \ {0} /\ w <= Side /\ h <= Side  BY DEF Px!Picture
<1> HIDE DEF w, h
<1>2. \A tile \in Px!Tiles :
        \E l \in 0 .. w - 1, t \in 0 .. h - 1 :
          /\ l % Tile = 0 /\ t % Tile = 0
          /\ tile = [l |-> l, t |-> t, r |-> Px!Least(l + Tile, w), b |-> Px!Least(t + Tile, h)]
  BY DEF Px!Tiles, w, h
<1>3. Px!Region \subseteq Px!Within(px_screen)
  <2> SUFFICES ASSUME NEW tile \in Px!Tiles
               PROVE  ((tile.l) .. (tile.r - 1)) \X ((tile.t) .. (tile.b - 1)) \subseteq Px!Within(px_screen)
    BY DEF Px!Region
  <2>1. PICK l \in 0 .. w - 1, t \in 0 .. h - 1 :
          tile = [l |-> l, t |-> t, r |-> Px!Least(l + Tile, w), b |-> Px!Least(t + Tile, h)]
    BY <1>2
  <2>2. tile.l = l /\ tile.t = t /\ tile.r = Px!Least(l + Tile, w) /\ tile.b = Px!Least(t + Tile, h)
    BY <2>1
  <2>3. l .. (Px!Least(l + Tile, w) - 1) \subseteq 0 .. w - 1  BY <1>1 DEF Px!Least
  <2>4. t .. (Px!Least(t + Tile, h) - 1) \subseteq 0 .. h - 1  BY <1>1 DEF Px!Least
  <2>5. QED  BY <2>2, <2>3, <2>4 DEF Px!Within, w, h
<1>4. px_changed \subseteq Px!Region
  <2> SUFFICES ASSUME NEW p \in px_changed PROVE p \in Px!Region
    OBVIOUS
  <2>1. PICK x \in 0 .. w - 1, y \in 0 .. h - 1 : p = <<x, y>>  BY DEF Px!Within, w, h
  <2> DEFINE l == x - (x % Tile)
             t == y - (y % Tile)
             tile == [l |-> l, t |-> t, r |-> Px!Least(l + Tile, w), b |-> Px!Least(t + Tile, h)]
  <2>2. l \in Nat /\ l <= x /\ x < l + Tile /\ l % Tile = 0  BY <1>1, Rounded
  <2>3. t \in Nat /\ t <= y /\ y < t + Tile /\ t % Tile = 0  BY <1>1, Rounded
  <2>4. tile.l = l /\ tile.t = t /\ tile.r = Px!Least(l + Tile, w) /\ tile.b = Px!Least(t + Tile, h)
    OBVIOUS
  <2> HIDE DEF l, t
  <2>5. l \in 0 .. w - 1 /\ t \in 0 .. h - 1  BY <1>1, <2>2, <2>3
  <2>6. tile \in Px!Tiles  BY <2>2, <2>3, <2>5 DEF Px!Tiles, w, h
  <2> HIDE DEF tile
  <2>7. x \in tile.l .. (tile.r - 1)  BY <1>1, <2>2, <2>4 DEF Px!Least
  <2>8. y \in tile.t .. (tile.b - 1)  BY <1>1, <2>3, <2>4 DEF Px!Least
  <2>9. y \in Px!Rows(tile)
    <3>1. PICK turn \in 0 .. 4, k \in 0 .. Side : y = t + turn + 5 * k
      <4>1. y - t \in Nat /\ y - t <= Side  BY <1>1, <2>3
      <4>2. PICK n \in Nat : n = y - t  BY <4>1
      <4>3. n % 5 \in 0 .. 4 /\ n \div 5 \in 0 .. Side /\ n = (n % 5) + 5 * (n \div 5)
        BY <4>1, <4>2
      <4>4. y = t + (n % 5) + 5 * (n \div 5)  BY <2>3, <4>2, <4>3
      <4>5. QED  BY <4>3, <4>4
    <3>2. y = tile.t + turn + 5 * k  BY <2>4, <3>1
    <3>3. QED  BY <2>8, <3>2 DEF Px!Rows
  <2>10. Px!Dirty(tile)  BY <2>1, <2>7, <2>9 DEF Px!Dirty
  <2>11. <<x, y>> \in (tile.l .. (tile.r - 1)) \X (tile.t .. (tile.b - 1))  BY <2>7, <2>8
  <2>12. QED  BY <2>1, <2>6, <2>10, <2>11 DEF Px!Region
<1>5. px_changed = {} => Px!Region = {}  BY DEF Px!Region, Px!Dirty
<1>6. QED  BY <1>3, <1>4, <1>5 DEF Px!ChangesFound

\* A picture of even width and height has its planes where both sides expect them.
LEMMA PlanesAreInside ==
  ASSUME px_screen \in Px!Picture, Side \in Nat
  PROVE  Px!PlanesInside
<1> DEFINE w == px_screen.w
           h == px_screen.h
<1>1. w \in Nat /\ h \in Nat  BY DEF Px!Picture
<1> HIDE DEF w, h
<1> SUFFICES ASSUME w % 2 = 0, h % 2 = 0
             PROVE  /\ Px!PlaneV(px_screen) = Px!PlaneVEncoded(px_screen)
                    /\ \A a \in Px!WritesV(px_screen) : a < Px!PlaneSize(px_screen)
  BY DEF Px!PlanesInside, Px!Even, w, h
<1>2. PICK a \in Nat : w = 2 * a  BY <1>1
<1>3. PICK b \in Nat : h = 2 * b  BY <1>1
<1>4. /\ w \div 2 = a /\ h \div 2 = b /\ (w + 1) \div 2 = a /\ (h + 1) \div 2 = b
      /\ w * h = 4 * (a * b) /\ a * b \in Nat
  BY <1>2, <1>3
<1>5. Px!PlaneV(px_screen) = 4 * (a * b) + b * a  BY <1>4 DEF Px!PlaneV, w, h
<1>6. Px!PlaneVEncoded(px_screen) = 4 * (a * b) + a * b  BY <1>4 DEF Px!PlaneVEncoded, w, h
<1>7. Px!PlaneSize(px_screen) = 6 * (a * b)  BY <1>4 DEF Px!PlaneSize, w, h
<1>8. \A v \in Px!WritesV(px_screen) : v < Px!PlaneSize(px_screen)
  <2> SUFFICES ASSUME NEW x \in 0 .. a - 1, NEW y \in 0 .. b - 1
               PROVE  Px!PlaneV(px_screen) + y * a + x < Px!PlaneSize(px_screen)
    BY <1>4 DEF Px!WritesV, w, h
  <2>1. y * a + x < a * b /\ y * a \in Nat  BY Inside
  <2>2. QED  BY <1>4, <1>5, <1>7, <2>1
<1>9. QED  BY <1>4, <1>5, <1>6, <1>8

\* A camera no larger than the screen is in its lower left corner.
LEMMA CameraIsInPlace ==
  ASSUME px_screen \in Px!Picture, px_other \in Px!Picture, Side \in Nat
  PROVE  Px!CameraInPlace
<1> DEFINE w == px_screen.w
           h == px_screen.h
           cw == px_other.w
           ch == px_other.h
<1>1. w \in Nat \ {0} /\ h \in Nat \ {0} /\ cw \in Nat \ {0} /\ ch \in Nat \ {0}  BY DEF Px!Picture
<1> HIDE DEF w, h, cw, ch
<1> SUFFICES ASSUME cw <= w, ch <= h
             PROVE  /\ Px!Overlay \subseteq 0 .. w * h - 1
                    /\ \A k \in 0 .. ch - 1 : Px!Target(k, 0) % w = 0 /\ Px!SourceStart(k) = k * cw
  BY DEF Px!CameraInPlace, w, h, cw, ch
<1>2. Px!Copied = cw  BY <1>1 DEF Px!Copied, Px!Least, w, cw
<1>3. Px!Overlay \subseteq 0 .. w * h - 1
  <2> SUFFICES ASSUME NEW k \in 0 .. ch - 1, NEW c \in 0 .. cw - 1
               PROVE  (h - ch + k) * w + c \in 0 .. w * h - 1
    BY <1>2 DEF Px!Overlay, Px!Target, w, h, ch
  <2>1. PICK row \in Nat : row = h - ch + k /\ row < h  BY <1>1
  <2>2. row * w + c \in Nat /\ row * w + c < w * h /\ w * h \in Nat  BY <1>1, <2>1, Inside
  <2>3. QED  BY <2>1, <2>2
<1>4. ASSUME NEW k \in 0 .. ch - 1
      PROVE  Px!Target(k, 0) % w = 0 /\ Px!SourceStart(k) = k * cw
  <2>1. PICK row \in Nat : row = h - ch + k  BY <1>1
  <2>2. (row * w) % w = 0 /\ row * w + 0 = row * w  BY <1>1
  <2>3. Px!Target(k, 0) = row * w + 0  BY <2>1 DEF Px!Target, w, h, ch
  <2>4. QED  BY <1>2, <2>2, <2>3 DEF Px!SourceStart
<1>5. QED  BY <1>3, <1>4

\* A sample is read and written inside.
LEMMA SampleIsInside ==
  ASSUME px_screen \in Px!Picture, px_other \in Px!Picture, Side \in Nat
  PROVE  Px!SampleInside
<1> DEFINE w == px_screen.w
           h == px_screen.h
           cw == px_other.w
           ch == px_other.h
<1>1. w \in Nat \ {0} /\ h \in Nat \ {0} /\ cw \in Nat \ {0} /\ ch \in Nat \ {0}  BY DEF Px!Picture
<1> HIDE DEF w, h, cw, ch
<1>2. ASSUME NEW i \in 0 .. h - 1, NEW j \in 0 .. w - 1
      PROVE  Px!Scaled(i, j) \in 0 .. cw * ch - 1
  <2>1. (i * ch) \div h \in Nat /\ (i * ch) \div h < ch  BY <1>1, ScaledIndex
  <2>2. (j * cw) \div w \in Nat /\ (j * cw) \div w < cw  BY <1>1, ScaledIndex
  <2>3. PICK row \in Nat : row = (i * ch) \div h /\ row < ch  BY <2>1
  <2>4. PICK col \in Nat : col = (j * cw) \div w /\ col < cw  BY <2>2
  <2>5. row * cw + col \in Nat /\ row * cw + col < cw * ch /\ cw * ch \in Nat
    BY <1>1, <2>3, <2>4, Inside
  <2>6. Px!Scaled(i, j) = row * cw + col  BY <2>3, <2>4 DEF Px!Scaled, w, h, cw, ch
  <2>7. QED  BY <2>5, <2>6
<1>3. ASSUME NEW y \in 0 .. ch - 1, NEW s \in {cw, -cw}
      PROVE  Px!RowStart(s, ch, y) \in {k * cw : k \in 0 .. ch - 1}
  <2>1. CASE s = cw
    <3>1. Px!RowStart(s, ch, y) = y * cw  BY <1>1, <2>1 DEF Px!RowStart
    <3>2. QED  BY <3>1
  <2>2. CASE s = -cw
    <3>1. Px!RowStart(s, ch, y) = cw * (ch - 1) + y * (-cw)  BY <1>1, <2>2 DEF Px!RowStart
    <3>2. cw * (ch - 1) + y * (-cw) = (ch - 1 - y) * cw  BY <1>1
    <3>3. ch - 1 - y \in 0 .. ch - 1  BY <1>1
    <3>4. QED  BY <3>1, <3>2, <3>3
  <2>3. QED  BY <2>1, <2>2
<1>4. Px!Even(px_other) => Px!Converted(px_other, TRUE) \subseteq Px!Within(px_other)
  <2> SUFFICES ASSUME Px!Even(px_other)
               PROVE  Px!Converted(px_other, TRUE) \subseteq Px!Within(px_other)
    OBVIOUS
  <2>1. cw - 1 + (cw % 2) = cw - 1 /\ ch - 1 + (ch % 2) = ch - 1  BY <1>1 DEF Px!Even, cw, ch
  <2>2. QED  BY <2>1 DEF Px!Converted, Px!Within, cw, ch
<1>5. QED  BY <1>2, <1>3, <1>4 DEF Px!SampleInside, w, h, cw, ch

\* On a picture of any size, with a camera of any size and tiles of any: what changed
\* is found and nothing beside the screen is sent; the planes of a picture of even
\* size, the camera's picture and the samples are read and written where they should
\* be and nowhere else.
LEMMA AddressesFollow ==
  ASSUME Side \in Nat, Tile \in Nat \ {0}, PxInv
  PROVE  AddressesRight
<1>1. CASE px_screen = Px!None /\ px_other = Px!None /\ px_changed = {}
  <2>1. px_screen.w = 0 /\ px_screen.h = 0 /\ px_other.w = 0 /\ px_other.h = 0  BY <1>1 DEF Px!None
  <2>2. Px!ChangesFound
    <3>1. Px!Region = {}  BY <1>1 DEF Px!Region, Px!Dirty
    <3>2. QED  BY <1>1, <3>1 DEF Px!ChangesFound
  <2>3. Px!PlanesInside
    <3>1. Px!WritesV(px_screen) = {}  BY <2>1 DEF Px!WritesV
    <3>2. QED  BY <2>1, <3>1 DEF Px!PlanesInside, Px!PlaneV, Px!PlaneVEncoded
  <2>4. Px!CameraInPlace  BY <1>1 DEF Px!CameraInPlace
  <2>5. Px!SampleInside  BY <2>1 DEF Px!SampleInside, Px!Converted, Px!Even
  <2>6. QED  BY <2>2, <2>3, <2>4, <2>5 DEF AddressesRight, Px!AddressesRight
<1>2. CASE px_screen \in Px!Picture /\ px_other \in Px!Picture
           /\ px_changed \subseteq Px!Within(px_screen)
  BY <1>2, ChangesAreFound, PlanesAreInside, CameraIsInPlace, SampleIsInside
     DEF AddressesRight, Px!AddressesRight
<1>3. QED  BY <1>1, <1>2 DEF PxInv

THEOREM AddressesAlwaysRight == Px!Spec => []AddressesRight
<1>0. Side \in Nat /\ Tile \in Nat \ {0}  BY PartsAssumption
<1>1. Px!Init => PxInv  BY DEF Px!Init, PxInv
<1>2. PxInv /\ [Px!Next]_(Px!vars) => PxInv'
  <2>1. ASSUME Px!Next PROVE PxInv'
    <3>1. /\ px_screen' \in Px!Picture /\ px_other' \in Px!Picture
          /\ px_changed' \subseteq Px!Within(px_screen')
      BY <2>1 DEF Px!Next, Px!Given
    <3>2. QED  BY <3>1 DEF PxInv, Px!Within, Px!Picture
  <2>2. ASSUME PxInv, UNCHANGED Px!vars PROVE PxInv'
    BY <2>2 DEF PxInv, Px!vars, Px!Within, Px!Picture, Px!None
  <2>3. QED  BY <2>1, <2>2
<1>3. PxInv => AddressesRight  BY <1>0, AddressesFollow
<1>4. QED  BY <1>1, <1>2, <1>3, PTL DEF Px!Spec

-----------------------------------------------------------------------------
(* An array that keeps its elements in a map. *)

Element == Array!Elements \cup {Array!Null}

\* An array, or the null that becomes one, with indices below the bound.
ArrayShaped(v) ==
  /\ v = [type |-> v.type, atom |-> 0, map |-> v.map]
  /\ v.type \in {"null", "array"}
  /\ Array!Keys(v) \subseteq 0 .. MaxElements - 1
  /\ v.type = "null" => Array!Keys(v) = {}

\* A map that has the length of a list, and its elements.
Matches(v, l) ==
  Array!Size(v) = Len(l) /\ \A i \in 1 .. Len(l) : Array!Find(v, i - 1) = l[i]

ArrayInv ==
  /\ ArrayShaped(val_value) /\ val_list \in Seq(Element) /\ Len(val_list) <= MaxElements
  /\ val_odd = {} => Matches(val_value, val_list)
  /\ ReadsAsList

\* The greatest of some numbers below a bound is one of them.
LEMMA GreatestNatural ==
  ASSUME NEW n \in Nat, NEW S \in SUBSET (0 .. n - 1), S # {}
  PROVE  Array!Max(S) \in S /\ \A y \in S : Array!Max(S) >= y
<1> DEFINE T == {n - k : k \in S}
<1>1. T \subseteq Nat /\ T # {}  OBVIOUS
<1>2. PICK t \in T : \A u \in T : t <= u  BY <1>1, LeastNatural
<1>3. PICK k \in S : t = n - k  BY <1>2
<1>4. \A y \in S : k >= y
  <2> TAKE y \in S
  <2>1. n - y \in T /\ n - k <= n - y  BY <1>2, <1>3
  <2>2. k \in Int /\ y \in Int  OBVIOUS
  <2>3. QED  BY <2>1, <2>2
<1>5. QED  BY <1>4 DEF Array!Max

\* The greater of two.
LEMMA Greater ==
  ASSUME NEW a \in Nat, NEW b \in Nat
  PROVE  Array!Max({a, b}) = IF a >= b THEN a ELSE b
<1>1. {a, b} \in SUBSET (0 .. (a + b + 1) - 1) /\ {a, b} # {}  OBVIOUS
<1>2. Array!Max({a, b}) \in {a, b} /\ \A y \in {a, b} : Array!Max({a, b}) >= y
  BY <1>1, GreatestNatural, a + b + 1 \in Nat
<1>3. QED  BY <1>2

\* The size is above all indices, by no more than one.
LEMMA SizeAbove ==
  ASSUME MaxElements \in Nat, NEW v, ArrayShaped(v)
  PROVE  /\ Array!Size(v) \in 0 .. MaxElements
         /\ \A k \in Array!Keys(v) : k < Array!Size(v)
         /\ Array!Size(v) = 0 \/ Array!Size(v) - 1 \in Array!Keys(v)
<1>1. CASE Array!Keys(v) = {}
  BY <1>1 DEF Array!Size, ArrayShaped
<1>2. CASE Array!Keys(v) # {}
  <2>1. Array!Size(v) = Array!Max(Array!Keys(v)) + 1
    BY <1>2 DEF Array!Size, ArrayShaped
  <2>2. /\ Array!Max(Array!Keys(v)) \in Array!Keys(v)
        /\ \A y \in Array!Keys(v) : Array!Max(Array!Keys(v)) >= y
    BY <1>2, GreatestNatural DEF ArrayShaped
  <2>3. QED  BY <2>1, <2>2 DEF ArrayShaped
<1>3. QED  BY <1>1, <1>2

\* There is no other such number.
LEMMA SizeOnly ==
  ASSUME MaxElements \in Nat, NEW v, ArrayShaped(v), NEW n \in Nat,
         \A k \in Array!Keys(v) : k < n, n = 0 \/ n - 1 \in Array!Keys(v)
  PROVE  Array!Size(v) = n
<1>1. /\ Array!Size(v) \in Nat
      /\ \A k \in Array!Keys(v) : k \in Nat /\ k < Array!Size(v)
      /\ Array!Size(v) = 0 \/ Array!Size(v) - 1 \in Array!Keys(v)
  BY SizeAbove DEF ArrayShaped
<1>2. QED  BY <1>1

\* Nothing is beyond the size.
LEMMA BeyondIsNull ==
  ASSUME MaxElements \in Nat, NEW v, ArrayShaped(v), NEW k \in Nat, k >= Array!Size(v)
  PROVE  Array!Find(v, k) = Array!Null
<1>1. k \notin Array!Keys(v)  BY SizeAbove
<1>2. QED  BY <1>1 DEF Array!Find

\* A null that is used as an array has nothing in it, then as before.
LEMMA MadeEffect ==
  ASSUME MaxElements \in Nat, NEW v, ArrayShaped(v), NEW w, w = Array!Made(v, "array")
  PROVE  /\ ArrayShaped(w) /\ w.type = "array" /\ Array!Keys(w) = Array!Keys(v)
         /\ Array!Size(w) = Array!Size(v)
         /\ \A k : Array!Find(w, k) = Array!Find(v, k)
<1>1. CASE v.type = "null"
  <2>1. w = [type |-> "array", atom |-> 0, map |-> <<>>] /\ Array!Keys(v) = {}
    BY <1>1 DEF Array!Made, Array!Container, Array!Scalar, ArrayShaped
  <2>2. Array!Keys(w) = {}  BY <2>1 DEF Array!Keys
  <2>3. ArrayShaped(w)  BY <2>1, <2>2 DEF ArrayShaped
  <2>4. Array!Size(w) = 0 /\ Array!Size(v) = 0
    BY <1>1, <2>1, <2>2 DEF Array!Size
  <2>5. QED  BY <2>1, <2>2, <2>3, <2>4 DEF Array!Find
<1>2. CASE v.type = "array"
  BY <1>2 DEF Array!Made
<1>3. QED  BY <1>1, <1>2 DEF ArrayShaped

\* Another map in the place of an array's.
LEMMA MapEffect ==
  ASSUME MaxElements \in Nat, NEW v, ArrayShaped(v), NEW m, DOMAIN m \subseteq 0 .. MaxElements - 1,
         v.type = "array" \/ DOMAIN m = {}, NEW w, w = [v EXCEPT !.map = m]
  PROVE  ArrayShaped(w) /\ w.type = v.type /\ w.map = m /\ Array!Keys(w) = DOMAIN m
<1>1. w = [type |-> v.type, atom |-> 0, map |-> m]  BY DEF ArrayShaped
<1>2. w.type = v.type /\ w.map = m  BY <1>1
<1>3. Array!Keys(w) = DOMAIN m  BY <1>2 DEF Array!Keys
<1>4. QED  BY <1>1, <1>2, <1>3 DEF ArrayShaped

\* An element that is set is found, and the others where they were.
LEMMA PutEffect ==
  ASSUME MaxElements \in Nat, NEW v, ArrayShaped(v), v.type = "array",
         NEW k \in 0 .. MaxElements - 1, NEW x, NEW w, w = Array!Put(v, k, x)
  PROVE  /\ ArrayShaped(w)
         /\ Array!Size(w) = Array!Max({k + 1, Array!Size(v)})
         /\ \A j : Array!Find(w, j) = IF j = k THEN x ELSE Array!Find(v, j)
<1> DEFINE m == [j \in Array!Keys(v) \cup {k} |-> IF j = k THEN x ELSE v.map[j]]
<1>1. w = [v EXCEPT !.map = m]  BY DEF Array!Put
<1>2. DOMAIN m = Array!Keys(v) \cup {k} /\ DOMAIN m \subseteq 0 .. MaxElements - 1
  BY DEF ArrayShaped
<1> HIDE DEF m
<1>3. ArrayShaped(w) /\ w.map = m /\ Array!Keys(w) = Array!Keys(v) \cup {k}
  BY <1>1, <1>2, MapEffect
<1>4. \A j : Array!Find(w, j) = IF j = k THEN x ELSE Array!Find(v, j)
  BY <1>3 DEF Array!Find, m
<1>5. Array!Size(w) = Array!Max({k + 1, Array!Size(v)})
  <2>1. /\ Array!Size(v) \in Nat /\ \A j \in Array!Keys(v) : j < Array!Size(v)
        /\ Array!Size(v) = 0 \/ Array!Size(v) - 1 \in Array!Keys(v)
        /\ Array!Keys(v) \subseteq 0 .. MaxElements - 1
    BY SizeAbove DEF ArrayShaped
  <2>2. PICK n \in Nat : n = IF k + 1 >= Array!Size(v) THEN k + 1 ELSE Array!Size(v)
    BY <2>1
  <2>3. (\A j \in Array!Keys(w) : j < n) /\ (n = 0 \/ n - 1 \in Array!Keys(w))
    BY <1>3, <2>1, <2>2
  <2>4. Array!Size(w) = n  BY <1>3, <2>3, SizeOnly
  <2>5. Array!Max({k + 1, Array!Size(v)}) = n  BY <2>1, <2>2, Greater
  <2>6. QED  BY <2>4, <2>5
<1>6. QED  BY <1>3, <1>4, <1>5

\* An element that is only looked at becomes a null.
LEMMA ReachEffect ==
  ASSUME MaxElements \in Nat, NEW v, ArrayShaped(v), v.type = "array",
         NEW k \in 0 .. MaxElements - 1, NEW w, w = Array!Reach(v, k)
  PROVE  /\ ArrayShaped(w)
         /\ Array!Size(w) = Array!Max({k + 1, Array!Size(v)})
         /\ \A j : Array!Find(w, j) = Array!Find(v, j)
<1>1. CASE k \in Array!Keys(v)
  <2>1. w = v  BY <1>1 DEF Array!Reach
  <2>2. k < Array!Size(v) /\ Array!Size(v) \in Nat  BY <1>1, SizeAbove
  <2>3. Array!Max({k + 1, Array!Size(v)}) = Array!Size(v)  BY <2>2, Greater
  <2>4. QED  BY <2>1, <2>3
<1>2. CASE k \notin Array!Keys(v)
  <2>1. w = Array!Put(v, k, Array!Null) /\ Array!Find(v, k) = Array!Null
    BY <1>2 DEF Array!Reach, Array!Find
  <2>2. PICK null : null = Array!Null  OBVIOUS
  <2>3. /\ ArrayShaped(w)
        /\ Array!Size(w) = Array!Max({k + 1, Array!Size(v)})
        /\ \A j : Array!Find(w, j) = IF j = k THEN null ELSE Array!Find(v, j)
    BY <2>1, <2>2, PutEffect
  <2>4. QED  BY <2>1, <2>2, <2>3
<1>3. QED  BY <1>1, <1>2

\* What is erased reads as null, the rest as before.
LEMMA EraseEffect ==
  ASSUME MaxElements \in Nat, NEW v, ArrayShaped(v), NEW ks, NEW w, w = Array!Erase(v, ks)
  PROVE  /\ ArrayShaped(w) /\ Array!Keys(w) = Array!Keys(v) \ ks
         /\ \A j : Array!Find(w, j) = IF j \in ks THEN Array!Null ELSE Array!Find(v, j)
<1> DEFINE m == [j \in Array!Keys(v) \ ks |-> v.map[j]]
<1>1. w = [v EXCEPT !.map = m]  BY DEF Array!Erase
<1>2. /\ DOMAIN m = Array!Keys(v) \ ks /\ DOMAIN m \subseteq 0 .. MaxElements - 1
      /\ v.type = "array" \/ DOMAIN m = {}
  BY DEF ArrayShaped
<1> HIDE DEF m
<1>3. ArrayShaped(w) /\ w.map = m /\ Array!Keys(w) = DOMAIN m
  <2>1. CASE v.type = "array"  BY <1>1, <1>2, <2>1, MapEffect
  <2>2. CASE DOMAIN m = {}  BY <1>1, <1>2, <2>2, MapEffect
  <2>3. QED  BY <1>2, <2>1, <2>2
<1>4. QED  BY <1>2, <1>3 DEF Array!Find, m

Reading(v) == [i \in 1 .. Array!Size(v) |-> Array!Find(v, i - 1)]

\* A map that matches a list reads as it, and there is nothing behind it.
LEMMA ReadsSame ==
  ASSUME MaxElements \in Nat, NEW v, ArrayShaped(v), NEW l \in Seq(Element), Matches(v, l)
  PROVE  Reading(v) = l /\ \A i \in Len(l) .. MaxElements : Array!Find(v, i) = Array!Null
<1>1. Array!Size(v) = Len(l) /\ Len(l) \in Nat /\ \A i \in 1 .. Len(l) : Array!Find(v, i - 1) = l[i]
  BY DEF Matches
<1>2. Reading(v) = l
  <2>1. l = [i \in 1 .. Len(l) |-> l[i]]  OBVIOUS
  <2>2. Reading(v) = [i \in 1 .. Len(l) |-> Array!Find(v, i - 1)]  BY <1>1 DEF Reading
  <2>3. QED  BY <1>1, <2>1, <2>2
<1>3. \A i \in Len(l) .. MaxElements : Array!Find(v, i) = Array!Null
  BY <1>1, BeyondIsNull
<1>4. QED  BY <1>2, <1>3

\* A map that is shorter than a list reads as the beginning of it, and what is missing
\* are nulls.
LEMMA ReadsShorter ==
  ASSUME MaxElements \in Nat, NEW v, ArrayShaped(v), NEW l \in Seq(Element),
         Array!Size(v) < Len(l),
         \A i \in 1 .. Len(l) : Array!Find(v, i - 1) = l[i]
  PROVE  /\ Array!IsStrictPrefix(Reading(v), l)
         /\ Array!Nulls(SubSeq(l, Len(Reading(v)) + 1, Len(l)))
<1>1. Array!Size(v) \in Nat /\ Len(l) \in Nat  BY SizeAbove
<1>2. /\ Len(Reading(v)) = Array!Size(v) /\ Reading(v) \in Seq(Element)
      /\ \A i \in 1 .. Array!Size(v) : Reading(v)[i] = l[i]
  <2>1. \A i \in 1 .. Array!Size(v) : Array!Find(v, i - 1) = l[i] /\ l[i] \in Element  BY <1>1
  <2>2. Reading(v) = [i \in 1 .. Array!Size(v) |-> l[i]]  BY <2>1 DEF Reading
  <2>3. QED  BY <1>1, <2>1, <2>2
<1>3. Array!IsStrictPrefix(Reading(v), l)
  <2>1. SubSeq(Reading(v), 1, Len(Reading(v))) = SubSeq(l, 1, Len(Reading(v)))
    BY <1>1, <1>2
  <2>2. QED  BY <1>1, <1>2, <2>1 DEF Array!IsStrictPrefix, Array!IsPrefix
<1>4. Array!Nulls(SubSeq(l, Len(Reading(v)) + 1, Len(l)))
  <2>1. \A i \in Array!Size(v) + 1 .. Len(l) : l[i] = Array!Null
    <3> TAKE i \in Array!Size(v) + 1 .. Len(l)
    <3>1. i - 1 \in Nat /\ i - 1 >= Array!Size(v) /\ i \in 1 .. Len(l)  BY <1>1
    <3>2. QED  BY <3>1, BeyondIsNull
  <2> DEFINE rest == SubSeq(l, Len(Reading(v)) + 1, Len(l))
  <2>2. \A j \in DOMAIN rest : rest[j] = Array!Null
    <3> TAKE j \in DOMAIN rest
    <3>1. j \in 1 .. Len(l) - Array!Size(v) /\ rest[j] = l[Array!Size(v) + j]
      BY <1>1, <1>2
    <3>2. Array!Size(v) + j \in Array!Size(v) + 1 .. Len(l)  BY <1>1, <3>1
    <3>3. QED  BY <2>1, <3>1, <3>2
  <2> HIDE DEF rest
  <2>3. QED  BY <2>2 DEF Array!Nulls, Array!ToSet, rest
<1>5. QED  BY <1>3, <1>4

\* The list that is filled up with nulls still is what the map reads as.
LEMMA PaddedMatches ==
  ASSUME MaxElements \in Nat, ArrayInv, val_odd = {}, NEW n \in Nat
  PROVE  /\ Array!Padded(n) \in Seq(Element)
         /\ Len(Array!Padded(n)) = Array!Max({n, Len(val_list)})
         /\ \A i \in 1 .. Len(Array!Padded(n)) :
              Array!Find(val_value, i - 1) = Array!Padded(n)[i]
<1>1. /\ ArrayShaped(val_value) /\ val_list \in Seq(Element) /\ Len(val_list) \in Nat
      /\ Array!Size(val_value) = Len(val_list)
      /\ \A i \in 1 .. Len(val_list) : Array!Find(val_value, i - 1) = val_list[i]
  BY DEF ArrayInv, Matches
<1>2. PICK m \in Nat : m = Array!Max({n, Len(val_list)}) /\ m >= Len(val_list)
  BY <1>1, Greater
<1>3. Array!Padded(n) =
        [i \in 1 .. m |-> IF i <= Len(val_list) THEN val_list[i] ELSE Array!Null]
  BY <1>2 DEF Array!Padded
<1>4. \A i \in 1 .. m : (IF i <= Len(val_list) THEN val_list[i] ELSE Array!Null) \in Element
  BY <1>1 DEF Element
<1>5. Array!Padded(n) \in Seq(Element) /\ Len(Array!Padded(n)) = m
  BY <1>3, <1>4
<1>6. \A i \in 1 .. m : Array!Find(val_value, i - 1) = Array!Padded(n)[i]
  <2> TAKE i \in 1 .. m
  <2>1. CASE i <= Len(val_list)  BY <1>1, <1>3, <2>1
  <2>2. CASE i > Len(val_list)
    <3>1. i - 1 \in Nat /\ i - 1 >= Array!Size(val_value)  BY <1>1, <2>2
    <3>2. Array!Find(val_value, i - 1) = Array!Null  BY <1>1, <3>1, BeyondIsNull
    <3>3. QED  BY <1>1, <1>3, <2>2, <3>2
  <2>3. QED  BY <1>1, <2>1, <2>2
<1>7. QED  BY <1>2, <1>5, <1>6

\* A list without one of its elements.
LEMMA RemovedEffect ==
  ASSUME NEW S, NEW l \in Seq(S), NEW i \in 1 .. Len(l), NEW r, r = Array!RemoveAt(l, i)
  PROVE  /\ r \in Seq(S) /\ Len(r) = Len(l) - 1
         /\ \A j \in 1 .. Len(l) - 1 : r[j] = IF j < i THEN l[j] ELSE l[j + 1]
<1> DEFINE a == SubSeq(l, 1, i - 1)
           b == SubSeq(l, i + 1, Len(l))
<1>1. a \in Seq(S) /\ Len(a) = i - 1 /\ \A j \in 1 .. i - 1 : a[j] = l[j]  OBVIOUS
<1>2. b \in Seq(S) /\ Len(b) = Len(l) - i /\ \A j \in 1 .. Len(l) - i : b[j] = l[i + j]  OBVIOUS
<1>3. r = a \o b  BY DEF Array!RemoveAt
<1> HIDE DEF a, b
<1>4. r \in Seq(S) /\ Len(r) = Len(l) - 1
  <2>1. a \in Seq(S) /\ b \in Seq(S)  BY <1>1, <1>2
  <2>2. r \in Seq(S)  BY <1>3, <2>1
  <2>3. Len(r) = Len(a) + Len(b)  BY <1>3, <2>1
  <2>4. QED  BY <1>1, <1>2, <2>2, <2>3
<1>5. \A j \in 1 .. Len(l) - 1 : r[j] = IF j < i THEN l[j] ELSE l[j + 1]
  <2> TAKE j \in 1 .. Len(l) - 1
  <2>1. CASE j < i  BY <1>1, <1>2, <1>3, <2>1
  <2>2. CASE j >= i
    <3>1. r[j] = b[j - (i - 1)] /\ j - (i - 1) \in 1 .. Len(l) - i  BY <1>1, <1>2, <1>3, <2>2
    <3>2. b[j - (i - 1)] = l[i + (j - (i - 1))] /\ i + (j - (i - 1)) = j + 1  BY <1>2, <3>1
    <3>3. QED  BY <2>2, <3>1, <3>2
  <2>3. QED  BY <2>1, <2>2
<1>6. QED  BY <1>4, <1>5

\* A step after which the map agrees with the list, and is shorter at most by nulls.
LEMMA Settles ==
  ASSUME MaxElements \in Nat, ArrayShaped(val_value'), val_list' \in Seq(Element),
         Len(val_list') <= MaxElements,
         \A i \in 1 .. Len(val_list') : Array!Find(val_value', i - 1) = val_list'[i],
         \/ Array!Size(val_value') = Len(val_list') /\ val_odd' = {}
         \/ Array!Size(val_value') < Len(val_list') /\ val_odd' \in {{"thrown"}, {"shrunk"}}
  PROVE  ArrayInv'
<1>1. CASE Array!Size(val_value') = Len(val_list') /\ val_odd' = {}
  <2>1. Matches(val_value', val_list')  BY <1>1 DEF Matches
  <2>2. /\ Reading(val_value') = val_list'
        /\ \A i \in Len(val_list') .. MaxElements : Array!Find(val_value', i) = Array!Null
    BY <2>1, ReadsSame
  <2>3. ReadsAsList'
    BY <1>1, <2>2 DEF ReadsAsList, Array!ReadsAsList, Reading
  <2>4. QED  BY <2>1, <2>3 DEF ArrayInv
<1>2. CASE Array!Size(val_value') < Len(val_list') /\ val_odd' \in {{"thrown"}, {"shrunk"}}
  <2>1. /\ Array!IsStrictPrefix(Reading(val_value'), val_list')
        /\ Array!Nulls(SubSeq(val_list', Len(Reading(val_value')) + 1, Len(val_list')))
    BY <1>2, ReadsShorter
  <2>2. val_odd' # {} /\ val_odd' # {"kept"}  BY <1>2
  <2>3. ReadsAsList'
    BY <2>1, <2>2 DEF ReadsAsList, Array!ReadsAsList, Reading
  <2>4. QED  BY <2>2, <2>3 DEF ArrayInv
<1>3. QED  BY <1>1, <1>2

\* A list with another element at a place.
LEMMA SetAtPlace ==
  ASSUME NEW S, NEW p \in Seq(S), NEW i \in 1 .. Len(p), NEW x \in S,
         NEW q, q = [p EXCEPT ![i] = x]
  PROVE  /\ q \in Seq(S) /\ Len(q) = Len(p)
         /\ \A j \in 1 .. Len(p) : q[j] = IF j = i THEN x ELSE p[j]
OBVIOUS

\* Setting, reading and appending an element.
LEMMA ElementKeeps ==
  ASSUME MaxElements \in Nat, ArrayInv, val_odd = {},
         \/ \E i \in 0 .. MaxElements - 1 :
              (\E x \in Array!Elements : Array!Puts(i, x)) \/ Array!Reads(i)
         \/ \E x \in Array!Elements : Array!append(x)
  PROVE  ArrayInv'
<1>1. PICK u : u = Array!Made(val_value, "array")  OBVIOUS
<1>2. /\ val_list \in Seq(Element) /\ Len(val_list) \in Nat /\ Len(val_list) <= MaxElements
      /\ Array!Size(val_value) = Len(val_list)
      /\ \A i \in 1 .. Len(val_list) : Array!Find(val_value, i - 1) = val_list[i]
  BY DEF ArrayInv, Matches
<1>3. /\ ArrayShaped(u) /\ u.type = "array" /\ Array!Size(u) = Len(val_list)
      /\ \A k : Array!Find(u, k) = Array!Find(val_value, k)
  BY <1>1, <1>2, MadeEffect DEF ArrayInv
<1>4. ASSUME NEW i \in 0 .. MaxElements - 1
      PROVE  /\ Array!Padded(i + 1) \in Seq(Element) /\ Len(Array!Padded(i + 1)) \in i + 1 .. MaxElements
             /\ Array!Max({i + 1, Array!Size(u)}) = Len(Array!Padded(i + 1))
             /\ \A j \in 1 .. Len(Array!Padded(i + 1)) :
                  Array!Find(val_value, j - 1) = Array!Padded(i + 1)[j]
  <2>1. i + 1 \in Nat /\ i + 1 <= MaxElements  OBVIOUS
  <2>2. /\ Array!Padded(i + 1) \in Seq(Element)
        /\ Len(Array!Padded(i + 1)) = Array!Max({i + 1, Len(val_list)})
        /\ \A j \in 1 .. Len(Array!Padded(i + 1)) :
             Array!Find(val_value, j - 1) = Array!Padded(i + 1)[j]
    BY <2>1, PaddedMatches
  <2>3. Array!Max({i + 1, Len(val_list)}) \in i + 1 .. MaxElements
    <3>1. Array!Max({i + 1, Len(val_list)}) = IF i + 1 >= Len(val_list) THEN i + 1 ELSE Len(val_list)
      BY <1>2, <2>1, Greater
    <3>2. QED  BY <1>2, <2>1, <3>1
  <2>4. QED  BY <1>3, <2>2, <2>3
<1>5. ASSUME NEW i \in 0 .. MaxElements - 1, NEW x \in Array!Elements, Array!Puts(i, x)
      PROVE  ArrayInv'
  <2>1. PICK p : p = Array!Padded(i + 1)  OBVIOUS
  <2>2. /\ val_value' = Array!Put(u, i, x) /\ val_list' = [p EXCEPT ![i + 1] = x] /\ val_odd' = {}
    BY <1>1, <1>5, <2>1 DEF Array!Puts
  <2>3. /\ p \in Seq(Element) /\ Len(p) \in Nat /\ i + 1 <= Len(p) /\ Len(p) <= MaxElements
        /\ Array!Max({i + 1, Array!Size(u)}) = Len(p)
        /\ \A j \in 1 .. Len(p) : Array!Find(val_value, j - 1) = p[j]
    <3>1. /\ Array!Padded(i + 1) \in Seq(Element)
          /\ Len(Array!Padded(i + 1)) \in i + 1 .. MaxElements
          /\ Array!Max({i + 1, Array!Size(u)}) = Len(Array!Padded(i + 1))
          /\ \A j \in 1 .. Len(Array!Padded(i + 1)) :
               Array!Find(val_value, j - 1) = Array!Padded(i + 1)[j]
      BY <1>4
    <3>2. /\ p \in Seq(Element) /\ Len(p) \in i + 1 .. MaxElements
          /\ Array!Max({i + 1, Array!Size(u)}) = Len(p)
          /\ \A j \in 1 .. Len(p) : Array!Find(val_value, j - 1) = p[j]
      BY <2>1, <3>1, Zenon
    <3>3. \A n \in i + 1 .. MaxElements : n \in Nat /\ i + 1 <= n /\ n <= MaxElements
      OBVIOUS
    <3>4. QED  BY <3>2, <3>3, Zenon
  <2>4. /\ ArrayShaped(val_value') /\ Array!Size(val_value') = Len(p)
        /\ \A j : Array!Find(val_value', j) = IF j = i THEN x ELSE Array!Find(u, j)
    BY <1>3, <2>2, <2>3, PutEffect
  <2>5. x \in Element  BY DEF Element
  <2>6. /\ val_list' \in Seq(Element) /\ Len(val_list') = Len(p)
        /\ \A j \in 1 .. Len(p) : val_list'[j] = IF j = i + 1 THEN x ELSE p[j]
    <3>1. PICK k \in 1 .. Len(p) : k = i + 1  BY <2>3
    <3>2. val_list' = [p EXCEPT ![k] = x] /\ k \in 1 .. Len(p)  BY <2>2, <3>1
    <3>3. p \in Seq(Element)  BY <2>3
    <3>4. /\ val_list' \in Seq(Element) /\ Len(val_list') = Len(p)
          /\ \A j \in 1 .. Len(p) : val_list'[j] = IF j = k THEN x ELSE p[j]
      BY <2>5, <3>2, <3>3
    <3>5. QED  BY <3>1, <3>4
  <2>7. \A j \in 1 .. Len(p) : Array!Find(val_value', j - 1) = val_list'[j]
    <3> TAKE j \in 1 .. Len(p)
    <3>1. CASE j = i + 1  BY <2>4, <2>6, <3>1
    <3>2. CASE j # i + 1
      <4>1. j - 1 # i  BY <3>2
      <4>2. QED  BY <1>3, <2>3, <2>4, <2>6, <3>2, <4>1
    <3>3. QED  BY <3>1, <3>2
  <2>8. QED  BY <2>2, <2>3, <2>4, <2>6, <2>7, Settles
<1>6. ASSUME NEW i \in 0 .. MaxElements - 1, Array!Reads(i)
      PROVE  ArrayInv'
  <2>1. val_value' = Array!Reach(u, i) /\ val_list' = Array!Padded(i + 1) /\ val_odd' = {}
    BY <1>1, <1>6 DEF Array!Reads
  <2>2. /\ ArrayShaped(val_value')
        /\ Array!Size(val_value') = Array!Max({i + 1, Array!Size(u)})
        /\ \A j : Array!Find(val_value', j) = Array!Find(u, j)
    BY <1>3, <2>1, ReachEffect
  <2>3. QED  BY <1>3, <1>4, <2>1, <2>2, Settles
<1>7. ASSUME NEW x \in Array!Elements, Array!append(x)
      PROVE  ArrayInv'
  <2>1. /\ Len(val_list) < MaxElements /\ val_value' = Array!Put(u, Len(val_list), x)
        /\ val_list' = Append(val_list, x) /\ val_odd' = {}
    BY <1>1, <1>2, <1>7 DEF Array!append
  <2>2. Len(val_list) \in 0 .. MaxElements - 1  BY <1>2, <2>1
  <2>3. Array!Max({Len(val_list) + 1, Array!Size(u)}) = Len(val_list) + 1
    BY <1>2, <1>3, Greater
  <2>4. /\ ArrayShaped(val_value') /\ Array!Size(val_value') = Len(val_list) + 1
        /\ \A j : Array!Find(val_value', j) = IF j = Len(val_list) THEN x ELSE Array!Find(u, j)
    BY <1>3, <2>1, <2>2, <2>3, PutEffect
  <2>5. x \in Element  BY DEF Element
  <2>6. /\ val_list' \in Seq(Element) /\ Len(val_list') = Len(val_list) + 1
        /\ \A j \in 1 .. Len(val_list) + 1 :
             val_list'[j] = IF j = Len(val_list) + 1 THEN x ELSE val_list[j]
    BY <1>2, <2>1, <2>5
  <2>7. \A j \in 1 .. Len(val_list) + 1 : Array!Find(val_value', j - 1) = val_list'[j]
    <3> TAKE j \in 1 .. Len(val_list) + 1
    <3>1. CASE j = Len(val_list) + 1  BY <1>2, <2>4, <2>6, <3>1
    <3>2. CASE j # Len(val_list) + 1
      <4>1. j \in 1 .. Len(val_list) /\ j - 1 # Len(val_list)  BY <1>2, <3>2
      <4>2. QED  BY <1>2, <1>3, <2>4, <2>6, <4>1
    <3>3. QED  BY <3>1, <3>2
  <2>8. Len(val_list') <= MaxElements  BY <1>2, <2>1, <2>6
  <2>9. QED  BY <2>1, <2>4, <2>6, <2>7, <2>8, Settles
<1>8. QED  BY <1>5, <1>6, <1>7

\* Nothing is left of a map that is emptied.
LEMMA EmptyKeeps ==
  ASSUME MaxElements \in Nat, ArrayInv, val_odd = {}, Array!clear
  PROVE  ArrayInv'
<1>1. DOMAIN <<>> = {} /\ <<>> \in Seq(Element) /\ Len(<<>>) = 0  OBVIOUS
<1>2. val_value' = [val_value EXCEPT !.map = <<>>] /\ val_list' = <<>> /\ val_odd' = {}
  BY DEF Array!clear
<1>3. ArrayShaped(val_value') /\ Array!Keys(val_value') = {}
  BY <1>1, <1>2, MapEffect DEF ArrayInv
<1>4. Array!Size(val_value') = 0  BY <1>3, SizeOnly
<1>5. QED  BY <1>1, <1>2, <1>3, <1>4, Settles

\* An array that is made larger, or smaller, by nulls more than it should if it then
\* ends in a hole.
LEMMA ResizeKeeps ==
  ASSUME MaxElements \in Nat, ArrayInv, val_odd = {}, NEW n \in 0 .. MaxElements, Array!resize(n)
  PROVE  ArrayInv'
<1>1. PICK u : u = Array!Made(val_value, "array")  OBVIOUS
<1>2. /\ val_list \in Seq(Element) /\ Len(val_list) \in Nat /\ Len(val_list) <= MaxElements
      /\ Array!Size(val_value) = Len(val_list) /\ n \in Nat /\ n <= MaxElements
  BY DEF ArrayInv, Matches
<1>3. /\ ArrayShaped(u) /\ u.type = "array" /\ Array!Size(u) = Len(val_list)
      /\ \A k : Array!Find(u, k) = Array!Find(val_value, k)
  BY <1>1, <1>2, MadeEffect DEF ArrayInv
<1>4. PICK p \in Seq(Element) :
        /\ p = Array!Padded(n) /\ n <= Len(p) /\ Len(p) \in Nat
        /\ \A i \in 1 .. Len(p) : Array!Find(val_value, i - 1) = p[i]
  <2>1. /\ Array!Padded(n) \in Seq(Element)
        /\ Len(Array!Padded(n)) = Array!Max({n, Len(val_list)})
        /\ \A i \in 1 .. Len(Array!Padded(n)) :
             Array!Find(val_value, i - 1) = Array!Padded(n)[i]
    BY <1>2, PaddedMatches
  <2>2. Array!Max({n, Len(val_list)}) >= n /\ Array!Max({n, Len(val_list)}) \in Nat
    BY <1>2, Greater
  <2>3. QED  BY <2>1, <2>2
<1>5. /\ val_list' \in Seq(Element) /\ Len(val_list') = n
      /\ \A i \in 1 .. n : Array!Find(val_value, i - 1) = val_list'[i]
  <2>1. val_list' = SubSeq(p, 1, n)  BY <1>4 DEF Array!resize
  <2>2. /\ val_list' \in Seq(Element) /\ Len(val_list') = n
        /\ \A i \in 1 .. n : val_list'[i] = p[i] /\ i \in 1 .. Len(p)
    BY <1>2, <1>4, <2>1
  <2>3. QED  BY <1>4, <2>2
<1>6. val_odd' = IF Array!Size(val_value') # n THEN {"thrown"} ELSE {}
  BY DEF Array!resize
<1>7. /\ ArrayShaped(val_value') /\ Array!Size(val_value') <= n /\ Array!Size(val_value') \in Nat
      /\ \A i \in 1 .. n : Array!Find(val_value', i - 1) = Array!Find(u, i - 1)
  <2>1. CASE n = 0
    <3>1. val_value' = [type |-> "array", atom |-> 0, map |-> <<>>]
      BY <2>1 DEF Array!resize, Array!Container, Array!Scalar
    <3>2. Array!Keys(val_value') = {}  BY <3>1 DEF Array!Keys
    <3>3. ArrayShaped(val_value')  BY <3>1, <3>2 DEF ArrayShaped
    <3>4. Array!Size(val_value') = 0  BY <3>2, <3>3, SizeOnly
    <3>5. QED  BY <2>1, <3>3, <3>4
  <2>2. CASE n # 0 /\ n > Array!Size(u)
    <3>1. PICK k \in 0 .. MaxElements - 1 : k = n - 1 /\ val_value' = Array!Reach(u, k)
      BY <1>1, <1>2, <2>2 DEF Array!resize
    <3>2. val_value' = Array!Reach(u, k) /\ k \in 0 .. MaxElements - 1  BY <3>1
    <3>3. /\ ArrayShaped(val_value')
          /\ Array!Size(val_value') = Array!Max({k + 1, Array!Size(u)})
          /\ \A j : Array!Find(val_value', j) = Array!Find(u, j)
      BY <1>3, <3>2, ReachEffect, Zenon
    <3>4. k + 1 = n /\ Array!Max({n, Array!Size(u)}) = n  BY <1>2, <1>3, <2>2, <3>1, Greater
    <3>5. Array!Size(val_value') = n  BY <3>3, <3>4
    <3>6. QED  BY <1>2, <3>3, <3>5
  <2>3. CASE n # 0 /\ ~(n > Array!Size(u))
    <3>1. val_value' = Array!Erase(u, n .. MaxElements - 1)
      BY <1>1, <2>3 DEF Array!resize
    <3>2. /\ ArrayShaped(val_value')
          /\ Array!Keys(val_value') = Array!Keys(u) \ (n .. MaxElements - 1)
          /\ \A j : Array!Find(val_value', j) =
                      IF j \in n .. MaxElements - 1 THEN Array!Null ELSE Array!Find(u, j)
      BY <1>3, <3>1, EraseEffect
    <3>3. \A k \in Array!Keys(val_value') : k \in Nat /\ k < n
      BY <1>2, <1>3, <3>2 DEF ArrayShaped
    <3>4. Array!Size(val_value') <= n /\ Array!Size(val_value') \in Nat
      BY <1>2, <3>2, <3>3, SizeAbove
    <3>5. \A i \in 1 .. n : i - 1 \notin n .. MaxElements - 1  BY <1>2
    <3>6. QED  BY <3>2, <3>4, <3>5
  <2>4. QED  BY <2>1, <2>2, <2>3
<1>8. \A i \in 1 .. n : Array!Find(val_value', i - 1) = val_list'[i]  BY <1>3, <1>5, <1>7
<1>9. CASE Array!Size(val_value') = n  BY <1>2, <1>5, <1>6, <1>7, <1>8, <1>9, Settles
<1>10. CASE Array!Size(val_value') # n
  <2>1. Array!Size(val_value') < n /\ val_odd' \in {{"thrown"}, {"shrunk"}}
    BY <1>2, <1>6, <1>7, <1>10
  <2>2. QED  BY <1>2, <1>5, <1>7, <1>8, <2>1, Settles
<1>11. QED  BY <1>9, <1>10

\* Removing an element moves all behind it; one in a hole is not removed, and the last goes
\* with the hole before it.
LEMMA RemoveKeeps ==
  ASSUME MaxElements \in Nat, ArrayInv, val_odd = {}, NEW i \in 0 .. MaxElements - 1,
         Array!removeIndex(i)
  PROVE  ArrayInv'
<1>1. /\ ArrayShaped(val_value) /\ val_value.type = "array"
      /\ val_list \in Seq(Element) /\ Len(val_list) \in Nat /\ Len(val_list) <= MaxElements
      /\ Array!Size(val_value) = Len(val_list) /\ Matches(val_value, val_list)
      /\ \A j \in 1 .. Len(val_list) : Array!Find(val_value, j - 1) = val_list[j]
  BY DEF ArrayInv, Matches, Array!removeIndex
<1>2. CASE i \notin Array!Keys(val_value) /\ i < Len(val_list)
  <2>1. /\ val_value' = val_value /\ val_odd' = {"kept"}
        /\ val_list' = Array!RemoveAt(val_list, i + 1) /\ i + 1 \in 1 .. Len(val_list)
    BY <1>1, <1>2 DEF Array!removeIndex
  <2>2. val_list' \in Seq(Element) /\ Len(val_list') <= MaxElements
    BY <1>1, <2>1, RemovedEffect
  <2>3. Reading(val_value) = val_list /\ Len(Reading(val_value)) = Len(val_list)
    BY <1>1, ReadsSame
  <2>4. Reading(val_value)[i + 1] = Array!Null
    <3>1. Array!Find(val_value, i) = Array!Null  BY <1>2 DEF Array!Find
    <3>2. (i + 1) - 1 = i  OBVIOUS
    <3>3. QED  BY <1>1, <2>1, <2>3, <3>1, <3>2
  <2>5. \E j \in 1 .. Len(Reading(val_value')) :
          /\ Reading(val_value')[j] = Array!Null
          /\ val_list' = Array!RemoveAt(Reading(val_value'), j)
    BY <2>1, <2>3, <2>4
  <2>6. val_odd' # {}  BY <2>1
  <2>7. ReadsAsList'
    BY <2>1, <2>5, <2>6 DEF ReadsAsList, Array!ReadsAsList, Reading
  <2>8. QED  BY <1>1, <2>1, <2>2, <2>6, <2>7 DEF ArrayInv
<1>3. CASE i \notin Array!Keys(val_value) /\ ~(i < Len(val_list))
  <2>1. val_value' = val_value /\ val_odd' = {} /\ val_list' = val_list
    BY <1>3 DEF Array!removeIndex
  <2>2. QED  BY <1>1, <2>1, Settles
<1>4. CASE i \in Array!Keys(val_value)
  <2> DEFINE last == Len(val_list) - 1
             keys == Array!Keys(val_value) \cup (i .. last - 1)
             m == [k \in keys |-> IF k \in i .. last - 1 THEN Array!Find(val_value, k + 1)
                                  ELSE Array!Find(val_value, k)]
  <2>1. /\ i \in Nat /\ i <= last /\ last \in Nat /\ last < MaxElements
        /\ \A k \in Array!Keys(val_value) : k \in Nat /\ k <= last
    BY <1>1, <1>4, SizeAbove DEF ArrayShaped
  <2>2. PICK sh : sh = Array!Shifted(val_value, i)  OBVIOUS
  <2>3. sh = [val_value EXCEPT !.map = m]  BY <1>1, <2>2 DEF Array!Shifted
  <2>4. DOMAIN m = keys /\ DOMAIN m \subseteq 0 .. MaxElements - 1  BY <2>1
  <2> HIDE DEF m
  <2>5. ArrayShaped(sh) /\ sh.map = m /\ Array!Keys(sh) = keys
    BY <1>1, <2>3, <2>4, MapEffect
  <2>6. /\ val_value' = Array!Erase(sh, {last})
        /\ val_odd' = IF Array!Size(val_value') # last THEN {"shrunk"} ELSE {}
        /\ val_list' = Array!RemoveAt(val_list, i + 1)
    BY <1>1, <1>4, <2>1, <2>2 DEF Array!removeIndex
  <2>7. /\ ArrayShaped(val_value') /\ Array!Keys(val_value') = keys \ {last}
        /\ \A j : Array!Find(val_value', j) = IF j \in {last} THEN Array!Null ELSE Array!Find(sh, j)
    BY <2>5, <2>6, EraseEffect
  <2>8. Array!Size(val_value') <= last /\ Array!Size(val_value') \in Nat
    <3>1. \A k \in Array!Keys(val_value') : k \in Nat /\ k < last  BY <2>1, <2>7
    <3>2. QED  BY <2>1, <2>7, <3>1, SizeAbove
  <2>9. /\ val_list' \in Seq(Element) /\ Len(val_list') = last
        /\ \A j \in 1 .. last : val_list'[j] = IF j < i + 1 THEN val_list[j] ELSE val_list[j + 1]
    <3>1. i + 1 \in 1 .. Len(val_list)  BY <1>1, <2>1
    <3>2. QED  BY <1>1, <2>6, <3>1, RemovedEffect
  <2>10. \A j \in 1 .. last : Array!Find(val_value', j - 1) = val_list'[j]
    <3> TAKE j \in 1 .. last
    <3>1. PICK k \in 0 .. last - 1 : k = j - 1 /\ k + 1 = j  BY <2>1
    <3>2. Array!Find(val_value', k) = Array!Find(sh, k)  BY <2>7, <3>1
    <3>3. /\ Array!Find(val_value, k) = val_list[k + 1]
          /\ Array!Find(val_value, k + 1) = val_list[k + 2]
      <4>1. k + 1 \in 1 .. Len(val_list) /\ k + 2 \in 1 .. Len(val_list)
            /\ (k + 1) - 1 = k /\ (k + 2) - 1 = k + 1
        BY <1>1, <2>1
      <4>2. QED  BY <1>1, <4>1
    <3>4. CASE k \in i .. last - 1
      <4>1. Array!Find(sh, k) = Array!Find(val_value, k + 1)
        BY <2>5, <3>4 DEF Array!Find, m
      <4>2. ~(j < i + 1) /\ j + 1 = k + 2  BY <2>1, <3>1, <3>4
      <4>3. val_list'[j] = val_list[k + 2]  BY <2>9, <4>2
      <4>4. QED  BY <3>1, <3>2, <3>3, <4>1, <4>3
    <3>5. CASE k \notin i .. last - 1
      <4>1. Array!Find(sh, k) = Array!Find(val_value, k)
        BY <2>5, <3>5 DEF Array!Find, m
      <4>2. val_list'[j] = val_list[k + 1]  BY <2>1, <2>9, <3>1, <3>5
      <4>3. QED  BY <3>1, <3>2, <3>3, <4>1, <4>2
    <3>6. QED  BY <3>4, <3>5
  <2>11. Len(val_list') <= MaxElements  BY <2>1, <2>9
  <2>12. CASE Array!Size(val_value') = last
    BY <2>6, <2>7, <2>9, <2>10, <2>11, <2>12, Settles
  <2>13. CASE Array!Size(val_value') # last
    <3>1. Array!Size(val_value') < last /\ val_odd' \in {{"thrown"}, {"shrunk"}}
      BY <2>1, <2>6, <2>8, <2>13
    <3>2. QED  BY <2>7, <2>9, <2>10, <2>11, <3>1, Settles
  <2>14. QED  BY <2>12, <2>13
<1>5. QED  BY <1>2, <1>3, <1>4

\* A Json array reads as the list of what was put into it, whatever holes it has and however
\* long it is; where it does not, only nulls are missing or too many.
THEOREM ArraysReadAsLists == Array!Spec => []ReadsAsList
<1>0. MaxElements \in Nat  BY PartsAssumption
<1>1. Array!Init => ArrayInv
  <2> SUFFICES ASSUME Array!Init PROVE ArrayInv
    OBVIOUS
  <2>1. val_value = [type |-> "null", atom |-> 0, map |-> <<>>] /\ val_list = <<>> /\ val_odd = {}
    BY DEF Array!Init, Array!Null, Array!Scalar
  <2>2. Array!Keys(val_value) = {}  BY <2>1 DEF Array!Keys
  <2>3. ArrayShaped(val_value)  BY <2>1, <2>2 DEF ArrayShaped
  <2>4. Array!Size(val_value) = 0  BY <1>0, <2>2, <2>3, SizeOnly
  <2>5. val_list \in Seq(Element) /\ Len(val_list) = 0  BY <2>1
  <2>6. Matches(val_value, val_list)  BY <2>4, <2>5 DEF Matches
  <2>7. /\ Reading(val_value) = val_list
        /\ \A i \in Len(val_list) .. MaxElements : Array!Find(val_value, i) = Array!Null
    BY <1>0, <2>3, <2>5, <2>6, ReadsSame
  <2>8. ReadsAsList  BY <2>1, <2>7 DEF ReadsAsList, Array!ReadsAsList, Reading
  <2>9. QED  BY <1>0, <2>3, <2>5, <2>6, <2>8 DEF ArrayInv
<1>2. ArrayInv /\ [Array!Next]_(Array!vars) => ArrayInv'
  <2>1. ASSUME ArrayInv, Array!Next PROVE ArrayInv'
    BY <1>0, <2>1, ElementKeeps, EmptyKeeps, ResizeKeeps, RemoveKeeps DEF Array!Next
  <2>2. ASSUME ArrayInv, UNCHANGED Array!vars PROVE ArrayInv'
    BY <2>2 DEF ArrayInv, Array!vars, ArrayShaped, Matches, ReadsAsList, Array!ReadsAsList
  <2>3. QED  BY <2>1, <2>2
<1>3. ArrayInv => ReadsAsList  BY DEF ArrayInv
<1>4. QED  BY <1>1, <1>2, <1>3, PTL DEF Array!Spec

=============================================================================
