--------------------------- MODULE PublishProofs ---------------------------
(***************************************************************************)
(* Client and session agree who publishes, nobody is shown frames while    *)
(* publishing, and one publishes at a time, the one who was started last,  *)
(* for any users, connections and messages under way.                      *)
(***************************************************************************)
EXTENDS Publish, FiniteSetTheorems, SequenceTheorems, TLAPS

OutMsg == [kind : {"Connect", "Start", "Stop", "Frame"}, user : User, pub : BOOLEAN]
InMsg == [kind : {"Start", "Stop", "Frame"}, user : {NoUser}, pub : {FALSE}]
Connection == [conn : Conn, user : User, pub : BOOLEAN]

Shape ==
  /\ made \in 0 .. MaxConn /\ link \in [User -> 0 .. made]
  /\ own \in [User -> BOOLEAN] /\ half \in [User -> User \cup {NoUser}]
  /\ out \in [Conn -> Seq(OutMsg)] /\ inbox \in [User -> Seq(InMsg)]
  /\ table \in Seq(Connection)

\* A connection is one client's, and in the table once, under its name.
Owned ==
  /\ \A u, v \in User : link[u] # 0 /\ link[u] = link[v] => u = v
  /\ \A i \in DOMAIN table : table[i].conn <= made
  /\ \A i, j \in DOMAIN table : table[i].conn = table[j].conn => i = j
  /\ \A i \in DOMAIN table, u \in User : table[i].conn = link[u] => table[i].user = u

\* A Connect comes first and once, and says what is still so when it is handled.
Introduced ==
  /\ \A c \in Conn : c > made => out[c] = <<>>
  /\ \A c \in Conn : \A j \in 1 .. Len(out[c]) :
       out[c][j].kind = "Connect" => j = 1 /\ ~Known(c)
  /\ \A u \in User :
       link[u] # 0 /\ Len(out[link[u]]) > 0 /\ out[link[u]][1].kind = "Connect"
         => out[link[u]][1].user = u /\ out[link[u]][1].pub = own[u]

\* Nothing is under way to a client that is not in the table.
Reached ==
  \A u \in User : Len(inbox[u]) > 0 => \E i \in DOMAIN table : table[i].conn = link[u]

\* Having handled the first n messages of q, a client that publishes iff o does
\* so iff b.
Says(q, o, n, b) ==
  \/ (\A j \in 1 .. n : q[j].kind = "Frame") /\ (o <=> b)
  \/ \E j \in 1 .. n :
       /\ q[j].kind # "Frame" /\ (q[j].kind = "Start" <=> b)
       /\ \A k \in (j + 1) .. n : q[k].kind = "Frame"

\* What the session has marked is what the client will do.
Agreed ==
  \A u \in User, i \in DOMAIN table :
    table[i].conn = link[u] => Says(inbox[u], own[u], Len(inbox[u]), table[i].pub)

\* Every frame finds the client not publishing.
Shown ==
  \A u \in User : \A j \in 1 .. Len(inbox[u]) :
    inbox[u][j].kind = "Frame" => Says(inbox[u], own[u], j - 1, FALSE)

IInv == Shape /\ Owned /\ Introduced /\ Reached /\ Agreed /\ Shown

-----------------------------------------------------------------------------
(* Sequences of messages. *)

\* A message behind the first n does not change what they say.
LEMMA SaysAppend ==
  ASSUME NEW q \in Seq(InMsg), NEW m \in InMsg, NEW o \in BOOLEAN, NEW b \in BOOLEAN,
         NEW n \in 0 .. Len(q), Says(q, o, n, b)
  PROVE  Says(Append(q, m), o, n, b)
<1>1. \A j \in 1 .. n : Append(q, m)[j] = q[j]  OBVIOUS
<1>2. QED  BY <1>1 DEF Says

\* A frame says nothing.
LEMMA SaysFrame ==
  ASSUME NEW q \in Seq(InMsg), NEW m \in InMsg, NEW o \in BOOLEAN, NEW b \in BOOLEAN,
         Says(q, o, Len(q), b), m.kind = "Frame"
  PROVE  Says(Append(q, m), o, Len(Append(q, m)), b)
<1>1. \A j \in 1 .. Len(q) : Append(q, m)[j] = q[j]  OBVIOUS
<1>2. Len(Append(q, m)) = Len(q) + 1 /\ Append(q, m)[Len(q) + 1] = m /\ Len(q) \in Nat  OBVIOUS
<1>3. \A j \in 1 .. Len(q) + 1 : j \in 1 .. Len(q) \/ j = Len(q) + 1  BY <1>2
<1>4. CASE (\A j \in 1 .. Len(q) : q[j].kind = "Frame") /\ (o <=> b)
  BY <1>1, <1>2, <1>3, <1>4 DEF Says
<1>5. CASE \E j \in 1 .. Len(q) :
             /\ q[j].kind # "Frame" /\ (q[j].kind = "Start" <=> b)
             /\ \A k \in (j + 1) .. Len(q) : q[k].kind = "Frame"
  <2>1. PICK j \in 1 .. Len(q) :
             /\ q[j].kind # "Frame" /\ (q[j].kind = "Start" <=> b)
             /\ \A k \in (j + 1) .. Len(q) : q[k].kind = "Frame"
    BY <1>5
  <2>2. \A k \in (j + 1) .. Len(q) + 1 : Append(q, m)[k].kind = "Frame"
    BY <2>1, <1>1, <1>2, <1>3
  <2>3. j \in 1 .. Len(q) + 1  BY <1>2
  <2>4. QED  BY <2>1, <2>2, <2>3, <1>1, <1>2 DEF Says
<1>6. QED  BY <1>4, <1>5 DEF Says

\* A start or a stop says all.
LEMMA SaysControl ==
  ASSUME NEW q \in Seq(InMsg), NEW m \in InMsg, NEW o \in BOOLEAN, NEW b \in BOOLEAN,
         m.kind # "Frame", m.kind = "Start" <=> b
  PROVE  Says(Append(q, m), o, Len(Append(q, m)), b)
<1>1. Len(Append(q, m)) = Len(q) + 1 /\ Append(q, m)[Len(q) + 1] = m /\ Len(q) \in Nat  OBVIOUS
<1>2. QED  BY <1>1 DEF Says

\* Handling the first message leaves the rest to say the same.
LEMMA SaysTail ==
  ASSUME NEW q \in Seq(InMsg), q # <<>>, NEW o \in BOOLEAN, NEW b \in BOOLEAN, NEW p \in BOOLEAN,
         NEW n \in 1 .. Len(q), Says(q, o, n, b),
         Head(q).kind = "Frame" => p = o,
         Head(q).kind # "Frame" => (p <=> Head(q).kind = "Start")
  PROVE  Says(Tail(q), p, n - 1, b)
<1>1. /\ Len(Tail(q)) = Len(q) - 1 /\ Len(q) \in Nat /\ Head(q) = q[1]
      /\ \A j \in 1 .. Len(q) - 1 : Tail(q)[j] = q[j + 1]
  OBVIOUS
<1>2. CASE (\A j \in 1 .. n : q[j].kind = "Frame") /\ (o <=> b)
  <2>1. \A j \in 1 .. n - 1 : Tail(q)[j].kind = "Frame"
    <3>1. TAKE j \in 1 .. n - 1
    <3>2. j + 1 \in 1 .. n /\ j \in 1 .. Len(q) - 1  BY <1>1
    <3>3. QED  BY <3>2, <1>1, <1>2
  <2>2. p = o  BY <1>1, <1>2
  <2>3. QED  BY <2>1, <2>2, <1>2 DEF Says
<1>3. CASE \E j \in 1 .. n :
             /\ q[j].kind # "Frame" /\ (q[j].kind = "Start" <=> b)
             /\ \A k \in (j + 1) .. n : q[k].kind = "Frame"
  <2>1. PICK j \in 1 .. n :
             /\ q[j].kind # "Frame" /\ (q[j].kind = "Start" <=> b)
             /\ \A k \in (j + 1) .. n : q[k].kind = "Frame"
    BY <1>3
  <2>2. \A k \in j .. n - 1 : Tail(q)[k].kind = "Frame"
    <3>1. TAKE k \in j .. n - 1
    <3>2. k + 1 \in (j + 1) .. n /\ k \in 1 .. Len(q) - 1  BY <1>1
    <3>3. QED  BY <3>2, <1>1, <2>1
  <2>3. CASE j = 1
    <3>1. p <=> b  BY <2>1, <2>3, <1>1
    <3>2. QED  BY <2>2, <2>3, <3>1 DEF Says
  <2>4. CASE j # 1
    <3>1. j - 1 \in 1 .. n - 1 /\ j - 1 \in 1 .. Len(q) - 1 /\ (j - 1) + 1 = j  BY <2>4, <1>1
    <3>2. Tail(q)[j - 1] = q[j]  BY <3>1, <1>1
    <3>3. QED  BY <3>1, <3>2, <2>1, <2>2 DEF Says
  <2>5. QED  BY <2>3, <2>4
<1>4. QED  BY <1>2, <1>3 DEF Says

-----------------------------------------------------------------------------
(* The table and the queues. *)

\* Indexes of the table and of the queues.
LEMMA Indexes ==
  ASSUME Shape
  PROVE  /\ Len(table) \in Nat /\ DOMAIN table = 1 .. Len(table)
         /\ \A i \in DOMAIN table : table[i] \in Connection
         /\ \A u \in User : inbox[u] \in Seq(InMsg) /\ Len(inbox[u]) \in Nat
         /\ \A c \in Conn : out[c] \in Seq(OutMsg) /\ Len(out[c]) \in Nat
         /\ \A u \in User : link[u] \in 0 .. made
BY DEF Shape

\* Only the marks of the table change: the books stay in order.
LEMMA BooksKept ==
  ASSUME IInv, UNCHANGED <<link, made>>, table' \in Seq(Connection), DOMAIN table' = DOMAIN table,
         \A i \in DOMAIN table : table'[i].conn = table[i].conn /\ table'[i].user = table[i].user
  PROVE  Owned' /\ \A c \in Conn : Known(c)' <=> Known(c)
<1>1. \A c \in Conn : Known(c)' <=> Known(c)  BY DEF Known
<1>2. Owned'  BY DEF IInv, Owned
<1>3. QED  BY <1>1, <1>2

\* A write reaches exactly those who should have it.
LEMMA RelayEffect ==
  ASSUME Shape, NEW m \in InMsg, NEW E \in SUBSET (DOMAIN table), Relays(m, E)
  PROVE  /\ inbox' \in [User -> Seq(InMsg)]
         /\ \A u \in User :
              IF \E i \in E : table[i].user = u /\ Reaches(i)
              THEN inbox'[u] = Append(inbox[u], m) ELSE inbox'[u] = inbox[u]
<1> DEFINE to == {table[i].user : i \in {j \in E : Reaches(j)}}
<1>1. inbox' = [u \in User |-> IF u \in to THEN Append(inbox[u], m) ELSE inbox[u]]
  BY DEF Relays
<1>2. \A u \in User : u \in to <=> \E i \in E : table[i].user = u /\ Reaches(i)  OBVIOUS
<1>3. \A u \in User : inbox[u] \in Seq(InMsg) /\ Append(inbox[u], m) \in Seq(InMsg)
  BY DEF Shape
<1> HIDE DEF to
<1>4. inbox' \in [User -> Seq(InMsg)]  BY <1>1, <1>3
<1>5. QED  BY <1>1, <1>2, <1>4

\* A message handled was sent by a client that has connected.
LEMMA TakeEffect ==
  ASSUME Shape, Introduced, NEW c \in Conn, NEW kind, Takes(c, kind)
  PROVE  /\ out' \in [Conn -> Seq(OutMsg)] /\ c <= made
         /\ out[c] # <<>> /\ Len(out[c]) > 0 /\ Head(out[c]) = out[c][1]
         /\ Head(out[c]) \in OutMsg /\ Head(out[c]).kind = kind
         /\ out' = [out EXCEPT ![c] = Tail(out[c])]
         /\ \A d \in Conn : out'[d] # out[d] => d = c
         /\ \A j \in 1 .. Len(out'[c]) : out'[c][j].kind # "Connect"
<1>1. out[c] \in Seq(OutMsg) /\ out[c] # <<>> /\ Head(out[c]).kind = kind
      /\ out' = [out EXCEPT ![c] = Tail(out[c])]
  BY DEF Takes, Shape
<1>2. /\ Tail(out[c]) \in Seq(OutMsg) /\ Head(out[c]) = out[c][1] /\ Head(out[c]) \in OutMsg
      /\ Len(out[c]) \in Nat /\ Len(out[c]) > 0 /\ Len(Tail(out[c])) = Len(out[c]) - 1
      /\ \A j \in 1 .. Len(out[c]) - 1 : Tail(out[c])[j] = out[c][j + 1]
  BY <1>1
<1>3. out'[c] = Tail(out[c]) /\ out' \in [Conn -> Seq(OutMsg)]
      /\ \A d \in Conn : d # c => out'[d] = out[d]
  BY <1>1, <1>2 DEF Shape
<1>4. c <= made  BY <1>1, PublishAssumption DEF Introduced, Conn, Shape
<1>5. \A j \in 1 .. Len(out'[c]) : out'[c][j].kind # "Connect"
  <2>1. TAKE j \in 1 .. Len(out'[c])
  <2>2. j + 1 \in 1 .. Len(out[c]) /\ j \in 1 .. Len(out[c]) - 1 /\ j + 1 # 1  BY <1>2, <1>3
  <2>3. out'[c][j] = out[c][j + 1]  BY <2>2, <1>2, <1>3
  <2>4. QED  BY <2>2, <2>3 DEF Introduced
<1>6. QED  BY <1>1, <1>2, <1>3, <1>4, <1>5

\* Handling a message leaves every client introduced as before.
LEMMA TakeIntroduced ==
  ASSUME Shape, Introduced, NEW c \in Conn, NEW kind, Takes(c, kind),
         \A d \in Conn : d # c => (Known(d)' <=> Known(d))
  PROVE  Introduced'
<1>1. UNCHANGED <<link, made, own>>  BY DEF Takes, client
<1>2. /\ \A d \in Conn : d # c => out'[d] = out[d]
      /\ c <= made /\ Len(out[c]) > 0
      /\ \A j \in 1 .. Len(out'[c]) : out'[c][j].kind # "Connect"
      /\ out' \in [Conn -> Seq(OutMsg)]
  BY TakeEffect
<1>3. \A d \in Conn : d > made' => out'[d] = <<>>
  BY <1>1, <1>2 DEF Introduced, Conn, Shape
<1>4. \A d \in Conn : \A j \in 1 .. Len(out'[d]) :
        out'[d][j].kind = "Connect" => j = 1 /\ ~Known(d)'
  BY <1>2 DEF Introduced
<1>5. \A u \in User :
        link'[u] # 0 /\ Len(out'[link'[u]]) > 0 /\ out'[link'[u]][1].kind = "Connect"
          => out'[link'[u]][1].user = u /\ out'[link'[u]][1].pub = own'[u]
  <2>1. TAKE u \in User
  <2>2. CASE link[u] = c
    <3>1. Len(out'[c]) > 0 => 1 \in 1 .. Len(out'[c])  BY <1>2
    <3>2. QED  BY <3>1, <2>2, <1>1, <1>2
  <2>3. CASE link[u] # c /\ link[u] # 0
    <3>1. link[u] \in Conn  BY <2>3, PublishAssumption DEF Shape, Conn
    <3>2. QED  BY <3>1, <2>3, <1>1, <1>2 DEF Introduced
  <2>4. QED  BY <2>2, <2>3, <1>1
<1>6. QED  BY <1>3, <1>4, <1>5 DEF Introduced

-----------------------------------------------------------------------------
(* One lemma per kind of step. *)

\* A client sends: its queue has one message more, and that is not a Connect.
LEMMA SendKeeps ==
  ASSUME IInv, NEW u \in User, NEW m \in OutMsg, m.kind # "Connect", Send(u, m),
         half' \in [User -> User \cup {NoUser}], UNCHANGED <<link, made, own, inbox, table>>
  PROVE  IInv'
<1>1. CASE link[u] = 0
  <2>1. UNCHANGED out  BY <1>1 DEF Send
  <2>2. Shape' /\ Owned' /\ Introduced'
    BY <2>1 DEF IInv, Shape, Owned, Introduced, Known
  <2>3. Reached' /\ Agreed' /\ Shown'  BY DEF IInv, Reached, Agreed, Shown, Says
  <2>4. QED  BY <2>2, <2>3 DEF IInv
<1>2. CASE link[u] # 0
  <2>1. link[u] \in Conn /\ link[u] <= made
    BY <1>2, PublishAssumption DEF IInv, Shape, Conn
  <2>2. out' = [out EXCEPT ![link[u]] = Append(@, m)]  BY <1>2 DEF Send
  <2>3. /\ out[link[u]] \in Seq(OutMsg) /\ Len(out[link[u]]) \in Nat
        /\ out'[link[u]] = Append(out[link[u]], m)
        /\ \A c \in Conn : c # link[u] => out'[c] = out[c]
    BY <2>1, <2>2 DEF IInv, Shape
  <2>4. /\ Append(out[link[u]], m) \in Seq(OutMsg)
        /\ Len(Append(out[link[u]], m)) = Len(out[link[u]]) + 1
        /\ Append(out[link[u]], m)[Len(out[link[u]]) + 1] = m
        /\ \A j \in 1 .. Len(out[link[u]]) : Append(out[link[u]], m)[j] = out[link[u]][j]
    BY <2>3
  <2>5. out' \in [Conn -> Seq(OutMsg)]  BY <2>1, <2>2, <2>4 DEF IInv, Shape
  <2>6. Introduced'
    <3>1. \A c \in Conn : c > made' => out'[c] = <<>>
      BY <2>1, <2>3 DEF IInv, Introduced, Shape, Conn
    <3>2. \A c \in Conn : \A j \in 1 .. Len(out'[c]) :
            out'[c][j].kind = "Connect" => j = 1 /\ ~Known(c)'
      <4>1. TAKE c \in Conn
      <4>2. Known(c)' <=> Known(c)  BY DEF Known
      <4>3. CASE c # link[u]
        BY <4>2, <4>3, <2>3 DEF IInv, Introduced
      <4>4. CASE c = link[u]
        <5>1. TAKE j \in 1 .. Len(out'[c])
        <5>2. CASE j = Len(out[c]) + 1  BY <5>2, <4>4, <2>3, <2>4
        <5>3. CASE j # Len(out[c]) + 1
          <6>1. j \in 1 .. Len(out[c]) /\ out'[c][j] = out[c][j]  BY <5>3, <4>4, <2>3, <2>4
          <6>2. QED  BY <6>1, <4>2 DEF IInv, Introduced
        <5>4. QED  BY <5>2, <5>3
      <4>5. QED  BY <4>3, <4>4
    <3>3. \A v \in User :
            link'[v] # 0 /\ Len(out'[link'[v]]) > 0 /\ out'[link'[v]][1].kind = "Connect"
              => out'[link'[v]][1].user = v /\ out'[link'[v]][1].pub = own'[v]
      <4>1. TAKE v \in User
      <4>2. CASE link[v] # link[u] /\ link[v] # 0
        <5>1. link[v] \in Conn  BY <4>2, PublishAssumption DEF IInv, Shape, Conn
        <5>2. QED  BY <5>1, <4>2, <2>3 DEF IInv, Introduced
      <4>3. CASE link[v] = link[u]
        <5>1. CASE Len(out[link[u]]) = 0  BY <5>1, <4>3, <2>3, <2>4
        <5>2. CASE Len(out[link[u]]) > 0
          <6>1. out'[link[u]][1] = out[link[u]][1]  BY <5>2, <2>3, <2>4
          <6>2. QED  BY <6>1, <5>2, <4>3 DEF IInv, Introduced
        <5>3. QED  BY <5>1, <5>2, <2>3
      <4>4. QED  BY <4>2, <4>3
    <3>4. QED  BY <3>1, <3>2, <3>3 DEF Introduced
  <2>7. Shape'  BY <2>5 DEF IInv, Shape
  <2>8. Owned' /\ Reached' /\ Agreed' /\ Shown'
    BY DEF IInv, Owned, Reached, Agreed, Shown, Says
  <2>9. QED  BY <2>6, <2>7, <2>8 DEF IInv
<1>3. QED  BY <1>1, <1>2

\* A client connects: nothing was under way to it, and the number is new.
LEMMA ConnectsKeeps ==
  ASSUME IInv, NEW u \in User, Connects(u)
  PROVE  IInv'
<1>0. /\ link[u] = 0 /\ made < MaxConn /\ made' = made + 1 /\ made \in Nat
      /\ link' = [link EXCEPT ![u] = made + 1]
      /\ out' = [out EXCEPT ![made + 1] = <<Msg("Connect", u, own[u])>>]
      /\ UNCHANGED <<own, half, inbox, table>>
      /\ made + 1 \in Conn
  BY PublishAssumption DEF Connects, IInv, Shape, Conn
<1>1. /\ link'[u] = made + 1 /\ \A v \in User : v # u => link'[v] = link[v]
      /\ \A v \in User : link[v] \in 0 .. made
      /\ \A i \in DOMAIN table : table[i].conn <= made /\ table[i].conn \in Conn
      /\ made + 1 > made
  BY <1>0, Indexes DEF IInv, Shape, Owned, Connection
<1>2. /\ out'[made + 1] = <<Msg("Connect", u, own[u])>>
      /\ Msg("Connect", u, own[u]) \in OutMsg
      /\ \A c \in Conn : c # made + 1 => out'[c] = out[c]
  BY <1>0 DEF IInv, Shape, Msg, OutMsg
<1>3. inbox[u] = <<>>
  <2>1. \A i \in DOMAIN table : table[i].conn # link[u]  BY <1>0, <1>1 DEF Conn
  <2>2. ~(Len(inbox[u]) > 0)  BY <2>1 DEF IInv, Reached
  <2>3. QED  BY <2>2, Indexes DEF IInv
<1>4. Shape'
  <2>1. <<Msg("Connect", u, own[u])>> \in Seq(OutMsg)  BY <1>2
  <2>2. out' \in [Conn -> Seq(OutMsg)]  BY <2>1, <1>0 DEF IInv, Shape
  <2>3. link' \in [User -> 0 .. made'] /\ made' \in 0 .. MaxConn
    BY <1>0, PublishAssumption DEF IInv, Shape
  <2>4. QED  BY <2>2, <2>3, <1>0 DEF IInv, Shape
<1>5. Owned'
  BY <1>0, <1>1, Indexes DEF IInv, Owned, Conn
<1>6. Introduced'
  <2>1. \A c \in Conn : c > made' => out'[c] = <<>>
    BY <1>0, <1>2 DEF IInv, Introduced, Conn
  <2>2. \A c \in Conn : \A j \in 1 .. Len(out'[c]) :
          out'[c][j].kind = "Connect" => j = 1 /\ ~Known(c)'
    BY <1>0, <1>1, <1>2 DEF IInv, Introduced, Known
  <2>3. \A v \in User :
          link'[v] # 0 /\ Len(out'[link'[v]]) > 0 /\ out'[link'[v]][1].kind = "Connect"
            => out'[link'[v]][1].user = v /\ out'[link'[v]][1].pub = own'[v]
    <3>1. TAKE v \in User
    <3>2. CASE v = u  BY <3>2, <1>0, <1>1, <1>2 DEF Msg
    <3>3. CASE v # u /\ link[v] # 0
      <4>1. link[v] \in Conn /\ link[v] # made + 1
        BY <3>3, <1>1, PublishAssumption, <1>0 DEF Conn, IInv, Shape
      <4>2. QED  BY <4>1, <3>3, <1>0, <1>1, <1>2 DEF IInv, Introduced
    <3>4. QED  BY <3>2, <3>3, <1>1
  <2>4. QED  BY <2>1, <2>2, <2>3 DEF Introduced
<1>7. Reached'  BY <1>0, <1>1, <1>3 DEF IInv, Reached
<1>8. Agreed'
  <2>1. \A i \in DOMAIN table : table[i].conn # link'[u]  BY <1>1, <1>0 DEF Conn
  <2>2. QED  BY <2>1, <1>0, <1>1 DEF IInv, Agreed
<1>9. Shown'  BY <1>0 DEF IInv, Shown
<1>10. QED  BY <1>4, <1>5, <1>6, <1>7, <1>8, <1>9 DEF IInv

\* A connection drops: what it had on the way is gone on one side at least.
LEMMA DropsKeeps ==
  ASSUME IInv, NEW u \in User, Drops(u)
  PROVE  IInv'
<1>0. /\ link[u] # 0 /\ link' = [link EXCEPT ![u] = 0]
      /\ inbox' = [inbox EXCEPT ![u] = <<>>]
      /\ out' \in {out, [out EXCEPT ![link[u]] = <<>>]}
      /\ UNCHANGED <<made, own, half, table>>
  BY DEF Drops
<1>a. /\ link \in [User -> 0 .. made] /\ inbox \in [User -> Seq(InMsg)]
      /\ out \in [Conn -> Seq(OutMsg)] /\ made \in Nat /\ made <= MaxConn
  BY PublishAssumption DEF IInv, Shape
<1>1. /\ link'[u] = 0 /\ \A v \in User : v # u => link'[v] = link[v] /\ inbox'[v] = inbox[v]
      /\ inbox'[u] = <<>> /\ Len(inbox'[u]) = 0
      /\ link[u] \in Conn /\ \A v \in User : link[v] \in 0 .. made
      /\ \A i \in DOMAIN table : table[i].conn \in Conn
      /\ made \in Nat
  <2>1. link'[u] = 0 /\ \A v \in User : v # u => link'[v] = link[v]  BY <1>0, <1>a
  <2>2. inbox'[u] = <<>> /\ \A v \in User : v # u => inbox'[v] = inbox[v]  BY <1>0, <1>a
  <2>3. Len(inbox'[u]) = 0  BY <2>2
  <2>4. link[u] \in Conn /\ \A v \in User : link[v] \in 0 .. made
    BY <1>0, <1>a, PublishAssumption DEF Conn
  <2>5. \A i \in DOMAIN table : table[i].conn \in Conn  BY Indexes DEF IInv, Connection
  <2>6. QED  BY <2>1, <2>2, <2>3, <2>4, <2>5, <1>a
<1>2. \A c \in Conn : out'[c] = out[c] \/ out'[c] = <<>>
  BY <1>0, <1>1 DEF IInv, Shape
<1>3. Shape'
  <2>0. <<>> \in Seq(OutMsg) /\ <<>> \in Seq(InMsg)  OBVIOUS
  <2>1. out' \in [Conn -> Seq(OutMsg)] /\ inbox' \in [User -> Seq(InMsg)]
    BY <2>0, <1>0, <1>a
  <2>2. link' \in [User -> 0 .. made]  BY <1>0, <1>1 DEF IInv, Shape
  <2>3. QED  BY <2>1, <2>2, <1>0 DEF IInv, Shape
<1>4. Owned'  BY <1>0, <1>1 DEF IInv, Owned, Conn
<1>5. Introduced'
  <2>1. \A c \in Conn : c > made' => out'[c] = <<>>
    BY <1>0, <1>2 DEF IInv, Introduced
  <2>2. \A c \in Conn : \A j \in 1 .. Len(out'[c]) :
          out'[c][j].kind = "Connect" => j = 1 /\ ~Known(c)'
    BY <1>0, <1>2 DEF IInv, Introduced, Known
  <2>3. \A v \in User :
          link'[v] # 0 /\ Len(out'[link'[v]]) > 0 /\ out'[link'[v]][1].kind = "Connect"
            => out'[link'[v]][1].user = v /\ out'[link'[v]][1].pub = own'[v]
    <3>1. TAKE v \in User
    <3>2. CASE v # u /\ link[v] # 0
      <4>1. link[v] \in Conn  BY <3>2, <1>1, PublishAssumption DEF Conn, IInv, Shape
      <4>2. QED  BY <4>1, <3>2, <1>0, <1>1, <1>2 DEF IInv, Introduced
    <3>3. QED  BY <3>2, <1>1
  <2>4. QED  BY <2>1, <2>2, <2>3 DEF Introduced
<1>6. Reached'  BY <1>0, <1>1 DEF IInv, Reached
<1>7. Agreed'
  <2>1. \A i \in DOMAIN table : table[i].conn # link'[u]  BY <1>1 DEF Conn
  <2>2. QED  BY <2>1, <1>0, <1>1 DEF IInv, Agreed
<1>8. Shown'
  <2>1. \A v \in User : v # u => inbox'[v] = inbox[v] /\ own'[v] = own[v]  BY <1>0, <1>1
  <2>2. \A j \in 1 .. Len(inbox'[u]) : FALSE  BY <1>1
  <2>3. QED  BY <2>1, <2>2 DEF IInv, Shown
<1>9. QED  BY <1>3, <1>4, <1>5, <1>6, <1>7, <1>8 DEF IInv

\* A client handles a message as Says counts it.
LEMMA ReceivesKeeps ==
  ASSUME IInv, NEW u \in User, NEW kind, Receives(u, kind), NEW p \in BOOLEAN,
         own' = [own EXCEPT ![u] = p],
         kind = "Frame" => p = own[u], kind # "Frame" => (p <=> kind = "Start")
  PROVE  IInv'
<1>0. /\ inbox[u] # <<>> /\ Head(inbox[u]).kind = kind
      /\ inbox' = [inbox EXCEPT ![u] = Tail(inbox[u])]
      /\ UNCHANGED <<link, made, half, out, table>>
  BY DEF Receives
<1>1. /\ inbox[u] \in Seq(InMsg) /\ Len(inbox[u]) \in Nat /\ Len(inbox[u]) > 0
      /\ Tail(inbox[u]) \in Seq(InMsg) /\ Len(Tail(inbox[u])) = Len(inbox[u]) - 1
      /\ \A j \in 1 .. Len(inbox[u]) - 1 : Tail(inbox[u])[j] = inbox[u][j + 1]
      /\ inbox'[u] = Tail(inbox[u]) /\ own[u] \in BOOLEAN /\ own'[u] = p
      /\ \A v \in User : v # u => inbox'[v] = inbox[v] /\ own'[v] = own[v]
  BY <1>0 DEF IInv, Shape
<1>2. PICK t \in DOMAIN table : table[t].conn = link[u]
  BY <1>1 DEF IInv, Reached
<1>3. link[u] \in Conn  BY <1>2, Indexes DEF IInv, Connection
<1>4. Shape'  BY <1>0, <1>1 DEF IInv, Shape
<1>5. Owned'  BY <1>0 DEF IInv, Owned
<1>6. Introduced'
  <2>1. Len(out[link[u]]) > 0 => out[link[u]][1].kind # "Connect"
    <3>1. Known(link[u])  BY <1>2 DEF Known
    <3>2. Len(out[link[u]]) \in Nat  BY <1>3, Indexes DEF IInv
    <3>3. QED  BY <3>1, <3>2, <1>3 DEF IInv, Introduced
  <2>2. \A v \in User :
          link'[v] # 0 /\ Len(out'[link'[v]]) > 0 /\ out'[link'[v]][1].kind = "Connect"
            => out'[link'[v]][1].user = v /\ out'[link'[v]][1].pub = own'[v]
    BY <2>1, <1>0, <1>1 DEF IInv, Introduced
  <2>3. \A c \in Conn : c > made' => out'[c] = <<>>
    BY <1>0 DEF IInv, Introduced
  <2>4. \A c \in Conn : \A j \in 1 .. Len(out'[c]) :
          out'[c][j].kind = "Connect" => j = 1 /\ ~Known(c)'
    BY <1>0 DEF IInv, Introduced, Known
  <2>5. QED  BY <2>2, <2>3, <2>4 DEF Introduced
<1>7. Reached'  BY <1>0, <1>1, <1>2 DEF IInv, Reached
<1>8. Agreed'
  <2>1. SUFFICES ASSUME NEW v \in User, NEW i \in DOMAIN table, table[i].conn = link[v]
                 PROVE  Says(inbox'[v], own'[v], Len(inbox'[v]), table[i].pub)
    BY <1>0 DEF Agreed
  <2>2. Says(inbox[v], own[v], Len(inbox[v]), table[i].pub)  BY <2>1 DEF IInv, Agreed
  <2>3. CASE v # u  BY <2>2, <2>3, <1>1
  <2>4. CASE v = u
    <3>1. table[i].pub \in BOOLEAN  BY Indexes DEF IInv, Connection
    <3>2. Len(inbox[u]) \in 1 .. Len(inbox[u])  BY <1>1
    <3>3. Says(Tail(inbox[u]), p, Len(inbox[u]) - 1, table[i].pub)
      BY <2>2, <2>4, <3>1, <3>2, <1>0, <1>1, SaysTail
    <3>4. QED  BY <3>3, <2>4, <1>1
  <2>5. QED  BY <2>3, <2>4
<1>9. Shown'
  <2>1. SUFFICES ASSUME NEW v \in User, NEW j \in 1 .. Len(inbox'[v]), inbox'[v][j].kind = "Frame"
                 PROVE  Says(inbox'[v], own'[v], j - 1, FALSE)
    BY DEF Shown
  <2>2. CASE v # u  BY <2>1, <2>2, <1>1 DEF IInv, Shown
  <2>3. CASE v = u
    <3>1. j \in 1 .. Len(inbox[u]) - 1 /\ j + 1 \in 1 .. Len(inbox[u])
          /\ j \in 1 .. Len(inbox[u]) /\ (j + 1) - 1 = j
      BY <2>3, <1>1
    <3>2. inbox[u][j + 1].kind = "Frame"  BY <3>1, <2>1, <2>3, <1>1
    <3>3. Says(inbox[u], own[u], j, FALSE)  BY <3>1, <3>2 DEF IInv, Shown
    <3>4. Says(Tail(inbox[u]), p, j - 1, FALSE)  BY <3>3, <3>1, <1>0, <1>1, SaysTail
    <3>5. QED  BY <3>4, <2>3, <1>1
  <2>4. QED  BY <2>2, <2>3
<1>10. QED  BY <1>4, <1>5, <1>6, <1>7, <1>8, <1>9 DEF IInv

\* The session takes a Connect: the entry says what the client does.
LEMMA OpenedKeeps ==
  ASSUME IInv, NEW c \in Conn, on_connection_opened(c)
  PROVE  IInv'
<1> DEFINE n == [conn |-> c, user |-> Head(out[c]).user, pub |-> Head(out[c]).pub]
<1>0. Takes(c, "Connect") /\ table' = Append(table, n) /\ UNCHANGED inbox
      /\ UNCHANGED <<link, made, own, half>>
  BY DEF on_connection_opened, Takes, client
<1>1. /\ out' \in [Conn -> Seq(OutMsg)] /\ c <= made /\ Len(out[c]) > 0
      /\ Head(out[c]) = out[c][1] /\ Head(out[c]) \in OutMsg /\ Head(out[c]).kind = "Connect"
  BY <1>0, TakeEffect DEF IInv
<1>2. /\ n \in Connection /\ Len(table) \in Nat /\ DOMAIN table = 1 .. Len(table)
      /\ n.conn = c /\ n.user = Head(out[c]).user /\ n.pub = Head(out[c]).pub
  BY <1>1, Indexes DEF IInv, OutMsg, Connection
<1> HIDE DEF n
<1>3. /\ table' \in Seq(Connection) /\ DOMAIN table' = 1 .. Len(table) + 1
      /\ table'[Len(table) + 1] = n
      /\ \A i \in DOMAIN table : table'[i] = table[i] /\ i \in DOMAIN table'
      /\ \A i \in DOMAIN table' : i \in DOMAIN table \/ i = Len(table) + 1
  BY <1>0, <1>2 DEF IInv, Shape
<1>4. ~Known(c)
  <2>1. 1 \in 1 .. Len(out[c])  BY <1>1, Indexes DEF IInv
  <2>2. QED  BY <2>1, <1>1 DEF IInv, Introduced
<1>5. \A d \in Conn : d # c => (Known(d)' <=> Known(d))
  BY <1>2, <1>3 DEF Known
<1>6. \A u \in User : link[u] = c =>
        n.user = u /\ n.pub = own[u] /\ inbox[u] = <<>>
  <2>1. SUFFICES ASSUME NEW u \in User, link[u] = c
                 PROVE  n.user = u /\ n.pub = own[u] /\ inbox[u] = <<>>
    OBVIOUS
  <2>2. c # 0  BY DEF Conn
  <2>3. n.user = u /\ n.pub = own[u]  BY <2>1, <2>2, <1>1, <1>2 DEF IInv, Introduced
  <2>4. ~(Len(inbox[u]) > 0)  BY <2>1, <1>4 DEF IInv, Reached, Known
  <2>5. QED  BY <2>3, <2>4, Indexes DEF IInv
<1>7. Shape'  BY <1>0, <1>1, <1>3 DEF IInv, Shape
<1>8. Owned'
  <2>1. \A i \in DOMAIN table : table[i].conn # c  BY <1>4 DEF Known
  <2>2. \A i \in DOMAIN table' : table'[i].conn <= made'
    BY <1>0, <1>1, <1>2, <1>3 DEF IInv, Owned
  <2>3. \A i, j \in DOMAIN table' : table'[i].conn = table'[j].conn => i = j
    BY <2>1, <1>2, <1>3 DEF IInv, Owned
  <2>4. \A i \in DOMAIN table', u \in User : table'[i].conn = link'[u] => table'[i].user = u
    BY <1>0, <1>2, <1>3, <1>6 DEF IInv, Owned
  <2>5. QED  BY <2>2, <2>3, <2>4, <1>0 DEF IInv, Owned
<1>9. Introduced'  BY <1>0, <1>5, TakeIntroduced DEF IInv
<1>10. Reached'  BY <1>0, <1>3 DEF IInv, Reached
<1>11. Agreed'
  <2>1. SUFFICES ASSUME NEW u \in User, NEW i \in DOMAIN table', table'[i].conn = link[u]
                 PROVE  Says(inbox[u], own[u], Len(inbox[u]), table'[i].pub)
    BY <1>0 DEF Agreed
  <2>2. CASE i \in DOMAIN table  BY <2>1, <2>2, <1>3 DEF IInv, Agreed
  <2>3. CASE i = Len(table) + 1
    <3>1. inbox[u] = <<>> /\ table'[i].pub = own[u]  BY <2>1, <2>3, <1>2, <1>3, <1>6
    <3>2. Len(inbox[u]) = 0  BY <3>1
    <3>3. QED  BY <3>1, <3>2 DEF Says
  <2>4. QED  BY <2>2, <2>3, <1>3
<1>12. Shown'  BY <1>0 DEF IInv, Shown
<1>13. QED  BY <1>7, <1>8, <1>9, <1>10, <1>11, <1>12 DEF IInv

\* The session passes a message on: those it reaches are marked accordingly.
LEMMA RelayKeeps ==
  ASSUME IInv, NEW c \in Conn, NEW kind, kind # "Connect", Takes(c, kind),
         NEW m \in InMsg, NEW E \in SUBSET (DOMAIN table), Relays(m, E),
         table' \in Seq(Connection), DOMAIN table' = DOMAIN table,
         \A i \in DOMAIN table : table'[i].conn = table[i].conn /\ table'[i].user = table[i].user,
         \A i \in DOMAIN table : i \notin E \/ m.kind = "Frame" => table'[i].pub = table[i].pub,
         \A i \in E : IF m.kind = "Frame" THEN table[i].pub = FALSE
                                         ELSE table'[i].pub = (m.kind = "Start")
  PROVE  IInv'
<1>0. UNCHANGED <<link, made, own, half>>  BY DEF Takes, client
<1>1. /\ inbox' \in [User -> Seq(InMsg)]
      /\ \A u \in User :
           IF \E i \in E : table[i].user = u /\ Reaches(i)
           THEN inbox'[u] = Append(inbox[u], m) ELSE inbox'[u] = inbox[u]
  BY RelayEffect DEF IInv
<1>2. Owned' /\ \A d \in Conn : Known(d)' <=> Known(d)  BY <1>0, BooksKept
<1>3. Introduced'  BY <1>2, TakeIntroduced DEF IInv
<1>4. Shape'  BY <1>0, <1>1, TakeEffect DEF IInv, Shape
<1>5. \A u \in User : /\ inbox[u] \in Seq(InMsg) /\ Len(inbox[u]) \in Nat
                     /\ Len(Append(inbox[u], m)) = Len(inbox[u]) + 1
                     /\ Append(inbox[u], m)[Len(inbox[u]) + 1] = m
                     /\ \A j \in 1 .. Len(inbox[u]) : Append(inbox[u], m)[j] = inbox[u][j]
  BY DEF IInv, Shape
<1>6. \A u \in User : inbox'[u] # inbox[u] => inbox'[u] = Append(inbox[u], m)
        /\ \E i \in E : table[i].conn = link[u]
  BY <1>1 DEF Reaches
<1>7. Reached'
  <2>1. SUFFICES ASSUME NEW u \in User, Len(inbox'[u]) > 0
                 PROVE  \E i \in DOMAIN table : table'[i].conn = link[u]
    BY <1>0 DEF Reached
  <2>2. \E i \in DOMAIN table : table[i].conn = link[u]
    BY <2>1, <1>6 DEF IInv, Reached
  <2>3. QED  BY <2>2
<1>8. Agreed'
  <2>1. SUFFICES ASSUME NEW u \in User, NEW i \in DOMAIN table, table[i].conn = link[u]
                 PROVE  Says(inbox'[u], own[u], Len(inbox'[u]), table'[i].pub)
    BY <1>0 DEF Agreed
  <2>2. table[i].user = u /\ Reaches(i)  BY <2>1 DEF IInv, Owned, Reaches
  <2>3. /\ table[i].pub \in BOOLEAN /\ table'[i].pub \in BOOLEAN /\ own[u] \in BOOLEAN
        /\ Says(inbox[u], own[u], Len(inbox[u]), table[i].pub)
    <3>1. table'[i].pub \in BOOLEAN  BY Indexes, <1>4 DEF IInv, Shape, Connection
    <3>2. table[i].pub \in BOOLEAN /\ own[u] \in BOOLEAN  BY Indexes DEF IInv, Shape, Connection
    <3>3. QED  BY <3>1, <3>2, <2>1 DEF IInv, Agreed
  <2>4. CASE i \in E
    <3>1. inbox'[u] = Append(inbox[u], m)  BY <2>2, <2>4, <1>1
    <3>2. CASE m.kind = "Frame"
      <4>1. table'[i].pub = table[i].pub  BY <3>2
      <4>2. QED  BY <4>1, <3>1, <3>2, <2>3, <1>5, SaysFrame
    <3>3. CASE m.kind # "Frame"
      <4>1. m.kind = "Start" <=> table'[i].pub  BY <3>3, <2>4
      <4>2. QED  BY <4>1, <3>1, <3>3, <2>3, <1>5, SaysControl
    <3>4. QED  BY <3>2, <3>3
  <2>5. CASE i \notin E
    <3>1. \A j \in E : ~(table[j].user = u /\ Reaches(j))
      BY <2>1, <2>5 DEF IInv, Owned, Reaches
    <3>2. inbox'[u] = inbox[u] /\ table'[i].pub = table[i].pub  BY <3>1, <2>5, <1>1
    <3>3. QED  BY <3>2, <2>3
  <2>6. QED  BY <2>4, <2>5
<1>9. Shown'
  <2>1. SUFFICES ASSUME NEW u \in User, NEW j \in 1 .. Len(inbox'[u]), inbox'[u][j].kind = "Frame"
                 PROVE  Says(inbox'[u], own[u], j - 1, FALSE)
    BY <1>0 DEF Shown
  <2>2. CASE inbox'[u] = inbox[u]  BY <2>1, <2>2 DEF IInv, Shown
  <2>3. CASE inbox'[u] # inbox[u]
    <3>1. inbox'[u] = Append(inbox[u], m) /\ own[u] \in BOOLEAN
      BY <2>3, <1>6 DEF IInv, Shape
    <3>2. PICK i \in E : table[i].conn = link[u]  BY <2>3, <1>6
    <3>3. CASE j = Len(inbox[u]) + 1
      <4>1. m.kind = "Frame"  BY <3>1, <3>3, <2>1, <1>5
      <4>2. table[i].pub = FALSE /\ i \in DOMAIN table  BY <4>1, <3>2
      <4>3. Says(inbox[u], own[u], Len(inbox[u]), FALSE)  BY <4>2, <3>2 DEF IInv, Agreed
      <4>4. Len(inbox[u]) \in 0 .. Len(inbox[u]) /\ j - 1 = Len(inbox[u])  BY <3>3, <1>5
      <4>5. Says(Append(inbox[u], m), own[u], Len(inbox[u]), FALSE)
        BY <4>3, <4>4, <3>1, <1>5, SaysAppend
      <4>6. QED  BY <4>4, <4>5, <3>1
    <3>4. CASE j # Len(inbox[u]) + 1
      <4>1. j \in 1 .. Len(inbox[u]) /\ j - 1 \in 0 .. Len(inbox[u])  BY <3>1, <3>4, <2>1, <1>5
      <4>2. inbox[u][j].kind = "Frame"  BY <4>1, <3>1, <2>1, <1>5
      <4>3. Says(inbox[u], own[u], j - 1, FALSE)  BY <4>1, <4>2 DEF IInv, Shown
      <4>4. \A n \in 0 .. Len(inbox[u]) :
              Says(inbox[u], own[u], n, FALSE) => Says(Append(inbox[u], m), own[u], n, FALSE)
        BY <3>1, <1>5, SaysAppend
      <4>5. QED  BY <4>1, <4>3, <4>4, <3>1
    <3>5. QED  BY <3>3, <3>4
  <2>4. QED  BY <2>2, <2>3
<1>10. QED  BY <1>2, <1>3, <1>4, <1>7, <1>8, <1>9 DEF IInv

\* What Msg makes for a client.
LEMMA ToClient ==
  ASSUME NEW kind \in {"Start", "Stop", "Frame"}
  PROVE  Msg(kind, NoUser, FALSE) \in InMsg /\ Msg(kind, NoUser, FALSE).kind = kind
BY DEF Msg, InMsg

\* Stop: the marked ones are told and no longer marked.
LEMMA StopKeeps ==
  ASSUME IInv, NEW c \in Conn, process_stop_stream(c)
  PROVE  IInv'
<1> DEFINE m == Msg("Stop", NoUser, FALSE)
           E == {i \in DOMAIN table : table[i].pub}
<1>1. Takes(c, "Stop") /\ Relays(m, E)
      /\ table' = [i \in DOMAIN table |-> [table[i] EXCEPT !.pub = FALSE]]
  BY DEF process_stop_stream
<1>2. m \in InMsg /\ m.kind = "Stop"  BY ToClient
<1>3. /\ table' \in Seq(Connection) /\ DOMAIN table' = DOMAIN table
      /\ \A i \in DOMAIN table : table'[i].conn = table[i].conn /\ table'[i].user = table[i].user
                                 /\ table'[i].pub = FALSE /\ table[i].pub \in BOOLEAN
  <2>1. \A i \in DOMAIN table : [table[i] EXCEPT !.pub = FALSE] \in Connection
    BY Indexes DEF IInv, Connection
  <2>2. table' \in [1 .. Len(table) -> Connection] /\ Len(table) \in Nat
    BY <2>1, <1>1, Indexes DEF IInv
  <2>3. QED  BY <2>2, <1>1, Indexes DEF IInv, Connection
<1>4. /\ \A i \in DOMAIN table : i \notin E => table'[i].pub = table[i].pub
      /\ \A i \in E : table'[i].pub = (m.kind = "Start")
      /\ E \in SUBSET (DOMAIN table)
  BY <1>2, <1>3
<1> HIDE DEF m, E
<1>5. \A i \in E : table'[i].pub = (m.kind = "Start") /\ m.kind # "Frame"  BY <1>2, <1>4
<1>6. \A i \in DOMAIN table : i \notin E \/ m.kind = "Frame" => table'[i].pub = table[i].pub
  BY <1>2, <1>4
<1>7. Takes(c, "Stop") /\ Relays(m, E)  BY <1>1
<1>8. E \in SUBSET (DOMAIN table) /\ m \in InMsg  BY <1>2, <1>4
<1>9. table' \in Seq(Connection) /\ DOMAIN table' = DOMAIN table
      /\ \A i \in DOMAIN table : table'[i].conn = table[i].conn /\ table'[i].user = table[i].user
  BY <1>3
<1>10. \A i \in E : IF m.kind = "Frame" THEN table[i].pub = FALSE
                                      ELSE table'[i].pub = (m.kind = "Start")
  BY <1>5
<1>11. QED  BY <1>6, <1>7, <1>8, <1>9, <1>10, RelayKeeps

\* Start: the first of that name is told and marked.
LEMMA StartKeeps ==
  ASSUME IInv, NEW c \in Conn, process_start_stream(c)
  PROVE  IInv'
<1> DEFINE m == Msg("Start", NoUser, FALSE)
           E == First(Head(out[c]).user)
<1>1. Takes(c, "Start") /\ Relays(m, E)
      /\ table' = [i \in DOMAIN table |-> [table[i] EXCEPT !.pub = @ \/ i \in E]]
  BY DEF process_start_stream
<1>2. m \in InMsg /\ m.kind = "Start"  BY ToClient
<1>3. E \in SUBSET (DOMAIN table)  BY DEF First, Named
<1> HIDE DEF m, E
<1>4. /\ table' \in Seq(Connection) /\ DOMAIN table' = DOMAIN table
      /\ \A i \in DOMAIN table : table'[i].conn = table[i].conn /\ table'[i].user = table[i].user
                                 /\ table'[i].pub = (table[i].pub \/ i \in E) /\ table[i].pub \in BOOLEAN
  <2>1. \A i \in DOMAIN table : [table[i] EXCEPT !.pub = @ \/ i \in E] \in Connection
    BY Indexes DEF IInv, Connection
  <2>2. table' \in [1 .. Len(table) -> Connection] /\ Len(table) \in Nat
    BY <2>1, <1>1, Indexes DEF IInv
  <2>3. QED  BY <2>2, <1>1, Indexes DEF IInv, Connection
<1>5. /\ \A i \in DOMAIN table : i \notin E => table'[i].pub = table[i].pub
      /\ \A i \in E : table'[i].pub = (m.kind = "Start")
  BY <1>2, <1>3, <1>4
<1>6. QED  BY <1>1, <1>2, <1>3, <1>4, <1>5, RelayKeeps

\* Frame: those not marked get it.
LEMMA FrameKeeps ==
  ASSUME IInv, NEW c \in Conn, process_video_data(c)
  PROVE  IInv'
<1> DEFINE m == Msg("Frame", NoUser, FALSE)
           E == {i \in DOMAIN table : ~table[i].pub}
<1>1. Takes(c, "Frame") /\ Relays(m, E) /\ table' = table
  BY DEF process_video_data
<1>2. m \in InMsg /\ m.kind = "Frame"  BY ToClient
<1>3. table' \in Seq(Connection) /\ \A i \in DOMAIN table : table[i].pub \in BOOLEAN
  BY <1>1, Indexes DEF IInv, Shape, Connection
<1>4. \A i \in E : table[i].pub = FALSE  BY <1>3
<1> HIDE DEF m
<1>5. QED  BY <1>1, <1>2, <1>3, <1>4, RelayKeeps

\* What is left of the table when an entry is removed.
LEMMA Removed ==
  ASSUME NEW s \in Seq(Connection), NEW e \in 1 .. Len(s)
  PROVE  /\ RemoveAt(s, e) \in Seq(Connection) /\ Len(RemoveAt(s, e)) = Len(s) - 1
         /\ \A j \in 1 .. Len(s) - 1 :
              RemoveAt(s, e)[j] = IF j < e THEN s[j] ELSE s[j + 1]
<1>1. /\ Len(s) \in Nat
      /\ SubSeq(s, 1, e - 1) \in Seq(Connection) /\ Len(SubSeq(s, 1, e - 1)) = e - 1
      /\ \A j \in 1 .. e - 1 : SubSeq(s, 1, e - 1)[j] = s[j]
  OBVIOUS
<1>2. /\ SubSeq(s, e + 1, Len(s)) \in Seq(Connection)
      /\ Len(SubSeq(s, e + 1, Len(s))) = Len(s) - e
      /\ \A j \in 1 .. Len(s) - e : SubSeq(s, e + 1, Len(s))[j] = s[e + j]
  OBVIOUS
<1> DEFINE a == SubSeq(s, 1, e - 1)
           b == SubSeq(s, e + 1, Len(s))
<1>3. RemoveAt(s, e) = a \o b  BY DEF RemoveAt
<1> HIDE DEF a, b
<1>4. /\ a \in Seq(Connection) /\ b \in Seq(Connection)
      /\ Len(a) = e - 1 /\ Len(b) = Len(s) - e
      /\ \A j \in 1 .. e - 1 : a[j] = s[j]
      /\ \A j \in 1 .. Len(s) - e : b[j] = s[e + j]
  BY <1>1, <1>2 DEF a, b
<1>5. /\ a \o b \in Seq(Connection) /\ Len(a \o b) = Len(a) + Len(b)
      /\ \A j \in 1 .. Len(a) + Len(b) : (a \o b)[j] = IF j <= Len(a) THEN a[j] ELSE b[j - Len(a)]
  BY <1>4, ConcatProperties
<1>6. \A j \in 1 .. Len(s) - 1 : (a \o b)[j] = IF j < e THEN s[j] ELSE s[j + 1]
  <2>1. TAKE j \in 1 .. Len(s) - 1
  <2>2. CASE j < e
    <3>1. j \in 1 .. e - 1 /\ j <= Len(a) /\ j \in 1 .. Len(a) + Len(b)  BY <2>2, <1>1, <1>4
    <3>2. QED  BY <3>1, <2>2, <1>4, <1>5
  <2>3. CASE ~(j < e)
    <3>1. /\ ~(j <= Len(a)) /\ j \in 1 .. Len(a) + Len(b) /\ j - Len(a) \in 1 .. Len(s) - e
          /\ e + (j - Len(a)) = j + 1
      BY <2>3, <1>1, <1>4
    <3>2. QED  BY <3>1, <2>3, <1>4, <1>5
  <2>4. QED  BY <2>2, <2>3
<1>7. Len(a \o b) = Len(s) - 1  BY <1>1, <1>4, <1>5
<1>8. QED  BY <1>3, <1>5, <1>6, <1>7

\* The session notices that a connection is gone.
LEMMA ClosedKeeps ==
  ASSUME IInv, NEW c \in Conn, on_connection_closed(c)
  PROVE  IInv'
<1> DEFINE e == Entry(c)
<1>0. /\ Known(c) /\ \A u \in User : link[u] # c
      /\ table' = RemoveAt(table, e) /\ out' = [out EXCEPT ![c] = <<>>]
      /\ UNCHANGED <<link, made, own, half, inbox>>
  BY DEF on_connection_closed, client
<1>1. e \in DOMAIN table /\ table[e].conn = c  BY <1>0 DEF Known, Entry
<1> HIDE DEF e
<1>2. /\ Len(table) \in Nat /\ DOMAIN table = 1 .. Len(table)
      /\ table' \in Seq(Connection) /\ Len(table') = Len(table) - 1
      /\ DOMAIN table' = 1 .. Len(table) - 1
      /\ \A j \in 1 .. Len(table) - 1 : table'[j] = IF j < e THEN table[j] ELSE table[j + 1]
  <2>1. Len(table) \in Nat /\ DOMAIN table = 1 .. Len(table) /\ table \in Seq(Connection)
    BY Indexes DEF IInv, Shape
  <2>2. e \in 1 .. Len(table)  BY <2>1, <1>1
  <2>3. /\ RemoveAt(table, e) \in Seq(Connection) /\ Len(RemoveAt(table, e)) = Len(table) - 1
        /\ \A j \in 1 .. Len(table) - 1 :
             RemoveAt(table, e)[j] = IF j < e THEN table[j] ELSE table[j + 1]
    BY <2>1, <2>2, Removed
  <2>4. table' \in Seq(Connection) /\ Len(table') = Len(table) - 1  BY <2>3, <1>0
  <2>5. DOMAIN table' = 1 .. Len(table) - 1  BY <2>4
  <2>6. QED  BY <2>1, <2>3, <2>4, <2>5, <1>0
\* Every entry that is left was there, each once; every other entry is left.
<1> DEFINE was(j) == IF j < e THEN j ELSE j + 1
<1>3. \A j \in DOMAIN table' : was(j) \in DOMAIN table /\ table'[j] = table[was(j)]
  BY <1>1, <1>2
<1>4. \A j, k \in DOMAIN table' : was(j) = was(k) => j = k  BY <1>1, <1>2
<1>5. \A i \in DOMAIN table : i # e => \E j \in DOMAIN table' : was(j) = i
  <2>1. SUFFICES ASSUME NEW i \in DOMAIN table, i # e
                 PROVE  \E j \in DOMAIN table' : was(j) = i
    OBVIOUS
  <2>2. CASE i < e
    <3>1. i \in DOMAIN table' /\ was(i) = i  BY <2>2, <1>1, <1>2
    <3>2. QED  BY <3>1
  <2>3. CASE i > e
    <3>1. i - 1 \in DOMAIN table' /\ was(i - 1) = i  BY <2>3, <1>1, <1>2
    <3>2. QED  BY <3>1
  <2>4. QED  BY <2>1, <2>2, <2>3, <1>1, <1>2
<1> HIDE DEF was
<1>6. \A d \in Conn : out'[d] = out[d] \/ out'[d] = <<>>
  BY <1>0 DEF IInv, Shape
<1>7. Shape'
  <2>1. <<>> \in Seq(OutMsg)  OBVIOUS
  <2>2. out' \in [Conn -> Seq(OutMsg)]  BY <2>1, <1>0 DEF IInv, Shape
  <2>3. QED  BY <2>2, <1>0, <1>2 DEF IInv, Shape
<1>8. Owned'
  <2>1. \A i \in DOMAIN table' : table'[i].conn <= made'  BY <1>0, <1>3 DEF IInv, Owned
  <2>2. \A i, j \in DOMAIN table' : table'[i].conn = table'[j].conn => i = j
    BY <1>3, <1>4 DEF IInv, Owned
  <2>3. \A i \in DOMAIN table', u \in User : table'[i].conn = link'[u] => table'[i].user = u
    BY <1>0, <1>3 DEF IInv, Owned
  <2>4. QED  BY <2>1, <2>2, <2>3, <1>0 DEF IInv, Owned
<1>9. Introduced'
  <2>1. \A d \in Conn : Known(d)' => Known(d)  BY <1>3 DEF Known
  <2>2. \A d \in Conn : d > made' => out'[d] = <<>>
    BY <1>0, <1>6 DEF IInv, Introduced
  <2>3. \A d \in Conn : \A j \in 1 .. Len(out'[d]) :
          out'[d][j].kind = "Connect" => j = 1 /\ ~Known(d)'
    BY <2>1, <1>6 DEF IInv, Introduced
  <2>4. \A u \in User :
          link'[u] # 0 /\ Len(out'[link'[u]]) > 0 /\ out'[link'[u]][1].kind = "Connect"
            => out'[link'[u]][1].user = u /\ out'[link'[u]][1].pub = own'[u]
    <3>1. TAKE u \in User
    <3>2. CASE link[u] # 0
      <4>1. link[u] \in Conn  BY <3>2, PublishAssumption DEF IInv, Shape, Conn
      <4>2. out'[link[u]] = out[link[u]]  BY <4>1, <1>0 DEF IInv, Shape
      <4>3. QED  BY <4>2, <1>0 DEF IInv, Introduced
    <3>3. QED  BY <3>2, <1>0
  <2>5. QED  BY <2>2, <2>3, <2>4 DEF Introduced
<1>10. Reached'
  <2>1. SUFFICES ASSUME NEW u \in User, Len(inbox[u]) > 0
                 PROVE  \E j \in DOMAIN table' : table'[j].conn = link[u]
    BY <1>0 DEF Reached
  <2>2. PICK i \in DOMAIN table : table[i].conn = link[u]  BY <2>1 DEF IInv, Reached
  <2>3. i # e  BY <2>2, <1>0, <1>1
  <2>4. QED  BY <2>2, <2>3, <1>3, <1>5
<1>11. Agreed'
  <2>1. SUFFICES ASSUME NEW u \in User, NEW i \in DOMAIN table', table'[i].conn = link[u]
                 PROVE  Says(inbox[u], own[u], Len(inbox[u]), table'[i].pub)
    BY <1>0 DEF Agreed
  <2>2. QED  BY <2>1, <1>3 DEF IInv, Agreed
<1>12. Shown'  BY <1>0 DEF IInv, Shown
<1>13. QED  BY <1>7, <1>8, <1>9, <1>10, <1>11, <1>12 DEF IInv

-----------------------------------------------------------------------------
(* The theorems. *)

\* At the start nobody is connected and nothing is under way.
LEMMA InitIInv == Init => IInv
<1> SUFFICES ASSUME Init PROVE IInv
  OBVIOUS
<1>1. <<>> \in Seq(OutMsg) /\ <<>> \in Seq(InMsg) /\ <<>> \in Seq(Connection)
      /\ Len(<<>>) = 0 /\ DOMAIN <<>> = {}
  OBVIOUS
<1>2. table = <<>> /\ made = 0 /\ \A u \in User : link[u] = 0 /\ inbox[u] = <<>>
  BY DEF Init
<1>3. \A c \in Conn : out[c] = <<>>  BY DEF Init
<1>4. DOMAIN table = {} /\ \A u \in User : Len(inbox[u]) = 0  BY <1>1, <1>2
<1>5. \A c \in Conn : Len(out[c]) = 0  BY <1>1, <1>3
<1>6. Shape  BY <1>1, PublishAssumption DEF Init, Shape
<1>7. Owned  BY <1>2, <1>4 DEF Owned
<1>8. Introduced  BY <1>2, <1>3, <1>5 DEF Introduced
<1>9. Reached /\ Agreed /\ Shown
  <2>1. Reached  BY <1>4 DEF Reached
  <2>2. Agreed  BY <1>4 DEF Agreed
  <2>3. \A u \in User : 1 .. Len(inbox[u]) = {}  BY <1>4
  <2>4. Shown  BY <2>3 DEF Shown
  <2>5. QED  BY <2>1, <2>2, <2>4
<1>10. QED  BY <1>6, <1>7, <1>8, <1>9 DEF IInv

\* Every step keeps the books, the queues and what they say in agreement.
LEMMA NextIInv == IInv /\ [Next]_vars => IInv'
<1> SUFFICES ASSUME IInv, [Next]_vars PROVE IInv'
  OBVIOUS
<1>1. ASSUME NEW u \in User, Plays(u) PROVE IInv'
  <2>1. Msg("Stop", u, FALSE) \in OutMsg /\ Msg("Stop", u, FALSE).kind # "Connect"
    BY DEF Msg, OutMsg
  <2>2. half' \in [User -> User \cup {NoUser}]  BY <1>1 DEF Plays, IInv, Shape
  <2>3. QED  BY <1>1, <2>1, <2>2, SendKeeps DEF Plays
<1>2. ASSUME NEW u \in User, PlaysOn(u) PROVE IInv'
  <2>1. Msg("Start", half[u], FALSE) \in OutMsg /\ Msg("Start", half[u], FALSE).kind # "Connect"
    BY <1>2 DEF PlaysOn, Msg, OutMsg, IInv, Shape
  <2>2. half' \in [User -> User \cup {NoUser}]  BY <1>2 DEF PlaysOn, IInv, Shape
  <2>3. QED  BY <1>2, <2>1, <2>2, SendKeeps DEF PlaysOn
<1>3. ASSUME NEW u \in User, Pauses(u) PROVE IInv'
  <2>1. Msg("Stop", u, FALSE) \in OutMsg /\ Msg("Stop", u, FALSE).kind # "Connect"
    BY DEF Msg, OutMsg
  <2>2. half' \in [User -> User \cup {NoUser}]  BY <1>3 DEF Pauses, IInv, Shape
  <2>3. QED  BY <1>3, <2>1, <2>2, SendKeeps DEF Pauses
<1>4. ASSUME NEW u \in User, SendsFrame(u) PROVE IInv'
  <2>1. Msg("Frame", u, FALSE) \in OutMsg /\ Msg("Frame", u, FALSE).kind # "Connect"
    BY DEF Msg, OutMsg
  <2>2. half' \in [User -> User \cup {NoUser}] /\ UNCHANGED <<link, made, own, inbox, table>>
    BY <1>4 DEF SendsFrame, client, IInv, Shape
  <2>3. QED  BY <1>4, <2>1, <2>2, SendKeeps DEF SendsFrame
<1>5. ASSUME NEW u \in User, HandlesStart(u) PROVE IInv'
  <2>1. PICK kind : kind = "Start"  OBVIOUS
  <2>2. PICK p \in BOOLEAN : p = TRUE  OBVIOUS
  <2>3. Receives(u, kind) /\ own' = [own EXCEPT ![u] = p]  BY <1>5, <2>1, <2>2 DEF HandlesStart
  <2>4. kind # "Frame" /\ (p <=> kind = "Start")  BY <2>1, <2>2
  <2>5. QED  BY <2>3, <2>4, ReceivesKeeps
<1>6. ASSUME NEW u \in User, HandlesStop(u) PROVE IInv'
  <2>1. PICK kind : kind = "Stop"  OBVIOUS
  <2>2. PICK p \in BOOLEAN : p = FALSE  OBVIOUS
  <2>3. Receives(u, kind) /\ own' = [own EXCEPT ![u] = p]  BY <1>6, <2>1, <2>2 DEF HandlesStop
  <2>4. kind # "Frame" /\ (p <=> kind = "Start")  BY <2>1, <2>2
  <2>5. QED  BY <2>3, <2>4, ReceivesKeeps
<1>7. ASSUME NEW u \in User, ShowsFrame(u) PROVE IInv'
  <2>1. own[u] \in BOOLEAN /\ own' = [own EXCEPT ![u] = own[u]]
    BY <1>7 DEF ShowsFrame, IInv, Shape
  <2>2. QED  BY <1>7, <2>1, ReceivesKeeps DEF ShowsFrame
<1>8. CASE UNCHANGED vars
  <2>1. UNCHANGED <<link, made, own, half, out, inbox, table>>  BY <1>8 DEF vars, client
  <2>2. Shape' /\ Owned' /\ Introduced'
    BY <2>1 DEF IInv, Shape, Owned, Introduced, Known
  <2>3. Reached' /\ Agreed' /\ Shown'  BY <2>1 DEF IInv, Reached, Agreed, Shown, Says
  <2>4. QED  BY <2>2, <2>3 DEF IInv
<1>9. QED
  BY <1>1, <1>2, <1>3, <1>4, <1>5, <1>6, <1>7, <1>8, ConnectsKeeps, DropsKeeps,
     OpenedKeeps, ClosedKeeps, StopKeeps, StartKeeps, FrameKeeps
  DEF Next

\* The strengthening is an invariant.
THEOREM BooksAlways == Spec => []IInv
BY InitIInv, NextIInv, PTL DEF Spec

\* Every variable keeps its type.
THEOREM TypeCorrect == Spec => []TypeOK
<1>1. IInv => TypeOK
  <2> SUFFICES ASSUME IInv PROVE TypeOK
    OBVIOUS
  <2>1. \A c \in Conn : \A i \in DOMAIN out[c] : out[c][i] \in OutMsg  BY DEF IInv, Shape
  <2>2. \A u \in User : \A i \in DOMAIN inbox[u] : inbox[u][i] \in InMsg  BY DEF IInv, Shape
  <2>3. \A i \in DOMAIN table : table[i] \in Connection  BY DEF IInv, Shape
  <2>4. QED  BY <2>1, <2>2, <2>3 DEF TypeOK, IInv, Shape, OutMsg, InMsg, Connection
<1>2. QED  BY <1>1, BooksAlways, PTL

\* A client with nothing under way to it publishes exactly if the session has its
\* connection marked, whatever was lost, crossed or sent again before.
THEOREM AgreedAlways == Spec => []PublisherAgreed
<1>1. IInv => PublisherAgreed
  <2> SUFFICES ASSUME IInv, NEW u \in User, NEW i \in DOMAIN table,
                      table[i].conn = link[u], inbox[u] = <<>>
               PROVE  table[i].pub <=> own[u]
    BY DEF PublisherAgreed
  <2>1. Says(inbox[u], own[u], Len(inbox[u]), table[i].pub) /\ Len(inbox[u]) = 0
    BY DEF IInv, Agreed
  <2>2. QED  BY <2>1 DEF Says
<1>2. QED  BY <1>1, BooksAlways, PTL

\* A client is never shown frames while it publishes: a frame is sent before the
\* start or after the stop, and links keep their order.
THEOREM NotShown == Spec => NeverShownWhilePublishing
<1>1. IInv /\ [Next]_vars => [\A u \in User : ShowsFrame(u) => ~own[u]]_vars
  <2> SUFFICES ASSUME IInv, NEW u \in User, ShowsFrame(u) PROVE ~own[u]
    OBVIOUS
  <2>1. inbox[u] # <<>> /\ Head(inbox[u]).kind = "Frame"  BY DEF ShowsFrame, Receives
  <2>2. inbox[u] \in Seq(InMsg)  BY DEF IInv, Shape
  <2>3. 1 \in 1 .. Len(inbox[u]) /\ inbox[u][1].kind = "Frame"  BY <2>1, <2>2
  <2>4. Says(inbox[u], own[u], 1 - 1, FALSE)  BY <2>3 DEF IInv, Shown
  <2>5. (1 .. 1 - 1) = {}  OBVIOUS
  <2>6. QED  BY <2>4, <2>5 DEF Says
<1>2. QED  BY <1>1, BooksAlways, PTL DEF Spec, NeverShownWhilePublishing

-----------------------------------------------------------------------------
(* Who was started publishes, and nobody else, once told all that is on its   *)
(* way: what the exceptions of the history leave out is all that goes wrong.  *)

Names == stopper \in User \cup {NoUser} /\ started \in User \cup {NoUser}

Turned ==
  history = {} =>
    /\ started = NoUser \/ stopper = NoUser
    /\ \A u \in User : Says(inbox[u], own[u], Len(inbox[u]), u = started)

\* A step that leaves clients, their inboxes and the history alone.
LEMMA TurnedStays ==
  ASSUME Names, Turned, UNCHANGED <<inbox, own, ghost>>
  PROVE  Names' /\ Turned'
BY DEF Names, Turned, ghost

\* A client handles a message as Says counts it.
LEMMA TurnedReceives ==
  ASSUME IInv, Names, Turned, NEW u \in User, NEW kind, Receives(u, kind), NEW p \in BOOLEAN,
         own' = [own EXCEPT ![u] = p],
         kind = "Frame" => p = own[u], kind # "Frame" => (p <=> kind = "Start")
  PROVE  Names' /\ Turned'
<1>1. /\ inbox[u] # <<>> /\ Head(inbox[u]).kind = kind
      /\ inbox' = [inbox EXCEPT ![u] = Tail(inbox[u])] /\ UNCHANGED ghost
  BY DEF Receives
<1>2. /\ inbox[u] \in Seq(InMsg) /\ Len(inbox[u]) \in 1 .. Len(inbox[u])
      /\ Len(Tail(inbox[u])) = Len(inbox[u]) - 1
      /\ inbox'[u] = Tail(inbox[u]) /\ own[u] \in BOOLEAN /\ own'[u] = p
      /\ \A v \in User : v # u => inbox'[v] = inbox[v] /\ own'[v] = own[v]
  BY <1>1 DEF IInv, Shape
<1>3. Names' /\ UNCHANGED <<stopper, started, history>>  BY <1>1 DEF Names, ghost
<1>4. SUFFICES ASSUME history = {}, NEW v \in User
               PROVE  Says(inbox'[v], own'[v], Len(inbox'[v]), v = started)
  BY <1>3 DEF Turned
<1>5. Says(inbox[v], own[v], Len(inbox[v]), v = started)  BY <1>4 DEF Turned
<1>6. CASE v # u  BY <1>5, <1>6, <1>2
<1>7. CASE v = u
  <2>1. PICK b \in BOOLEAN : b = (v = started)  OBVIOUS
  <2>2. Says(inbox[u], own[u], Len(inbox[u]), b)  BY <1>5, <1>7, <2>1
  <2>3. Says(Tail(inbox[u]), p, Len(inbox[u]) - 1, b)  BY <2>2, <1>1, <1>2, SaysTail
  <2>4. QED  BY <2>1, <2>3, <1>7, <1>2
<1>8. QED  BY <1>6, <1>7

\* A connection drops, and with it no start and no stop, or the history says so.
LEMMA TurnedDrops ==
  ASSUME IInv, Names, Turned, NEW u \in User, Drops(u)
  PROVE  Names' /\ Turned'
<1>1. /\ inbox' = [inbox EXCEPT ![u] = <<>>] /\ UNCHANGED <<own, stopper, started>>
      /\ history' = {} => /\ history = {}
                          /\ ~\E i \in DOMAIN inbox[u] : inbox[u][i].kind \in {"Start", "Stop"}
  BY DEF Drops
<1>2. /\ inbox[u] \in Seq(InMsg) /\ inbox'[u] = <<>> /\ Len(inbox'[u]) = 0
      /\ \A v \in User : v # u => inbox'[v] = inbox[v]
  BY <1>1 DEF IInv, Shape
<1>3. Names'  BY <1>1 DEF Names
<1>4. SUFFICES ASSUME history' = {}, NEW v \in User
               PROVE  Says(inbox'[v], own[v], Len(inbox'[v]), v = started)
  BY <1>1, <1>3 DEF Turned
<1>5. Says(inbox[v], own[v], Len(inbox[v]), v = started)  BY <1>1, <1>4 DEF Turned
<1>6. CASE v # u  BY <1>5, <1>6, <1>2
<1>7. CASE v = u
  <2>1. \A i \in 1 .. Len(inbox[u]) : inbox[u][i].kind = "Frame"
    <3>1. \A i \in 1 .. Len(inbox[u]) : inbox[u][i] \in InMsg /\ i \in DOMAIN inbox[u]  BY <1>2
    <3>2. QED  BY <3>1, <1>1, <1>4 DEF InMsg
  <2>2. own[u] <=> v = started  BY <2>1, <1>5, <1>7 DEF Says
  <2>3. QED  BY <2>2, <1>2, <1>7 DEF Says
<1>8. QED  BY <1>6, <1>7

\* A frame is passed on: it says nothing.
LEMMA TurnedFrame ==
  ASSUME IInv, Names, Turned, NEW c \in Conn, process_video_data(c)
  PROVE  Names' /\ Turned'
<1> DEFINE m == Msg("Frame", NoUser, FALSE)
           E == {i \in DOMAIN table : ~table[i].pub}
<1>1. Relays(m, E) /\ UNCHANGED <<own, stopper, started, history>>
  BY DEF process_video_data, Takes, client, ghost
<1>2. m \in InMsg /\ m.kind = "Frame"  BY ToClient
<1> HIDE DEF m
<1>3. \A v \in User : inbox'[v] = Append(inbox[v], m) \/ inbox'[v] = inbox[v]
  BY <1>1, <1>2, RelayEffect DEF IInv
<1>4. Names'  BY <1>1 DEF Names
<1>5. SUFFICES ASSUME history = {}, NEW v \in User
               PROVE  Says(inbox'[v], own[v], Len(inbox'[v]), v = started)
  BY <1>1, <1>4 DEF Turned
<1>6. PICK b \in BOOLEAN : b = (v = started)  OBVIOUS
<1>7. Says(inbox[v], own[v], Len(inbox[v]), b)  BY <1>5, <1>6 DEF Turned
<1>8. inbox[v] \in Seq(InMsg) /\ own[v] \in BOOLEAN  BY DEF IInv, Shape
<1>9. Says(Append(inbox[v], m), own[v], Len(Append(inbox[v], m)), b)
  BY <1>2, <1>7, <1>8, SaysFrame
<1>10. QED  BY <1>3, <1>6, <1>7, <1>9

\* After a stop that missed nobody, nobody will publish: who would have is marked,
\* or has a stop on its way already.
LEMMA TurnedStop ==
  ASSUME IInv, Names, Turned, NEW c \in Conn, process_stop_stream(c)
  PROVE  Names' /\ Turned'
<1> DEFINE m == Msg("Stop", NoUser, FALSE)
           E == {i \in DOMAIN table : table[i].pub}
<1>1. /\ Relays(m, E) /\ UNCHANGED <<own, link>> /\ Known(c)
      /\ stopper' = table[Entry(c)].user /\ started' = NoUser
  BY DEF process_stop_stream, Takes, client
<1>2. history' = {} => /\ history = {}
                       /\ \A u \in User :
                            \/ ~own[u] /\ ~\E j \in DOMAIN inbox[u] : inbox[u][j].kind = "Start"
                            \/ \E i \in DOMAIN table : table[i].conn = link[u] /\ table[i].user = u
  BY DEF process_stop_stream
<1>3. m \in InMsg /\ m.kind = "Stop"  BY ToClient
<1> HIDE DEF m
<1>4. \A v \in User : IF \E i \in E : table[i].user = v /\ Reaches(i)
                      THEN inbox'[v] = Append(inbox[v], m) ELSE inbox'[v] = inbox[v]
  BY <1>1, <1>3, RelayEffect DEF IInv
<1>5. Names'
  <2>1. Entry(c) \in DOMAIN table  BY <1>1 DEF Entry, Known
  <2>2. QED  BY <2>1, <1>1, Indexes DEF Names, IInv, Connection
<1>6. SUFFICES ASSUME history' = {}, NEW v \in User
               PROVE  Says(inbox'[v], own[v], Len(inbox'[v]), FALSE)
  <2>1. \A v \in User : (v = started') = FALSE  BY <1>1, PublishAssumption
  <2>2. QED  BY <2>1, <1>1, <1>5 DEF Turned
<1>7. inbox[v] \in Seq(InMsg) /\ Len(inbox[v]) \in Nat /\ own[v] \in BOOLEAN
      /\ FALSE \in BOOLEAN
  BY DEF IInv, Shape
<1>8. CASE inbox'[v] = Append(inbox[v], m)
  <2>1. Says(Append(inbox[v], m), own[v], Len(Append(inbox[v], m)), FALSE)
    BY <1>3, <1>7, SaysControl
  <2>2. QED  BY <2>1, <1>8
<1>9. CASE inbox'[v] = inbox[v] /\ ~\E i \in E : table[i].user = v /\ Reaches(i)
  <2>1. CASE \E i \in DOMAIN table : table[i].conn = link[v] /\ table[i].user = v
    <3>1. PICK i \in DOMAIN table : table[i].conn = link[v] /\ table[i].user = v  BY <2>1
    <3>2. table[i].pub \in BOOLEAN  BY Indexes DEF IInv, Connection
    <3>3. table[i].pub = FALSE  BY <3>1, <3>2, <1>9 DEF Reaches
    <3>4. Says(inbox[v], own[v], Len(inbox[v]), FALSE)  BY <3>1, <3>3 DEF IInv, Agreed
    <3>5. QED  BY <3>4, <1>9
  <2>2. CASE ~own[v] /\ ~\E j \in DOMAIN inbox[v] : inbox[v][j].kind = "Start"
    <3>1. Says(inbox[v], own[v], Len(inbox[v]), v = started)  BY <1>2, <1>6 DEF Turned
    <3>2. \A j \in 1 .. Len(inbox[v]) : inbox[v][j].kind # "Start"  BY <2>2, <1>7
    <3>3. Says(inbox[v], own[v], Len(inbox[v]), FALSE)  BY <2>2, <3>1, <3>2 DEF Says
    <3>4. QED  BY <3>3, <1>9
  <2>3. QED  BY <2>1, <2>2, <1>2, <1>6
<1>10. QED  BY <1>4, <1>8, <1>9

\* A start by the user whose stop was handled last finds nobody who will publish:
\* the one it is passed to will, alone.
LEMMA TurnedStart ==
  ASSUME IInv, Names, Turned, NEW c \in Conn, process_start_stream(c)
  PROVE  Names' /\ Turned'
<1> DEFINE m == Msg("Start", NoUser, FALSE)
           name == Head(out[c]).user
           E == First(name)
<1>1. /\ Relays(m, E) /\ UNCHANGED own /\ Known(c)
      /\ started' = name /\ stopper' = NoUser
  BY DEF process_start_stream, Takes, client
<1>2. history' = {} =>
        history = {} /\ stopper = table[Entry(c)].user /\ \E i \in E : Reaches(i)
  BY DEF process_start_stream
<1>3. m \in InMsg /\ m.kind = "Start"  BY ToClient
<1>4. name \in User
  <2>1. Takes(c, "Start")  BY DEF process_start_stream
  <2>2. Head(out[c]) \in OutMsg  BY <2>1, TakeEffect DEF IInv
  <2>3. QED  BY <2>2 DEF OutMsg
<1>5. E \in SUBSET (DOMAIN table) /\ \A i \in E : table[i].user = name
  BY DEF First, Named
<1> HIDE DEF m, E, name
<1>6. \A v \in User : IF \E i \in E : table[i].user = v /\ Reaches(i)
                      THEN inbox'[v] = Append(inbox[v], m) ELSE inbox'[v] = inbox[v]
  BY <1>1, <1>3, <1>5, RelayEffect DEF IInv
<1>7. Names'  BY <1>1, <1>4 DEF Names
<1>8. SUFFICES ASSUME history' = {}, NEW v \in User
               PROVE  Says(inbox'[v], own[v], Len(inbox'[v]), v = name)
  BY <1>1, <1>7 DEF Turned
<1>9. inbox[v] \in Seq(InMsg) /\ own[v] \in BOOLEAN /\ FALSE \in BOOLEAN /\ TRUE \in BOOLEAN
  BY DEF IInv, Shape
<1>10. started = NoUser
  <2>1. Entry(c) \in DOMAIN table  BY <1>1 DEF Entry, Known
  <2>2. stopper \in User  BY <2>1, <1>2, <1>8, Indexes DEF IInv, Connection
  <2>3. QED  BY <2>2, <1>2, <1>8, PublishAssumption DEF Turned
<1>11. CASE v = name
  <2>1. inbox'[v] = Append(inbox[v], m)  BY <1>2, <1>5, <1>6, <1>8, <1>11
  <2>2. Says(Append(inbox[v], m), own[v], Len(Append(inbox[v], m)), TRUE)
    BY <1>3, <1>9, SaysControl
  <2>3. (v = name) = TRUE  BY <1>11
  <2>4. QED  BY <2>1, <2>2, <2>3
<1>12. CASE v # name
  <2>1. inbox'[v] = inbox[v]  BY <1>5, <1>6, <1>12
  <2>2. (v = name) = FALSE /\ (v = started) = FALSE  BY <1>10, <1>12, PublishAssumption
  <2>3. Says(inbox[v], own[v], Len(inbox[v]), v = started)  BY <1>2, <1>8 DEF Turned
  <2>4. QED  BY <2>1, <2>2, <2>3
<1>13. QED  BY <1>11, <1>12

\* Nothing but what the history counts makes another publish, or nobody.
LEMMA NextTurned == IInv /\ Names /\ Turned /\ [Next]_vars => Names' /\ Turned'
<1> SUFFICES ASSUME IInv, Names, Turned, [Next]_vars PROVE Names' /\ Turned'
  OBVIOUS
<1>1. ASSUME NEW u \in User, Connects(u) \/ Plays(u) \/ PlaysOn(u) \/ Pauses(u) \/ SendsFrame(u)
      PROVE  Names' /\ Turned'
  <2>1. UNCHANGED <<inbox, own, ghost>>
    BY <1>1 DEF Connects, Plays, PlaysOn, Pauses, SendsFrame, client
  <2>2. QED  BY <2>1, TurnedStays
<1>2. ASSUME NEW c \in Conn, on_connection_opened(c) \/ on_connection_closed(c)
      PROVE  Names' /\ Turned'
  <2>1. UNCHANGED <<inbox, own, ghost>>
    BY <1>2 DEF on_connection_opened, on_connection_closed, Takes, client
  <2>2. QED  BY <2>1, TurnedStays
<1>3. ASSUME NEW u \in User, HandlesStart(u) PROVE Names' /\ Turned'
  <2>1. PICK kind : kind = "Start"  OBVIOUS
  <2>2. PICK p \in BOOLEAN : p = TRUE  OBVIOUS
  <2>3. Receives(u, kind) /\ own' = [own EXCEPT ![u] = p]  BY <1>3, <2>1, <2>2 DEF HandlesStart
  <2>4. kind # "Frame" /\ (p <=> kind = "Start")  BY <2>1, <2>2
  <2>5. QED  BY <2>3, <2>4, TurnedReceives
<1>4. ASSUME NEW u \in User, HandlesStop(u) PROVE Names' /\ Turned'
  <2>1. PICK kind : kind = "Stop"  OBVIOUS
  <2>2. PICK p \in BOOLEAN : p = FALSE  OBVIOUS
  <2>3. Receives(u, kind) /\ own' = [own EXCEPT ![u] = p]  BY <1>4, <2>1, <2>2 DEF HandlesStop
  <2>4. kind # "Frame" /\ (p <=> kind = "Start")  BY <2>1, <2>2
  <2>5. QED  BY <2>3, <2>4, TurnedReceives
<1>5. ASSUME NEW u \in User, ShowsFrame(u) PROVE Names' /\ Turned'
  <2>1. own[u] \in BOOLEAN /\ own' = [own EXCEPT ![u] = own[u]]
    BY <1>5 DEF ShowsFrame, IInv, Shape
  <2>2. QED  BY <1>5, <2>1, TurnedReceives DEF ShowsFrame
<1>6. CASE UNCHANGED vars
  <2>1. UNCHANGED <<inbox, own, ghost>>  BY <1>6 DEF vars, client
  <2>2. QED  BY <2>1, TurnedStays
<1>7. QED
  BY <1>1, <1>2, <1>3, <1>4, <1>5, <1>6, TurnedDrops, TurnedFrame, TurnedStop, TurnedStart
  DEF Next

\* The one who was started last, and nobody else, will publish.
LEMMA TurnedAlways == Spec => [](IInv /\ Names /\ Turned)
<1>1. Init => Names /\ Turned
  <2> SUFFICES ASSUME Init PROVE Names /\ Turned
    OBVIOUS
  <2>1. Names /\ started = NoUser  BY DEF Init, Names
  <2>2. \A u \in User : inbox[u] = <<>> /\ own[u] = FALSE /\ u # NoUser
    BY PublishAssumption DEF Init
  <2>3. \A u \in User : Len(inbox[u]) = 0  BY <2>2
  <2>4. \A u \in User : Says(inbox[u], own[u], Len(inbox[u]), u = started)
    BY <2>1, <2>2, <2>3 DEF Says
  <2>5. QED  BY <2>1, <2>4 DEF Turned
<1>2. IInv /\ Names /\ Turned /\ [Next]_vars => (IInv /\ Names /\ Turned)'
  BY NextIInv, NextTurned
<1>3. QED  BY <1>1, <1>2, InitIInv, PTL DEF Spec

\* Two clients publish only while a stop is on its way to one of them, whatever the
\* number of users, plays and connections, unless a stop missed a publisher or was
\* lost, or two plays crossed or came apart.
THEOREM OneAtATime == Spec => []OnePublisher
<1>1. IInv /\ Names /\ Turned => OnePublisher
  <2> SUFFICES ASSUME IInv, Turned, history = {}
               PROVE  Cardinality({u \in User : own[u] /\ ~ToldToStop(u)}) <= 1
    BY DEF OnePublisher
  <2>1. ASSUME NEW u \in User, own[u], ~ToldToStop(u) PROVE u = started
    <3>1. inbox[u] \in Seq(InMsg) /\ Len(inbox[u]) \in Nat  BY DEF IInv, Shape
    <3>2. \A i \in 1 .. Len(inbox[u]) : inbox[u][i].kind # "Stop" /\ inbox[u][i] \in InMsg
      BY <2>1, <3>1 DEF ToldToStop
    <3>3. \A i \in 1 .. Len(inbox[u]) : inbox[u][i].kind \in {"Start", "Frame"}
      BY <3>2 DEF InMsg
    <3>4. Says(inbox[u], own[u], Len(inbox[u]), u = started)  BY DEF Turned
    <3>5. QED  BY <2>1, <3>3, <3>4 DEF Says
  <2> DEFINE S == {u \in User : own[u] /\ ~ToldToStop(u)}
  <2>2. S = {} \/ S = {started}  BY <2>1
  <2> HIDE DEF S
  <2>3. CASE S = {}
    <3>1. Cardinality(S) = 0  BY <2>3, FS_EmptySet
    <3>2. QED  BY <3>1 DEF S
  <2>4. CASE S = {started}
    <3>1. Cardinality(S) = 1  BY <2>4, FS_Singleton
    <3>2. QED  BY <3>1 DEF S
  <2>5. QED  BY <2>2, <2>3, <2>4
<1>2. QED  BY <1>1, TurnedAlways, PTL

\* Once everything has arrived, exactly the client that was started last publishes, and
\* none after a stop, with the same exceptions.
THEOREM PlayWorks == Spec => []PlayTakesEffect
<1>1. IInv /\ Names /\ Turned => PlayTakesEffect
  <2> SUFFICES ASSUME Turned, Quiet, history = {}, NEW u \in User
               PROVE  own[u] <=> u = started
    BY DEF PlayTakesEffect
  <2>1. inbox[u] = <<>>  BY DEF Quiet
  <2>2. Len(inbox[u]) = 0  BY <2>1
  <2>3. Says(inbox[u], own[u], Len(inbox[u]), u = started)  BY DEF Turned
  <2>4. QED  BY <2>2, <2>3 DEF Says
<1>2. QED  BY <1>1, TurnedAlways, PTL

-----------------------------------------------------------------------------
(* The roster. *)

\* Who is in the table and who is marked in it; nobody controls here.
Listing(t) == [i \in DOMAIN t |-> [client |-> t[i].conn, user |-> t[i].user]]
Marked(t) == {t[i].conn : i \in {j \in DOMAIN t : t[j].pub}}

Roster == INSTANCE Roster WITH
  Client <- Conn,
  present <- Listing(table), publishers <- Marked(table), controllers <- {}, spent <- TRUE

RosterStep == Roster!Next \/ UNCHANGED Roster!vars

\* The list of a table.
LEMMA ListingOf ==
  ASSUME NEW t \in Seq(Connection)
  PROVE  /\ Listing(t) \in Seq([client : Conn, user : User]) /\ Len(Listing(t)) = Len(t)
         /\ DOMAIN Listing(t) = 1 .. Len(t) /\ Len(t) \in Nat /\ DOMAIN t = 1 .. Len(t)
         /\ \A i \in 1 .. Len(t) : Listing(t)[i].client = t[i].conn /\ Listing(t)[i].user = t[i].user
<1>1. /\ Len(t) \in Nat /\ DOMAIN t = 1 .. Len(t)
      /\ \A i \in 1 .. Len(t) : t[i] \in Connection
  OBVIOUS
<1>2. Listing(t) \in [1 .. Len(t) -> [client : Conn, user : User]]
  BY <1>1 DEF Listing, Connection
<1>3. QED  BY <1>1, <1>2 DEF Listing

\* The same entries give the same list.
LEMMA ListingKept ==
  ASSUME NEW t \in Seq(Connection), NEW s, DOMAIN s = DOMAIN t,
         \A i \in DOMAIN t : s[i].conn = t[i].conn /\ s[i].user = t[i].user
  PROVE  Listing(s) = Listing(t)
BY DEF Listing

\* A table that stays is the same roster.
LEMMA RosterStays ==
  ASSUME table' = table
  PROVE  RosterStep
BY DEF RosterStep, Roster!vars, Listing, Marked

\* The session takes a Connect: its client joins.
LEMMA RosterOpened ==
  ASSUME IInv, NEW c \in Conn, on_connection_opened(c)
  PROVE  RosterStep
<1> DEFINE n == [conn |-> c, user |-> Head(out[c]).user, pub |-> Head(out[c]).pub]
<1>1. Takes(c, "Connect") /\ table' = Append(table, n)  BY DEF on_connection_opened
<1>2. /\ Len(out[c]) > 0 /\ Head(out[c]) = out[c][1] /\ Head(out[c]) \in OutMsg
      /\ Head(out[c]).kind = "Connect"
  BY <1>1, TakeEffect DEF IInv
<1>3. n \in Connection /\ n.conn = c /\ n.user \in User /\ n.pub \in BOOLEAN
  BY <1>2 DEF OutMsg, Connection
<1> HIDE DEF n
<1>4. ~Known(c)
  <2>1. 1 \in 1 .. Len(out[c])  BY <1>2, Indexes DEF IInv
  <2>2. QED  BY <2>1, <1>2 DEF IInv, Introduced
<1>5. /\ table \in Seq(Connection) /\ Len(table) \in Nat /\ DOMAIN table = 1 .. Len(table)
      /\ DOMAIN table' = 1 .. Len(table) + 1 /\ table'[Len(table) + 1] = n
      /\ \A i \in 1 .. Len(table) : table'[i] = table[i]
      /\ \A i \in 1 .. Len(table) + 1 : i \in 1 .. Len(table) \/ i = Len(table) + 1
  BY <1>1, <1>3 DEF IInv, Shape
<1>6. c \notin Roster!Listed
  BY <1>4, <1>5, ListingOf DEF Roster!Listed, Known
<1>7. Listing(table') = Append(Listing(table), [client |-> c, user |-> n.user])
  <2> DEFINE more == Append(Listing(table), [client |-> c, user |-> n.user])
  <2>1. /\ Listing(table) \in Seq([client : Conn, user : User])
        /\ Len(Listing(table)) = Len(table)
    BY <1>5, ListingOf
  <2>2. /\ more = [i \in 1 .. Len(table) + 1 |-> more[i]]
        /\ more[Len(table) + 1] = [client |-> c, user |-> n.user]
        /\ \A i \in 1 .. Len(table) : more[i] = Listing(table)[i]
    BY <2>1, <1>5
  <2> HIDE DEF more
  <2>3. ASSUME NEW i \in 1 .. Len(table) + 1
        PROVE  more[i] = [client |-> table'[i].conn, user |-> table'[i].user]
    <3>1. CASE i \in 1 .. Len(table)
      <4>1. Listing(table)[i] = [client |-> table[i].conn, user |-> table[i].user]
        BY <3>1, <1>5 DEF Listing
      <4>2. QED  BY <3>1, <4>1, <2>2, <1>5
    <3>2. CASE i = Len(table) + 1  BY <3>2, <2>2, <1>3, <1>5
    <3>3. QED  BY <3>1, <3>2, <1>5
  <2>4. Listing(table') = [i \in 1 .. Len(table) + 1 |->
                             [client |-> table'[i].conn, user |-> table'[i].user]]
    BY <1>5 DEF Listing
  <2>5. Listing(table') = more  BY <2>2, <2>3, <2>4
  <2>6. QED  BY <2>5 DEF more
<1>8. Marked(table') = IF n.pub THEN Marked(table) \cup {c} ELSE Marked(table)
  <2>1. \A i \in 1 .. Len(table) : table'[i] = table[i] /\ i \in 1 .. Len(table) + 1
    BY <1>5
  <2>2. Len(table) + 1 \in 1 .. Len(table) + 1  BY <1>5
  <2>3. PICK k : k = Len(table) + 1  OBVIOUS
  <2>4. /\ DOMAIN table = 1 .. Len(table) /\ DOMAIN table' = (1 .. Len(table)) \cup {k}
        /\ table'[k] = n
    BY <1>5, <2>1, <2>2, <2>3
  <2>5. QED  BY <2>1, <2>4, <1>3 DEF Marked
<1>9. Roster!Joins(c, n.user, n.pub, FALSE)
  BY <1>6, <1>7, <1>8 DEF Roster!Joins
<1>10. QED  BY <1>3, <1>9 DEF RosterStep, Roster!Next

\* The session notices that a connection is gone: its client leaves.
LEMMA RosterClosed ==
  ASSUME IInv, NEW c \in Conn, on_connection_closed(c)
  PROVE  RosterStep
<1> DEFINE e == Entry(c)
<1>1. Known(c) /\ table' = RemoveAt(table, e)  BY DEF on_connection_closed
<1>2. e \in DOMAIN table /\ table[e].conn = c  BY <1>1 DEF Known, Entry
<1> HIDE DEF e
<1>3. /\ table \in Seq(Connection) /\ Len(table) \in Nat /\ DOMAIN table = 1 .. Len(table)
      /\ \A i, j \in 1 .. Len(table) : table[i].conn = table[j].conn => i = j
      /\ e \in 1 .. Len(table)
  BY <1>2, Indexes DEF IInv, Shape, Owned
<1>4. /\ DOMAIN table' = 1 .. Len(table) - 1
      /\ \A j \in 1 .. Len(table) - 1 : table'[j] = IF j < e THEN table[j] ELSE table[j + 1]
  <2>1. /\ RemoveAt(table, e) \in Seq(Connection) /\ Len(RemoveAt(table, e)) = Len(table) - 1
        /\ \A j \in 1 .. Len(table) - 1 :
             RemoveAt(table, e)[j] = IF j < e THEN table[j] ELSE table[j + 1]
    BY <1>3, Removed
  <2>2. QED  BY <2>1, <1>1, <1>3
<1>5. Listing(table') =
        [j \in 1 .. (Len(Listing(table)) - 1) |-> Listing(table)[IF j < e THEN j ELSE j + 1]]
  <2>1. Len(Listing(table)) = Len(table)  BY <1>3, ListingOf
  <2>2. ASSUME NEW j \in 1 .. Len(table) - 1
        PROVE  [client |-> table'[j].conn, user |-> table'[j].user]
                 = Listing(table)[IF j < e THEN j ELSE j + 1]
    <3>1. PICK k : k = IF j < e THEN j ELSE j + 1  OBVIOUS
    <3>2. k \in 1 .. Len(table) /\ table'[j] = table[k]  BY <3>1, <1>3, <1>4
    <3>3. Listing(table)[k] = [client |-> table[k].conn, user |-> table[k].user]
      BY <3>2, <1>3 DEF Listing
    <3>4. QED  BY <3>1, <3>2, <3>3
  <2>3. Listing(table') = [j \in 1 .. Len(table) - 1 |->
                             [client |-> table'[j].conn, user |-> table'[j].user]]
    BY <1>4 DEF Listing
  <2>4. QED  BY <2>1, <2>2, <2>3
<1>6. Marked(table') = Marked(table) \ {c}
  <2>1. ASSUME NEW d \in Marked(table')
        PROVE  d \in Marked(table) \ {c}
    <3>1. PICK j \in 1 .. Len(table) - 1 : d = table'[j].conn /\ table'[j].pub
      BY <2>1, <1>4 DEF Marked
    <3>2. PICK k : k = IF j < e THEN j ELSE j + 1  OBVIOUS
    <3>3. k \in 1 .. Len(table) /\ k # e /\ table'[j] = table[k]  BY <3>2, <1>3, <1>4
    <3>4. table[k].conn # c  BY <3>3, <1>2, <1>3
    <3>5. QED  BY <3>1, <3>3, <3>4, <1>3 DEF Marked
  <2>2. ASSUME NEW d \in Marked(table), d # c
        PROVE  d \in Marked(table')
    <3>1. PICK k \in 1 .. Len(table) : d = table[k].conn /\ table[k].pub
      BY <2>2, <1>3 DEF Marked
    <3>2. k # e  BY <3>1, <2>2, <1>2
    <3>3. PICK j : j = IF k < e THEN k ELSE k - 1  OBVIOUS
    <3>4. j \in 1 .. Len(table) - 1 /\ table'[j] = table[k]
      <4>1. CASE k < e
        <5>1. j = k /\ j \in 1 .. Len(table) - 1  BY <4>1, <3>3, <1>3
        <5>2. QED  BY <5>1, <4>1, <1>4
      <4>2. CASE ~(k < e)
        <5>1. j \in 1 .. Len(table) - 1 /\ ~(j < e) /\ j + 1 = k  BY <4>2, <3>2, <3>3, <1>3
        <5>2. QED  BY <5>1, <1>4
      <4>3. QED  BY <4>1, <4>2
    <3>5. QED  BY <3>1, <3>4, <1>4 DEF Marked
  <2>3. QED  BY <2>1, <2>2
<1>7. e \in DOMAIN Listing(table) /\ Listing(table)[e].client = c
  BY <1>2, <1>3, ListingOf
<1>8. Roster!Leaves(e)  BY <1>5, <1>6, <1>7 DEF Roster!Leaves
<1>9. QED  BY <1>7, <1>8 DEF RosterStep, Roster!Next

\* Stop: nobody publishes.
LEMMA RosterStop ==
  ASSUME IInv, NEW c \in Conn, process_stop_stream(c)
  PROVE  RosterStep
<1>1. table' = [i \in DOMAIN table |-> [table[i] EXCEPT !.pub = FALSE]]
  BY DEF process_stop_stream
<1>2. /\ DOMAIN table' = DOMAIN table
      /\ \A i \in DOMAIN table : /\ table'[i].conn = table[i].conn /\ table'[i].user = table[i].user
                                 /\ ~table'[i].pub
  BY <1>1, Indexes DEF IInv, Connection
<1>3. Listing(table') = Listing(table)  BY <1>2, ListingKept DEF IInv, Shape
<1>4. Marked(table') = {}  BY <1>2 DEF Marked
<1>5. Roster!Stops  BY <1>3, <1>4 DEF Roster!Stops
<1>6. QED  BY <1>5 DEF RosterStep, Roster!Next

\* Start: the first of that name publishes.
LEMMA RosterStart ==
  ASSUME IInv, NEW c \in Conn, process_start_stream(c)
  PROVE  RosterStep
<1> DEFINE u == Head(out[c]).user
<1>1. Takes(c, "Start")
      /\ table' = [i \in DOMAIN table |-> [table[i] EXCEPT !.pub = @ \/ i \in First(u)]]
  BY DEF process_start_stream
<1>2. u \in User
  <2>1. Head(out[c]) \in OutMsg  BY <1>1, TakeEffect DEF IInv
  <2>2. QED  BY <2>1 DEF OutMsg
<1> HIDE DEF u
<1>3. /\ DOMAIN table' = DOMAIN table
      /\ \A i \in DOMAIN table : /\ table'[i].conn = table[i].conn /\ table'[i].user = table[i].user
                                 /\ table'[i].pub = (table[i].pub \/ i \in First(u))
  BY <1>1, Indexes DEF IInv, Connection
<1>4. Listing(table') = Listing(table)  BY <1>3, ListingKept DEF IInv, Shape
<1>5. /\ DOMAIN table = 1 .. Len(table) /\ Len(table) \in Nat
      /\ DOMAIN Listing(table) = 1 .. Len(table)
      /\ \A i \in 1 .. Len(table) : /\ Listing(table)[i].client = table[i].conn
                                    /\ Listing(table)[i].user = table[i].user
  BY ListingOf DEF IInv, Shape
<1>6. Roster!NamedFirst(u) = First(u)
  <2>1. ASSUME NEW i \in 1 .. Len(table)
        PROVE  (/\ Listing(table)[i].user = u
                /\ \A j \in 1 .. (i - 1) : Listing(table)[j].user # u) <=> i \in First(u)
    <3>1. \A j \in 1 .. (i - 1) : Listing(table)[j].user = table[j].user /\ j \in 1 .. Len(table)
      BY <1>5
    <3>2. \A j \in 1 .. Len(table) : ~(i <= j) <=> j \in 1 .. (i - 1)  BY <1>5
    <3>3. QED  BY <3>1, <3>2, <1>5 DEF First, Named
  <2>2. First(u) \subseteq 1 .. Len(table)  BY <1>5 DEF First, Named
  <2>3. QED  BY <2>1, <2>2, <1>5 DEF Roster!NamedFirst
<1>7. Marked(table') = Marked(table) \cup {Listing(table)[i].client : i \in First(u)}
  <2>1. First(u) \subseteq 1 .. Len(table)  BY <1>5 DEF First, Named
  <2>2. \A i \in First(u) : Listing(table)[i].client = table[i].conn /\ i \in DOMAIN table
    BY <2>1, <1>5
  <2>3. ASSUME NEW d \in Marked(table')
        PROVE  d \in Marked(table) \cup {Listing(table)[i].client : i \in First(u)}
    <3>1. PICK i \in DOMAIN table' : table'[i].pub /\ d = table'[i].conn  BY <2>3 DEF Marked
    <3>2. /\ i \in DOMAIN table /\ d = table[i].conn
          /\ table[i].pub \/ i \in First(u)
      BY <3>1, <1>3
    <3>3. CASE table[i].pub  BY <3>2, <3>3 DEF Marked
    <3>4. CASE i \in First(u)
      <4>1. d = Listing(table)[i].client  BY <3>2, <3>4, <2>2
      <4>2. QED  BY <4>1, <3>4
    <3>5. QED  BY <3>2, <3>3, <3>4
  <2>4. ASSUME NEW d \in Marked(table)
        PROVE  d \in Marked(table')
    <3>1. PICK i \in DOMAIN table : table[i].pub /\ d = table[i].conn  BY <2>4 DEF Marked
    <3>2. i \in DOMAIN table' /\ table'[i].pub /\ d = table'[i].conn  BY <3>1, <1>3
    <3>3. QED  BY <3>2 DEF Marked
  <2>5. ASSUME NEW i \in First(u)
        PROVE  Listing(table)[i].client \in Marked(table')
    <3>1. i \in DOMAIN table' /\ table'[i].pub /\ Listing(table)[i].client = table'[i].conn
      BY <2>2, <1>3
    <3>2. QED  BY <3>1 DEF Marked
  <2>6. QED  BY <2>3, <2>4, <2>5
<1>8. Roster!Starts(u)  BY <1>4, <1>6, <1>7 DEF Roster!Starts
<1>9. QED  BY <1>2, <1>8 DEF RosterStep, Roster!Next

\* The session as the clients of Publish see it is the one of Roster, too, which
\* module Session implements: the two models of the one table agree on who is in it,
\* in which order, and who is marked.
THEOREM RosterIsKept == Spec => Roster!Spec
<1>1. Init => Roster!Init
  <2> SUFFICES ASSUME Init PROVE Roster!Init
    OBVIOUS
  <2>1. table = <<>>  BY DEF Init
  <2>2. Listing(table) = <<>> /\ Marked(table) = {}  BY <2>1 DEF Listing, Marked
  <2>3. QED  BY <2>2 DEF Roster!Init
<1>2. IInv /\ [Next]_vars => [Roster!Next]_(Roster!vars)
  <2> SUFFICES ASSUME IInv, [Next]_vars PROVE RosterStep
    BY DEF RosterStep
  <2>1. CASE UNCHANGED vars  BY <2>1, RosterStays DEF vars
  <2>2. ASSUME NEW u \in User,
               \/ Connects(u) \/ Drops(u) \/ Plays(u) \/ PlaysOn(u) \/ Pauses(u)
               \/ SendsFrame(u) \/ HandlesStart(u) \/ HandlesStop(u) \/ ShowsFrame(u)
        PROVE  RosterStep
    BY <2>2, RosterStays
       DEF Connects, Drops, Plays, PlaysOn, Pauses, SendsFrame, HandlesStart, HandlesStop,
           ShowsFrame, Receives
  <2>3. ASSUME NEW c \in Conn, process_video_data(c)
        PROVE  RosterStep
    BY <2>3, RosterStays DEF process_video_data
  <2>4. QED
    BY <2>1, <2>2, <2>3, RosterOpened, RosterClosed, RosterStart, RosterStop DEF Next
<1>3. QED  BY <1>1, <1>2, BooksAlways, PTL DEF Spec, Roster!Spec

=============================================================================
