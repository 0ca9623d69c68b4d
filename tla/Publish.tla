------------------------------ MODULE Publish ------------------------------
(***************************************************************************)
(* Who publishes: the users who have the buttons, the session and the      *)
(* clients together.  "Play" stops whoever publishes and starts the chosen *)
(* user; the session marks the connection and passes the message on; the   *)
(* client starts or stops and says in its next Connect whether it          *)
(* publishes.  Connections drop on the client's side first; the session    *)
(* may handle what was sent on them before it notices.                     *)
(***************************************************************************)
EXTENDS Integers, Sequences, FiniteSets, SequencesExt

CONSTANTS
  User,      \* host names
  NoUser,
  MaxConn,   \* bound: connections made
  MaxPlay,   \* bound: plays and pauses
  MaxOut,    \* bound: messages under way from a client
  MaxIn      \* bound: messages under way to a client

ASSUME PublishAssumption ==
  /\ NoUser \notin User
  /\ MaxConn \in Nat /\ MaxPlay \in Nat /\ MaxOut \in Nat /\ MaxIn \in Nat

VARIABLES
  link,      \* the connection of each client, 0 while it has none
  made,      \* connections made so far
  out,       \* what was sent on each connection and not yet handled
  inbox,     \* what is under way to each client
  own,       \* m_bPublisher of each client
  half,      \* whom "play" will start, having sent the stop
  plays,     \* plays and pauses so far
  table,     \* the session's connections
  stopper,   \* history: who sent the stop handled last, if no start since
  started,   \* history: who was started last, if no stop since
  history    \* what may make two publish or nobody

client == <<link, made, own, half, plays>>
ghost == <<stopper, started, history>>
vars == <<client, out, inbox, table, ghost>>

Conn == 1 .. MaxConn

Msg(kind, user, pub) == [kind |-> kind, user |-> user, pub |-> pub]

Init ==
  /\ link = [u \in User |-> 0] /\ made = 0
  /\ out = [c \in Conn |-> <<>>]
  /\ inbox = [u \in User |-> <<>>]
  /\ own = [u \in User |-> FALSE]
  /\ half = [u \in User |-> NoUser] /\ plays = 0
  /\ table = <<>>
  /\ stopper = NoUser /\ started = NoUser /\ history = {}

-----------------------------------------------------------------------------
(* A client. *)

\* A message on no connection is dropped.
Send(u, msg) ==
  IF link[u] = 0 THEN UNCHANGED out
  ELSE /\ Len(out[link[u]]) < MaxOut
       /\ out' = [out EXCEPT ![link[u]] = Append(@, msg)]

\* Mutant: a client that connects again is not said to publish.
Connects_silent(u) ==
  /\ link[u] = 0 /\ made < MaxConn
  /\ made' = made + 1
  /\ link' = [link EXCEPT ![u] = made + 1]
  /\ out' = [out EXCEPT ![made + 1] = <<Msg("Connect", u, FALSE)>>]
  /\ UNCHANGED <<own, half, plays, inbox, table, ghost>>

Connects(u) ==
  /\ link[u] = 0 /\ made < MaxConn
  /\ made' = made + 1
  /\ link' = [link EXCEPT ![u] = made + 1]
  /\ out' = [out EXCEPT ![made + 1] = <<Msg("Connect", u, own[u])>>]
  /\ UNCHANGED <<own, half, plays, inbox, table, ghost>>

\* What was under way to the client is lost, what it sent may be.
Drops(u) ==
  /\ link[u] # 0
  /\ link' = [link EXCEPT ![u] = 0]
  /\ inbox' = [inbox EXCEPT ![u] = <<>>]
  /\ out' \in {out, [out EXCEPT ![link[u]] = <<>>]}
  /\ history' = history \cup
       IF \E i \in DOMAIN inbox[u] : inbox[u][i].kind \in {"Start", "Stop"}
       THEN {"lost"} ELSE {}
  /\ UNCHANGED <<made, own, half, plays, table, stopper, started>>

\* "Play" sends a stop ...
Plays(u) ==
  /\ half[u] = NoUser /\ plays < MaxPlay
  /\ plays' = plays + 1
  /\ \E target \in User : half' = [half EXCEPT ![u] = target]
  /\ Send(u, Msg("Stop", u, FALSE))
  /\ UNCHANGED <<link, made, own, inbox, table, ghost>>

\* ... and then a start.
PlaysOn(u) ==
  /\ half[u] # NoUser
  /\ Send(u, Msg("Start", half[u], FALSE))
  /\ half' = [half EXCEPT ![u] = NoUser]
  /\ UNCHANGED <<link, made, own, plays, inbox, table, ghost>>

Pauses(u) ==
  /\ half[u] = NoUser /\ plays < MaxPlay
  /\ plays' = plays + 1
  /\ Send(u, Msg("Stop", u, FALSE))
  /\ UNCHANGED <<link, made, own, half, inbox, table, ghost>>

\* The capture loop sends a frame.
SendsFrame(u) ==
  /\ own[u] /\ link[u] # 0
  /\ Send(u, Msg("Frame", u, FALSE))
  /\ UNCHANGED <<client, inbox, table, ghost>>

Receives(u, kind) ==
  /\ inbox[u] # <<>> /\ Head(inbox[u]).kind = kind
  /\ inbox' = [inbox EXCEPT ![u] = Tail(@)]
  /\ UNCHANGED <<link, made, half, plays, out, table, ghost>>

HandlesStart(u) == Receives(u, "Start") /\ own' = [own EXCEPT ![u] = TRUE]

\* Mutant: the stop is answered, not carried out.
HandlesStop_ignored(u) == Receives(u, "Stop") /\ UNCHANGED own

\* A client that does not publish ignores it.
HandlesStop(u) == Receives(u, "Stop") /\ own' = [own EXCEPT ![u] = FALSE]

ShowsFrame(u) == Receives(u, "Frame") /\ UNCHANGED own

-----------------------------------------------------------------------------
(* The session. *)

Entry(c) == CHOOSE i \in DOMAIN table : table[i].conn = c
Known(c) == \E i \in DOMAIN table : table[i].conn = c

\* A write reaches the client if this is still its connection.
Reaches(i) == link[table[i].user] = table[i].conn

\* These entries of the table are sent the message.
Relays(msg, entries) ==
  LET to == {table[i].user : i \in {j \in entries : Reaches(j)}}
  IN  /\ \A u \in to : Len(inbox[u]) < MaxIn
      /\ inbox' = [u \in User |-> IF u \in to THEN Append(inbox[u], msg) ELSE inbox[u]]

Takes(c, kind) ==
  /\ out[c] # <<>> /\ Head(out[c]).kind = kind
  /\ out' = [out EXCEPT ![c] = Tail(@)]
  /\ UNCHANGED client

on_connection_opened(c) ==
  /\ Takes(c, "Connect")
  /\ table' = Append(table, [conn |-> c, user |-> Head(out[c]).user, pub |-> Head(out[c]).pub])
  /\ UNCHANGED <<inbox, ghost>>

\* Everyone marked is told to stop and no longer marked.
process_stop_stream(c) ==
  /\ Takes(c, "Stop") /\ Known(c)
  /\ Relays(Msg("Stop", NoUser, FALSE), {i \in DOMAIN table : table[i].pub})
  /\ table' = [i \in DOMAIN table |-> [table[i] EXCEPT !.pub = FALSE]]
  /\ stopper' = table[Entry(c)].user /\ started' = NoUser
  /\ history' = history \cup
       IF \E u \in User :
            /\ own[u] \/ \E j \in DOMAIN inbox[u] : inbox[u][j].kind = "Start"
            /\ ~\E i \in DOMAIN table : table[i].conn = link[u] /\ table[i].user = u
       THEN {"missed"} ELSE {}

\* The first connection of that name is marked and told to start.
Named(name) == {i \in DOMAIN table : table[i].user = name}
First(name) == {i \in Named(name) : \A j \in Named(name) : i <= j}

\* Mutant: the connection is told to start and not marked.
process_start_stream_unmarked(c) ==
  LET name == Head(out[c]).user IN
  /\ Takes(c, "Start") /\ Known(c)
  /\ Relays(Msg("Start", NoUser, FALSE), First(name))
  /\ started' = name /\ stopper' = NoUser
  /\ history' = history
       \cup (IF stopper # table[Entry(c)].user THEN {"crossed"} ELSE {})
       \cup (IF \E i \in First(name) : Reaches(i) THEN {} ELSE {"lost"})
  /\ UNCHANGED table

process_start_stream(c) ==
  LET name == Head(out[c]).user IN
  /\ Takes(c, "Start") /\ Known(c)
  /\ Relays(Msg("Start", NoUser, FALSE), First(name))
  /\ table' = [i \in DOMAIN table |-> [table[i] EXCEPT !.pub = @ \/ i \in First(name)]]
  /\ started' = name /\ stopper' = NoUser
  /\ history' = history
       \cup (IF stopper # table[Entry(c)].user THEN {"crossed"} ELSE {})
       \cup (IF \E i \in First(name) : Reaches(i) THEN {} ELSE {"lost"})

\* Mutant: frames are sent to everyone else, as messages are.
process_video_data_toOthers(c) ==
  /\ Takes(c, "Frame") /\ Known(c)
  /\ Relays(Msg("Frame", NoUser, FALSE), {i \in DOMAIN table : table[i].conn # c})
  /\ UNCHANGED <<table, ghost>>

\* Frames go to everyone who is not marked, their sender included.
process_video_data(c) ==
  /\ Takes(c, "Frame") /\ Known(c)
  /\ Relays(Msg("Frame", NoUser, FALSE), {i \in DOMAIN table : ~table[i].pub})
  /\ UNCHANGED <<table, ghost>>

\* The session notices that a connection is gone.
on_connection_closed(c) ==
  /\ Known(c) /\ \A u \in User : link[u] # c
  /\ table' = RemoveAt(table, Entry(c))
  /\ out' = [out EXCEPT ![c] = <<>>]
  /\ UNCHANGED <<client, inbox, ghost>>

Next ==
  \/ \E u \in User :
       \/ Connects(u) \/ Drops(u) \/ Plays(u) \/ PlaysOn(u) \/ Pauses(u)
       \/ SendsFrame(u) \/ HandlesStart(u) \/ HandlesStop(u) \/ ShowsFrame(u)
  \/ \E c \in Conn :
       \/ on_connection_opened(c) \/ on_connection_closed(c)
       \/ process_start_stream(c) \/ process_stop_stream(c) \/ process_video_data(c)

Spec == Init /\ [][Next]_vars

-----------------------------------------------------------------------------
TypeOK ==
  /\ link \in [User -> 0 .. made] /\ made \in 0 .. MaxConn
  /\ own \in [User -> BOOLEAN] /\ half \in [User -> User \cup {NoUser}]
  /\ \A c \in Conn : \A i \in DOMAIN out[c] :
       out[c][i].kind \in {"Connect", "Start", "Stop", "Frame"}
  /\ \A u \in User : \A i \in DOMAIN inbox[u] :
       inbox[u][i].kind \in {"Start", "Stop", "Frame"}
  /\ \A i \in DOMAIN table :
       table[i].conn \in Conn /\ table[i].user \in User /\ table[i].pub \in BOOLEAN

\* A client with nothing under way to it publishes exactly if the session has
\* its connection marked.
PublisherAgreed ==
  \A u \in User : \A i \in DOMAIN table :
    table[i].conn = link[u] /\ inbox[u] = <<>> => (table[i].pub <=> own[u])

\* Two clients publish only while a stop is on its way to one of them, or after a
\* stop passed by one that was not connected or was lost on its way, or two
\* "plays" crossed or came apart.
ToldToStop(u) == \E i \in DOMAIN inbox[u] : inbox[u][i].kind = "Stop"

OnePublisher ==
  history = {} => Cardinality({u \in User : own[u] /\ ~ToldToStop(u)}) <= 1

\* "Play" has the effect its user sees, once everything has arrived, but for the
\* same exceptions.
Quiet ==
  /\ \A c \in Conn : out[c] = <<>>
  /\ \A u \in User : inbox[u] = <<>> /\ link[u] # 0

PlayTakesEffect ==
  Quiet /\ history = {} => \A u \in User : own[u] <=> u = started

\* A client is never shown frames, its own or another's, while it publishes:
\* decoding would change the picture size the encoder works with.
NeverShownWhilePublishing ==
  [][\A u \in User : ShowsFrame(u) => ~own[u]]_vars
=============================================================================
