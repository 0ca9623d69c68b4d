# A verification project for shooting-demo

shooting-demo shares a camera or a desktop with collaborators. Hosts register
with a small HTTP server, create or join rooms, and in each room stream video
to one another through a relay process. This directory holds TLA+ models of the
parts of that system whose correctness is a matter of order, interleaving and
failure, the TLC configurations that check them on small instances, and theorems
about them that the TLA+ proof system checks for every instance.

## 1. The system

```
 shooting (Qt) --HTTP--> Realtime-Server --vfork/exec, SIGCHLD, SIGKILL--> Realtime-Session (one per room)
     |                                                                          ^
     +-- daemon.dll (Cdaemon, SocketsClient, Video) ------- websocket ----------+
              |
              +-- capture.dll (CCapture) -- escapi.dll (camera)
```

| Component | State | Operations | Interacts with |
|---|---|---|---|
| **Realtime-Session** (`Session.cpp`, `ClientConnection.cpp`, `SocketServer.cpp`) | vector of connections, each with socket, user name, publisher, controller and clear flags, time of the last key-frame request; `m_bExit`; the alarm | websocket callbacks (established, receive, closed); thirteen message handlers; heartbeat walk of the main thread; SIGALRM handler | daemon clients, by messages; two threads share the vector without a lock |
| **Realtime-Server** (`main.cpp`) | node, room and invite lists, next port, `_room_lock` | add/del-node, nodelist, invite, add/del/join/left-room, file transfer; `sigchld_handler` | the UI, by HTTP; the sessions, by vfork, kill and SIGCHLD; the signal handler interrupts the request thread |
| **daemon: SocketsClient, Cdaemon** | connection state, socket, thread, send buffer, controller and publisher names, waiting-for-key-frame flag | connect/reset, message senders, `handle_in`, heartbeat thread with three retries | session; UI callbacks; Video |
| **daemon: Buffer and senders** | one send buffer, its position | append, reset; every sender of `SocketsClient` | written by four threads without a lock |
| **daemon: Video** | publisher flag, force-key-frame flag, encoder, decoder, raw file | start, stop, reset_keyframe, onFrame/Encode, show | capture callbacks on the capture thread, `handle_in` on the websocket thread |
| **capture: CCapture** | capture and ack sequence, window size, quit, pause, thread; mirror driver, desktop duplication or GDI objects | start/stop/pause/resume, setters, capture loops (Windows, X11), setting the grabbing up again | Video::onFrame |
| **escapi** | per device: capture object, redo, error and do flags | init, do, is-done, deinit; reader callback | capture; Media Foundation |
| **shooting (UI)** | room, daemon, polling thread, refresh timer | create, join, quit, invite, assign, play, refresh | server, by HTTP in a nested event loop; daemon |
| **JsonCpp** (`Json.cpp`, the same file twice) | values; the state of a reading or writing | values as arrays and objects, paths, conversions, two readers, four writers | every request and every message |

Vendored or generated besides: everything under `daemon/deps`, `proto.hpp`.
`PROJECT.json` lists every part with its status.

### What is hard, and what correct means

* **Realtime-Session.** Two threads, no lock; sockets that close late, so a
  reconnecting user is in the table twice; control that moves by claim,
  assignment and departure; writes that fail; one timer, several reasons.
  Correct: the table is exactly the joined sockets; nobody but the creator of the
  room becomes a second controller, and there is one as long as there is somebody; viewers never wait for a key frame nobody
  asked for; every client hears heartbeats; an abandoned process goes away and
  a used one does not.
* **Realtime-Server.** A signal handler that takes a non-recursive lock on the
  thread it interrupts; signals that merge or come before there is a handler;
  processes that die at any time; forks that fail. Correct: rooms have distinct
  names, ids and ports; never two processes on one port; a room's pid is its own
  process; the lock is given back; requests are answered.
* **daemon and capture.** Pacing by acknowledgements over a lossy relay, one key
  frame request in flight, a reconnect thread beside the websocket thread, a send
  buffer shared by four threads. Correct: a live viewer's stream never stops for
  good; messages are sent whole; a connection that was made is used.
* **Who publishes.** "Play" is a stop and a start, sent by whoever presses it,
  over connections that drop with messages under way. Correct: client and
  session agree; one publishes; nobody is shown frames while publishing.
* **capture, escapi.** A display that changes its mode between any two steps,
  set-ups that fail half-way, a hand-over between two threads through one flag.
  Correct: nothing is written outside its buffer, a picture asked for comes.
* **shooting.** Handlers that wait for the server in nested event loops, answers
  used after the state they were about has changed. Correct: handlers return,
  a deleted client is not used, server and user agree on the room.
* **JsonCpp.** Arithmetic at the limits of the types, holes in arrays, comments.
  Correct: what is written is read back, and only JSON is read.

Every hazard is in `PROJECT.json` at its line, with the properties that cover it
or the reason why none does.


## 2. Modules

| Module | What it is | Extends |
|---|---|---|
| `ClientTable` | the connection table of a session and what each handler does to it, as constant-level operators | |
| `Roster` | abstract: who is in a session, in which order, and who publishes and controls | |
| `Session` | one Realtime-Session process: websocket thread, main thread, timer | `ClientTable`, `Roster` by `INSTANCE` |
| `MCSession` | message mixes and symmetry for TLC | `Session` |
| `ClientTableProofs`, `SessionProofs` | lemmas on the table and its roster; theorems on the session | |
| `RoomBook` | abstract: a list of rooms that gives no address out twice, and where the hosts are | |
| `Registry` | Realtime-Server with its signal handler and the kernel's process table | `RoomBook` by `INSTANCE` |
| `RegistryProofs` | theorems on it, the refinement of `RoomBook` among them | `Registry` |
| `Pacing` | abstract: a sender that stays within a window of its acknowledgements | |
| `Stream` | one publisher, the relay, several viewers, the links between them | `ClientTable`, `Pacing` by `INSTANCE` |
| `Connect`, `ConnectProofs` | how a client makes, loses, makes again and deletes its connection; theorems | |
| `MCStream`, `StreamProofs` | symmetry for TLC; theorems, the refinements of `Pacing` and `Roster` among them | `Stream` |
| `Publish`, `PublishProofs` | users, clients and session: who publishes; theorems, the refinement of `Roster` among them | |
| `Shooting`, `ShootingProofs` | the windows of the user interface with their nested event loops and the polling thread; theorems | |
| `SendBuffer` | the one send buffer of a client and its senders | |
| `VideoLife` | starting, stopping and deleting a capture | |
| `Grab`, `XCapture` | the capture loop on Windows with its three ways to grab; the loop on X11 | |
| `Camera` | escapi's threads, modes and errors | |
| `Picture`, `Pixels` | the sizes encoding and rendering share; the arithmetic on pixels | |
| `JsonMap`, `JsonArray` | the entries of a `Json::Value`; one used as an array, beside the list it should read as | |
| `JsonTree`, `JsonValue` | the order of values and paths into them; both for what an array becomes | `JsonMap`; `JsonArray` |
| `JsonPath`, `JsonScalar` | paths and places as text; strings, numbers and conversions | `JsonTree` |
| `JsonReading`, `JsonReader` | both readers as functions on lexemes; their documents, and a grammar | `JsonTree` |
| `JsonWriting`, `JsonWriter` | the four writers; what they write is read back | `JsonReading`, `JsonReader` |
| `Parts` | the parts from `SendBuffer` to `Pixels` and `JsonArray`, each by `INSTANCE` with variables of its own, and what each must keep | |
| `MCParts` | adds those of JSON that are recursive; one behaviour for each part | `Parts` |
| `PartsProofs` | theorems on each of them | `Parts` |

A definition whose name has a suffix after an underscore (`RequestsNext_not`) is a
mutant: the definition before or after it as a plausible bug would have it. No
action uses it; it is there to show that the property it is named with in
`PROJECT.json` would notice.

### Session

| Model | Code |
|---|---|
| `conns` | `m_pClientConnectionVector`, an entry per `ClientConnection` |
| `clear`, `recent` of an entry | `m_bClear`; `m_uLastKeyRequestTime` is less than 500 ms ago |
| `sock` | a libwebsockets connection: none, established, `Connect` received |
| `alarm`, `exit` | a pending `alarm(30)`; `m_bExit` |
| `proc` | the process: in `run()`, past its loop, ended, dead by a dangling iterator |
| `beat`, `stale` | the iterator of `process_heartbeat`; the vector changed under it |
| `out` | what the last handler handed to `lws_write`, for the properties |

One action per handler of `Session::on_message`, named like the message. Each
is one step because all of them run in the websocket thread. The heartbeat walk
of the main thread is one step per client, so that connections may open and close
between any two; a walk over a table that changed may go on at the position it
had or crash (`IteratorCrash`): the C++ standard allows either. `lws_write` may
fail for any subset of the publishers in `RequestKeyFrame`, where the code looks
at the result. `Ghosts` says whether a user's new socket may be registered before
the close of the old one has been handled. `claimed` is the one `Connect` with
`IsController` that the host that creates a room sends. An assignment may come
before it: every host that made or reused the room is offered the button
(`shooting-widget.cpp:143-145`), and `process_assign_controller` asks nobody who he
is. A context that cannot be created, or whose service loop ends, is one whose
clients never come or all go; there is no action for it.

### Registry

| Model | Code |
|---|---|
| `rooms`, `nodes`, `invites`, `next` | `_room_list`, `_node_list`, `_invite_list`, `_current_port` |
| `lock` | `_room_lock` |
| `job` | the locals of the request being served, and how far it is |
| `child` | the kernel's table of session processes: live, killed and not yet dead, zombie |
| `sig`, `armed` | SIGCHLD pending (pending or not, it is not counted); the handler installed |
| `hung` | the handler waits for the lock its own thread holds |

A request that takes the lock is two steps, three if it forks: up to where it
holds the lock with the list as it will leave it, the recording of the new
process, and from the unlock to the reply. SIGCHLD may be delivered before,
between and after. A guid is drawn together with a port and is named by it. The
handler reaps one process per signal, which is the code's one `waitpid`. A child
that cannot execute the session is a process that dies at once (`Dies`); that its
`exit(0)` (`main.cpp:82`) runs the destructors of the server, in memory that the two
share after `vfork`, is undefined and not followed.

### Stream

| Model | Code |
|---|---|
| `cap`, `ack` | `m_CaptureSeq`, `m_AckSeq` of `CCapture`, without a lock |
| `force`, `fresh`, `idr` | `m_bForceKeyframe`; the encoder was just opened; the frame being encoded is a key frame |
| `phase` | where the capture thread is between the window test and `m_CaptureSeq++` |
| `writer`, `seq` | where the publisher's websocket thread is in `set_ack_sequence` or `reset_sequence`; the number it is about to write |
| `conns` | the session's table, as in `Session` |
| `met` | the clients whose `Cdaemon` constructor has run |
| `waiting` | `m_WaitingKeyframe` of each viewer |
| `up`, `down` | messages on their way to the session and back, in order |
| `lost`, `missed` | histories, for the properties only |

The capture thread takes a frame in three steps, so that acknowledgements and
resets come in between: `CaptureBegins` (the window was open; a new encoder
resets the sequence; `m_bForceKeyframe` is read), then one of `FrameSent`,
`FrameSkipped` (the rate control left it empty, the number is taken back) and
`EncodeFails`, then `FrameCounted` (the force flag is cleared unless the encoder
failed, the frame is counted). The publisher's websocket thread is
`AckArrives` (up to the test of `set_ack_sequence`), `DropAckArrives` and
`RequestArrives` (up to the call of `cap_reset_sequence`), then `ResetReads` and
`AckWritten`: between the test or the read and the write the capture thread may
count, skip, or open an encoder and reset the same number. `RelayFrame`, `RelayAck` and
`RelayRequest` are the session's handlers, through the operators of
`ClientTable`. `ViewerShows` acknowledges and then decodes, `ViewerRejoins` is
`HeartbeatThread` after a successful reconnect.

Abstractions: a connection and its `Connect` are one step; every client has one socket and a lost connection is noticed at
both ends in one step (late closes are `Session`'s matter); a key frame always
decodes and the encoder never skips one; another frame may or may not decode,
whatever came before it; the acknowledgements made up for several swallowing
viewers are one message; `lws_write` does not fail except by a broken
connection. Those about codecs and sockets are about library code.

### Connect

| Model | Code |
|---|---|
| `state`, `exit` | `m_State`, `m_Exit` of `SocketsClient`, without a lock |
| `ws`, `link` | the websocket thread of the last `connect()`; the connection it has |
| `at`, `first`, `retry` | where the caller of `connect()` is: first the constructor of `Cdaemon`, then `HeartbeatThread` with its `retry` |
| `notified` | `m_cv` was notified while the caller waited |
| `sent` | messages sent on the present connection, by any thread |
| `quit`, `ui` | `m_bQuit`; how far the destructor is |

`connect()` is cut where another thread can come in between: `ResetBegins`,
`ThreadStarts` (after the join), `TestsState`, `EntersWait`, then `WakesUp` or
`TimesOut`. A notification reaches only a caller that waits already, since
nothing holds the mutex while the state changes. A wait may also return without
one, which the C++ standard and Windows' condition variables allow; the history
variable `spurious` records that it did in the present attempt, since
`connect()` then takes an attempt under way for one that succeeded. `Established`, `Refused` and `Closed` are the callbacks of
libwebsockets; leaving the loop destroys the context, which closes a connection
that stands and calls back (`ContextDestroyed`). The unlocked flags are read and
written one at a time, in some order. `OthersSend` is `send_msg` from the capture
thread, the user interface and the websocket thread: once there is a client they
send whenever `m_State` says established, so that on a connection that is made
again their messages may come before the heartbeat thread's `Connect`
(`daemon.cpp:128`).

### Publish

| Model | Code |
|---|---|
| `link`, `made` | the connection of each client; how many there were |
| `out`, `inbox` | what a client has sent on a connection and the session not handled; what is under way to a client |
| `own` | `m_bPublisher` of its `Video` |
| `half` | whom "play" will start: `button_play_clicked` is between `StopStream` and `StartStream` |
| `table` | `m_pClientConnectionVector`: connection, name and publisher mark |
| `stopper`, `started`, `history` | histories, for the properties only |

`Drops` is the client's side of a lost connection: what was under way to it is
lost, what it sent may still be handled, and the session notices later, in
`on_connection_closed`. `process_start_stream` marks the first connection of the
name, `process_stop_stream` everyone marked. `history` names the accidents after
which two may publish: a stop that passes a publisher which is not in the table
("missed"), a stop or start that is lost ("lost"), two users pressing at once
("crossed").

### Shooting

| Model | Code |
|---|---|
| `stack` | the handlers in progress, innermost last, each with its answer and what it read before |
| `shown`, `timer`, `closing` | which window shows; the refresh timer; the program is to end |
| `room_id`, `session` | `room_id`, shared with the polling thread; `session_url` |
| `live`, `made` | clients (`Cdaemon`) that live, and how many were made |
| `poll` | the thread that polls for invitations |
| `where` | where the server that is set up has this host |
| `late` | requests given up after five seconds, which the server may still handle |
| `elsewhere` of a handler | its request went to a server that is no longer set up |
| `doubt` | history: what happened since the server last answered an entering or leaving |

A handler is cut where it calls `http_wait`: before, and after `Returns`, which
only the innermost may do. An answer may be late: the loop ends after five seconds
(`GivenUp`), and the server handles the request all the same, now, later than what is
asked next, or never (`HandledLate`). `sig_done` comes only when the address of the
server has changed (`config-dialog.cpp:68-82`), so `ConfigDone` is a change of server:
the new one may know the host from before, and what is under way was sent to the
old one.

### The parts of a client

`MCParts` lets a behaviour choose one part, which then runs alone: their states are
independent, so nothing is lost, and one run answers for all of them. Each has a
history `happened` with what went wrong and the causes there were; its
properties say that the first needs the second.

* **`SendBuffer`.** `pos` is `Buffer`'s position, `call` where each thread is in its
  appends (the test that the bytes fit, the copying and the advance are three steps,
  each of which may read `m_pos` again or not), the test of `m_State`, the use of
  `m_wsi` and the reset. What a client does that has written behind the end of the
  buffer is undefined and not followed.
* **`VideoLife`.** The websocket thread in `Video::start` and `stop`, the destructor
  of `Cdaemon`, and every thread `start_screen` made, which share `m_hEvent`,
  `m_hMessageWnd`, `m_Quit` and the raw file. A wait of five seconds may end early
  as far as the thread it waits for is concerned.
* **`Grab`.** `mirror`, `dx` and `gdi` are the objects of the three ways, with the size
  each was made for; `mode` is the display's, `told` whether `WM_DISPLAYCHANGE` has
  been handled. Each call that asks the display for its size is a step of its own.
  The mirror's display may keep another mode, which set-up ignores
  (`CaptureWin.cpp:612`).
* **`Camera`.** The capture thread (`InitCapture`, `Redo`, `Closable`, ...) and the
  reader's callback (`OnReadSample`, cut at `requestNext`, the copying and the raising of `gRedo`),
  with `doCapture` between them. `misfit`, `format` and `good` are how far each mode is from what was asked for,
  who can convert it, and whether its samples come.
* **`XCapture`.** `start()` and the thread, the condition variable between them, the
  shared-memory image, and the window in unsigned arithmetic. An image that could not
  be made of a new size is not tried again (`CaptureLinux.cpp:259-266`).
* **`Picture`.** The frame size, buffer and encoder of one `Video` under `onFrame`,
  `Encode`, `show` and `stop`.
* **`Pixels`.** Operators over one pair of sizes and a set of changed pixels: tiles,
  planes, overlay, strides, scaling, conversion.
* **`JsonArray`, `JsonValue`.** An array under its operations, beside the list it
  should read as; what it becomes compared with other values and assigned to
  through paths.
* **`JsonScalar`, `JsonReader`, `JsonWriter`.** Every short text and number; every
  short document.
  The two copies of `Json.cpp` are the same, and so are `Reader` and `OurReader`,
  `StyledWriter` and `StyledStreamWriter` for most of their lines: one definition
  with a record of features or settings stands for them all.

## 3. Runs

| Run | Question | States | Bounds, and why they suffice |
|---|---|---|---|
| `SessionRoles` | does the table follow the sockets; is `Roster` implemented | 18 thousand | three sockets, two users: the least with a user twice in the table beside another client; states that differ only in `out`, which no action reads, are one (`Tables`); one sequence number, since the session never compares them |
| `SessionLife` | what makes a second controller; is a key frame asked for whenever buffers are cleared; does an abandoned session end; do heartbeats reach everybody | 122 thousand | two sockets of two users without ghosts: one client under the walk or in control, and one that disturbs it; publishing ends with the connection (`StopStream` is in `SessionRoles`) |
| `SessionTimeout` | is the timer about publishers, as it logs | violation | one client: leave, come back, publish |
| `RegistryRooms` | are rooms, ports, processes and the lock kept, and is `RoomBook` implemented; are requests answered | 781 thousand | two names, one host, three process ids, at most three ports: a room restarted beside a new one, with a process id used again; no symmetry, since `Answered` is a liveness property |
| `StreamFaults` | pace, accounting, key frames under every fault | 2.79 million | two viewers, a window of one, two frames, an acknowledgement or request sent to the publisher or by a viewer when the one before it is gone: window full, exceeded by a reset, and open again; an acknowledgement tested before an encoder is opened and written after; a request of either viewer while the other swallows |
| `StreamReopens` | does the stream go on | 388 thousand | two viewers, one of which may come and go; no symmetry, since the property is a liveness property |
| `StreamSwallow` | is a swallowed frame acknowledged | violation | one viewer, two requests within 500 ms |
| `ConnectOnce` | is the state right about the connection; is every connection announced, remade and ended | 4.5 thousand | the code's three attempts; two messages of other threads: before the `Connect`, and between it and the request |
| `ConnectTimeout` | does a timeout mean no connection | violation | one attempt |
| `PublishTogether` | do clients and session agree who publishes; does "play" take effect; is a publisher shown frames | 1.68 million | two users, three connections, two plays, two messages each way: two plays that cross, a connection remade while a stop is under way, and an old connection's messages behind a new one's |
| `ShootingOverlap` | does every handler of the user interface return; what does it take to use a deleted client, to leak one, to be in the wrong room | 602 thousand | two rooms, invitations to one of them, handlers nested two deep, two clients, one request handled late: any two handlers one inside the other, and each given up before the other; no symmetry, since `HandlersReturn` is a liveness property |
| `ClientParts` | the small parts of a client and the JSON library, one per behaviour: the eleven properties of `ClientParts.cfg` | 204 thousand | see below |

`RegistryRooms` does not check deadlock, because a service thread that waits for
its own lock really stops when no session is left to die. Nor do `PublishTogether`,
`ShootingOverlap` and `ClientParts`: the users have pressed what they may, the
program has ended, or the client is deleted. In all other runs a step is always
possible: a client may leave or come back, and a session that is over stays so
(`Finished`).

The counters are bounded by guards or by the instance: `MaxRooms` (ports drawn),
`MaxInvites`, `MaxSeq` (frames captured), `MaxLink` (messages on the links to the
publisher and from a viewer when one is added, which otherwise grow with every viewer
that comes and goes; two in `StreamSwallow`, one elsewhere), `MaxSent` (messages of other threads on one connection), `MaxConn`, `MaxPlay`,
`MaxOut` and `MaxIn` of `Publish`, `MaxDepth`, `MaxDaemons` and
`MaxLate` (requests given up and still to be handled) of `Shooting`. The
theorems hold for every value of those they are about.

The type invariants of `Session`, `Registry`, `Stream`, `Connect` and `Publish`
are theorems (section 5); that of `Shooting` is part of `InTheRoom`, which is one
too. The bounds of
`ClientParts`: two threads that send into a buffer of three headers; two
captures; displays of one to three lines and a camera of two; three native modes;
three frames, numbered modulo 16; two sizes; pictures of up to six pixels square
with tiles of two; arrays of up to three elements; texts of up to three characters; documents of up
to five lexemes after one of four beginnings, two of them comments, newlines or
errors. `JsonScalar` scales the widths down, in the order they have: an `Int` of
three bits, a mantissa of four, a `LargestInt` of six.

### What the runs show

* Control moves by claim, assignment and departure, and is lost only with the last
  client or by an assignment to somebody who has left. As long as no user is in the
  table twice, the one step that puts it in two hands is the creator's `Connect`
  behind an assignment (`Session.cpp:172-193` asks for no claim, and line 267 marks
  the creator whoever is marked); nothing makes a third controller, and the next
  assignment leaves one.
* No death of a session, however badly timed, merged or unnoticed, gives a port to
  two processes or a room a stranger's pid. The price of the handler's lock is
  availability: `hung` is reachable, and `Answered` says it is the only way to
  stop answering.
* The two unlocked sequence numbers do keep the pace of the window. An
  acknowledgement that was tested before a reset and is written after it
  (`CaptureWin.cpp:403-404`) takes the number back, which shuts the window for longer
  than it need; nothing else does, and no such write names a frame that was not taken.
  A frame whose acknowledgement is outstanding is somewhere: on a link, about to be
  written, or lost with a link.
* `KeyFrameComing` holds up to `missed`: a request that arrives while a
  delta frame is being encoded is forgotten (`video.cpp:312`), and so is one
  under way when the publisher loses its connection.
* **Finding (SessionTimeout).** `alarm(30)` is never cancelled
  (`Session.cpp:252`): a publisher that comes back in time is cut off all the same.
* **Finding (StreamSwallow).** The acknowledgement the session makes up
  (`ClientConnection.cpp:60`) has four raw bytes where the publisher expects JSON
  (`sockets-client.cpp:351`); it is dropped. Two viewers' requests within
  500 ms, or one viewer's two, can fill the window with swallowed frames, and the
  key frame that would help is never captured.

* A client's state is always right about its connection, and `delete` ends. A
  connection has one `Connect`, and the heartbeat thread's request after it. Only the
  first connection begins with it: on one made again the frames and orders of other
  threads may go before, which the session then has from a socket that is not in
  its table. That
  every connection is announced holds only without spurious wake-ups: with one,
  `connect()` returns true too early, `send_connect` is dropped because the state
  is not established yet, and the connection that comes up later is never
  announced, although the heartbeat thread is content with it.
* **Finding (ConnectTimeout).** A notification between the test of `m_State`
  (`sockets-client.cpp:175`) and the wait (`:179`) is lost: a connection that
  stands is reported as timed out and dropped. In the constructor this is final.

* Client and session never disagree for longer than a message takes
  (`PublisherAgreed`), and no client that publishes is ever shown a frame
  (`NeverShownWhilePublishing`): links keep their order, and the mark is set and
  cleared where the message is sent. That one publishes holds up to the three
  accidents of `history`; TLC finds each of them as soon as its exception is left
  out.
* Every handler of the user interface returns. A deleted client is used only if
  "quit" is clicked while a quit waits or an invitation revives `room_id` under a
  refresh; a client leaks only if two "enter" overlap; the server has the host
  elsewhere only after such an overlap, or if, since it last answered an entering or
  leaving, a request that was given up was handled after all, a leave was not passed
  on, or another server was set up. `room_id` may be overwritten by a
  stale invitation once per room, not later.
* Messages that no other send overlaps go out whole, but for a frame too large for
  what is left of the buffer; only overlapping sends write behind its end, each of
  which has tested that its bytes fit. After an overlap the buffer is in order again as soon
  as all threads are done.
* A capture thread touches what is deleted or closed only if a stop gave up
  waiting, started twice, or overlapped the destructor; once stopped a client never captures again, and a
  second start can leave `start_screen` waiting for good.
* A grabbed frame is larger than its buffer only if the mode changes between the
  two steps that read it, and the camera's picture leaves the frame only on a
  display lower than it. A forced frame is sent even if the screen stands still, but
  with a camera only where the mirror driver grabs.
* escapi's hand-over keeps the two threads apart, gives up failed modes and
  delivers, but for an error once noted and the mode chosen again when the capture
  thread is faster than the callback.
* A user name with a quote or a backslash does not arrive (`NamesArrive`); the
  lenient reader takes a token behind a comment for a comma (`CommentsHarmless`); a
  document that is written and read back is the same, with the exceptions named at
  `DocumentsKept`.

What the properties of JSON are silent about, because the code and its own words
disagree there (`Json.h`, `Json.cpp` are the same in both programs):

| Code | What it does | What is said of it |
|---|---|---|
| `Value::resize` | a shorter array that ends in a hole has fewer elements than asked for | "Resize the array to size elements", `Json.h:824`; the assertion `Json.cpp:3406` |
| `Value::removeIndex` | a hole is not removed, and with a hole before it the last element is removed with that hole | "Remove the indexed array element", `Json.h:950-956` |
| `Path` | `[%]` leaves a name `]` behind the argument, and every `%` takes the first of up to five arguments | ".%" takes a name and ".[%]" an index as parameter, `Json.h:1083-1084` |
| `Reader::getLocationLineAndColumn` | column 0 between a carriage return and its newline | columns start at 1, `Json.cpp:1007` |
| `InRange` on real numbers | 2^63, and 2^64, pass for an integer of that width | the assertion `Json.cpp:3195` and its comment |
| `OurReader`, `failIfExtra` | text behind the document that is not a token is no failure (`Json.cpp:1270`) | "parse() returns false when extra non-whitespace trails the JSON value", `Json.h:1629-1631` |
| `Features::strictMode` | text behind the document is taken, and a comma between a member with an empty name and `}` | "strictly compatible with the JSON specification", `Json.h:389-395` |
| both readers | a comment before `:`, or alone in `[]`, is a failure | comments are allowed, `Json.h:383` |

Each of these lines was met while a property was being stated and is exempted in it by
name (`odd`, `AsDocumented`, `Both`, `JustAbove`, `Mended`, `Misplaced`); none of them is
met by the messages that the two programs exchange.

Seen while modelling, without a promise in the code to check them against: a
publisher that is alone, or whose viewers all arrive late, stops after one window
of frames until a viewer that reconnects asks for a reset (`daemon.cpp:67` has the
request commented out); a publisher that reconnects asks for none
(`daemon.cpp:129`); a window of failed encodings closes it for good; an "enter" that
is answered after the server was changed joins the new server's address with the old
one's port (`shooting-widget.cpp:141-142`, `269`); and a forced frame is not sent for
its own sake while a camera is in use with desktop duplication or GDI, which in this
client it always is (`video.cpp:107`, `CaptureWin.cpp:869`): it waits for the camera's
picture.

## 4. Fairness

* `Session!FairSpec`: weak fairness of the main thread's heartbeat walk, of the
  timer, and of the steps by which the process ends. They are a `sleep` loop,
  a kernel timer and straight-line code. Nothing is assumed of clients:
  they need not connect, close or send.
* `Registry!FairSpec`: weak fairness of a request that has begun, and of a pending
  signal. No request need arrive, and no session die.
* `Stream!FairSpec`: weak fairness of the capture thread, of the publisher's
  websocket thread, of the session's relaying, of the 500 ms window, and of each
  viewer's messages. As links are queues over TCP, a message on a connection that
  stands is delivered. Nobody is bound to join, leave or come back.

* `Connect!FairSpec`: weak fairness of the caller, of the websocket thread's own
  steps and of the destructor. The server need not answer, the library need not
  fail, the user need not leave.

* `Shooting!FairSpec`: strong fairness of `Returns` at each depth. A loop whose five
  seconds are over returns as soon as what it serves has returned; a handler that
  nests in it disables that for a while, not for good. The server need not answer.
* `MCParts!Spec`: weak fairness of each thread of the part that runs, as straight-line
  code; strong fairness of `VideoLife!Leaves`: the websocket thread looks at `m_Exit`
  between any two messages, which may keep coming. The display, the user and the camera owe nothing.

The fairness of the capture thread is of its steps together: a frame, a skip and
a failure all count, so that an encoder that only skips is not ruled out.

## 5. Proofs

TLAPS checks the theorems below for every value of the constants. The
assumptions: `NoUser` is no user, `NoPid` no process id, ports are positive,
`Ghosts` is Boolean, the publisher is a client, the window and the number of
attempts are positive, the sockets of a stream are named like their users, no room
is named like one of the model's tags (`NoRoom`, `"idle"`, `"asking"`, `"gone"`,
`"0"`), handlers may nest, and the bounds of `Publish` and `Shooting` are numbers.
Those of the parts (`PartsAssumption`): a buffer's size and the bound of an array are numbers; sizes and heights
are positive; there is a mode, as `scanMediaTypes` names the first one where none is
in question; a tile has a size; and sequence numbers stay below the width of a word,
which only `XFramesSized` needs. TLC evaluates all of them.

| Theorem | States |
|---|---|
| `SessionProofs!TypeCorrect` | `Spec => []TypeOK` |
| `SessionProofs!SocketsMatch` | `Spec => []ConnsMatchSockets` |
| `SessionProofs!OneController` | `Spec => AtMostOneController` |
| `SessionProofs!RosterIsKept` | `Spec => KeepsRoster`: `Session` implements `Roster` |
| `SessionProofs!ControlKept` | while somebody stays, control is lost by an assignment only |
| `SessionProofs!ClearingAsked` | `Spec => ClearIsAskedFor` |
| `RegistryProofs!TypeCorrect` | `Spec => []TypeOK` |
| `RegistryProofs!RoomsNeverClash`, `PortsNeverShared`, `PidsBelong`, `LockReleased` | `RoomsDistinct`, `PortExclusive`, `PidBelongs`, `NoLockLeak` |
| `RegistryProofs!AddressStays` | `Spec => AddressKept`, what `RoomBook` means for the list |
| `RegistryProofs!BookIsKept` | `Spec => KeepsBook`: `Registry` implements `RoomBook` |
| `StreamProofs!TypeCorrect` | `Spec => []TypeOK` |
| `StreamProofs!WindowKept` | `Spec => Pace!Paced` |
| `StreamProofs!StreamKeepsPace` | `Spec => KeepsPace`: `Stream` implements `Pacing` |
| `StreamProofs!FramesAccounted`, `KeyFrameOnItsWay` | `Accounted`, `KeyFrameComing` |
| `StreamProofs!RosterIsFollowed` | `Spec => [][Roster!Next]_(Roster!vars)` |
| `ConnectProofs!TypeCorrect`, `StateIsTrue` | `TypeOK`, `BelievesRight` |
| `ConnectProofs!IntroducesOnce`, `StandsAnnounced` | `Introduces`, `Announced` |
| `PublishProofs!TypeCorrect` | `Spec => []TypeOK` |
| `PublishProofs!BooksAlways` | `Spec => []IInv`, the strengthening below |
| `PublishProofs!AgreedAlways` | `Spec => []PublisherAgreed` |
| `PublishProofs!NotShown` | `Spec => NeverShownWhilePublishing` |
| `PublishProofs!OneAtATime`, `PlayWorks` | `OnePublisher`, `PlayTakesEffect` |
| `PublishProofs!RosterIsKept` | `Spec => Roster!Spec`: `Publish` implements `Roster` |
| `ShootingProofs!HandlersSafe` | `Spec => []IInv`, the strengthening below |
| `ShootingProofs!AlwaysInTheRoom`, `DeadUseOverlaps`, `HostPlaced` | `InTheRoom`, `DeadUseNeedsOverlap`, `PlacedRight` |
| `ShootingProofs!OvertakenAtMostOnce` | `Spec => OvertakenOnce` |
| `PartsProofs!SendBufferSafe`, `PicturesFitAlways`, `AddressesAlwaysRight` | `SendsWhole`, `PicturesFit`, `AddressesRight` |
| `PartsProofs!CapturesOrderly`, `GrabbedFits`, `CameraSharedSafely`, `XFramesSized` | `LifeOrderly`, `FramesFit`, `CameraShared`, `XFramesFit` |
| `PartsProofs!ArraysReadAsLists` | `ReadsAsList` |

**Session.** `TypeOK` and `ConnsMatchSockets` are inductive together.
`ClientTableProofs` says of each operator on the table which sockets and
controllers it leaves (`SameClients`, `SameControllers`); `Origin` follows
positions through an `erase`. `AtMostOneController` is not inductive: a claim
would make a third controller if there were two before, and an assignment marks
everybody of a name. `ControlInv` adds that names are distinct without ghosts;
before the claim is spent at most one controls, after it at most two. `ClearIsAskedFor` is about steps: `CloseOrigins` and
the lemmas on who clears (`FrameClears`, `KeyRequestClears`) trace each entry that
clears to the entry it was before, through an `erase` too.

`Roster` is what a session promises about its clients: they are listed in the order
in which they came; control is claimed once, passes to the oldest that stays, and
may be assigned by anybody at any time, before the claim as well. Its state is the table's sockets and names
(`Seats`), the sockets of those marked (`Sockets`), and `claimed`. Messages map to
`Starts`, `Stops`, `Assigns` or a stutter, `Connect` to `Joins` (`JoinSeats`), a close
to `Leaves` (`CloseSeats`), the end of the process to `Ends`. It needs
`ConnsMatchSockets`: were a socket in the table twice, a close would take one entry
and a mark might stay with the other. Three models have such a table, and the same
lemmas show that all of them follow `Roster`: `Session`, `Stream`, whose
publisher is in the session from the start, and `Publish`, where nobody controls.

**Registry.** `BookInv` strengthens the four properties with: the lock is held
exactly between a request's first step and its reply (`LockHeld`); every port in
use was drawn from the counter (`PortsDrawn`); the process on a room's port
is the room's or the one just forked for it (`Owned`); a forked and unrecorded
process is on its own room's port (`ForkedOwns`). While the service hangs, the
list no longer follows the processes, so the middle ones are claimed up to then.
Ports stay exclusive because a port is drawn once and a restart happens
only when the room's process has been reaped.

`RoomBook` is what users rely on: a listed room is found at its address, and an
address that was ever given out, if only for a start that failed, is not given out
again, so that an old invitation leads to its own room or to none; a deletion leaves
nobody in the room; and only `join-room`, which does not look for the room
(`main.cpp:446`), may put a host where no room is. The refinement
maps `book` to the list without status and process, and `spent` to the ids drawn
but for the one a fork is under way with (`Pending`): a new room is opened when it is
recorded, and drawing its id is a stutter, as a restart, a death and a signal are; a
failed fork is `Fails`, a successful `del-room` is `Closes`. It needs that every port
in use was drawn (`Ranged`) and that the process just forked is on the port of its
room's entry, if there is one (`ForkedOwns`).

The hosts are where the node list says, but for those in a room whose deletion is
past the room list and not yet at the node list: they count as out (`Place`), so that
`DelRoom` is `Closes` and `DelRoomReplies` a stutter. `JoinRoom` is `Asks` and
`JoinRoomReplies` is `Joins`, of the address in between (`Asking`); `AddRoomReplies` is
`Enters`, of a room that is still listed, which `Served` carries over the fork, the
signals and the unlock.

**Stream.** `IInv` adds to `TypeOK` that a number is taken back only when one was
given out (`Begun`), that nothing is acknowledged, or about to be, that was not given
out (`Acknowledged`), and that no message
on any link is for a number that was not given out (`Links`). `Sent` counts a
number taken back as given out, which is what makes a reset between the
taking back and the counting harmless. Each action preserves `IInv`; steps
outside the publisher share one lemma (`ElsewhereKeeps`). The refinement maps
`sent` to `Taken`, which counts the frame in the making, `acked` to `ack`, and `due`
to what the websocket thread is about to write, if anything; `CaptureBegins` is `Take`,
with a new encoder too, `FrameSkipped` is `GiveBack`, `AckArrives` and `ResetReads` are
`Hear`, `AckWritten` is `Write`, all else stutters. `Paced` is what users of `Pacing`
rely on: nothing is acknowledged that was not taken, and a step that leaves the newest
frame more than one beyond the window is a write that takes the number back.

What becomes of frames and requests needs more (`Safe`): the session takes the
publisher and nobody else for its publisher (`Roles`), nothing is on the links of
a client that is gone (`Silent`), and a publisher that is gone may have missed a
request (`Interrupted`). `Accounted` is about the frames that were counted;
`AllHeld` adds the one that was encoded and is not, which an acknowledgement may
overtake. `KeyFrameComing` would be satisfied by a key frame that the encoder makes
for its own reasons, but that one may fail without being repeated: `Honoured` asks
for a request on its way, a force flag that the next frame will read, or a forced key
frame.

**Connect.** `CInv` adds that only a polling or just stopped thread has a
connection (`LinkOwned`), that a thread whose connection failed or was given up
has been told to leave (`ToldToLeave`), that an attempt is left (`Counted`), and
what has been sent by where the caller is (`Introduced`): unless its wait was
cut short `connect()` returns true only when its attempt is decided (`Settled`),
so a `Connect` that was dropped belongs to a connection that is gone. No message of
another thread is a `Connect`, and until the constructor has connected there is no
other thread that sends (`Alone`), so what they send changes nothing but where
the one `Connect` stands.

**Publish.** `PublisherAgreed` speaks of clients with nothing under way; the invariant
must speak of all. `Says(q, o, n, b)` is what a client that publishes iff `o` does
once it has handled the first `n` messages of `q`. `Agreed` is that for the
whole queue and the session's mark, `Shown` that for what comes before a frame.
`Introduced` keeps a `Connect` first on its connection and true until it is
handled, which needs `Reached`: nothing is under way to a client that is not in
the table, so no start can overtake it. `Owned` makes connections and entries
unique. Four lemmas say what appending and handling a message does to `Says`; one
(`RelayKeeps`) covers stop, start and frame, which differ only in whom they
reach and how those are marked. `OnePublisher` and `PlayTakesEffect` follow from one
more of the kind, `Turned`: as long as nothing went wrong, what a client will do
once it has handled its inbox is to publish iff it is the one that was started,
and nobody is started while a stop is on its way to the session.

**Shooting.** `IInv` says where in the stack each handler can be and what it may
rely on when its answer comes: constructor and destructor run alone (`Alone`); the
room's window is shown with a session and a live client (`Windows`); one "enter" at
a time leaves no client behind (`EnteredOnce`), one "quit" at a time finds the room
(`QuitOnce`), a refresh that outlives its room finds no `room_id` (`RefreshOff`);
the one answer that has come and is not taken says where the server has the host,
unless there is reason to `doubt` it (`Placement`): a request that was given up is
handled late, a leave is dropped, or a change of server sends what is under way
elsewhere; and only an invitation asked for before a room was entered can
overtake it (`PolledBefore`). Each part names the accidents of `history` that it
does not survive, so the proof shows these suffice, for any depth of nesting.

**The parts of a client.** Each has an invariant of its own.
* `SendBuffer` (`SendInv`): what is in the buffer and what is left to append add up
  to the message, and the position is still the one at which its room was tested,
  for a thread that no other overlaps, and it is the only one busy.
* `VideoLife` (`VideoInv`): at most the thread whose handle is kept is alive, unless
  a cause for more has been noted; once stopped, `m_Quit` is never taken back while
  it matters.
* `Grab` (`GrabInv`): at every stage the size asked for last is the display's, or the
  change is in the queue (`GrabFresh`), and all of them are as high as the camera's
  picture (`GrabHigh`), up to the causes noted.
* `Camera` (`CamInv`): whose turn it is with the picture (`CamTurns`), what excludes
  what in the callback's lock (`CamErrors`), and that samples are requested of the
  mode in use (`CamAvoids`). That the scan for a mode finds one needs a least number
  of a set (`LeastNatural`).
* `XCapture`: the acknowledged number is at most the next, also while a skipped frame
  has taken its number back (`XNumbers`), so the unsigned difference never wraps.
* `Picture`: buffers and encoder have the size of the frame that made them.
* `Pixels` (`AddressesFollow`): arithmetic, for any size of screen, camera, tile and
  any set of changed pixels, where TLC's run looks at changes on nine pixels at most.
* `JsonArray` (`ArrayInv`): the map and the list agree index by index, an index past
  the list is in neither, and the size is one more than the greatest index
  (`GreatestNatural`). Each operation is first described by what it does to the map
  (`PutEffect`, `ReachEffect`, `EraseEffect`), then by what is read (`Settles`).

**Model-checked only.** Liveness and whatever needs ENABLED is out of the prover's
reach: `AbandonedEnds`, `HeartbeatReaches`, `Answered`, `Reopens`, `MadeAgain`,
`DeleteEnds`, `HandlersReturn`, `WaitsEnd`. Recursive operators are, too:
`ValuesKept` and `DocumentsKept`. Every other property of a run that expects none to
be violated is a theorem.

## 6. Not modelled

* Two threads of the session writing one `m_sSendBuf` and one libwebsockets
  socket: what the library does then is not in this repository.
* The width of sequence numbers on Windows: at 30 frames a second 2^32 is more than four years
  away. The Linux variant compares a difference of unsigned numbers
  (`XCapture!NeverAhead`); it agrees with the Windows one since an
  acknowledgement is never ahead (`WindowKept`).
* Codecs, DirectX, X11, Media Foundation, sockets and threads themselves: library
  code, modelled by its results. What a driver or a codec does with a null
  pointer is not followed.
* Pausing and resuming a capture, capturing the camera alone, escapi's camera
  properties, names and resolutions: nothing in this program calls them.
* JsonCpp's iterators and streams, the texts of its errors, and real numbers
  beyond their range tests.
* Widgets, dialogs, listings, file transfer, logging: no state that matters here.

## 7. What is left

* `Shooting` composed with `Registry`. `Shooting` takes any answer the server may
  give, and `RoomBook` says which those are; that the two fit together is not
  stated in TLA+.
* The parts of JSON that are recursive, for documents of any length.
