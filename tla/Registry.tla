------------------------------ MODULE Registry ------------------------------
(***************************************************************************)
(* Realtime-Server: the HTTP service that keeps the node, room and invite  *)
(* lists and starts one Realtime-Session process per room.  One thread     *)
(* serves the requests one after the other; SIGCHLD interrupts that same   *)
(* thread anywhere, and its handler takes _room_lock, which is not         *)
(* recursive: delivered while a request holds the lock, it never returns.  *)
(*                                                                         *)
(* A request that takes the lock is two steps (three when it forks): up to *)
(* where it holds the lock with the room list as it will leave it, and     *)
(* from the unlock to the reply.  The node and invite lists are not        *)
(* touched by the signal handler, so their update is part of the latter.   *)
(***************************************************************************)
EXTENDS Integers, Sequences, FiniteSets

CONSTANTS
  Name,        \* room names
  Host,        \* host (node) names
  Pid,         \* process ids the kernel can hand out
  NoPid,       \* -1
  FirstPort,   \* the initial _current_port
  MaxRooms,    \* bound: how many ports an instance may draw
  MaxInvites   \* bound: how many invitations may be waiting

ASSUME NoPidAssumption == NoPid \notin Pid
ASSUME PortAssumption == FirstPort \in Nat \ {0} /\ MaxRooms \in Nat

NoRoom == 0          \* the room_id "0" of a node in no room
Absent == -1         \* no such node
Nobody == "nobody"   \* an unused local variable

VARIABLES
  rooms,     \* _room_list
  nodes,     \* _node_list: host name -> room id, or Absent
  invites,   \* _invite_list
  next,      \* _current_port
  child,     \* the kernel's process table, the sessions only
  sig,       \* SIGCHLD is pending (it does not count)
  armed,     \* sigchld_handler is installed
  lock,      \* _room_lock is held
  job,       \* where the request being served is, and its locals
  hung       \* the service thread waits for the lock it holds

vars == <<rooms, nodes, invites, next, child, sig, armed, lock, job, hung>>

\* A guid is drawn together with a port: it is named by that port here.
\* "up" is status = 0.
Room == [name: Name, id: Nat, port: Nat, pid: Pid \cup {NoPid}, up: BOOLEAN]

Job == [stage: {"idle", "forked", "failed", "added", "deleted", "joined", "abnormal"},
        name: Name \cup {Nobody}, host: Host \cup {Nobody}, id: Nat, port: Nat,
        pid: Pid \cup {NoPid}]

Idle == [stage |-> "idle", name |-> Nobody, host |-> Nobody, id |-> NoRoom, port |-> 0,
         pid |-> NoPid]

Child == [state: {"free", "live", "killed", "zombie"}, port: Nat]
Free == [state |-> "free", port |-> 0]

Used(p) == child[p].state # "free"
Zombies == {p \in Pid : child[p].state = "zombie"}

\* The room ids handed out so far, of deleted rooms too.
Known == FirstPort..(next - 1)

Init ==
  /\ rooms = {}
  /\ nodes = [h \in Host |-> Absent]
  /\ invites = <<>>
  /\ next = FirstPort
  /\ child = [p \in Pid |-> Free]
  /\ sig = FALSE /\ armed = FALSE
  /\ lock = FALSE
  /\ job = Idle
  /\ hung = FALSE

Ready == job.stage = "idle" /\ ~hung
RoomsUntouched == UNCHANGED <<rooms, next, child, sig, armed, lock, job, hung>>

-----------------------------------------------------------------------------
(* Requests that only touch the node and invite lists. *)

AddNode(h) ==
  /\ Ready
  /\ nodes' = IF nodes[h] = Absent THEN [nodes EXCEPT ![h] = NoRoom] ELSE nodes
  /\ UNCHANGED invites /\ RoomsUntouched

DelNode(h) ==
  /\ Ready
  /\ nodes' = [nodes EXCEPT ![h] = Absent]
  /\ UNCHANGED invites /\ RoomsUntouched

\* A host that is not in the list is not added to it.
Placed(h, id) == IF nodes[h] = Absent THEN nodes ELSE [nodes EXCEPT ![h] = id]

LeftRoom(h) ==
  /\ Ready
  /\ nodes' = Placed(h, NoRoom)
  /\ UNCHANGED invites /\ RoomsUntouched

Invite(h, id) ==
  /\ Ready
  /\ Len(invites) < MaxInvites
  /\ invites' = Append(invites, [name |-> h, id |-> id])
  /\ UNCHANGED nodes /\ RoomsUntouched

\* Erases the first invitation of h.
Accepted(h) ==
  IF \E i \in DOMAIN invites : invites[i].name = h
  THEN LET k == CHOOSE i \in DOMAIN invites :
                  /\ invites[i].name = h
                  /\ \A j \in DOMAIN invites : invites[j].name = h => i <= j
       IN  [j \in 1..(Len(invites) - 1) |-> IF j < k THEN invites[j] ELSE invites[j + 1]]
  ELSE invites

-----------------------------------------------------------------------------
(* add-room. *)

\* Mutant: the pid is not checked for -1.
StartSession_unchecked(n, h, id, port) ==
  /\ \E p \in {q \in Pid : ~Used(q)} \cup {NoPid} :
       /\ child' = IF p = NoPid THEN child
                   ELSE [child EXCEPT ![p] = [state |-> "live", port |-> port]]
       /\ job' = [stage |-> "forked", name |-> n, host |-> h, id |-> id,
                  port |-> port, pid |-> p]
  /\ UNCHANGED armed

\* start_session for a room of that name, id and port: vfork returns a process
\* on that port, or -1, and then the handler is installed.  A child that cannot
\* execute the session ends at once, as any session may (Dies); that its exit() runs
\* the server's own destructors, in memory the two share, is not defined and not
\* followed.
StartSession(n, h, id, port) ==
  \/ /\ \E p \in Pid :
          /\ ~Used(p)
          /\ child' = [child EXCEPT ![p] = [state |-> "live", port |-> port]]
          /\ job' = [stage |-> "forked", name |-> n, host |-> h, id |-> id,
                     port |-> port, pid |-> p]
     /\ UNCHANGED armed
  \/ /\ job' = [Idle EXCEPT !.stage = "failed"]
     /\ armed' = TRUE
     /\ UNCHANGED child

\* The room exists and its session is believed up: it is only joined.
AddRoomReuses(n, h) ==
  /\ Ready /\ ~lock
  /\ lock' = TRUE
  /\ \E r \in rooms :
       /\ r.name = n /\ r.up
       /\ job' = [Idle EXCEPT !.stage = "added", !.host = h, !.id = r.id]
  /\ UNCHANGED <<rooms, nodes, invites, next, child, sig, armed, hung>>

\* Mutant: the status of the room is not looked at.
AddRoomRestarts_always(n, h) ==
  /\ Ready /\ ~lock
  /\ lock' = TRUE
  /\ \E r \in rooms : r.name = n /\ StartSession(n, h, r.id, r.port)
  /\ UNCHANGED <<rooms, nodes, invites, next, sig, hung>>

\* Mutant: the new session is given a new port.
AddRoomRestarts_newPort(n, h) ==
  /\ Ready /\ ~lock
  /\ next < FirstPort + MaxRooms
  /\ lock' = TRUE
  /\ next' = next + 1
  /\ \E r \in rooms : r.name = n /\ ~r.up /\ StartSession(n, h, r.id, next)
  /\ UNCHANGED <<rooms, nodes, invites, sig, hung>>

\* Its session has ended: another one is started on the room's port.
AddRoomRestarts(n, h) ==
  /\ Ready /\ ~lock
  /\ lock' = TRUE
  /\ \E r \in rooms :
       /\ r.name = n /\ ~r.up
       /\ StartSession(n, h, r.id, r.port)
  /\ UNCHANGED <<rooms, nodes, invites, next, sig, hung>>

\* Mutant: _current_port is not advanced.
AddRoomCreates_samePort(n, h) ==
  /\ Ready /\ ~lock
  /\ \A r \in rooms : r.name # n
  /\ lock' = TRUE
  /\ StartSession(n, h, next, next)
  /\ UNCHANGED <<rooms, nodes, invites, next, sig, hung>>

\* A new room draws its port and guid before the fork, and loses them when
\* the fork fails.
AddRoomCreates(n, h) ==
  /\ Ready /\ ~lock
  /\ next < FirstPort + MaxRooms
  /\ \A r \in rooms : r.name # n
  /\ lock' = TRUE
  /\ next' = next + 1
  /\ StartSession(n, h, next, next)
  /\ UNCHANGED <<rooms, nodes, invites, sig, hung>>

\* vfork has returned: the handler is installed (the first time, a death
\* before this point goes unnoticed) and the room gets its process.
AddRoomRecords ==
  /\ job.stage = "forked" /\ ~hung
  /\ armed' = TRUE
  /\ rooms' = {r \in rooms : r.name # job.name}
                \cup {[name |-> job.name, id |-> job.id, port |-> job.port,
                       pid |-> job.pid, up |-> TRUE]}
  /\ job' = [Idle EXCEPT !.stage = "added", !.host = job.host, !.id = job.id]
  /\ UNCHANGED <<nodes, invites, next, child, sig, lock, hung>>

AddRoomReplies ==
  /\ job.stage = "added" /\ ~hung
  /\ lock' = FALSE
  /\ nodes' = Placed(job.host, job.id)
  /\ job' = Idle
  /\ UNCHANGED <<rooms, invites, next, child, sig, armed, hung>>

\* Mutant: the lock is taken a second time and not given back.
AddRoomFails_relocks ==
  /\ job.stage = "failed" /\ ~hung
  /\ ~lock
  /\ job' = Idle
  /\ UNCHANGED <<rooms, nodes, invites, next, child, sig, armed, lock, hung>>

\* "Can not create session process!"
AddRoomFails ==
  /\ job.stage = "failed" /\ ~hung
  /\ lock' = FALSE
  /\ job' = Idle
  /\ UNCHANGED <<rooms, nodes, invites, next, child, sig, armed, hung>>

-----------------------------------------------------------------------------
(* del-room: the session is killed, and dies when the kernel gets to it. *)

Killed(p) ==
  IF p = NoPid THEN child
  ELSE [child EXCEPT ![p].state = IF @ = "live" THEN "killed" ELSE @]

DelRoom(id) ==
  /\ Ready /\ ~lock
  /\ lock' = TRUE
  /\ \/ \E r \in rooms :
          /\ r.id = id
          /\ child' = Killed(r.pid)
          /\ rooms' = rooms \ {r}
     \/ /\ \A r \in rooms : r.id # id
        /\ UNCHANGED <<child, rooms>>
  /\ job' = [Idle EXCEPT !.stage = "deleted", !.id = id]
  /\ UNCHANGED <<nodes, invites, next, sig, armed, hung>>

DelRoomReplies ==
  /\ job.stage = "deleted" /\ ~hung
  /\ lock' = FALSE
  /\ nodes' = [h \in Host |-> IF nodes[h] = job.id THEN NoRoom ELSE nodes[h]]
  /\ job' = Idle
  /\ UNCHANGED <<rooms, invites, next, child, sig, armed, hung>>

-----------------------------------------------------------------------------
(* join-room: an unknown room is answered with port -1, and joined. *)

JoinRoom(h, id) ==
  /\ Ready /\ ~lock
  /\ lock' = TRUE
  /\ job' = IF \E r \in rooms : r.id = id /\ ~r.up
              THEN [Idle EXCEPT !.stage = "abnormal"]
              ELSE [Idle EXCEPT !.stage = "joined", !.host = h, !.id = id]
  /\ UNCHANGED <<rooms, nodes, invites, next, child, sig, armed, hung>>

JoinRoomReplies ==
  /\ job.stage = "joined" /\ ~hung
  /\ lock' = FALSE
  /\ nodes' = Placed(job.host, job.id)
  /\ invites' = Accepted(job.host)
  /\ job' = Idle
  /\ UNCHANGED <<rooms, next, child, sig, armed, hung>>

\* "Room is abnormal!"
JoinRoomFails ==
  /\ job.stage = "abnormal" /\ ~hung
  /\ lock' = FALSE
  /\ job' = Idle
  /\ UNCHANGED <<rooms, nodes, invites, next, child, sig, armed, hung>>

-----------------------------------------------------------------------------
(* Session processes and SIGCHLD. *)

\* A session ends: killed, crashed, timed out, or its exec failed.  Without
\* a handler the signal is discarded; with one it pends, once.
Dies(p) ==
  /\ child[p].state \in {"live", "killed"}
  /\ child' = [child EXCEPT ![p].state = "zombie"]
  /\ sig' = (sig \/ armed)
  /\ UNCHANGED <<rooms, nodes, invites, next, armed, lock, job, hung>>

\* waitpid(-1) with WNOHANG returns some zombie, one, or NoPid.
Reaped(p) == IF p = NoPid THEN child ELSE [child EXCEPT ![p] = Free]

\* The room of that process is marked abnormal, if it still exists.
Marked(p) ==
  {IF r.pid = p THEN [r EXCEPT !.up = FALSE, !.pid = NoPid] ELSE r : r \in rooms}

\* sigchld_handler.  It reaps before it locks.
SigChld ==
  /\ sig /\ ~hung
  /\ sig' = FALSE
  /\ \E p \in Pid \cup {NoPid} :
       /\ IF Zombies = {} THEN p = NoPid ELSE p \in Zombies
       /\ child' = Reaped(p)
       /\ rooms' = IF lock THEN rooms ELSE Marked(p)
  /\ hung' = lock
  /\ UNCHANGED <<nodes, invites, next, armed, lock, job>>

-----------------------------------------------------------------------------
Requests ==
  \/ \E h \in Host : AddNode(h) \/ DelNode(h) \/ LeftRoom(h)
  \/ \E h \in Host, id \in Known : Invite(h, id) \/ JoinRoom(h, id)
  \/ \E n \in Name, h \in Host : AddRoomReuses(n, h) \/ AddRoomRestarts(n, h) \/ AddRoomCreates(n, h)
  \/ \E id \in Known : DelRoom(id)

Continues ==
  \/ AddRoomRecords \/ AddRoomReplies \/ AddRoomFails
  \/ DelRoomReplies \/ JoinRoomReplies \/ JoinRoomFails

Next ==
  \/ Requests
  \/ Continues
  \/ \E p \in Pid : Dies(p)
  \/ SigChld

Spec == Init /\ [][Next]_vars

\* The service thread runs on and gets its signals; clients and the deaths of
\* sessions are not fair.
FairSpec == Spec /\ WF_vars(Continues) /\ WF_vars(SigChld)

-----------------------------------------------------------------------------
(* Properties. *)

\* The shape of the state.
TypeOK ==
  /\ rooms \subseteq Room
  /\ nodes \in [Host -> Nat \cup {Absent}]
  /\ invites \in Seq([name: Host, id: Nat])
  /\ next \in Nat
  /\ child \in [Pid -> Child]
  /\ sig \in BOOLEAN /\ armed \in BOOLEAN /\ lock \in BOOLEAN /\ hung \in BOOLEAN
  /\ job \in Job

\* Two rooms never share a name, an id or a port, over any sequence of
\* creations, failed creations, deletions and restarts.
RoomsDistinct ==
  \A r, s \in rooms :
    r.name = s.name \/ r.id = s.id \/ r.port = s.port => r = s

\* At no time are there two session processes for one port, not even one on
\* its way out: the second would fail to listen.  A restart waits for the
\* first to be reaped and a deleted room's port is not drawn again.
PortExclusive ==
  \A p, q \in Pid : Used(p) /\ Used(q) /\ child[p].port = child[q].port => p = q

\* The pid a room remembers is its own session's, dead or alive, so that
\* del-room never kills another room's session under a recycled pid; a room
\* that remembers none is not believed up.
PidBelongs ==
  ~hung => \A r \in rooms :
    IF r.up THEN r.pid \in Pid /\ Used(r.pid) /\ child[r.pid].port = r.port
            ELSE r.pid = NoPid

\* No path through a handler keeps the lock: it is free between requests.
NoLockLeak == job.stage = "idle" => ~lock

\* The room list without what becomes of the processes, and the addresses drawn
\* but for the one a new room is about to be recorded with.
Listed == {[name |-> r.name, id |-> r.id, port |-> r.port] : r \in rooms}
Pending == {a \in Known : /\ job.stage = "forked" /\ job.port = a
                          /\ \A r \in rooms : r.name # job.name}

\* A host in a room that is being deleted is out of it with the room; join-room is
\* under way.
Place == [h \in Host |-> IF job.stage = "deleted" /\ nodes[h] = job.id THEN NoRoom ELSE nodes[h]]
Asking == {ask \in {<<job.host, job.id>>} : job.stage = "joined"}

Book == INSTANCE RoomBook WITH
  Address <- FirstPort..(FirstPort + MaxRooms - 1),
  book <- Listed, spent <- Known \ Pending, place <- Place, asking <- Asking

\* A room keeps the id and the port that its clients and its invitations know,
\* through every restart, until it is deleted, and no other room ever gets them:
\* not after the deletion and not after a start that failed.  Its deletion leaves
\* nobody in it, and only join-room puts a host into a room that is not there.
KeepsBook == Book!Spec

\* The server stops answering only if SIGCHLD caught it inside the lock.
Answered == (job.stage # "idle") ~> (job.stage = "idle" \/ hung)
=============================================================================
