--------------------------- MODULE RegistryProofs ---------------------------
(***************************************************************************)
(* Theorems about Registry, for any number of names, hosts, process ids    *)
(* and ports.                                                              *)
(***************************************************************************)
EXTENDS Registry, TLAPS

-----------------------------------------------------------------------------
(* The inductive invariant.  While the service hangs in its own handler    *)
(* the room list no longer follows the process table, so what relates the  *)
(* two is claimed only up to then.                                         *)

\* The lock is held exactly while a request is past its first step.
LockHeld == lock <=> job.stage # "idle"

\* Ports in use were drawn from the counter, and a guid goes with its port.
PortsDrawn ==
  /\ \A r \in rooms : r.id = r.port /\ r.port < next
  /\ \A p \in Pid : Used(p) => child[p].port < next

\* The process on a room's port is the one the room remembers, or the one
\* the request being served has just forked for it.
Owned ==
  ~hung => \A r \in rooms, p \in Pid :
    Used(p) /\ child[p].port = r.port =>
      (r.up /\ r.pid = p) \/ (job.stage = "forked" /\ job.pid = p)

\* A process that was forked and not recorded yet is on the job's port, which
\* is the port of the room of the job's name and of no other.
ForkedOwns ==
  job.stage = "forked" =>
    /\ job.name \in Name /\ job.pid \in Pid
    /\ job.id = job.port /\ job.port < next
    /\ ~hung => Used(job.pid) /\ child[job.pid].port = job.port
    /\ \A r \in rooms : r.name = job.name <=> r.port = job.port

BookInv ==
  /\ RoomsDistinct /\ PortExclusive /\ PidBelongs
  /\ LockHeld /\ PortsDrawn /\ Owned /\ ForkedOwns

-----------------------------------------------------------------------------
(* Type correctness. *)

\* Erasing one element leaves a sequence.
LEMMA AcceptedType ==
  ASSUME NEW S, invites \in Seq(S), NEW h
  PROVE  Accepted(h) \in Seq(S)
<1> DEFINE cut(k) == [j \in 1..(Len(invites) - 1) |-> IF j < k THEN invites[j] ELSE invites[j + 1]]
           first == CHOOSE i \in DOMAIN invites :
                      /\ invites[i].name = h
                      /\ \A j \in DOMAIN invites : invites[j].name = h => i <= j
           some == \E i \in DOMAIN invites : invites[i].name = h
<1>1. Len(invites) \in Nat /\ DOMAIN invites = 1..Len(invites)
  OBVIOUS
<1>2. ASSUME NEW k, NEW i \in DOMAIN invites
      PROVE  cut(k) \in Seq(S)
  <2>1. Len(invites) - 1 \in Nat
    BY <1>1, <1>2
  <2>2. ASSUME NEW j \in 1..(Len(invites) - 1)
        PROVE  (IF j < k THEN invites[j] ELSE invites[j + 1]) \in S
    BY <1>1, <2>1, <2>2
  <2>3. cut(k) \in [1..(Len(invites) - 1) -> S]
    BY <2>2
  <2>4. QED
    BY <2>1, <2>3
<1>3. Accepted(h) = IF some THEN cut(first) ELSE invites
  BY DEF Accepted
<1>4. some => DOMAIN invites # {}
  OBVIOUS
<1> HIDE DEF cut, first, some
<1>5. QED
  BY <1>2, <1>3, <1>4

\* The state between two requests is a job.
LEMMA IdleType == Idle \in Job
BY DEF Idle, Job, NoRoom

\* A stage with nothing but a host and an id to remember.
LEMMA StageType ==
  ASSUME NEW s \in {"added", "deleted", "joined"}, NEW h \in Host \cup {Nobody}, NEW id \in Nat
  PROVE  /\ [Idle EXCEPT !.stage = s, !.host = h, !.id = id] \in Job
         /\ [Idle EXCEPT !.stage = s, !.id = id] \in Job
         /\ [Idle EXCEPT !.stage = "failed"] \in Job
         /\ [Idle EXCEPT !.stage = "abnormal"] \in Job
BY DEF Idle, Job, NoRoom

\* start_session keeps the process table, the job and the handler flag typed.
LEMMA StartType ==
  ASSUME TypeOK, NEW n \in Name, NEW h \in Host, NEW id \in Nat, NEW port \in Nat,
         StartSession(n, h, id, port)
  PROVE  child' \in [Pid -> Child] /\ job' \in Job /\ armed' \in BOOLEAN
<1>1. ASSUME NEW p \in Pid
      PROVE  /\ [child EXCEPT ![p] = [state |-> "live", port |-> port]] \in [Pid -> Child]
             /\ [stage |-> "forked", name |-> n, host |-> h, id |-> id, port |-> port,
                 pid |-> p] \in Job
  BY DEF TypeOK, Child, Job
<1>2. [Idle EXCEPT !.stage = "failed"] \in Job
  BY DEF Idle, Job, NoRoom
<1>3. child \in [Pid -> Child] /\ armed \in BOOLEAN
  BY DEF TypeOK
<1>4. QED
  BY <1>1, <1>2, <1>3 DEF StartSession

\* A host is put into the node list with a room id.
LEMMA PlacedType ==
  ASSUME TypeOK, NEW h \in Host \cup {Nobody}, NEW id \in Nat
  PROVE  Placed(h, id) \in [Host -> Nat \cup {Absent}]
BY DEF TypeOK, Placed

\* The first step of every handler keeps the shape.
LEMMA RequestType == TypeOK /\ Requests => TypeOK'
<1> SUFFICES ASSUME TypeOK, Requests PROVE TypeOK'
  OBVIOUS
<1> USE DEF Ready, RoomsUntouched
<1>0. NoRoom \in Nat /\ \A id \in Known : id \in Nat
  BY PortAssumption DEF NoRoom, Known, TypeOK
<1>1. ASSUME NEW h \in Host, AddNode(h) PROVE TypeOK'
  BY <1>0, <1>1 DEF TypeOK, AddNode
<1>2. ASSUME NEW h \in Host, DelNode(h) PROVE TypeOK'
  BY <1>2 DEF TypeOK, DelNode
<1>3. ASSUME NEW h \in Host, LeftRoom(h) PROVE TypeOK'
  BY <1>0, <1>3, PlacedType DEF TypeOK, LeftRoom
<1>4. ASSUME NEW h \in Host, NEW id \in Known, Invite(h, id) PROVE TypeOK'
  BY <1>0, <1>4 DEF TypeOK, Invite
<1>5. ASSUME NEW h \in Host, NEW id \in Known, JoinRoom(h, id) PROVE TypeOK'
  BY <1>0, <1>5, StageType DEF TypeOK, JoinRoom
<1>6. ASSUME NEW n \in Name, NEW h \in Host, AddRoomReuses(n, h) PROVE TypeOK'
  <2>1. PICK r \in rooms : job' = [Idle EXCEPT !.stage = "added", !.host = h, !.id = r.id]
    BY <1>6 DEF AddRoomReuses
  <2>2. job' \in Job
    BY <2>1, StageType DEF TypeOK, Room
  <2>3. QED
    BY <1>6, <2>2 DEF TypeOK, AddRoomReuses
<1>7. ASSUME NEW n \in Name, NEW h \in Host, AddRoomRestarts(n, h) PROVE TypeOK'
  <2>1. PICK r \in rooms : StartSession(n, h, r.id, r.port)
    BY <1>7 DEF AddRoomRestarts
  <2>2. r.port \in Nat /\ r.id \in Nat
    BY DEF TypeOK, Room
  <2>3. child' \in [Pid -> Child] /\ job' \in Job /\ armed' \in BOOLEAN
    BY <2>1, <2>2, StartType
  <2>4. QED
    BY <1>7, <2>3 DEF TypeOK, AddRoomRestarts
<1>8. ASSUME NEW n \in Name, NEW h \in Host, AddRoomCreates(n, h) PROVE TypeOK'
  <2>1. next \in Nat /\ StartSession(n, h, next, next)
    BY <1>8 DEF TypeOK, AddRoomCreates
  <2>2. child' \in [Pid -> Child] /\ job' \in Job /\ armed' \in BOOLEAN
    BY <2>1, StartType
  <2>3. QED
    BY <1>8, <2>1, <2>2 DEF TypeOK, AddRoomCreates
<1>9. ASSUME NEW id \in Known, DelRoom(id) PROVE TypeOK'
  <2>1. ASSUME NEW p \in Pid \cup {NoPid} PROVE Killed(p) \in [Pid -> Child]
    BY NoPidAssumption DEF TypeOK, Killed, Child
  <2>2. child' \in [Pid -> Child] /\ rooms' \subseteq Room
    BY <1>9, <2>1 DEF TypeOK, DelRoom, Room
  <2>3. job' \in Job
    BY <1>0, <1>9, StageType DEF DelRoom
  <2>4. QED
    BY <1>9, <2>2, <2>3 DEF TypeOK, DelRoom
<1>10. QED
  BY <1>1, <1>2, <1>3, <1>4, <1>5, <1>6, <1>7, <1>8, <1>9 DEF Requests

\* So do the steps after the lock is taken,
LEMMA ContinueType == TypeOK /\ ForkedOwns /\ Continues => TypeOK'
<1> SUFFICES ASSUME TypeOK, ForkedOwns, Continues PROVE TypeOK'
  OBVIOUS
<1>0. job.host \in Host \cup {Nobody} /\ job.id \in Nat /\ job.port \in Nat
  BY DEF TypeOK, Job
<1>1. CASE AddRoomRecords
  <2>1. job.name \in Name /\ job.pid \in Pid
    BY <1>1 DEF AddRoomRecords, ForkedOwns
  <2>2. [name |-> job.name, id |-> job.id, port |-> job.port, pid |-> job.pid, up |-> TRUE]
          \in Room
    BY <1>0, <2>1 DEF Room
  <2>3. rooms' \subseteq Room
    BY <1>1, <2>2 DEF AddRoomRecords, TypeOK
  <2>4. job' \in Job
    BY <1>0, <1>1, StageType DEF AddRoomRecords
  <2>5. QED
    BY <1>1, <2>3, <2>4 DEF AddRoomRecords, TypeOK
<1>2. CASE AddRoomReplies
  BY <1>0, <1>2, PlacedType, IdleType DEF AddRoomReplies, TypeOK
<1>3. CASE AddRoomFails
  BY <1>3, IdleType DEF AddRoomFails, TypeOK
<1>4. CASE DelRoomReplies
  BY <1>4, IdleType DEF DelRoomReplies, TypeOK, NoRoom
<1>5. CASE JoinRoomReplies
  <2>1. invites' \in Seq([name: Host, id: Nat])
    BY <1>5, AcceptedType DEF JoinRoomReplies, TypeOK
  <2>2. QED
    BY <1>0, <1>5, <2>1, PlacedType, IdleType DEF JoinRoomReplies, TypeOK
<1>6. CASE JoinRoomFails
  BY <1>6, IdleType DEF JoinRoomFails, TypeOK
<1>7. QED
  BY <1>1, <1>2, <1>3, <1>4, <1>5, <1>6 DEF Continues

\* and the ends of processes and their signals.
LEMMA SystemType ==
  ASSUME TypeOK, SigChld \/ \E p \in Pid : Dies(p)
  PROVE  TypeOK'
<1>1. ASSUME NEW p \in Pid, Dies(p) PROVE TypeOK'
  BY <1>1 DEF TypeOK, Dies, Child
<1>2. CASE SigChld
  <2>1. PICK p \in Pid \cup {NoPid} :
          child' = Reaped(p) /\ rooms' = IF lock THEN rooms ELSE Marked(p)
    BY <1>2 DEF SigChld
  <2>2. child' \in [Pid -> Child]
    BY <2>1, NoPidAssumption DEF TypeOK, Reaped, Child, Free
  <2>3. Marked(p) \subseteq Room
    BY DEF TypeOK, Marked, Room
  <2>4. QED
    BY <1>2, <2>1, <2>2, <2>3 DEF TypeOK, SigChld
<1>3. QED
  BY <1>1, <1>2

-----------------------------------------------------------------------------
(* The invariant, step by step. *)

\* Steps that leave the rooms and the processes alone and fork nothing.
LEMMA BookKept ==
  ASSUME TypeOK, BookInv, UNCHANGED <<rooms, child, hung>>, next' \in Nat, next <= next',
         LockHeld', job.stage # "forked", job'.stage # "forked"
  PROVE  BookInv'
<1>1. (RoomsDistinct /\ PortExclusive /\ PidBelongs)'
  BY DEF BookInv, RoomsDistinct, PortExclusive, PidBelongs, Used
<1>2. PortsDrawn'
  <2>1. \A r \in rooms : r.port \in Nat
    BY DEF TypeOK, Room
  <2>2. \A p \in Pid : child[p].port \in Nat
    BY DEF TypeOK, Child
  <2>3. next \in Nat
    BY DEF TypeOK
  <2>4. QED
    BY <2>1, <2>2, <2>3 DEF BookInv, PortsDrawn, Used
<1>3. Owned'
  BY DEF BookInv, Owned, Used
<1>4. ForkedOwns'
  BY DEF ForkedOwns
<1>5. QED
  BY <1>1, <1>2, <1>3, <1>4 DEF BookInv

\* Starting a session is harmless on a port that has no process and that
\* belongs to the rooms of the given name only.
LEMMA BookFork ==
  ASSUME TypeOK, BookInv, NEW n \in Name, NEW h \in Host, NEW port \in Nat,
         StartSession(n, h, port, port),
         UNCHANGED <<rooms, hung>>, next' \in Nat, next <= next', port < next',
         ~hung, job.stage = "idle", lock' = TRUE,
         \A p \in Pid : Used(p) => child[p].port # port,
         \A r \in rooms : r.name = n <=> r.port = port
  PROVE  BookInv'
<1>1. CASE job' = [Idle EXCEPT !.stage = "failed"] /\ UNCHANGED child
  <2>1. job'.stage = "failed"
    BY <1>1 DEF Idle
  <2>2. QED
    BY <1>1, <2>1, BookKept DEF LockHeld
<1>2. ASSUME NEW p \in Pid, ~Used(p),
             child' = [child EXCEPT ![p] = [state |-> "live", port |-> port]],
             job' = [stage |-> "forked", name |-> n, host |-> h, id |-> port,
                     port |-> port, pid |-> p]
      PROVE  BookInv'
  <2>1. /\ \A q \in Pid \ {p} : child'[q] = child[q]
        /\ child'[p].state = "live" /\ child'[p].port = port
    BY <1>2 DEF TypeOK
  <2>2. /\ job'.stage = "forked" /\ job'.name = n /\ job'.id = port /\ job'.port = port
        /\ job'.pid = p
    BY <1>2
  <2>3. \A q \in Pid : Used(q) => q # p /\ child'[q] = child[q]
    BY <1>2, <2>1
  <2>4. \A q \in Pid : Used(q)' <=> Used(q) \/ q = p
    BY <2>1, <2>3 DEF Used
  <2>5. RoomsDistinct'
    BY DEF BookInv, RoomsDistinct
  <2>6. PortExclusive'
    <3>1. \A q \in Pid : Used(q) => child'[q].port # port
      BY <2>3
    <3>2. QED
      BY <2>1, <2>3, <2>4, <3>1 DEF BookInv, PortExclusive
  <2>7. PidBelongs'
    BY <2>3, <2>4 DEF BookInv, PidBelongs
  <2>8. LockHeld'
    BY <2>2 DEF LockHeld
  <2>9. PortsDrawn'
    <3>1. \A r \in rooms : r.port \in Nat
      BY DEF TypeOK, Room
    <3>2. \A q \in Pid : child[q].port \in Nat
      BY DEF TypeOK, Child
    <3>3. next \in Nat
      BY DEF TypeOK
    <3>4. \A r \in rooms' : r.id = r.port /\ r.port < next'
      BY <3>1, <3>3 DEF BookInv, PortsDrawn
    <3>5. \A q \in Pid : Used(q)' => child'[q].port < next'
      BY <2>1, <2>3, <2>4, <3>2, <3>3 DEF BookInv, PortsDrawn
    <3>6. QED
      BY <3>4, <3>5 DEF PortsDrawn
  <2>10. Owned'
    BY <2>2, <2>3, <2>4 DEF BookInv, Owned
  <2>11. ForkedOwns'
    BY <2>1, <2>2, <2>4 DEF ForkedOwns
  <2>12. QED
    BY <2>5, <2>6, <2>7, <2>8, <2>9, <2>10, <2>11 DEF BookInv
<1>3. QED
  BY <1>1, <1>2 DEF StartSession

\* Starting a room's session again: the port had no process.
LEMMA BookRestart ==
  ASSUME TypeOK, BookInv, NEW n \in Name, NEW h \in Host, AddRoomRestarts(n, h)
  PROVE  BookInv'
<1>1. PICK r \in rooms : r.name = n /\ ~r.up /\ StartSession(n, h, r.id, r.port)
  BY DEF AddRoomRestarts
<1>2. /\ ~hung /\ job.stage = "idle" /\ lock' = TRUE
      /\ UNCHANGED <<rooms, hung, next>>
  BY DEF AddRoomRestarts, Ready
<1>3. r.id = r.port /\ r.port < next /\ r.port \in Nat /\ next \in Nat
  BY DEF BookInv, PortsDrawn, TypeOK, Room
<1>4. \A p \in Pid : Used(p) => child[p].port # r.port
  BY <1>1, <1>2 DEF BookInv, Owned
<1>5. \A s \in rooms : s.name = n <=> s.port = r.port
  BY <1>1 DEF BookInv, RoomsDistinct
<1>6. StartSession(n, h, r.port, r.port)
  BY <1>1, <1>3
<1>7. QED
  BY <1>2, <1>3, <1>4, <1>5, <1>6, BookFork

\* Starting a new room's session: the port and the id are new.
LEMMA BookCreate ==
  ASSUME TypeOK, BookInv, NEW n \in Name, NEW h \in Host, AddRoomCreates(n, h)
  PROVE  BookInv'
<1>1. /\ ~hung /\ job.stage = "idle" /\ lock' = TRUE /\ UNCHANGED <<rooms, hung>>
      /\ StartSession(n, h, next, next)
      /\ \A r \in rooms : r.name # n
  BY DEF AddRoomCreates, Ready
<1>2. next \in Nat /\ next' \in Nat /\ next <= next' /\ next < next'
  BY DEF AddRoomCreates, TypeOK
<1>3. \A p \in Pid : Used(p) => child[p].port # next
  BY <1>2 DEF BookInv, PortsDrawn
<1>4. \A r \in rooms : r.name = n <=> r.port = next
  BY <1>1, <1>2 DEF BookInv, PortsDrawn
<1>5. QED
  BY <1>1, <1>2, <1>3, <1>4, BookFork

\* The room that is recorded takes over the process the job forked for it.
LEMMA BookRecord ==
  ASSUME TypeOK, BookInv, AddRoomRecords
  PROVE  BookInv'
<1> DEFINE new == [name |-> job.name, id |-> job.id, port |-> job.port, pid |-> job.pid,
                   up |-> TRUE]
           others == {r \in rooms : r.name # job.name}
<1>1. /\ job.stage = "forked" /\ ~hung /\ rooms' = others \cup {new}
      /\ UNCHANGED <<next, child, lock, hung>>
      /\ job' = [Idle EXCEPT !.stage = "added", !.host = job.host, !.id = job.id]
  BY DEF AddRoomRecords
<1>2. /\ job.pid \in Pid /\ job.id = job.port /\ job.port < next
      /\ Used(job.pid) /\ child[job.pid].port = job.port
      /\ \A r \in others : r.port # job.port /\ r.id # job.id /\ r.name # job.name
  BY <1>1 DEF BookInv, ForkedOwns, PortsDrawn
<1>3. job'.stage = "added"
  BY <1>1 DEF Idle
<1>4. /\ new.name = job.name /\ new.id = job.id /\ new.port = job.port
      /\ new.pid = job.pid /\ new.up
  OBVIOUS
<1> HIDE DEF new
<1>5. RoomsDistinct'
  BY <1>1, <1>2, <1>4 DEF BookInv, RoomsDistinct
<1>6. PortExclusive'
  BY <1>1 DEF BookInv, PortExclusive, Used
<1>7. PidBelongs'
  <2>1. \A p \in Pid : Used(p)' <=> Used(p)
    BY <1>1 DEF Used
  <2>2. QED
    BY <1>1, <1>2, <1>4, <2>1 DEF BookInv, PidBelongs
<1>8. LockHeld'
  BY <1>1, <1>3 DEF BookInv, LockHeld
<1>9. PortsDrawn'
  BY <1>1, <1>2, <1>4 DEF BookInv, PortsDrawn, Used
<1>10. Owned'
  <2> SUFFICES ASSUME NEW r \in rooms', NEW p \in Pid, Used(p), child[p].port = r.port
               PROVE  r.up /\ r.pid = p
    BY <1>1 DEF Owned, Used
  <2>1. CASE r = new
    BY <1>2, <1>4, <2>1 DEF BookInv, PortExclusive
  <2>2. CASE r \in others
    <3>1. job.pid # p
      BY <1>2, <2>2
    <3>2. QED
      BY <1>1, <2>2, <3>1 DEF BookInv, Owned
  <2>3. QED
    BY <1>1, <2>1, <2>2
<1>11. ForkedOwns'
  BY <1>3 DEF ForkedOwns
<1>12. QED
  BY <1>5, <1>6, <1>7, <1>8, <1>9, <1>10, <1>11 DEF BookInv

\* Deaths and kills change the state of a process, not its port.
LEMMA BookDeath ==
  ASSUME TypeOK, BookInv, NEW R, R \subseteq rooms, rooms' = R,
         \A p \in Pid : child'[p].port = child[p].port /\ (Used(p)' <=> Used(p)),
         UNCHANGED <<next, hung>>, LockHeld',
         UNCHANGED job \/ (job.stage # "forked" /\ job'.stage # "forked")
  PROVE  BookInv'
<1>1. RoomsDistinct' /\ PortExclusive' /\ PidBelongs'
  <2>1. RoomsDistinct'
    BY DEF BookInv, RoomsDistinct
  <2>2. PortExclusive'
    BY DEF BookInv, PortExclusive
  <2>3. PidBelongs'
    BY DEF BookInv, PidBelongs
  <2>4. QED
    BY <2>1, <2>2, <2>3
<1>2. PortsDrawn'
  BY DEF BookInv, PortsDrawn
<1>3. Owned'
  BY DEF BookInv, Owned
<1>4. ForkedOwns'
  BY DEF BookInv, ForkedOwns
<1>5. QED
  BY <1>1, <1>2, <1>3, <1>4 DEF BookInv

\* The handler frees the process it reaps.  With the lock free it takes it
\* from the one room that remembers it; with the lock held the service hangs.
LEMMA BookSignal ==
  ASSUME TypeOK, BookInv, SigChld
  PROVE  BookInv'
<1>1. PICK p \in Pid \cup {NoPid} :
        /\ p = NoPid \/ p \in Zombies
        /\ child' = Reaped(p)
        /\ rooms' = IF lock THEN rooms ELSE Marked(p)
  BY DEF SigChld
<1>2. ~hung /\ hung' = lock /\ UNCHANGED <<next, lock, job>>
  BY DEF SigChld
<1>3. \A q \in Pid : Used(q)' => Used(q) /\ q # p /\ child'[q] = child[q]
  BY <1>1, NoPidAssumption DEF Reaped, Used, Free, TypeOK
<1>4. \A q \in Pid \ {p} : child'[q] = child[q]
  BY <1>1, NoPidAssumption DEF Reaped, TypeOK
<1>5. \A s \in rooms' : \E r \in rooms :
        /\ s.name = r.name /\ s.id = r.id /\ s.port = r.port
        /\ s = r \/ (~lock /\ r.pid = p /\ ~s.up /\ s.pid = NoPid)
        /\ ~lock => (r.pid = p => ~s.up /\ s.pid = NoPid)
  <2>1. CASE lock
    BY <1>1, <2>1
  <2>2. CASE ~lock
    <3>1. SUFFICES ASSUME NEW r \in rooms
                   PROVE  r.pid = p => LET s == [r EXCEPT !.up = FALSE, !.pid = NoPid]
                                       IN  /\ s.name = r.name /\ s.id = r.id /\ s.port = r.port
                                           /\ ~s.up /\ s.pid = NoPid
      BY <1>1, <2>2 DEF Marked
    <3>2. r \in Room
      BY DEF TypeOK
    <3>3. QED
      BY <3>2 DEF Room
  <2>3. QED
    BY <2>1, <2>2
<1>6. RoomsDistinct'
  <2>1. CASE lock
    BY <1>1, <2>1 DEF BookInv, RoomsDistinct
  <2>2. CASE ~lock
    <3>1. rooms' = Marked(p)
      BY <1>1, <2>2
    <3> DEFINE mark(r) == IF r.pid = p THEN [r EXCEPT !.up = FALSE, !.pid = NoPid] ELSE r
    <3>2. \A r \in rooms : /\ mark(r).name = r.name /\ mark(r).id = r.id
                            /\ mark(r).port = r.port
      BY DEF TypeOK, Room
    <3>3. rooms' = {mark(r) : r \in rooms}
      BY <3>1 DEF Marked
    <3> HIDE DEF mark
    <3>4. QED
      BY <3>2, <3>3 DEF BookInv, RoomsDistinct
  <2>3. QED
    BY <2>1, <2>2
<1>7. PortExclusive'
  BY <1>3 DEF BookInv, PortExclusive
<1>8. PidBelongs'
  <2> SUFFICES ASSUME ~lock, NEW s \in rooms'
               PROVE  IF s.up THEN s.pid \in Pid /\ Used(s.pid)' /\ child'[s.pid].port = s.port
                              ELSE s.pid = NoPid
    BY <1>2 DEF PidBelongs
  <2>1. PICK r \in rooms :
          \/ s = r /\ r.pid # p
          \/ ~s.up /\ s.pid = NoPid
    BY <1>5
  <2>2. CASE s = r /\ r.pid # p
    <3>1. IF r.up THEN r.pid \in Pid /\ Used(r.pid) /\ child[r.pid].port = r.port
                  ELSE r.pid = NoPid
      BY <1>2 DEF BookInv, PidBelongs
    <3>2. r.up => child'[r.pid] = child[r.pid]
      BY <1>4, <2>2, <3>1
    <3>3. QED
      BY <2>2, <3>1, <3>2 DEF Used
  <2>3. QED
    BY <2>1, <2>2
<1>9. LockHeld'
  BY <1>2 DEF BookInv, LockHeld
<1>10. PortsDrawn'
  BY <1>2, <1>3, <1>5 DEF BookInv, PortsDrawn
<1>11. Owned'
  <2> SUFFICES ASSUME ~lock, NEW s \in rooms', NEW q \in Pid, Used(q)', child'[q].port = s.port
               PROVE  s.up /\ s.pid = q
    BY <1>2 DEF Owned
  <2>1. PICK r \in rooms : /\ s.port = r.port
                           /\ s = r \/ (r.pid = p /\ ~s.up /\ s.pid = NoPid)
    BY <1>5
  <2>2. Used(q) /\ q # p /\ child[q].port = r.port
    BY <1>3, <2>1
  <2>3. job.stage = "idle"
    BY DEF BookInv, LockHeld
  <2>4. r.up /\ r.pid = q
    BY <1>2, <2>2, <2>3 DEF BookInv, Owned
  <2>5. QED
    BY <2>1, <2>2, <2>4
<1>12. ForkedOwns'
  <2> SUFFICES ASSUME job.stage = "forked" PROVE ForkedOwns'
    BY <1>2 DEF ForkedOwns
  <2>1. lock
    BY DEF BookInv, LockHeld
  <2>2. hung' /\ rooms' = rooms
    BY <1>1, <1>2, <2>1
  <2>3. QED
    BY <1>2, <2>2 DEF BookInv, ForkedOwns
<1>13. QED
  BY <1>6, <1>7, <1>8, <1>9, <1>10, <1>11, <1>12 DEF BookInv

\* The first step of every handler keeps the book.
LEMMA BookRequest ==
  ASSUME TypeOK, BookInv, Requests
  PROVE  BookInv'
<1>0. next \in Nat /\ next <= next /\ (lock <=> job.stage # "idle")
  BY DEF TypeOK, BookInv, LockHeld
<1>1. ASSUME NEW h \in Host, AddNode(h) \/ DelNode(h) \/ LeftRoom(h) PROVE BookInv'
  <2>1. RoomsUntouched /\ job.stage = "idle"
    BY <1>1 DEF AddNode, DelNode, LeftRoom, Ready
  <2>2. QED
    BY <1>0, <2>1, BookKept DEF RoomsUntouched, LockHeld
<1>2. ASSUME NEW h \in Host, NEW id \in Known, Invite(h, id) PROVE BookInv'
  <2>1. RoomsUntouched /\ job.stage = "idle"
    BY <1>2 DEF Invite, Ready
  <2>2. QED
    BY <1>0, <2>1, BookKept DEF RoomsUntouched, LockHeld
<1>3. ASSUME NEW h \in Host, NEW id \in Known, JoinRoom(h, id) PROVE BookInv'
  <2>1. job'.stage \in {"abnormal", "joined"} /\ job.stage = "idle" /\ lock' = TRUE
    BY <1>3 DEF JoinRoom, Ready, Idle
  <2>2. UNCHANGED <<rooms, next, child, hung>>
    BY <1>3 DEF JoinRoom
  <2>3. QED
    BY <1>0, <2>1, <2>2, BookKept DEF LockHeld
<1>4. ASSUME NEW n \in Name, NEW h \in Host, AddRoomReuses(n, h) PROVE BookInv'
  <2>1. job'.stage = "added" /\ job.stage = "idle" /\ lock' = TRUE
    BY <1>4 DEF AddRoomReuses, Ready, Idle
  <2>2. UNCHANGED <<rooms, next, child, hung>>
    BY <1>4 DEF AddRoomReuses
  <2>3. QED
    BY <1>0, <2>1, <2>2, BookKept DEF LockHeld
<1>5. ASSUME NEW id \in Known, DelRoom(id) PROVE BookInv'
  <2>1. job'.stage = "deleted" /\ job.stage = "idle" /\ lock' = TRUE
        /\ UNCHANGED <<next, hung>>
    BY <1>5 DEF DelRoom, Ready, Idle
  <2>2. rooms' \subseteq rooms
    BY <1>5 DEF DelRoom
  <2>3. \E q \in Pid \cup {NoPid} : child' = Killed(q) \/ child' = child
    BY <1>5 DEF DelRoom, TypeOK, Room
  <2>4. \A p \in Pid : child'[p].port = child[p].port /\ (Used(p)' <=> Used(p))
    <3>1. CASE child' = child
      BY <3>1 DEF Used
    <3>2. ASSUME NEW q \in Pid,
                 child' = [child EXCEPT ![q].state = IF @ = "live" THEN "killed" ELSE @]
          PROVE  \A p \in Pid : child'[p].port = child[p].port /\ (Used(p)' <=> Used(p))
      <4> SUFFICES ASSUME NEW p \in Pid
                   PROVE  child'[p].port = child[p].port /\ (Used(p)' <=> Used(p))
        OBVIOUS
      <4>1. child[p] \in Child /\ child \in [Pid -> Child]
        BY DEF TypeOK
      <4>2. CASE p # q
        BY <3>2, <4>1, <4>2 DEF Used
      <4>3. CASE p = q
        <5>1. child'[p] = [child[p] EXCEPT !.state = IF @ = "live" THEN "killed" ELSE @]
          BY <3>2, <4>1, <4>3
        <5>2. QED
          BY <4>1, <5>1 DEF Used, Child
      <4>4. QED
        BY <4>2, <4>3
    <3>3. QED
      BY <2>3, <3>1, <3>2, NoPidAssumption DEF Killed
  <2>5. QED
    BY <2>1, <2>2, <2>4, BookDeath DEF LockHeld
<1>6. QED
  BY <1>1, <1>2, <1>3, <1>4, <1>5, BookRestart, BookCreate DEF Requests

\* Recording the process id and answering keep it.
LEMMA BookContinue ==
  ASSUME TypeOK, BookInv, Continues
  PROVE  BookInv'
<1>0. next \in Nat /\ next <= next
  BY DEF TypeOK
<1>1. CASE AddRoomReplies \/ AddRoomFails \/ DelRoomReplies \/ JoinRoomReplies \/ JoinRoomFails
  <2>1. /\ job.stage \in {"added", "failed", "deleted", "joined", "abnormal"}
        /\ lock' = FALSE /\ job' = Idle
        /\ UNCHANGED <<rooms, next, child, hung>>
    BY <1>1 DEF AddRoomReplies, AddRoomFails, DelRoomReplies, JoinRoomReplies, JoinRoomFails
  <2>2. job'.stage = "idle"
    BY <2>1 DEF Idle
  <2>3. QED
    BY <1>0, <2>1, <2>2, BookKept DEF LockHeld
<1>2. QED
  BY <1>1, BookRecord DEF Continues

\* A session that dies keeps its process id and port until it is reaped.
LEMMA BookDies ==
  ASSUME TypeOK, BookInv, NEW p \in Pid, Dies(p)
  PROVE  BookInv'
<1>1. UNCHANGED <<rooms, next, lock, job, hung>>
  BY DEF Dies
<1>2. \A q \in Pid : child'[q].port = child[q].port /\ (Used(q)' <=> Used(q))
  BY DEF Dies, Used, TypeOK, Child
<1>3. LockHeld'
  BY <1>1 DEF BookInv, LockHeld
<1>4. QED
  BY <1>1, <1>2, <1>3, BookDeath

\* Every step keeps the shape and the book.
LEMMA BookStep == TypeOK /\ BookInv /\ [Next]_vars => TypeOK' /\ BookInv'
<1> SUFFICES ASSUME TypeOK, BookInv, [Next]_vars PROVE TypeOK' /\ BookInv'
  OBVIOUS
<1>1. CASE Requests
  BY <1>1, RequestType, BookRequest
<1>2. CASE Continues
  BY <1>2, ContinueType, BookContinue DEF BookInv
<1>3. CASE SigChld
  BY <1>3, SystemType, BookSignal
<1>4. ASSUME NEW p \in Pid, Dies(p) PROVE TypeOK' /\ BookInv'
  BY <1>4, SystemType, BookDies
<1>5. CASE UNCHANGED vars
  <2>1. TypeOK'
    BY <1>5 DEF TypeOK, vars
  <2>2. BookInv'
    BY <1>5 DEF BookInv, RoomsDistinct, PortExclusive, PidBelongs, LockHeld, PortsDrawn, Owned,
                ForkedOwns, Used, vars
  <2>3. QED
    BY <2>1, <2>2
<1>6. QED
  BY <1>1, <1>2, <1>3, <1>4, <1>5 DEF Next

\* The empty service has an empty book.
LEMMA BookInit == Init => TypeOK /\ BookInv
<1> SUFFICES ASSUME Init PROVE TypeOK /\ BookInv
  OBVIOUS
<1>1. child \in [Pid -> Child] /\ \A p \in Pid : ~Used(p)
  BY DEF Init, Child, Free, Used
<1>2. TypeOK
  <2>1. nodes \in [Host -> Nat \cup {Absent}] /\ invites \in Seq([name: Host, id: Nat])
    BY DEF Init
  <2>2. next \in Nat /\ job \in Job /\ rooms \subseteq Room
    BY PortAssumption, IdleType DEF Init
  <2>3. sig \in BOOLEAN /\ armed \in BOOLEAN /\ lock \in BOOLEAN /\ hung \in BOOLEAN
    BY DEF Init
  <2>4. QED
    BY <1>1, <2>1, <2>2, <2>3 DEF TypeOK
<1>3. job.stage = "idle"
  BY DEF Init, Idle
<1>4. BookInv
  BY <1>1, <1>3 DEF Init, BookInv, RoomsDistinct, PortExclusive, PidBelongs, LockHeld,
                    PortsDrawn, Owned, ForkedOwns
<1>5. QED
  BY <1>2, <1>4

\* The book holds in every reachable state.
LEMMA BookHolds == Spec => [](TypeOK /\ BookInv)
BY BookInit, BookStep, PTL DEF Spec

-----------------------------------------------------------------------------
(* The theorems. *)

\* The variables of the server keep their shape: a room that is recorded
\* after a fork has a name and a real process id.
THEOREM TypeCorrect == Spec => []TypeOK
BY BookHolds, PTL

\* No two rooms share a name, an id or a port, after any sequence of
\* requests, failed forks, deaths and signals.
THEOREM RoomsNeverClash == Spec => []RoomsDistinct
<1>1. BookInv => RoomsDistinct
  BY DEF BookInv
<1>2. QED
  BY <1>1, BookHolds, PTL

\* Two session processes never compete for one port, not even when a room is
\* restarted or a signal was lost or merged.
THEOREM PortsNeverShared == Spec => []PortExclusive
<1>1. BookInv => PortExclusive
  BY DEF BookInv
<1>2. QED
  BY <1>1, BookHolds, PTL

\* del-room only ever kills the session of the room it deletes, recycled
\* process ids or not.
THEOREM PidsBelong == Spec => []PidBelongs
<1>1. BookInv => PidBelongs
  BY DEF BookInv
<1>2. QED
  BY <1>1, BookHolds, PTL

\* Every path through the handlers gives the lock back.
THEOREM LockReleased == Spec => []NoLockLeak
<1>1. BookInv => NoLockLeak
  BY DEF BookInv, LockHeld, NoLockLeak
<1>2. QED
  BY <1>1, BookHolds, PTL

\* While its name is listed, a room's id and port do not change.
AddressKept ==
  [][ \A r \in rooms, s \in rooms' : r.name = s.name => r.id = s.id /\ r.port = s.port ]_vars

\* A room keeps its id and port for as long as its name is in the list.
THEOREM AddressStays == Spec => AddressKept
<1> DEFINE Kept == \A r \in rooms, s \in rooms' : r.name = s.name => r.id = s.id /\ r.port = s.port
<1>1. TypeOK /\ BookInv /\ [Next]_vars => [Kept]_vars
  <2> SUFFICES ASSUME TypeOK, BookInv, Next, NEW r \in rooms, NEW s \in rooms', r.name = s.name
               PROVE  r.id = s.id /\ r.port = s.port
    OBVIOUS
  <2>1. s \in rooms => r = s
    BY DEF BookInv, RoomsDistinct
  <2>2. CASE Requests
    BY <2>1, <2>2 DEF Requests, AddNode, DelNode, LeftRoom, Invite, JoinRoom, AddRoomReuses,
                      AddRoomRestarts, AddRoomCreates, DelRoom, RoomsUntouched
  <2>3. CASE Continues
    <3>1. CASE AddRoomRecords
      <4>1. CASE s \in rooms
        BY <2>1, <4>1
      <4>2. CASE s \notin rooms
        <5>1. s = [name |-> job.name, id |-> job.id, port |-> job.port, pid |-> job.pid,
                   up |-> TRUE]
          BY <3>1, <4>2 DEF AddRoomRecords
        <5>2. job.stage = "forked"
          BY <3>1 DEF AddRoomRecords
        <5>3. s.name = job.name /\ s.id = job.id /\ s.port = job.port
          BY <5>1
        <5>4. QED
          BY <5>2, <5>3 DEF BookInv, ForkedOwns, PortsDrawn
      <4>3. QED
        BY <4>1, <4>2
    <3>2. QED
      BY <2>1, <2>3, <3>1 DEF Continues, AddRoomReplies, AddRoomFails, DelRoomReplies,
                              JoinRoomReplies, JoinRoomFails
  <2>4. CASE SigChld
    <3>1. PICK p : rooms' = rooms \/ rooms' = Marked(p)
      BY <2>4 DEF SigChld
    <3> DEFINE mark(t) == IF t.pid = p THEN [t EXCEPT !.up = FALSE, !.pid = NoPid] ELSE t
    <3>2. \E t \in rooms : s.name = t.name /\ s.id = t.id /\ s.port = t.port
      <4>1. \A t \in rooms : /\ mark(t).name = t.name /\ mark(t).id = t.id
                              /\ mark(t).port = t.port
        BY DEF TypeOK, Room
      <4>2. rooms' = rooms \/ rooms' = {mark(t) : t \in rooms}
        BY <3>1 DEF Marked
      <4> HIDE DEF mark
      <4>3. CASE rooms' = {mark(t) : t \in rooms}
        <5>1. PICK t \in rooms : s = mark(t)
          BY <4>3
        <5>2. QED
          BY <4>1, <5>1
      <4>4. QED
        BY <4>2, <4>3
    <3>3. QED
      BY <3>2 DEF BookInv, RoomsDistinct
  <2>5. ASSUME NEW p \in Pid, Dies(p) PROVE r.id = s.id /\ r.port = s.port
    BY <2>1, <2>5 DEF Dies
  <2>6. QED
    BY <2>2, <2>3, <2>4, <2>5 DEF Next
<1>2. Spec => [][Kept]_vars
  BY <1>1, BookHolds, PTL DEF Spec
<1>3. QED
  BY <1>2 DEF AddressKept

-----------------------------------------------------------------------------
(* The service implements the book of rooms. *)

\* Every address in use, or about to be, has been drawn, and none behind the bound.
Ranged ==
  /\ next \in FirstPort..(FirstPort + MaxRooms)
  /\ \A r \in rooms : r.port \in Known
  /\ job.stage = "forked" => job.port \in Known

\* Whom a request is served for is a host, and where it will be put is a room that is
\* there, or an address that was given out.
Served ==
  /\ job.stage \in {"forked", "added", "joined"} => job.host \in Host
  /\ job.stage = "added" => \E r \in rooms : r.id = job.id
  /\ job.stage = "joined" => job.id \in Known

\* A signal marks rooms, and leaves what is listed of each.
LEMMA MarkedKeeps ==
  ASSUME TypeOK, NEW p
  PROVE  {[name |-> r.name, id |-> r.id, port |-> r.port] : r \in Marked(p)} = Listed
<1> DEFINE mark(r) == IF r.pid = p THEN [r EXCEPT !.up = FALSE, !.pid = NoPid] ELSE r
           entry(r) == [name |-> r.name, id |-> r.id, port |-> r.port]
<1>1. \A r \in rooms : entry(mark(r)) = entry(r)
  BY DEF TypeOK, Room
<1>2. Marked(p) = {mark(r) : r \in rooms}
  BY DEF Marked
<1> HIDE DEF mark
<1>3. {entry(s) : s \in {mark(r) : r \in rooms}} = {entry(r) : r \in rooms}
  <2>1. ASSUME NEW e \in {entry(s) : s \in {mark(r) : r \in rooms}}
        PROVE  e \in {entry(r) : r \in rooms}
    <3>1. PICK r \in rooms : e = entry(mark(r))
      OBVIOUS
    <3>2. e = entry(r)
      BY <1>1, <3>1
    <3>3. QED
      BY <3>2
  <2>2. ASSUME NEW e \in {entry(r) : r \in rooms}
        PROVE  e \in {entry(s) : s \in {mark(r) : r \in rooms}}
    <3>1. PICK r \in rooms : e = entry(r)
      OBVIOUS
    <3>2. e = entry(mark(r)) /\ mark(r) \in {mark(t) : t \in rooms}
      BY <1>1, <3>1
    <3>3. QED
      BY <3>2
  <2>3. QED
    BY <2>1, <2>2
<1>4. QED
  BY <1>2, <1>3 DEF Listed

\* The names in the list.
LEMMA ListedNames ==
  ASSUME NEW R, NEW n
  PROVE  (\A r \in R : r.name # n) <=>
           \A e \in {[name |-> r.name, id |-> r.id, port |-> r.port] : r \in R} : e.name # n
<1> DEFINE entry(r) == [name |-> r.name, id |-> r.id, port |-> r.port]
<1>1. \A r \in R : entry(r) \in {entry(t) : t \in R} /\ entry(r).name = r.name
  OBVIOUS
<1>2. \A e \in {entry(t) : t \in R} : \E r \in R : e.name = r.name
  OBVIOUS
<1> HIDE DEF entry
<1>3. (\A r \in R : r.name # n) <=> \A e \in {entry(t) : t \in R} : e.name # n
  BY <1>1, <1>2
<1>4. QED
  BY <1>3 DEF entry

\* What leaves the list, the counter and the process that was forked alone draws no
\* address.
LEMMA SpentStays ==
  ASSUME Listed' = Listed, next' = next,
         job' = job \/ (job.stage # "forked" /\ job'.stage # "forked")
  PROVE  UNCHANGED <<Listed, Known \ Pending>>
<1>1. Known' = Known
  BY DEF Known
<1>2. (\A r \in rooms' : r.name # job'.name) <=> (\A e \in Listed' : e.name # job'.name)
  BY ListedNames DEF Listed
<1>3. Pending' = Pending
  <2>1. CASE job' = job
    <3>1. (\A r \in rooms : r.name # job.name) <=> (\A r \in rooms' : r.name # job'.name)
      BY <1>2, <2>1, ListedNames DEF Listed
    <3>2. QED
      BY <1>1, <2>1, <3>1 DEF Pending
  <2>2. CASE job.stage # "forked" /\ job'.stage # "forked"
    BY <2>2 DEF Pending
  <2>3. QED
    BY <2>1, <2>2
<1>4. QED
  BY <1>1, <1>3

\* A request that leaves the hosts' places to its second step.
Placing == job.stage \in {"deleted", "joined"}

\* What leaves the node list and such a request alone moves nobody.
LEMMA HostsStay ==
  ASSUME nodes' = nodes, job' = job \/ (~Placing /\ ~Placing')
  PROVE  UNCHANGED <<Place, Asking>>
<1>1. CASE job' = job
  BY <1>1 DEF Place, Asking
<1>2. CASE ~Placing /\ ~Placing'
  BY <1>2 DEF Placing, Place, Asking
<1>3. QED
  BY <1>1, <1>2

\* A marked room keeps its port and its id, and none is lost.
LEMMA MarkedPorts ==
  ASSUME TypeOK, NEW p
  PROVE  /\ \A r \in Marked(p) : \E s \in rooms : r.port = s.port
         /\ \A s \in rooms : \E r \in Marked(p) : r.id = s.id
<1> DEFINE mark(r) == IF r.pid = p THEN [r EXCEPT !.up = FALSE, !.pid = NoPid] ELSE r
<1>1. \A r \in rooms : mark(r).port = r.port /\ mark(r).id = r.id
  BY DEF TypeOK, Room
<1>2. Marked(p) = {mark(r) : r \in rooms}
  BY DEF Marked
<1> HIDE DEF mark
<1>3. QED
  BY <1>1, <1>2

\* The steps that neither start a session nor change the room list.
Quiet ==
  \/ \E h \in Host : AddNode(h) \/ DelNode(h) \/ LeftRoom(h)
  \/ \E h \in Host, id \in Known : Invite(h, id) \/ JoinRoom(h, id)
  \/ \E n \in Name, h \in Host : AddRoomReuses(n, h)
  \/ AddRoomReplies \/ AddRoomFails \/ DelRoomReplies \/ JoinRoomReplies \/ JoinRoomFails
  \/ \E p \in Pid : Dies(p)

LEMMA QuietEffect ==
  ASSUME Quiet
  PROVE  /\ UNCHANGED <<rooms, next>>
         /\ job' = job \/ (job.stage # "forked" /\ job'.stage # "forked")
<1>1. ASSUME NEW h \in Host, AddNode(h) \/ DelNode(h) \/ LeftRoom(h)
      PROVE  UNCHANGED <<rooms, next, job>>
  BY <1>1 DEF AddNode, DelNode, LeftRoom, RoomsUntouched
<1>2. ASSUME NEW h \in Host, NEW id \in Known, Invite(h, id)
      PROVE  UNCHANGED <<rooms, next, job>>
  BY <1>2 DEF Invite, RoomsUntouched
<1>3. ASSUME NEW h \in Host, NEW id \in Known, JoinRoom(h, id)
      PROVE  UNCHANGED <<rooms, next>> /\ job.stage # "forked" /\ job'.stage # "forked"
  BY <1>3 DEF JoinRoom, Ready, Idle
<1>4. ASSUME NEW n \in Name, NEW h \in Host, AddRoomReuses(n, h)
      PROVE  UNCHANGED <<rooms, next>> /\ job.stage # "forked" /\ job'.stage # "forked"
  BY <1>4 DEF AddRoomReuses, Ready, Idle
<1>5. CASE AddRoomReplies \/ AddRoomFails \/ DelRoomReplies \/ JoinRoomReplies \/ JoinRoomFails
  <2>1. UNCHANGED <<rooms, next>> /\ job.stage # "forked" /\ job' = Idle
    BY <1>5 DEF AddRoomReplies, AddRoomFails, DelRoomReplies, JoinRoomReplies, JoinRoomFails
  <2>2. QED
    BY <2>1 DEF Idle
<1>6. ASSUME NEW p \in Pid, Dies(p) PROVE UNCHANGED <<rooms, next, job>>
  BY <1>6 DEF Dies
<1>7. QED
  BY <1>1, <1>2, <1>3, <1>4, <1>5, <1>6 DEF Quiet

\* An address is drawn once, below the bound, and a process is forked on a drawn one.
LEMMA RangeStep == TypeOK /\ BookInv /\ Ranged /\ [Next]_vars => Ranged'
<1> SUFFICES ASSUME TypeOK, BookInv, Ranged, [Next]_vars PROVE Ranged'
  OBVIOUS
<1> USE PortAssumption
<1>1. FirstPort \in Nat /\ MaxRooms \in Nat /\ next \in Nat /\ Known = FirstPort..(next - 1)
  BY DEF TypeOK, Known
<1>2. ASSUME UNCHANGED <<rooms, next>>, job' = job \/ job'.stage # "forked" PROVE Ranged'
  BY <1>2 DEF Ranged, Known
<1>3. CASE UNCHANGED vars
  BY <1>2, <1>3 DEF vars
<1>4. ASSUME NEW n \in Name, NEW h \in Host, AddRoomRestarts(n, h) PROVE Ranged'
  <2>1. PICK r \in rooms : StartSession(n, h, r.id, r.port)
    BY <1>4 DEF AddRoomRestarts
  <2>2. job'.stage = "forked" => job'.port = r.port
    BY <2>1 DEF StartSession, Idle
  <2>3. UNCHANGED <<rooms, next>>
    BY <1>4 DEF AddRoomRestarts
  <2>4. QED
    BY <2>2, <2>3 DEF Ranged, Known
<1>5. ASSUME NEW n \in Name, NEW h \in Host, AddRoomCreates(n, h) PROVE Ranged'
  <2>1. /\ next' = next + 1 /\ next < FirstPort + MaxRooms /\ UNCHANGED rooms
        /\ StartSession(n, h, next, next)
    BY <1>5 DEF AddRoomCreates
  <2>2. job'.stage = "forked" => job'.port = next
    BY <2>1 DEF StartSession, Idle
  <2>3. Known \subseteq Known' /\ next \in Known'
    BY <1>1, <2>1 DEF Ranged, Known
  <2>4. QED
    BY <1>1, <2>1, <2>2, <2>3 DEF Ranged
<1>6. CASE AddRoomRecords
  <2>1. /\ UNCHANGED next /\ job'.stage # "forked" /\ job.stage = "forked"
        /\ \A r \in rooms' : r \in rooms \/ r.port = job.port
    BY <1>6 DEF AddRoomRecords, Idle
  <2>2. QED
    BY <2>1 DEF Ranged, Known
<1>7. ASSUME NEW id \in Known, DelRoom(id) PROVE Ranged'
  <2>1. UNCHANGED next /\ job'.stage # "forked" /\ rooms' \subseteq rooms
    BY <1>7 DEF DelRoom, Idle
  <2>2. QED
    BY <2>1 DEF Ranged, Known
<1>8. CASE SigChld
  <2>1. PICK p : rooms' = rooms \/ rooms' = Marked(p)
    BY <1>8 DEF SigChld
  <2>2. UNCHANGED <<next, job>>
    BY <1>8 DEF SigChld
  <2>3. \A r \in rooms' : \E s \in rooms : r.port = s.port
    BY <2>1, MarkedPorts
  <2>4. QED
    BY <2>2, <2>3 DEF Ranged, Known
<1>9. CASE Quiet
  BY <1>2, <1>9, QuietEffect
<1>10. QED
  BY <1>3, <1>4, <1>5, <1>6, <1>7, <1>8, <1>9 DEF Next, Requests, Continues, Quiet

\* Whom a request is served for, and where it leads, stays right to its end.
LEMMA ServedStep == TypeOK /\ Served /\ [Next]_vars => Served'
<1> SUFFICES ASSUME TypeOK, Served, [Next]_vars PROVE Served'
  OBVIOUS
<1>1. ASSUME job' = job, next' = next, \A r \in rooms : \E s \in rooms' : s.id = r.id
      PROVE  Served'
  BY <1>1 DEF Served, Known
<1>2. ASSUME job'.stage \notin {"forked", "added", "joined"} PROVE Served'
  BY <1>2 DEF Served
<1>3. ASSUME job'.stage = "forked", job'.host \in Host PROVE Served'
  BY <1>3 DEF Served
<1>4. CASE UNCHANGED vars
  BY <1>1, <1>4 DEF vars
<1>5. ASSUME NEW h \in Host, AddNode(h) \/ DelNode(h) \/ LeftRoom(h) PROVE Served'
  BY <1>1, <1>5 DEF AddNode, DelNode, LeftRoom, RoomsUntouched
<1>6. ASSUME NEW h \in Host, NEW id \in Known, Invite(h, id) PROVE Served'
  BY <1>1, <1>6 DEF Invite, RoomsUntouched
<1>7. ASSUME NEW h \in Host, NEW id \in Known, JoinRoom(h, id) PROVE Served'
  <2>1. next' = next /\ (job'.stage = "abnormal"
                        \/ (job'.stage = "joined" /\ job'.host = h /\ job'.id = id))
    BY <1>7 DEF JoinRoom, Idle
  <2>2. QED
    BY <2>1 DEF Served, Known
<1>8. ASSUME NEW n \in Name, NEW h \in Host, AddRoomReuses(n, h) PROVE Served'
  <2>1. PICK r \in rooms : job' = [Idle EXCEPT !.stage = "added", !.host = h, !.id = r.id]
    BY <1>8 DEF AddRoomReuses
  <2>2. job'.stage = "added" /\ job'.host = h /\ job'.id = r.id
    BY <2>1 DEF Idle
  <2>3. rooms' = rooms
    BY <1>8 DEF AddRoomReuses
  <2>4. QED
    BY <2>2, <2>3 DEF Served
<1>9. ASSUME NEW n \in Name, NEW h \in Host, AddRoomRestarts(n, h) \/ AddRoomCreates(n, h)
      PROVE  Served'
  <2>1. PICK id, port : StartSession(n, h, id, port)
    BY <1>9 DEF AddRoomRestarts, AddRoomCreates
  <2>2. job'.stage = "failed" \/ (job'.stage = "forked" /\ job'.host = h)
    BY <2>1 DEF StartSession, Idle
  <2>3. QED
    BY <1>2, <1>3, <2>2
<1>10. CASE AddRoomRecords
  <2>1. /\ job'.stage = "added" /\ job'.host = job.host /\ job'.id = job.id
        /\ job.stage = "forked"
    BY <1>10 DEF AddRoomRecords, Idle
  <2>2. \E r \in rooms' : r.id = job.id
    <3> DEFINE new == [name |-> job.name, id |-> job.id, port |-> job.port, pid |-> job.pid,
                       up |-> TRUE]
    <3>1. new \in rooms' /\ new.id = job.id
      BY <1>10 DEF AddRoomRecords
    <3>2. QED
      BY <3>1
  <2>3. QED
    BY <2>1, <2>2 DEF Served
<1>11. CASE AddRoomReplies \/ AddRoomFails \/ DelRoomReplies \/ JoinRoomReplies \/ JoinRoomFails
  <2>1. job' = Idle
    BY <1>11 DEF AddRoomReplies, AddRoomFails, DelRoomReplies, JoinRoomReplies, JoinRoomFails
  <2>2. QED
    BY <1>2, <2>1 DEF Idle
<1>12. ASSUME NEW id \in Known, DelRoom(id) PROVE Served'
  <2>1. job'.stage = "deleted"
    BY <1>12 DEF DelRoom, Idle
  <2>2. QED
    BY <1>2, <2>1
<1>13. ASSUME NEW p \in Pid, Dies(p) PROVE Served'
  BY <1>1, <1>13 DEF Dies
<1>14. CASE SigChld
  <2>1. PICK p : rooms' = rooms \/ rooms' = Marked(p)
    BY <1>14 DEF SigChld
  <2>2. UNCHANGED <<next, job>>
    BY <1>14 DEF SigChld
  <2>3. QED
    BY <1>1, <2>1, <2>2, MarkedPorts
<1>15. QED
  BY <1>4, <1>5, <1>6, <1>7, <1>8, <1>9, <1>10, <1>11, <1>12, <1>13, <1>14
     DEF Next, Requests, Continues

\* A fork for a new room leaves the book alone until it is recorded; one that failed
\* spends the address.
LEMMA CreateMaps ==
  ASSUME TypeOK, Ranged, NEW n \in Name, NEW h \in Host, AddRoomCreates(n, h)
  PROVE  [Book!Next]_(Book!vars)
<1> USE PortAssumption
<1>1. /\ next' = next + 1 /\ next < FirstPort + MaxRooms /\ UNCHANGED <<rooms, nodes>>
      /\ StartSession(n, h, next, next) /\ job.stage = "idle" /\ \A r \in rooms : r.name # n
  BY DEF AddRoomCreates, Ready
<1>2. Listed' = Listed /\ Pending = {}
  BY <1>1 DEF Listed, Pending
<1>3. Known' = Known \cup {next} /\ next \notin Known
  BY <1>1 DEF Known, Ranged
<1>4. CASE job' = [Idle EXCEPT !.stage = "failed"]
  <2>1. Pending' = {} /\ ~Placing /\ ~Placing'
    BY <1>1, <1>4 DEF Pending, Idle, Placing
  <2>2. next \in FirstPort..(FirstPort + MaxRooms - 1)
    BY <1>1 DEF Ranged
  <2>3. Book!Fails
    BY <1>1, <1>2, <1>3, <2>1, <2>2, HostsStay DEF Book!Fails, Book!Spends
  <2>4. QED
    BY <2>3 DEF Book!Next
<1>5. CASE job'.stage = "forked" /\ job'.name = n /\ job'.port = next
  <2>1. Pending' = {next} /\ ~Placing /\ ~Placing'
    BY <1>1, <1>3, <1>5 DEF Pending, Placing
  <2>2. QED
    BY <1>1, <1>2, <1>3, <2>1, HostsStay DEF Book!vars
<1>6. QED
  BY <1>1, <1>4, <1>5 DEF StartSession

\* A room that is recorded after a fork is opened at the address that was drawn for it, or it
\* was listed there before.
LEMMA RecordMaps ==
  ASSUME TypeOK, BookInv, Ranged, AddRoomRecords
  PROVE  [Book!Next]_(Book!vars)
<1> DEFINE entry(r) == [name |-> r.name, id |-> r.id, port |-> r.port]
           new == [name |-> job.name, id |-> job.id, port |-> job.port, pid |-> job.pid,
                   up |-> TRUE]
<1>1. /\ rooms' = {r \in rooms : r.name # job.name} \cup {new}
      /\ next' = next /\ nodes' = nodes
      /\ job.stage = "forked" /\ job'.stage = "added"
  BY DEF AddRoomRecords, Idle
<1>2. /\ job.name \in Name /\ job.id = job.port /\ job.port \in Known
      /\ \A r \in rooms : r.name = job.name <=> r.port = job.port
  BY <1>1 DEF BookInv, ForkedOwns, Ranged
<1>3. /\ Known' = Known /\ Pending' = {}
      /\ UNCHANGED <<Place, Asking>>
  <2>1. Known' = Known /\ Pending' = {} /\ ~Placing /\ ~Placing'
    BY <1>1 DEF Known, Pending, Placing
  <2>2. QED
    BY <1>1, <2>1, HostsStay
<1>4. entry(new) = Book!Entry(job.name, job.port)
  BY <1>2 DEF Book!Entry
<1>5. CASE \E r \in rooms : r.name = job.name
  <2>1. PICK r \in rooms : r.name = job.name
    BY <1>5
  <2>2. entry(r) = entry(new) /\ \A s \in rooms : s.name = job.name => s = r
    BY <1>2, <2>1 DEF BookInv, RoomsDistinct, PortsDrawn
  <2>3. Listed' = Listed
    <3>1. Listed' = {entry(s) : s \in {t \in rooms : t.name # job.name} \cup {new}}
      BY <1>1 DEF Listed
    <3>2. \A s \in rooms : s.name # job.name \/ entry(s) = entry(new)
      BY <2>2
    <3> HIDE DEF entry, new
    <3>3. QED
      BY <2>1, <2>2, <3>1, <3>2 DEF Listed, entry
  <2>4. Pending = {}
    BY <2>1 DEF Pending
  <2>5. QED
    BY <1>3, <2>3, <2>4 DEF Book!vars
<1>6. CASE \A r \in rooms : r.name # job.name
  <2>1. Pending = {job.port}
    BY <1>1, <1>2, <1>6 DEF Pending
  <2>2. Listed' = Listed \cup {Book!Entry(job.name, job.port)}
    <3>1. rooms' = rooms \cup {new}
      BY <1>1, <1>6
    <3> HIDE DEF new
    <3>2. Listed' = Listed \cup {entry(new)}
      BY <3>1 DEF Listed
    <3>3. QED
      BY <1>4, <3>2
  <2>3. \A e \in Listed : e.name # job.name
    BY <1>6, ListedNames DEF Listed
  <2>4. job.port \in FirstPort..(FirstPort + MaxRooms - 1)
    BY <1>2, PortAssumption DEF Ranged, Known
  <2>5. Book!Opens(job.name)
    BY <1>2, <1>3, <2>1, <2>2, <2>3, <2>4 DEF Book!Opens, Book!Spends
  <2>6. QED
    BY <1>2, <2>5 DEF Book!Next
<1>7. QED
  BY <1>5, <1>6

\* A deleted room is taken out of the book, and only it, and everybody out of the room.
LEMMA DeleteMaps ==
  ASSUME TypeOK, BookInv, Ranged, NEW id \in Known, DelRoom(id)
  PROVE  Book!Next
<1> DEFINE entry(r) == [name |-> r.name, id |-> r.id, port |-> r.port]
<1>1. /\ next' = next /\ nodes' = nodes
      /\ job.stage = "idle" /\ job'.stage = "deleted" /\ job'.id = id
      /\ rooms' = {r \in rooms : r.id # id}
  <2>1. /\ next' = next /\ nodes' = nodes
        /\ job.stage = "idle" /\ job'.stage = "deleted" /\ job'.id = id
    BY DEF DelRoom, Ready, Idle
  <2>2. rooms' = {r \in rooms : r.id # id}
    BY DEF DelRoom, BookInv, RoomsDistinct
  <2>3. QED
    BY <2>1, <2>2
<1>2. Known' = Known /\ Pending = {} /\ Pending' = {}
  BY <1>1 DEF Known, Pending
<1>3. Listed' = {e \in Listed : e.id # id}
  <2>1. \A r \in rooms : entry(r).id = r.id
    OBVIOUS
  <2>2. Listed = {entry(r) : r \in rooms} /\ Listed' = {entry(r) : r \in {t \in rooms : t.id # id}}
    BY <1>1 DEF Listed
  <2> HIDE DEF entry
  <2>3. QED
    BY <2>1, <2>2
<1>4. Place' = [h \in Host |-> IF Place[h] = id THEN NoRoom ELSE Place[h]]
  BY <1>1 DEF Place
<1>5. Asking = {} /\ Asking' = {}
  BY <1>1 DEF Asking
<1>6. id \in FirstPort..(FirstPort + MaxRooms - 1)
  BY PortAssumption DEF Ranged, Known
<1>7. Book!Closes(id)
  BY <1>2, <1>3, <1>4, <1>5 DEF Book!Closes
<1>8. QED
  BY <1>6, <1>7 DEF Book!Next

\* A host comes, goes, or leaves its room.
LEMMA NodeMaps ==
  ASSUME TypeOK, NEW h \in Host, AddNode(h) \/ DelNode(h) \/ LeftRoom(h)
  PROVE  [Book!Next]_(Book!vars)
<1>1. /\ UNCHANGED <<rooms, next, job>> /\ job.stage = "idle"
  BY DEF AddNode, DelNode, LeftRoom, RoomsUntouched, Ready
<1>2. Place = nodes /\ Place' = nodes' /\ Asking' = Asking
  <2>1. nodes' \in [Host -> Nat \cup {Absent}]
    <3>1. Placed(h, NoRoom) \in [Host -> Nat \cup {Absent}]
      BY PlacedType DEF NoRoom
    <3>2. nodes \in [Host -> Nat \cup {Absent}]
      BY DEF TypeOK
    <3>3. QED
      BY <3>1, <3>2 DEF AddNode, DelNode, LeftRoom, NoRoom
  <2>2. QED
    BY <1>1, <2>1 DEF Place, Asking, TypeOK
<1>3. UNCHANGED <<Listed, Known \ Pending>>
  BY <1>1, SpentStays DEF Listed
<1>4. CASE AddNode(h)
  <2>1. nodes' = nodes \/ (nodes[h] = Absent /\ nodes' = [nodes EXCEPT ![h] = NoRoom])
    BY <1>4 DEF AddNode
  <2>2. UNCHANGED Book!vars \/ Book!Registers(h)
    BY <1>2, <1>3, <2>1 DEF Book!vars, Book!Registers
  <2>3. QED
    BY <2>2 DEF Book!Next
<1>5. CASE DelNode(h)
  <2>1. Book!Removes(h)
    BY <1>2, <1>3, <1>5 DEF DelNode, Book!Removes
  <2>2. QED
    BY <2>1 DEF Book!Next
<1>6. CASE LeftRoom(h)
  <2>1. Book!Leaves(h)
    BY <1>2, <1>3, <1>6 DEF LeftRoom, Placed, Book!Leaves, Book!Moved
  <2>2. QED
    BY <2>1 DEF Book!Next
<1>7. QED
  BY <1>4, <1>5, <1>6

\* add-room puts its host into a room that is listed.
LEMMA EnterMaps ==
  ASSUME TypeOK, Served, AddRoomReplies
  PROVE  Book!Next
<1>1. /\ UNCHANGED <<rooms, next>> /\ job.stage = "added" /\ job'.stage = "idle"
      /\ nodes' = Placed(job.host, job.id)
  BY DEF AddRoomReplies, Idle
<1>2. PICK r \in rooms : r.id = job.id
  BY <1>1 DEF Served
<1> DEFINE e == [name |-> r.name, id |-> r.id, port |-> r.port]
<1>3. job.host \in Host /\ e \in Listed /\ e.id = job.id
  BY <1>1, <1>2 DEF Served, Listed
<1>4. Place = nodes /\ Place' = nodes' /\ Asking' = Asking
  <2>1. nodes' \in [Host -> Nat \cup {Absent}]
    BY <1>1, PlacedType DEF TypeOK, Job
  <2>2. QED
    BY <1>1, <2>1 DEF Place, Asking, TypeOK
<1>5. UNCHANGED <<Listed, Known \ Pending>>
  BY <1>1, SpentStays DEF Listed
<1> HIDE DEF e
<1>6. Book!Enters(job.host, e)
  BY <1>1, <1>3, <1>4, <1>5 DEF Placed, Book!Enters, Book!Moved
<1>7. QED
  BY <1>3, <1>6 DEF Book!Next

\* join-room asks for an address that was given out, or finds its room down.
LEMMA AskMaps ==
  ASSUME TypeOK, Ranged, NEW h \in Host, NEW id \in Known, JoinRoom(h, id)
  PROVE  [Book!Next]_(Book!vars)
<1>1. /\ UNCHANGED <<rooms, next, nodes>> /\ job.stage = "idle"
      /\ \/ job'.stage = "abnormal"
         \/ job'.stage = "joined" /\ job'.host = h /\ job'.id = id
  BY DEF JoinRoom, Ready, Idle
<1>2. UNCHANGED <<Listed, Known \ Pending>> /\ id \in Known \ Pending
  <2>1. UNCHANGED <<Listed, Known \ Pending>>
    BY <1>1, SpentStays DEF Listed
  <2>2. QED
    BY <1>1, <2>1 DEF Pending
<1>3. Place' = Place
  BY <1>1 DEF Place
<1>4. CASE job'.stage = "abnormal"
  <2>1. Asking' = Asking
    BY <1>1, <1>4 DEF Asking
  <2>2. QED
    BY <1>2, <1>3, <2>1 DEF Book!vars
<1>5. CASE job'.stage = "joined" /\ job'.host = h /\ job'.id = id
  <2>1. Asking' = Asking \cup {<<h, id>>}
    BY <1>1, <1>5 DEF Asking
  <2>2. Book!Asks(h, id)
    BY <1>2, <1>3, <2>1 DEF Book!Asks
  <2>3. id \in FirstPort..(FirstPort + MaxRooms - 1)
    BY PortAssumption DEF Ranged, Known
  <2>4. QED
    BY <2>2, <2>3 DEF Book!Next
<1>6. QED
  BY <1>1, <1>4, <1>5

\* The second step of join-room puts the host where it asked to be, room or no room.
LEMMA JoinMaps ==
  ASSUME TypeOK, Ranged, Served, JoinRoomReplies
  PROVE  Book!Next
<1>1. /\ UNCHANGED <<rooms, next>> /\ job.stage = "joined" /\ job'.stage = "idle"
      /\ nodes' = Placed(job.host, job.id)
  BY DEF JoinRoomReplies, Idle
<1>2. job.host \in Host /\ job.id \in FirstPort..(FirstPort + MaxRooms - 1)
  BY <1>1, PortAssumption DEF Served, Ranged, Known
<1>3. Place = nodes /\ Place' = nodes'
  <2>1. nodes' \in [Host -> Nat \cup {Absent}]
    BY <1>1, PlacedType DEF TypeOK, Job
  <2>2. QED
    BY <1>1, <2>1 DEF Place, TypeOK
<1>4. Asking = {<<job.host, job.id>>} /\ Asking' = {}
  BY <1>1 DEF Asking
<1>5. UNCHANGED <<Listed, Known \ Pending>>
  BY <1>1, SpentStays DEF Listed
<1>6. Book!Joins(job.host, job.id)
  BY <1>1, <1>3, <1>4, <1>5 DEF Placed, Book!Joins, Book!Moved
<1>7. QED
  BY <1>2, <1>6 DEF Book!Next

\* The second step of del-room notes what the first one has done for the hosts.
LEMMA DeletedMaps ==
  ASSUME TypeOK, DelRoomReplies
  PROVE  UNCHANGED Book!vars
<1>1. /\ UNCHANGED <<rooms, next>> /\ job.stage = "deleted" /\ job'.stage = "idle"
      /\ nodes' = [h \in Host |-> IF nodes[h] = job.id THEN NoRoom ELSE nodes[h]]
  BY DEF DelRoomReplies, Idle
<1>2. Place' = Place /\ Asking' = Asking
  BY <1>1 DEF Place, Asking
<1>3. UNCHANGED <<Listed, Known \ Pending>>
  BY <1>1, SpentStays DEF Listed
<1>4. QED
  BY <1>2, <1>3 DEF Book!vars

\* The steps that change neither list nor who is served and where.
LEMMA UnseenMaps ==
  ASSUME \/ \E h \in Host, id \in Known : Invite(h, id)
         \/ \E n \in Name, h \in Host : AddRoomReuses(n, h)
         \/ AddRoomFails \/ JoinRoomFails
         \/ \E p \in Pid : Dies(p)
  PROVE  UNCHANGED Book!vars
<1>1. /\ UNCHANGED <<rooms, next, nodes>>
      /\ \/ job' = job
         \/ job.stage \in {"idle", "failed", "abnormal"} /\ job'.stage \in {"idle", "added"}
  <2> DEFINE Goal == /\ UNCHANGED <<rooms, next, nodes>>
                     /\ \/ job' = job
                        \/ job.stage \in {"idle", "failed", "abnormal"} /\ job'.stage \in {"idle", "added"}
  <2>1. ASSUME NEW h \in Host, NEW id \in Known, Invite(h, id) PROVE Goal
    BY <2>1 DEF Invite, RoomsUntouched
  <2>2. ASSUME NEW n \in Name, NEW h \in Host, AddRoomReuses(n, h) PROVE Goal
    BY <2>2 DEF AddRoomReuses, Ready, Idle
  <2>3. CASE AddRoomFails \/ JoinRoomFails
    BY <2>3 DEF AddRoomFails, JoinRoomFails, Idle
  <2>4. ASSUME NEW p \in Pid, Dies(p) PROVE Goal
    BY <2>4 DEF Dies
  <2>5. QED
    BY <2>1, <2>2, <2>3, <2>4
<1>2. UNCHANGED <<Listed, Known \ Pending>>
  BY <1>1, SpentStays DEF Listed
<1>3. UNCHANGED <<Place, Asking>>
  BY <1>1, HostsStay DEF Placing
<1>4. QED
  BY <1>2, <1>3 DEF Book!vars

\* A room that is started again stays in the book as it is.
LEMMA RestartMaps ==
  ASSUME NEW n \in Name, NEW h \in Host, AddRoomRestarts(n, h)
  PROVE  UNCHANGED Book!vars
<1>1. PICK r \in rooms : r.name = n /\ StartSession(n, h, r.id, r.port)
  BY DEF AddRoomRestarts
<1>2. UNCHANGED <<next, rooms, nodes>> /\ job.stage = "idle"
  BY DEF AddRoomRestarts, Ready
<1>3. job'.stage = "failed" \/ (job'.stage = "forked" /\ job'.name = n)
  BY <1>1 DEF StartSession, Idle
<1>4. Pending = {} /\ Pending' = {}
  BY <1>1, <1>2, <1>3 DEF Pending
<1>5. UNCHANGED <<Place, Asking>>
  BY <1>2, <1>3, HostsStay DEF Placing
<1>6. QED
  BY <1>2, <1>4, <1>5 DEF Listed, Known, Book!vars

\* Every step of the service is one of the book or leaves it as it is.
LEMMA StepMaps ==
  TypeOK /\ BookInv /\ Ranged /\ Served /\ [Next]_vars => [Book!Next]_(Book!vars)
<1> SUFFICES ASSUME TypeOK, BookInv, Ranged, Served, [Next]_vars
             PROVE  [Book!Next]_(Book!vars)
  OBVIOUS
<1>1. ASSUME UNCHANGED <<next, job, nodes>>, Listed' = Listed
      PROVE  UNCHANGED Book!vars
  <2>1. UNCHANGED <<Listed, Known \ Pending>>
    BY <1>1, SpentStays
  <2>2. QED
    BY <1>1, <2>1, HostsStay DEF Book!vars
<1>2. CASE UNCHANGED vars
  BY <1>1, <1>2 DEF vars, Listed
<1>3. CASE SigChld
  <2>1. PICK p : rooms' = rooms \/ rooms' = Marked(p)
    BY <1>3 DEF SigChld
  <2>2. Listed' = Listed
    BY <2>1, MarkedKeeps DEF Listed
  <2>3. UNCHANGED <<next, job, nodes>>
    BY <1>3 DEF SigChld
  <2>4. QED
    BY <1>1, <2>2, <2>3
<1>4. ASSUME NEW h \in Host, AddNode(h) \/ DelNode(h) \/ LeftRoom(h)
      PROVE  [Book!Next]_(Book!vars)
  BY <1>4, NodeMaps
<1>5. ASSUME NEW h \in Host, NEW id \in Known, JoinRoom(h, id)
      PROVE  [Book!Next]_(Book!vars)
  BY <1>5, AskMaps
<1>6. ASSUME NEW id \in Known, DelRoom(id)
      PROVE  Book!Next
  BY <1>6, DeleteMaps
<1>7. ASSUME NEW n \in Name, NEW h \in Host, AddRoomRestarts(n, h) \/ AddRoomCreates(n, h)
      PROVE  [Book!Next]_(Book!vars)
  BY <1>7, RestartMaps, CreateMaps
<1>8. CASE AddRoomRecords  BY <1>8, RecordMaps
<1>9. CASE AddRoomReplies  BY <1>9, EnterMaps
<1>10. CASE JoinRoomReplies  BY <1>10, JoinMaps
<1>11. CASE DelRoomReplies  BY <1>11, DeletedMaps
<1>12. QED
  BY <1>2, <1>3, <1>4, <1>5, <1>6, <1>7, <1>8, <1>9, <1>10, <1>11, UnseenMaps
     DEF Next, Requests, Continues

\* The server implements the book of rooms: a name that is listed keeps its address, no
\* address is given out twice, whatever fails to start, dies or is deleted, a deletion
\* leaves nobody in the room, and only join-room puts a host where no room is.
THEOREM BookIsKept == Spec => KeepsBook
<1>1. Init => Ranged /\ Served
  BY PortAssumption DEF Init, Ranged, Served, Idle
<1>2. Init => Book!Init
  <2> SUFFICES ASSUME Init PROVE Book!Init
    OBVIOUS
  <2>1. Listed = {} /\ Known = {} /\ Asking = {}
    BY PortAssumption DEF Init, Listed, Known, Asking, Idle
  <2>2. Place = [h \in Host |-> Absent]
    BY DEF Init, Place, Idle
  <2>3. QED
    BY <2>1, <2>2 DEF Book!Init
<1>3. Spec => [](TypeOK /\ BookInv /\ Ranged /\ Served)
  BY <1>1, BookInit, BookStep, RangeStep, ServedStep, PTL DEF Spec
<1>4. QED
  BY <1>2, <1>3, StepMaps, PTL DEF Spec, KeepsBook, Book!Spec

=============================================================================
