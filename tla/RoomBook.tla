------------------------------ MODULE RoomBook ------------------------------
(***************************************************************************)
(* What the server promises about rooms to whoever was told of one: a room *)
(* is found at its address until it is deleted, and an address that was    *)
(* ever given out, if only for a room whose process could not be started,  *)
(* is never given out again, so that an old invitation leads to its own    *)
(* room or to none.  A deletion moves out everybody who was in the room,   *)
(* and nobody is in a room that is not there but who has asked for it.     *)
(***************************************************************************)
CONSTANTS Name, Address, Host, NoRoom, Absent

VARIABLES
  book,    \* the rooms there are: names with their ids and ports
  spent,   \* the addresses that were given out
  place,   \* where each host is: absent, in no room or at an address
  asking   \* hosts that have asked to join, and the addresses they know

vars == <<book, spent, place, asking>>

Entry(n, a) == [name |-> n, id |-> a, port |-> a]

Init ==
  /\ book = {} /\ spent = {} /\ asking = {}
  /\ place = [h \in Host |-> Absent]

Spends(a) == a \notin spent /\ spent' = spent \cup {a}

Opens(n) ==
  /\ \A r \in book : r.name # n
  /\ \E a \in Address : Spends(a) /\ book' = book \cup {Entry(n, a)}
  /\ UNCHANGED <<place, asking>>

Fails ==
  /\ \E a \in Address : Spends(a)
  /\ UNCHANGED <<book, place, asking>>

\* The room may have been closed before; who has come since is moved out, too.
Closes(a) ==
  /\ a \in spent
  /\ book' = {r \in book : r.id # a}
  /\ place' = [h \in Host |-> IF place[h] = a THEN NoRoom ELSE place[h]]
  /\ UNCHANGED <<spent, asking>>

Moved(h, a) == IF place[h] = Absent THEN place ELSE [place EXCEPT ![h] = a]

Registers(h) ==
  /\ place[h] = Absent
  /\ place' = [place EXCEPT ![h] = NoRoom]
  /\ UNCHANGED <<book, spent, asking>>

Removes(h) ==
  /\ place' = [place EXCEPT ![h] = Absent]
  /\ UNCHANGED <<book, spent, asking>>

Leaves(h) ==
  /\ place' = Moved(h, NoRoom)
  /\ UNCHANGED <<book, spent, asking>>

\* Who creates a room or names it is put into a room that is there,
Enters(h, r) ==
  /\ place' = Moved(h, r.id)
  /\ UNCHANGED <<book, spent, asking>>

\* who was invited goes wherever the invitation says.
Asks(h, a) ==
  /\ a \in spent
  /\ asking' = asking \cup {<<h, a>>}
  /\ UNCHANGED <<book, spent, place>>

Joins(h, a) ==
  /\ <<h, a>> \in asking
  /\ asking' = asking \ {<<h, a>>}
  /\ place' = Moved(h, a)
  /\ UNCHANGED <<book, spent>>

Next ==
  \/ \E n \in Name : Opens(n)
  \/ Fails
  \/ \E a \in Address : Closes(a)
  \/ \E h \in Host : Registers(h) \/ Removes(h) \/ Leaves(h)
  \/ \E h \in Host, r \in book : Enters(h, r)
  \/ \E h \in Host, a \in Address : Asks(h, a) \/ Joins(h, a)

Spec == Init /\ [][Next]_vars
=============================================================================
