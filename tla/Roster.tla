------------------------------- MODULE Roster -------------------------------
(***************************************************************************)
(* What a session promises about who is in it: clients are listed in the   *)
(* order in which they came, from their first message until they are gone; *)
(* those who publish or control are among them; control is claimed once in *)
(* the life of a session, is taken over by whoever has been there longest  *)
(* when its holder leaves, and changes hands by anybody's assignment.      *)
(***************************************************************************)
EXTENDS Integers, Sequences

CONSTANTS Client, User

VARIABLES
  present,      \* clients and the names of their users, the oldest first
  publishers,   \* the clients that publish
  controllers,  \* and those that control
  spent         \* control has been claimed

vars == <<present, publishers, controllers, spent>>

Init ==
  /\ present = <<>> /\ publishers = {} /\ controllers = {}
  /\ spent \in BOOLEAN

Listed == {present[i].client : i \in DOMAIN present}
NamedFirst(u) ==
  {i \in DOMAIN present : present[i].user = u /\ \A j \in 1 .. (i - 1) : present[j].user # u}

\* A client joins, publishing or not, and may claim control if nobody has.
Joins(c, u, publishes, claims) ==
  /\ c \notin Listed
  /\ claims => ~spent
  /\ present' = Append(present, [client |-> c, user |-> u])
  /\ publishers' = IF publishes THEN publishers \cup {c} ELSE publishers
  /\ controllers' = IF claims THEN controllers \cup {c} ELSE controllers
  /\ spent' = (spent \/ claims)

\* The client at this place leaves, and leaves its control to the oldest.
Leaves(i) ==
  LET gone == present[i].client
      heirs == {present'[j].client : j \in DOMAIN present' \cap {1}}
  IN  /\ present' = [j \in 1 .. (Len(present) - 1) |-> present[IF j < i THEN j ELSE j + 1]]
      /\ publishers' = publishers \ {gone}
      /\ controllers' = IF gone \in controllers THEN (controllers \ {gone}) \cup heirs ELSE controllers
      /\ UNCHANGED spent

\* The user's first client publishes.
Starts(u) ==
  /\ publishers' = publishers \cup {present[i].client : i \in NamedFirst(u)}
  /\ UNCHANGED <<present, controllers, spent>>

Stops ==
  /\ publishers' = {}
  /\ UNCHANGED <<present, controllers, spent>>

\* The clients of that name control, and nobody else; there may be none of that name.
Assigns(u) ==
  /\ controllers' = {present[i].client : i \in {j \in DOMAIN present : present[j].user = u}}
  /\ UNCHANGED <<present, publishers, spent>>

Ends ==
  /\ present' = <<>> /\ publishers' = {} /\ controllers' = {}
  /\ UNCHANGED spent

Next ==
  \/ \E c \in Client, u \in User, publishes, claims \in BOOLEAN : Joins(c, u, publishes, claims)
  \/ \E i \in DOMAIN present : Leaves(i)
  \/ \E u \in User : Starts(u) \/ Assigns(u)
  \/ Stops
  \/ Ends

Spec == Init /\ [][Next]_vars
=============================================================================
