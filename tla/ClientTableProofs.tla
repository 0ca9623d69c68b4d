------------------------- MODULE ClientTableProofs -------------------------
(* Lemmas about the operators of ClientTable. *)
EXTENDS ClientTable, FiniteSetTheorems, WellFoundedInduction, TLAPS

\* A loop that looks for the first match finds one when there is one.
LEMMA FirstExists ==
  ASSUME NEW I \in SUBSET Nat, I # {}
  PROVE  FirstOf(I) # {} /\ FirstOf(I) \subseteq I
<1> DEFINE R == StrictSubsetOrdering(Nat)
           T == {0..x : x \in I}
<1>1. T \subseteq FiniteSubsetsOf(Nat)
  <2> SUFFICES ASSUME NEW x \in I
               PROVE  0..x \in FiniteSubsetsOf(Nat)
    OBVIOUS
  <2>1. IsFiniteSet(0..x)
    <3>1. 0 \in Int /\ x \in Int
      OBVIOUS
    <3>2. QED
      BY <3>1, FS_Interval
  <2>2. 0..x \in SUBSET Nat
    OBVIOUS
  <2>3. QED
    BY <2>1, <2>2 DEF FiniteSubsetsOf
<1>2. PICK t \in T : \A s \in T : ~(<<s, t>> \in R)
  <2>1. T # {}
    OBVIOUS
  <2> HIDE DEF T
  <2>2. QED
    BY <1>1, <2>1, FS_StrictSubsetOrderingWellFounded, WFMin
<1>3. PICK x \in I : t = 0..x
  BY <1>2
<1>4. \A y \in I : x <= y
  <2> SUFFICES ASSUME NEW y \in I, y < x
               PROVE  FALSE
    OBVIOUS
  <2>1. x \in Nat /\ y \in Nat
    OBVIOUS
  <2>2. 0..y \subseteq 0..x /\ 0..y # 0..x
    <3>1. x \in 0..x /\ x \notin 0..y
      BY <2>1
    <3>2. QED
      BY <2>1, <3>1
  <2>3. 0..y \in SUBSET Nat /\ 0..x \in SUBSET Nat
    OBVIOUS
  <2>4. <<0..y, 0..x>> \in R
    BY <2>2, <2>3 DEF StrictSubsetOrdering
  <2>5. QED
    BY <1>2, <1>3, <2>4
<1>5. QED
  BY <1>4 DEF FirstOf

\* A loop that remembers the last match of a table remembers one when there
\* is one.
LEMMA LastExists ==
  ASSUME NEW n \in Nat, NEW I \in SUBSET (1..n), I # {}
  PROVE  LastOf(I) # {} /\ LastOf(I) \subseteq I
<1> DEFINE J == {n - i : i \in I}
<1>1. J \in SUBSET Nat
  <2>1. \A i \in I : i \in 1..n
    OBVIOUS
  <2>2. QED
    BY <2>1
<1>2. J # {}
  OBVIOUS
<1> HIDE DEF J
<1>3. PICK x \in FirstOf(J) : x \in J
  BY <1>1, <1>2, FirstExists
<1>4. PICK i \in I : x = n - i
  BY <1>3 DEF J
<1>5. ASSUME NEW k \in I
      PROVE  k <= i
  <2>1. n - k \in J
    BY DEF J
  <2>2. x <= n - k
    BY <1>3, <2>1 DEF FirstOf
  <2>3. k \in Nat /\ i \in Nat
    OBVIOUS
  <2>4. QED
    BY <1>4, <2>2, <2>3
<1>6. QED
  BY <1>5 DEF LastOf

-----------------------------------------------------------------------------
(* Types. *)

\* A table written position by position is a table.
LEMMA TableOf ==
  ASSUME NEW S, NEW n \in Nat, NEW f \in [1..n -> S]
  PROVE  f \in Seq(S) /\ Len(f) = n /\ DOMAIN f = 1..n
OBVIOUS

\* A table is a sequence whose elements are entries.
LEMMA TableElements ==
  ASSUME NEW cs \in Seq(Conn)
  PROVE  /\ Len(cs) \in Nat
         /\ DOMAIN cs = 1..Len(cs)
         /\ \A i \in 1..Len(cs) : cs[i] \in Conn
OBVIOUS

\* ds has the connections of cs, in the same places, with other flags.
SameClients(cs, ds) ==
  /\ ds \in Seq(Conn)
  /\ Len(ds) = Len(cs)
  /\ \A i \in 1..Len(cs) : ds[i].wsi = cs[i].wsi /\ ds[i].user = cs[i].user

\* Nobody gains or loses control.
SameControllers(cs, ds) ==
  \A i \in 1..Len(cs) : ds[i].controller <=> cs[i].controller

\* No message handler adds, drops, moves or renames a connection.
LEMMA StartKeepsClients ==
  ASSUME NEW cs \in Seq(Conn), NEW u
  PROVE  SameClients(cs, AfterStart(cs, u)) /\ SameControllers(cs, AfterStart(cs, u))
<1>1. AfterStart(cs, u) \in [1..Len(cs) -> Conn]
  BY TableElements DEF AfterStart, Conn
<1>2. QED
  BY <1>1, TableOf, TableElements DEF AfterStart, SameClients, SameControllers, Conn

\* StopStream touches the publisher flag only: the same sockets stay.
LEMMA StopKeepsClients ==
  ASSUME NEW cs \in Seq(Conn)
  PROVE  SameClients(cs, AfterStop(cs)) /\ SameControllers(cs, AfterStop(cs))
<1>1. AfterStop(cs) \in [1..Len(cs) -> Conn]
  BY TableElements DEF AfterStop, Conn
<1>2. QED
  BY <1>1, TableOf, TableElements DEF AfterStop, SameClients, SameControllers, Conn

\* Assigning control touches the controller flags only.
LEMMA AssignKeepsClients ==
  ASSUME NEW cs \in Seq(Conn), NEW u
  PROVE  SameClients(cs, AfterAssign(cs, u))
<1>1. AfterAssign(cs, u) \in [1..Len(cs) -> Conn]
  BY TableElements DEF AfterAssign, Conn
<1>2. QED
  BY <1>1, TableOf, TableElements DEF AfterAssign, SameClients, Conn

\* A frame touches the clear flags only.
LEMMA FrameKeepsClients ==
  ASSUME NEW cs \in Seq(Conn), NEW idr \in BOOLEAN
  PROVE  SameClients(cs, AfterFrame(cs, idr)) /\ SameControllers(cs, AfterFrame(cs, idr))
<1>1. ASSUME NEW i \in 1..Len(cs)
      PROVE  LET d == [cs[i] EXCEPT !.clear = @ /\ (cs[i].publisher \/ ~idr)]
             IN  /\ d \in Conn /\ d.wsi = cs[i].wsi /\ d.user = cs[i].user
                 /\ d.controller <=> cs[i].controller
  BY TableElements DEF Conn
<1>2. AfterFrame(cs, idr) \in [1..Len(cs) -> Conn]
  BY <1>1 DEF AfterFrame
<1>3. \A i \in 1..Len(cs) : /\ AfterFrame(cs, idr)[i].wsi = cs[i].wsi
                            /\ AfterFrame(cs, idr)[i].user = cs[i].user
                            /\ AfterFrame(cs, idr)[i].controller <=> cs[i].controller
  BY <1>1 DEF AfterFrame
<1>4. QED
  BY <1>2, <1>3, TableOf, TableElements DEF SameClients, SameControllers

\* A key frame request touches the clear flags and windows only.
LEMMA KeyRequestKeepsClients ==
  ASSUME NEW cs \in Seq(Conn), NEW ok
  PROVE  SameClients(cs, AfterKeyRequest(cs, ok)) /\ SameControllers(cs, AfterKeyRequest(cs, ok))
<1> DEFINE flood == \E p \in ok : cs[p].recent
<1>1. AfterKeyRequest(cs, ok) =
        [i \in 1..Len(cs) |-> [cs[i] EXCEPT !.recent = @ \/ i \in ok,
                                            !.clear  = @ \/ (flood /\ ~cs[i].publisher)]]
  BY DEF AfterKeyRequest
<1> HIDE DEF flood
<1>2. ASSUME NEW i \in 1..Len(cs)
      PROVE  LET d == [cs[i] EXCEPT !.recent = @ \/ i \in ok,
                                    !.clear  = @ \/ (flood /\ ~cs[i].publisher)]
             IN  d \in Conn /\ d.wsi = cs[i].wsi /\ d.user = cs[i].user /\ (d.controller <=> cs[i].controller)
  <2> DEFINE g == flood /\ ~cs[i].publisher
             d == [cs[i] EXCEPT !.recent = @ \/ i \in ok, !.clear = @ \/ g]
  <2>1. cs[i] \in Conn /\ g \in BOOLEAN
    BY TableElements
  <2>2. d \in Conn /\ d.wsi = cs[i].wsi /\ d.user = cs[i].user /\ (d.controller <=> cs[i].controller)
    <3> HIDE DEF g
    <3>1. QED
      BY <2>1 DEF Conn
  <2>3. QED
    BY ONLY <2>2
<1>3. AfterKeyRequest(cs, ok) \in [1..Len(cs) -> Conn]
  BY <1>1, <1>2
<1>4. \A i \in 1..Len(cs) : /\ AfterKeyRequest(cs, ok)[i].wsi = cs[i].wsi
                            /\ AfterKeyRequest(cs, ok)[i].user = cs[i].user
                            /\ AfterKeyRequest(cs, ok)[i].controller <=> cs[i].controller
  BY <1>1, <1>2
<1>5. QED
  BY <1>3, <1>4, TableOf, TableElements DEF SameClients, SameControllers

\* Promoting a client touches its controller flag only.
LEMMA ControllerKeepsClients ==
  ASSUME NEW cs \in Seq(Conn), NEW I
  PROVE  SameClients(cs, WithController(cs, I))
<1>1. WithController(cs, I) \in [1..Len(cs) -> Conn]
  BY TableElements DEF WithController, Conn
<1>2. QED
  BY <1>1, TableOf, TableElements DEF WithController, SameClients, Conn

\* Exactly the positions in I gain control.
LEMMA WithControllerProperties ==
  ASSUME NEW cs \in Seq(Conn), NEW I, NEW i \in 1..Len(cs)
  PROVE  WithController(cs, I)[i].controller <=> (cs[i].controller \/ i \in I)
<1> DEFINE d == [cs[i] EXCEPT !.controller = @ \/ i \in I]
<1>1. d.controller <=> (cs[i].controller \/ i \in I)
  BY TableElements DEF Conn
<1>2. WithController(cs, I)[i] = d
  BY DEF WithController
<1>3. QED
  BY <1>1, <1>2

\* An assignment leaves control with the connections of that name.
LEMMA AssignProperties ==
  ASSUME NEW cs \in Seq(Conn), NEW u, NEW i \in 1..Len(cs)
  PROVE  AfterAssign(cs, u)[i].controller <=> (cs[i].user = u)
BY TableElements DEF AfterAssign, Conn

\* Erasing a position moves the later ones down.
LEMMA WithoutProperties ==
  ASSUME NEW cs \in Seq(Conn), NEW i \in 1..Len(cs)
  PROVE  /\ Without(cs, i) \in Seq(Conn)
         /\ Len(Without(cs, i)) = Len(cs) - 1
         /\ \A j \in 1..(Len(cs) - 1) :
              Without(cs, i)[j] = IF j < i THEN cs[j] ELSE cs[j + 1]
<1>1. Len(cs) - 1 \in Nat
  BY TableElements
<1>2. Without(cs, i) \in [1..(Len(cs) - 1) -> Conn]
  <2>1. ASSUME NEW j \in 1..(Len(cs) - 1)
        PROVE  (IF j < i THEN cs[j] ELSE cs[j + 1]) \in Conn
    BY TableElements
  <2>2. QED
    BY <2>1 DEF Without
<1>3. QED
  BY <1>1, <1>2, TableOf DEF Without

\* Where position j of a table with position i erased came from.
Origin(i, j) == IF j < i THEN j ELSE j + 1

\* Origin maps the positions after an erase one to one onto those before it
\* that were not erased.
LEMMA OriginProperties ==
  ASSUME NEW n \in Nat, NEW i \in 1..n
  PROVE  /\ \A j \in 1..(n - 1) : Origin(i, j) \in 1..n /\ Origin(i, j) # i
         /\ \A j, k \in 1..(n - 1) : Origin(i, j) = Origin(i, k) => j = k
         /\ \A k \in 1..n : k # i => \E j \in 1..(n - 1) : Origin(i, j) = k
<1>1. \A j \in 1..(n - 1) : Origin(i, j) \in 1..n /\ Origin(i, j) # i
  BY DEF Origin
<1>2. \A j, k \in 1..(n - 1) : Origin(i, j) = Origin(i, k) => j = k
  BY DEF Origin
<1>3. ASSUME NEW k \in 1..n, k # i
      PROVE  \E j \in 1..(n - 1) : Origin(i, j) = k
  <2>1. CASE k < i
    <3>1. k \in 1..(n - 1) /\ Origin(i, k) = k
      BY <2>1 DEF Origin
    <3>2. QED
      BY <3>1
  <2>2. CASE i < k
    <3>1. k - 1 \in 1..(n - 1) /\ Origin(i, k - 1) = k
      BY <2>2 DEF Origin
    <3>2. QED
      BY <3>1
  <2>3. QED
    BY <1>3, <2>1, <2>2
<1>4. QED
  BY <1>1, <1>2, <1>3

\* What a close that erases position i leaves of the others.
LEMMA EraseProperties ==
  ASSUME NEW cs \in Seq(Conn), NEW i \in 1..Len(cs), NEW ds,
         ds = IF cs[i].controller THEN WithController(Without(cs, i), {1}) ELSE Without(cs, i)
  PROVE  /\ ds \in Seq(Conn) /\ Len(ds) = Len(cs) - 1
         /\ \A j \in 1..(Len(cs) - 1) :
              /\ ds[j].wsi = cs[Origin(i, j)].wsi
              /\ ds[j].user = cs[Origin(i, j)].user
              /\ ds[j].controller <=>
                   (cs[Origin(i, j)].controller \/ (cs[i].controller /\ j = 1))
<1> DEFINE rest == Without(cs, i)
<1>1. /\ rest \in Seq(Conn) /\ Len(rest) = Len(cs) - 1
      /\ \A j \in 1..(Len(cs) - 1) : rest[j] = cs[Origin(i, j)]
  BY WithoutProperties DEF Origin
<1> HIDE DEF rest
<1>2. CASE ~cs[i].controller
  <2>1. ds = rest
    BY <1>2 DEF rest
  <2>2. QED
    BY <1>1, <1>2, <2>1
<1>3. CASE cs[i].controller
  <2>1. ds = WithController(rest, {1})
    BY <1>3 DEF rest
  <2>2. SameClients(rest, ds)
    BY <1>1, <2>1, ControllerKeepsClients
  <2>3. \A j \in 1..Len(rest) : ds[j].controller <=> (rest[j].controller \/ j = 1)
    BY <1>1, <2>1, WithControllerProperties
  <2>4. QED
    BY <1>1, <1>3, <2>2, <2>3 DEF SameClients
<1>4. QED
  BY <1>2, <1>3

\* Without an entry for the socket a close leaves the table alone; with one,
\* it erases one such entry and may set the first controller flag.
LEMMA CloseProperties ==
  ASSUME NEW cs \in Seq(Conn), NEW w
  PROVE  \/ /\ At(cs, w) = {}
            /\ AfterClose(cs, w) = cs
         \/ \E i \in At(cs, w) :
              /\ i \in 1..Len(cs)
              /\ AfterClose(cs, w) = IF cs[i].controller
                                       THEN WithController(Without(cs, i), {1})
                                       ELSE Without(cs, i)
<1>1. CASE At(cs, w) = {}
  BY <1>1 DEF AfterClose
<1>2. CASE At(cs, w) # {}
  <2> DEFINE i == CHOOSE k \in FirstOf(At(cs, w)) : TRUE
  <2>1. At(cs, w) \in SUBSET (1..Len(cs))
    BY TableElements DEF At
  <2>2. FirstOf(At(cs, w)) # {} /\ FirstOf(At(cs, w)) \subseteq At(cs, w)
    <3>1. At(cs, w) \in SUBSET Nat
      BY <2>1
    <3>2. QED
      BY <1>2, <3>1, FirstExists
  <2>3. i \in At(cs, w) /\ i \in 1..Len(cs)
    BY <2>1, <2>2
  <2>4. AfterClose(cs, w) = IF cs[i].controller
                              THEN WithController(Without(cs, i), {1})
                              ELSE Without(cs, i)
    BY <1>2 DEF AfterClose
  <2>5. QED
    BY <2>3, <2>4
<1>3. QED
  BY <1>1, <1>2

\* What a close leaves is a table.
LEMMA CloseType ==
  ASSUME NEW cs \in Seq(Conn), NEW w
  PROVE  AfterClose(cs, w) \in Seq(Conn)
<1>1. CASE At(cs, w) = {} /\ AfterClose(cs, w) = cs
  BY <1>1
<1>2. ASSUME NEW i \in 1..Len(cs),
             AfterClose(cs, w) = IF cs[i].controller
                                   THEN WithController(Without(cs, i), {1})
                                   ELSE Without(cs, i)
      PROVE  AfterClose(cs, w) \in Seq(Conn)
  BY <1>2, WithoutProperties, ControllerKeepsClients DEF SameClients
<1>3. QED
  BY <1>1, <1>2, CloseProperties
-----------------------------------------------------------------------------
(* Publishers and clearing. *)

\* A frame changes no role, and ends the clearing of viewers if it is a key
\* frame.
LEMMA FrameClears ==
  ASSUME NEW cs \in Seq(Conn), NEW idr \in BOOLEAN, NEW i \in 1..Len(cs)
  PROVE  /\ AfterFrame(cs, idr)[i].publisher <=> cs[i].publisher
         /\ AfterFrame(cs, idr)[i].clear <=> (cs[i].clear /\ (cs[i].publisher \/ ~idr))
<1> DEFINE g == cs[i].publisher \/ ~idr
           d == [cs[i] EXCEPT !.clear = @ /\ g]
<1>1. cs[i] \in Conn /\ g \in BOOLEAN
  BY TableElements
<1>2. AfterFrame(cs, idr)[i] = d
  BY DEF AfterFrame
<1>3. (d.publisher <=> cs[i].publisher) /\ (d.clear <=> (cs[i].clear /\ g))
  <2> HIDE DEF g
  <2>1. QED
    BY <1>1 DEF Conn
<1>4. QED
  BY <1>2, <1>3

\* A request changes no role, and clears viewers only when a publisher it was
\* written to had one within the window.
LEMMA KeyRequestClears ==
  ASSUME NEW cs \in Seq(Conn), NEW ok, NEW i \in 1..Len(cs)
  PROVE  /\ AfterKeyRequest(cs, ok)[i].publisher <=> cs[i].publisher
         /\ AfterKeyRequest(cs, ok)[i].clear <=>
              (cs[i].clear \/ ((\E p \in ok : cs[p].recent) /\ ~cs[i].publisher))
<1> DEFINE g == (\E p \in ok : cs[p].recent) /\ ~cs[i].publisher
           d == [cs[i] EXCEPT !.recent = @ \/ i \in ok, !.clear = @ \/ g]
<1>1. cs[i] \in Conn /\ g \in BOOLEAN
  BY TableElements
<1>2. AfterKeyRequest(cs, ok)[i] = d
  BY DEF AfterKeyRequest
<1>3. (d.publisher <=> cs[i].publisher) /\ (d.clear <=> (cs[i].clear \/ g))
  <2> HIDE DEF g
  <2>1. QED
    BY <1>1 DEF Conn
<1>4. QED
  BY <1>2, <1>3

\* Neither does a promotion change one.
LEMMA WithControllerRoles ==
  ASSUME NEW cs \in Seq(Conn), NEW I, NEW i \in 1..Len(cs)
  PROVE  /\ WithController(cs, I)[i].publisher <=> cs[i].publisher
         /\ WithController(cs, I)[i].clear <=> cs[i].clear
<1> DEFINE d == [cs[i] EXCEPT !.controller = @ \/ i \in I]
<1>1. (d.publisher <=> cs[i].publisher) /\ (d.clear <=> cs[i].clear)
  BY TableElements DEF Conn
<1>2. WithController(cs, I)[i] = d
  BY DEF WithController
<1>3. QED
  BY <1>1, <1>2

\* The entries of ds come from those of cs with their roles, and no socket but
\* w is missing.
ComesFrom(ds, cs, w) ==
  /\ \A j \in 1..Len(ds) : \E i \in 1..Len(cs) :
       /\ ds[j].wsi = cs[i].wsi
       /\ ds[j].publisher <=> cs[i].publisher
       /\ ds[j].clear <=> cs[i].clear
  /\ \A i \in 1..Len(cs) : cs[i].wsi # w =>
       \E j \in 1..Len(ds) : ds[j].wsi = cs[i].wsi

\* A close leaves the other clients' entries with their roles, and makes none.
LEMMA CloseOrigins ==
  ASSUME NEW cs \in Seq(Conn), NEW w
  PROVE  ComesFrom(AfterClose(cs, w), cs, w)
<1> DEFINE ds == AfterClose(cs, w)
<1>1. CASE ds = cs
  BY <1>1 DEF ComesFrom
<1>2. ASSUME NEW i \in At(cs, w), i \in 1..Len(cs),
             ds = IF cs[i].controller
                    THEN WithController(Without(cs, i), {1})
                    ELSE Without(cs, i)
      PROVE  ComesFrom(ds, cs, w)
  <2> DEFINE rest == Without(cs, i)
  <2>1. /\ rest \in Seq(Conn) /\ Len(rest) = Len(cs) - 1
        /\ \A j \in 1..(Len(cs) - 1) : rest[j] = cs[Origin(i, j)]
    BY <1>2, WithoutProperties DEF Origin
  <2>2. /\ Len(ds) = Len(cs) - 1
        /\ \A j \in 1..(Len(cs) - 1) :
             /\ ds[j].wsi = rest[j].wsi
             /\ ds[j].publisher <=> rest[j].publisher
             /\ ds[j].clear <=> rest[j].clear
    <3> HIDE DEF rest, ds
    <3>1. CASE ds = rest
      BY <2>1, <3>1
    <3>2. CASE ds = WithController(rest, {1})
      BY <2>1, <3>2, ControllerKeepsClients, WithControllerRoles DEF SameClients
    <3>3. QED
      BY <1>2, <3>1, <3>2 DEF rest
  <2>3. \A j \in 1..(Len(cs) - 1) : Origin(i, j) \in 1..Len(cs)
    BY <1>2, TableElements, OriginProperties
  <2>4. \A k \in 1..Len(cs) : k # i => \E j \in 1..(Len(cs) - 1) : Origin(i, j) = k
    BY <1>2, TableElements, OriginProperties
  <2>5. cs[i].wsi = w
    BY DEF At
  <2> HIDE DEF rest, ds
  <2>6. ASSUME NEW j \in 1..(Len(cs) - 1)
        PROVE  /\ ds[j].wsi = cs[Origin(i, j)].wsi
               /\ ds[j].publisher <=> cs[Origin(i, j)].publisher
               /\ ds[j].clear <=> cs[Origin(i, j)].clear
    <3>1. rest[j] = cs[Origin(i, j)]
      BY <2>1
    <3>2. QED
      BY <2>2, <3>1
  <2>7. ASSUME NEW k \in 1..Len(cs), cs[k].wsi # w
        PROVE  \E j \in 1..Len(ds) : ds[j].wsi = cs[k].wsi
    <3>1. PICK j \in 1..(Len(cs) - 1) : Origin(i, j) = k
      BY <2>4, <2>5, <2>7
    <3>2. QED
      BY <2>2, <2>6, <3>1
  <2>8. QED
    BY <2>2, <2>3, <2>6, <2>7 DEF ComesFrom
<1>3. QED
  BY <1>1, <1>2, CloseProperties

-----------------------------------------------------------------------------
(* The table as a list of clients with roles. *)

SamePublishers(cs, ds) ==
  \A i \in 1..Len(cs) : ds[i].publisher <=> cs[i].publisher

\* With the same entries in the same places, the roster lists the same clients,
\* and who has kept a flag has kept the role.
LEMMA SeatsKept ==
  ASSUME NEW cs \in Seq(Conn), NEW ds, SameClients(cs, ds)
  PROVE  /\ Seats(ds) = Seats(cs)
         /\ SamePublishers(cs, ds) =>
              Sockets(ds, Publishers(ds)) = Sockets(cs, Publishers(cs))
         /\ SameControllers(cs, ds) =>
              Sockets(ds, Controllers(ds)) = Sockets(cs, Controllers(cs))
<1>1. /\ DOMAIN cs = 1..Len(cs) /\ DOMAIN ds = 1..Len(cs)
      /\ \A i \in 1..Len(cs) : ds[i].wsi = cs[i].wsi /\ ds[i].user = cs[i].user
  BY TableElements DEF SameClients
<1>2. Seats(ds) = Seats(cs)
  BY <1>1 DEF Seats
<1>3. ASSUME SamePublishers(cs, ds)
      PROVE  Sockets(ds, Publishers(ds)) = Sockets(cs, Publishers(cs))
  <2>1. Publishers(ds) = Publishers(cs) /\ Publishers(cs) \subseteq 1..Len(cs)
    BY <1>1, <1>3 DEF SamePublishers, Publishers
  <2>2. QED
    BY <1>1, <2>1 DEF Sockets
<1>4. ASSUME SameControllers(cs, ds)
      PROVE  Sockets(ds, Controllers(ds)) = Sockets(cs, Controllers(cs))
  <2>1. Controllers(ds) = Controllers(cs) /\ Controllers(cs) \subseteq 1..Len(cs)
    BY <1>1, <1>4 DEF SameControllers, Controllers
  <2>2. QED
    BY <1>1, <2>1 DEF Sockets
<1>5. QED
  BY <1>2, <1>3, <1>4

\* The roster's list is a sequence as long as the table, with its sockets and names.
LEMMA SeatsList ==
  ASSUME NEW cs \in Seq(Conn)
  PROVE  /\ Seats(cs) \in Seq([client : Wsi, user : User])
         /\ Len(Seats(cs)) = Len(cs) /\ DOMAIN Seats(cs) = 1..Len(cs)
         /\ \A i \in 1..Len(cs) :
              Seats(cs)[i].client = cs[i].wsi /\ Seats(cs)[i].user = cs[i].user
<1>1. Seats(cs) \in [1..Len(cs) -> [client : Wsi, user : User]]
  BY TableElements DEF Seats, Conn
<1>2. Seats(cs) \in Seq([client : Wsi, user : User]) /\ Len(Seats(cs)) = Len(cs)
  BY <1>1, TableElements, TableOf
<1>3. QED
  BY <1>2, TableElements DEF Seats

\* The user's first connection is started, and nobody's role changes otherwise.
LEMMA StartMarks ==
  ASSUME NEW cs \in Seq(Conn), NEW u
  PROVE  Sockets(AfterStart(cs, u), Publishers(AfterStart(cs, u))) =
           Sockets(cs, Publishers(cs)) \cup Sockets(cs, FirstOf(Named(cs, u)))
<1> DEFINE ds == AfterStart(cs, u)
<1>1. ASSUME NEW i \in 1..Len(cs)
      PROVE  ds[i].publisher <=> (cs[i].publisher \/ i \in FirstOf(Named(cs, u)))
  <2> DEFINE d == [cs[i] EXCEPT !.publisher = @ \/ i \in FirstOf(Named(cs, u))]
  <2>1. d.publisher <=> (cs[i].publisher \/ i \in FirstOf(Named(cs, u)))
    BY TableElements DEF Conn
  <2>2. ds[i] = d
    BY DEF AfterStart
  <2>3. QED
    BY <2>1, <2>2
<1>2. SameClients(cs, ds)
  BY StartKeepsClients
<1> HIDE DEF ds
<1>3. /\ DOMAIN cs = 1..Len(cs) /\ DOMAIN ds = 1..Len(cs)
      /\ \A i \in 1..Len(cs) : ds[i].wsi = cs[i].wsi
  BY <1>2, TableElements DEF SameClients
<1>4. Publishers(ds) = Publishers(cs) \cup FirstOf(Named(cs, u))
  BY <1>1, <1>3 DEF Publishers, FirstOf, Named
<1>5. Publishers(ds) \subseteq 1..Len(cs)
  BY <1>3 DEF Publishers
<1>6. QED
  BY <1>3, <1>4, <1>5 DEF Sockets, ds

\* Nobody publishes after a stop.
LEMMA StopMarks ==
  ASSUME NEW cs \in Seq(Conn)
  PROVE  Sockets(AfterStop(cs), Publishers(AfterStop(cs))) = {}
<1>1. \A i \in DOMAIN AfterStop(cs) : ~AfterStop(cs)[i].publisher
  BY TableElements DEF AfterStop, Conn
<1>2. QED
  BY <1>1 DEF Sockets, Publishers

\* An assignment changes no publisher, and makes controllers of those named.
LEMMA AssignMarks ==
  ASSUME NEW cs \in Seq(Conn), NEW u
  PROVE  /\ SamePublishers(cs, AfterAssign(cs, u))
         /\ Sockets(AfterAssign(cs, u), Controllers(AfterAssign(cs, u))) =
              Sockets(cs, Named(cs, u))
<1> DEFINE ds == AfterAssign(cs, u)
<1>1. SamePublishers(cs, ds)
  BY TableElements DEF AfterAssign, Conn, SamePublishers
<1>2. /\ SameClients(cs, ds)
      /\ \A i \in 1..Len(cs) : ds[i].controller <=> cs[i].user = u
  BY AssignKeepsClients, AssignProperties
<1> HIDE DEF ds
<1>3. /\ DOMAIN cs = 1..Len(cs) /\ DOMAIN ds = 1..Len(cs)
      /\ \A i \in 1..Len(cs) : ds[i].wsi = cs[i].wsi
  BY <1>2, TableElements DEF SameClients
<1>4. Controllers(ds) = Named(cs, u) /\ Named(cs, u) \subseteq 1..Len(cs)
  BY <1>2, <1>3 DEF Controllers, Named
<1>5. Sockets(ds, Controllers(ds)) = Sockets(cs, Named(cs, u))
  BY <1>3, <1>4 DEF Sockets
<1>6. QED
  BY <1>1, <1>5 DEF ds

\* A client that connects is listed last, with the roles it says.
ListedLast(cs, ds, w, u, c, p) ==
  /\ Seats(ds) = Append(Seats(cs), [client |-> w, user |-> u])
  /\ Sockets(ds, Publishers(ds)) =
       IF p THEN Sockets(cs, Publishers(cs)) \cup {w} ELSE Sockets(cs, Publishers(cs))
  /\ Sockets(ds, Controllers(ds)) =
       IF c THEN Sockets(cs, Controllers(cs)) \cup {w} ELSE Sockets(cs, Controllers(cs))

\* That is what an entry behind the others does.
LEMMA JoinSeats ==
  ASSUME NEW cs \in Seq(Conn), NEW w \in Wsi, NEW u \in User, NEW c \in BOOLEAN, NEW p \in BOOLEAN,
         NEW ds, ds = Append(cs, NewConn(w, u, c, p))
  PROVE  ListedLast(cs, ds, w, u, c, p)
<1> DEFINE n == Len(cs)
           new == NewConn(w, u, c, p)
<1>1. /\ new \in Conn /\ new.wsi = w /\ new.user = u
      /\ (new.publisher <=> p) /\ (new.controller <=> c)
  BY DEF NewConn, Conn
<1> HIDE DEF new
<1>2. /\ n \in Nat /\ DOMAIN cs = 1..n /\ DOMAIN ds = 1..(n + 1)
      /\ ds \in Seq(Conn) /\ Len(ds) = n + 1
      /\ ds[n + 1] = new /\ \A i \in 1..n : ds[i] = cs[i]
  BY <1>1 DEF new
<1>3. Seats(ds) = Append(Seats(cs), [client |-> w, user |-> u])
  <2>1. /\ Seats(cs) \in Seq([client : Wsi, user : User]) /\ Len(Seats(cs)) = n
        /\ \A i \in 1..n : Seats(cs)[i] = [client |-> cs[i].wsi, user |-> cs[i].user]
    BY <1>2, SeatsList DEF Seats
  <2> DEFINE more == Append(Seats(cs), [client |-> w, user |-> u])
  <2>2. /\ more = [i \in 1..(n + 1) |-> more[i]]
        /\ more[n + 1] = [client |-> w, user |-> u]
        /\ \A i \in 1..n : more[i] = Seats(cs)[i]
    BY <2>1
  <2> HIDE DEF more
  <2>3. Seats(ds) = [i \in 1..(n + 1) |-> [client |-> ds[i].wsi, user |-> ds[i].user]]
    BY <1>2 DEF Seats
  <2>4. \A i \in 1..(n + 1) : more[i] = [client |-> ds[i].wsi, user |-> ds[i].user]
    <3>1. TAKE i \in 1..(n + 1)
    <3>2. CASE i \in 1..n
      <4>1. more[i] = [client |-> cs[i].wsi, user |-> cs[i].user] /\ ds[i] = cs[i]
        BY <3>2, <2>1, <2>2, <1>2
      <4>2. QED
        BY <4>1
    <3>3. CASE i = n + 1
      BY <3>3, <2>2, <1>1, <1>2
    <3>4. QED
      BY <3>2, <3>3, <1>2
  <2>5. Seats(ds) = more
    BY <2>2, <2>3, <2>4
  <2>6. QED
    BY <2>5 DEF more
<1>4. \A i \in 1..(n + 1) : i \in 1..n \/ i = n + 1
  BY <1>2
<1>5. n + 1 \in 1..(n + 1) /\ n + 1 \notin 1..n /\ 1..n \subseteq 1..(n + 1)
  BY <1>2
<1>6. /\ Publishers(ds) = IF p THEN Publishers(cs) \cup {n + 1} ELSE Publishers(cs)
      /\ Controllers(ds) = IF c THEN Controllers(cs) \cup {n + 1} ELSE Controllers(cs)
      /\ Publishers(cs) \subseteq 1..n /\ Controllers(cs) \subseteq 1..n
  <2> HIDE DEF n
  <2>1. QED
    BY <1>1, <1>2, <1>4, <1>5 DEF Publishers, Controllers
<1>7. ASSUME NEW I \in SUBSET (1..n)
      PROVE  Sockets(ds, I) = Sockets(cs, I) /\ Sockets(ds, I \cup {n + 1}) = Sockets(cs, I) \cup {w}
  <2>1. \A i \in I : ds[i] = cs[i]
    BY <1>2
  <2>2. ds[n + 1].wsi = w
    BY <1>1, <1>2
  <2> HIDE DEF n
  <2>3. QED
    BY <2>1, <2>2 DEF Sockets
<1>8. QED
  BY <1>3, <1>6, <1>7 DEF ListedLast

\* A client that is gone takes its place and its roles with it; control goes to the
\* first of those who stay.
NoLongerListed(cs, ds, i) ==
  /\ Seats(ds) = [j \in 1..(Len(Seats(cs)) - 1) |-> Seats(cs)[IF j < i THEN j ELSE j + 1]]
  /\ Sockets(ds, Publishers(ds)) = Sockets(cs, Publishers(cs)) \ {cs[i].wsi}
  /\ Sockets(ds, Controllers(ds)) =
       IF cs[i].wsi \in Sockets(cs, Controllers(cs))
       THEN (Sockets(cs, Controllers(cs)) \ {cs[i].wsi})
              \cup {Seats(ds)[j].client : j \in DOMAIN Seats(ds) \cap {1}}
       ELSE Sockets(cs, Controllers(cs))

\* That is what a close does, if no other entry is of that socket.
LEMMA CloseSeats ==
  ASSUME NEW cs \in Seq(Conn), NEW i \in 1..Len(cs), NEW ds,
         \A j, k \in DOMAIN cs : cs[j].wsi = cs[k].wsi => j = k,
         ds = IF cs[i].controller THEN WithController(Without(cs, i), {1}) ELSE Without(cs, i)
  PROVE  NoLongerListed(cs, ds, i)
<1> DEFINE n == Len(cs)
           rest == Without(cs, i)
<1>1. /\ n \in Nat /\ DOMAIN cs = 1..n /\ i \in 1..n
      /\ \A j, k \in 1..n : cs[j].wsi = cs[k].wsi => j = k
  BY TableElements
<1>2. /\ ds \in Seq(Conn) /\ Len(ds) = n - 1
      /\ \A j \in 1..(n - 1) :
           /\ ds[j].wsi = cs[Origin(i, j)].wsi /\ ds[j].user = cs[Origin(i, j)].user
           /\ ds[j].controller <=> (cs[Origin(i, j)].controller \/ (cs[i].controller /\ j = 1))
  <2>1. ds = IF cs[i].controller THEN WithController(Without(cs, i), {1}) ELSE Without(cs, i)
    OBVIOUS
  <2>2. QED
    BY ONLY <2>1, EraseProperties, cs \in Seq(Conn), i \in 1..Len(cs)
<1>3. DOMAIN ds = 1..(n - 1)
  BY <1>2
<1>4. \A j \in 1..(n - 1) : ds[j].publisher <=> cs[Origin(i, j)].publisher
  <2>1. /\ rest \in Seq(Conn) /\ Len(rest) = n - 1
        /\ \A j \in 1..(n - 1) : rest[j] = cs[Origin(i, j)]
    BY WithoutProperties DEF Origin
  <2> HIDE DEF rest
  <2>2. CASE ds = rest
    BY <2>1, <2>2
  <2>3. CASE ds = WithController(rest, {1})
    <3>1. SUFFICES ASSUME NEW j \in 1..(n - 1)
                   PROVE  ds[j].publisher <=> cs[Origin(i, j)].publisher
      OBVIOUS
    <3>2. j \in 1..Len(rest) /\ rest[j] = cs[Origin(i, j)]
      BY <2>1
    <3>3. WithController(rest, {1})[j].publisher <=> rest[j].publisher
      BY ONLY <2>1, <3>2, WithControllerRoles
    <3>4. QED
      BY <2>3, <3>2, <3>3
  <2>4. QED
    BY <2>2, <2>3 DEF rest
<1>5. /\ \A j \in 1..(n - 1) : Origin(i, j) \in 1..n /\ Origin(i, j) # i
      /\ \A k \in 1..n : k # i => \E j \in 1..(n - 1) : Origin(i, j) = k
  BY <1>1, OriginProperties
<1>6. Seats(ds) = [j \in 1..(Len(Seats(cs)) - 1) |-> Seats(cs)[IF j < i THEN j ELSE j + 1]]
  <2>1. /\ Len(Seats(cs)) = n
        /\ \A j \in 1..n : Seats(cs)[j] = [client |-> cs[j].wsi, user |-> cs[j].user]
    BY <1>1, SeatsList DEF Seats
  <2>2. \A j \in 1..(n - 1) :
          Seats(cs)[Origin(i, j)] = [client |-> ds[j].wsi, user |-> ds[j].user]
    <3>1. TAKE j \in 1..(n - 1)
    <3>2. PICK k \in 1..n : k = Origin(i, j)
      BY <1>5
    <3>3. ds[j].wsi = cs[k].wsi /\ ds[j].user = cs[k].user
      BY <1>2, <3>2
    <3>4. QED
      BY <2>1, <3>2, <3>3
  <2>3. Seats(ds) = [j \in 1..(n - 1) |-> [client |-> ds[j].wsi, user |-> ds[j].user]]
    BY <1>3 DEF Seats
  <2>4. [j \in 1..(n - 1) |-> [client |-> ds[j].wsi, user |-> ds[j].user]] =
          [j \in 1..(n - 1) |-> Seats(cs)[Origin(i, j)]]
    BY <2>2
  <2>5. QED
    BY <2>1, <2>3, <2>4 DEF Origin
<1>7. Sockets(ds, Publishers(ds)) = Sockets(cs, Publishers(cs)) \ {cs[i].wsi}
  <2>1. ASSUME NEW w \in Sockets(ds, Publishers(ds))
        PROVE  w \in Sockets(cs, Publishers(cs)) \ {cs[i].wsi}
    <3>1. PICK j \in 1..(n - 1) : w = ds[j].wsi /\ ds[j].publisher
      BY <1>3, <2>1 DEF Sockets, Publishers
    <3>2. PICK k \in 1..n : k = Origin(i, j) /\ k # i /\ cs[k].publisher /\ w = cs[k].wsi
      BY <1>2, <1>4, <1>5, <3>1
    <3>3. QED
      BY <1>1, <3>2 DEF Sockets, Publishers
  <2>2. ASSUME NEW w \in Sockets(cs, Publishers(cs)), w # cs[i].wsi
        PROVE  w \in Sockets(ds, Publishers(ds))
    <3>1. PICK k \in 1..n : w = cs[k].wsi /\ cs[k].publisher
      BY <1>1, <2>2 DEF Sockets, Publishers
    <3>2. PICK j \in 1..(n - 1) : Origin(i, j) = k
      BY <1>5, <2>2, <3>1
    <3>3. QED
      BY <1>2, <1>3, <1>4, <3>1, <3>2 DEF Sockets, Publishers
  <2>3. QED
    BY <2>1, <2>2
<1>8. cs[i].wsi \in Sockets(cs, Controllers(cs)) <=> cs[i].controller
  BY <1>1 DEF Sockets, Controllers
<1> DEFINE heirs == {Seats(ds)[j].client : j \in DOMAIN Seats(ds) \cap {1}}
<1>9. heirs = {ds[j].wsi : j \in (1..(n - 1)) \cap {1}}
  <2>1. DOMAIN Seats(ds) = 1..(n - 1) /\ \A j \in 1..(n - 1) : Seats(ds)[j].client = ds[j].wsi
    BY <1>3 DEF Seats
  <2>2. QED
    BY <2>1
<1>10. ASSUME NEW w
       PROVE  w \in Sockets(ds, Controllers(ds)) <=>
                \/ w \in Sockets(cs, Controllers(cs)) \ {cs[i].wsi}
                \/ cs[i].controller /\ w \in heirs
  <2>1. ASSUME w \in Sockets(ds, Controllers(ds))
        PROVE  \/ w \in Sockets(cs, Controllers(cs)) \ {cs[i].wsi}
               \/ cs[i].controller /\ w \in heirs
    <3>1. PICK j \in 1..(n - 1) : w = ds[j].wsi /\ ds[j].controller
      BY <1>3, <2>1 DEF Sockets, Controllers
    <3>2. CASE cs[i].controller /\ j = 1
      BY <1>9, <3>1, <3>2
    <3>3. CASE cs[Origin(i, j)].controller
      <4>1. PICK k \in 1..n : k = Origin(i, j) /\ k # i /\ cs[k].controller /\ w = cs[k].wsi
        BY <1>2, <1>5, <3>1, <3>3
      <4>2. QED
        BY <1>1, <4>1 DEF Sockets, Controllers
    <3>4. QED
      BY <1>2, <3>1, <3>2, <3>3
  <2>2. ASSUME w \in Sockets(cs, Controllers(cs)), w # cs[i].wsi
        PROVE  w \in Sockets(ds, Controllers(ds))
    <3>1. PICK k \in 1..n : w = cs[k].wsi /\ cs[k].controller
      BY <1>1, <2>2 DEF Sockets, Controllers
    <3>2. PICK j \in 1..(n - 1) : Origin(i, j) = k
      BY <1>5, <2>2, <3>1
    <3>3. QED
      BY <1>2, <1>3, <3>1, <3>2 DEF Sockets, Controllers
  <2>3. ASSUME cs[i].controller, w \in heirs
        PROVE  w \in Sockets(ds, Controllers(ds))
    <3>1. 1 \in 1..(n - 1) /\ w = ds[1].wsi
      BY <1>9, <2>3
    <3>2. QED
      BY <1>2, <1>3, <2>3, <3>1 DEF Sockets, Controllers
  <2>4. QED
    BY <2>1, <2>2, <2>3
<1>11. cs[i].wsi \notin Sockets(cs, Controllers(cs)) =>
         Sockets(cs, Controllers(cs)) \ {cs[i].wsi} = Sockets(cs, Controllers(cs))
  OBVIOUS
<1> HIDE DEF heirs
<1>12. Sockets(ds, Controllers(ds)) =
         IF cs[i].wsi \in Sockets(cs, Controllers(cs))
         THEN (Sockets(cs, Controllers(cs)) \ {cs[i].wsi}) \cup heirs
         ELSE Sockets(cs, Controllers(cs))
  BY <1>8, <1>10, <1>11
<1>13. QED
  BY <1>6, <1>7, <1>12 DEF heirs, NoLongerListed

\* The connections that carry a name, in the roster and in the table.
LEMMA RosterNames ==
  ASSUME NEW cs \in Seq(Conn), NEW u
  PROVE  /\ {i \in DOMAIN Seats(cs) :
               /\ Seats(cs)[i].user = u
               /\ \A j \in 1 .. (i - 1) : Seats(cs)[j].user # u} = FirstOf(Named(cs, u))
         /\ {i \in DOMAIN Seats(cs) : Seats(cs)[i].user = u} = Named(cs, u)
         /\ \A I \in SUBSET (1..Len(cs)) : {Seats(cs)[i].client : i \in I} = Sockets(cs, I)
<1>1. /\ DOMAIN Seats(cs) = 1..Len(cs) /\ DOMAIN cs = 1..Len(cs) /\ Len(cs) \in Nat
      /\ \A i \in 1..Len(cs) : Seats(cs)[i].user = cs[i].user /\ Seats(cs)[i].client = cs[i].wsi
  BY SeatsList, TableElements
<1>2. {i \in DOMAIN Seats(cs) : Seats(cs)[i].user = u} = Named(cs, u)
  BY <1>1 DEF Named
<1>3. ASSUME NEW i \in 1..Len(cs)
      PROVE  (cs[i].user = u /\ \A j \in 1 .. (i - 1) : Seats(cs)[j].user # u)
               <=> i \in FirstOf(Named(cs, u))
  <2>1. \A j \in 1 .. (i - 1) : Seats(cs)[j].user = cs[j].user /\ j \in 1..Len(cs)
    BY <1>1
  <2>2. \A j \in 1..Len(cs) : ~(i <= j) <=> j \in 1 .. (i - 1)
    BY <1>1
  <2>3. QED
    BY <2>1, <2>2, <1>1 DEF FirstOf, Named
<1>4. {i \in DOMAIN Seats(cs) :
         /\ Seats(cs)[i].user = u
         /\ \A j \in 1 .. (i - 1) : Seats(cs)[j].user # u} = FirstOf(Named(cs, u))
  <2>1. FirstOf(Named(cs, u)) \subseteq 1..Len(cs)
    BY <1>1 DEF FirstOf, Named
  <2>2. QED
    BY <2>1, <1>1, <1>3
<1>5. ASSUME NEW I \in SUBSET (1..Len(cs))
      PROVE  {Seats(cs)[i].client : i \in I} = Sockets(cs, I)
  BY <1>1 DEF Sockets
<1>6. QED
  BY <1>2, <1>4, <1>5

\* No two entries are of one socket.
OneEach(cs) == \A j, k \in DOMAIN cs : cs[j].wsi = cs[k].wsi => j = k

\* An entry of the same socket, at the same place, keeps it so,
LEMMA SameOneEach ==
  ASSUME NEW cs \in Seq(Conn), NEW ds, SameClients(cs, ds), OneEach(cs)
  PROVE  OneEach(ds)
<1>1. /\ DOMAIN cs = 1..Len(cs) /\ DOMAIN ds = 1..Len(cs)
      /\ \A i \in 1..Len(cs) : ds[i].wsi = cs[i].wsi
  BY TableElements DEF SameClients
<1>2. QED
  BY <1>1 DEF OneEach

\* and so do an entry of another socket behind the others
LEMMA JoinOneEach ==
  ASSUME NEW cs \in Seq(Conn), NEW e \in Conn, OneEach(cs), At(cs, e.wsi) = {}
  PROVE  OneEach(Append(cs, e))
<1> DEFINE n == Len(cs)
           ds == Append(cs, e)
<1>1. /\ n \in Nat /\ DOMAIN cs = 1..n /\ DOMAIN ds = 1..(n + 1)
      /\ ds[n + 1] = e /\ \A i \in 1..n : ds[i] = cs[i]
  OBVIOUS
<1> HIDE DEF ds
<1>2. \A i \in 1..n : cs[i].wsi # e.wsi
  BY <1>1 DEF At
<1>3. \A i \in 1..(n + 1) : i \in 1..n \/ i = n + 1
  BY <1>1
<1>4. QED
  BY <1>1, <1>2, <1>3 DEF OneEach, ds

\* and an erasure.
LEMMA CloseOneEach ==
  ASSUME NEW cs \in Seq(Conn), NEW w, OneEach(cs)
  PROVE  OneEach(AfterClose(cs, w))
<1>1. ASSUME NEW i \in 1..Len(cs), NEW ds,
             ds = IF cs[i].controller THEN WithController(Without(cs, i), {1}) ELSE Without(cs, i)
      PROVE  OneEach(ds)
  <2>1. /\ ds \in Seq(Conn) /\ Len(ds) = Len(cs) - 1
        /\ \A j \in 1..(Len(cs) - 1) : ds[j].wsi = cs[Origin(i, j)].wsi
    BY ONLY <1>1, EraseProperties, cs \in Seq(Conn), i \in 1..Len(cs)
  <2>2. DOMAIN ds = 1..(Len(cs) - 1) /\ DOMAIN cs = 1..Len(cs) /\ Len(cs) \in Nat
    BY <2>1, TableElements
  <2>3. /\ \A j \in 1..(Len(cs) - 1) : Origin(i, j) \in 1..Len(cs)
        /\ \A j, k \in 1..(Len(cs) - 1) : Origin(i, j) = Origin(i, k) => j = k
    BY <2>2, OriginProperties
  <2>4. ASSUME NEW j \in 1..(Len(cs) - 1), NEW k \in 1..(Len(cs) - 1), ds[j].wsi = ds[k].wsi
        PROVE  j = k
    <3>1. cs[Origin(i, j)].wsi = cs[Origin(i, k)].wsi
      BY <2>1, <2>4
    <3>2. Origin(i, j) \in DOMAIN cs /\ Origin(i, k) \in DOMAIN cs
      BY <2>2, <2>3
    <3>3. Origin(i, j) = Origin(i, k)
      BY <3>1, <3>2 DEF OneEach
    <3>4. QED
      BY <2>3, <3>3
  <2>5. QED
    BY <2>2, <2>4 DEF OneEach
<1>2. PICK ds : ds = AfterClose(cs, w)
  OBVIOUS
<1>3. CASE ds = cs
  BY <1>2, <1>3
<1>4. CASE \E i \in 1..Len(cs) :
             ds = IF cs[i].controller THEN WithController(Without(cs, i), {1}) ELSE Without(cs, i)
  BY <1>1, <1>2, <1>4
<1>5. QED
  BY <1>2, <1>3, <1>4, CloseProperties

=============================================================================
