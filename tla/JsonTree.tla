------------------------------ MODULE JsonTree ------------------------------
(***************************************************************************)
(* Json::Value: a tree of values.  Strings and member names are numbers,   *)
(* in the order in which memcmp would put them; a map has its keys in      *)
(* order, the indices of an array or the names of an object.               *)
(***************************************************************************)
EXTENDS JsonMap

\* ValueType, in its order.
Types == <<"null", "int", "uint", "real", "string", "boolean", "array", "object">>
Rank(t) == CHOOSE i \in DOMAIN Types : Types[i] = t

SortedKeys(v) == SetToSortSeq(Keys(v), LAMBDA a, b : a < b)

-----------------------------------------------------------------------------
(* The order and the equality of values. *)

RECURSIVE Less(_, _), Equal(_, _)

\* Of two entries [key, value], as std::pair compares them.
EntryLess(k, x, l, y) == k < l \/ (k = l /\ Less(x, y))

\* As std::map compares them: where they first differ.
MapLess(a, b) ==
  LET ks == SortedKeys(a)
      ls == SortedKeys(b)
      Before(i) == EntryLess(ks[i], a.map[ks[i]], ls[i], b.map[ls[i]])
      After(i) == EntryLess(ls[i], b.map[ls[i]], ks[i], a.map[ks[i]])
  IN  \E i \in DOMAIN ks : Before(i) /\ \A j \in 1..(i - 1) : ~Before(j) /\ ~After(j)

\* The type decides first, of two arrays or objects the number of entries.  A
\* string without a pointer has the number -1.
Less(a, b) ==
  CASE a.type # b.type -> Rank(a.type) < Rank(b.type)
    [] a.type \in {"array", "object"} ->
         IF Cardinality(Keys(a)) # Cardinality(Keys(b))
         THEN Cardinality(Keys(a)) < Cardinality(Keys(b)) ELSE MapLess(a, b)
    [] OTHER -> a.atom < b.atom

Equal(a, b) ==
  /\ a.type = b.type /\ a.atom = b.atom
  /\ Keys(a) = Keys(b) /\ \A k \in Keys(a) : Equal(a.map[k], b.map[k])

-----------------------------------------------------------------------------
(* Paths: sequences of arguments [kind, key]. *)

TypeOf(kind) == IF kind = "index" THEN "array" ELSE "object"

\* The value there, or the default where nothing leads on.
RECURSIVE Resolve(_, _, _)
Resolve(v, path, default) ==
  IF path = <<>> THEN v
  ELSE IF v.type # TypeOf(Head(path).kind)
            \/ (IF Head(path).kind = "index" THEN Head(path).key >= Size(v)
                ELSE Head(path).key \notin Keys(v))
       THEN default
       ELSE Resolve(Find(v, Head(path).key), Tail(path), default)

\* Whether operator[] throws on the way.
RECURSIVE Throws(_, _)
Throws(v, path) ==
  /\ path # <<>>
  /\ \/ v.type \notin {"null", TypeOf(Head(path).kind)}
     \/ Throws(Find(v, Head(path).key), Tail(path))

\* Path::make, and an assignment to what it returns.
RECURSIVE Make(_, _, _)
Make(v, path, x) ==
  IF path = <<>> THEN x
  ELSE LET u == Reach(Made(v, TypeOf(Head(path).kind)), Head(path).key)
       IN  Put(u, Head(path).key, Make(Find(u, Head(path).key), Tail(path), x))
=============================================================================
