----------------------------- MODULE JsonValue -----------------------------
(***************************************************************************)
(* The order of values and the paths into them, looked at for the values   *)
(* that an array takes on.                                                 *)
(***************************************************************************)
EXTENDS JsonArray, JsonTree

Pool ==
  {Null, Scalar("int", 0), One, Scalar("uint", 1), Scalar("string", -1), Scalar("string", 0),
   Container("array"), Put(Container("object"), 0, One), Put(Container("object"), 1, Null)}

\* Any two values are equal or one is less, and less is transitive, although an
\* array with a hole is neither equal to the same with a null, nor the number 1
\* of one type to that of another.
Ordered ==
  \A a \in Pool :
    /\ Cardinality({r \in {1, 2, 3} :
         CASE r = 1 -> Less(value, a) [] r = 2 -> Equal(value, a) [] r = 3 -> Less(a, value)}) = 1
    /\ \A b \in Pool : Less(a, value) /\ Less(value, b) => Less(a, b)

Index(i) == [kind |-> "index", key |-> i]
Name(n) == [kind |-> "key", key |-> n]
Paths == {<<Index(0)>>, <<Index(1)>>, <<Name(0)>>, <<Index(0), Index(0)>>, <<Index(1), Name(0)>>}

\* What is assigned through a path is found there again, and nothing else has
\* changed that does not lie on it.
PathsLead ==
  \A p \in Paths : ~Throws(value, p) =>
    LET w == Make(value, p, One) IN
    /\ Resolve(w, p, Null) = One
    /\ \A q \in Paths :
         ~IsPrefix(p, q) /\ ~IsPrefix(q, p) => Resolve(w, q, Null) = Resolve(value, q, Null)
=============================================================================
