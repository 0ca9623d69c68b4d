------------------------------ MODULE JsonMap ------------------------------
(***************************************************************************)
(* A Json::Value as far as its own entries go: its type, its scalar, and   *)
(* the map of an array or object, whose keys are numbers.                  *)
(***************************************************************************)
EXTENDS Integers, Sequences, FiniteSetsExt, SequencesExt

Scalar(t, n) == [type |-> t, atom |-> n, map |-> <<>>]
Null == Scalar("null", 0)
Container(t) == Scalar(t, 0)

Keys(v) == DOMAIN v.map

\* Of an array one more than the highest index, wherever there are holes.
Size(v) ==
  CASE v.type = "array" /\ Keys(v) # {} -> Max(Keys(v)) + 1
    [] v.type = "object" -> Cardinality(Keys(v))
    [] OTHER -> 0

\* operator[] of a constant: what is not there reads as null.
Find(v, k) == IF k \in Keys(v) THEN v.map[k] ELSE Null

\* A null becomes the container it is used as.
Made(v, t) == IF v.type = "null" THEN Container(t) ELSE v

Put(v, k, x) ==
  [v EXCEPT !.map = [j \in Keys(v) \cup {k} |-> IF j = k THEN x ELSE v.map[j]]]

\* operator[] of a variable: what is not there is made, as null.
Reach(v, k) == IF k \in Keys(v) THEN v ELSE Put(v, k, Null)

Erase(v, ks) == [v EXCEPT !.map = [j \in Keys(v) \ ks |-> v.map[j]]]
=============================================================================
