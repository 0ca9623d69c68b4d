----------------------------- MODULE JsonArray -----------------------------
(***************************************************************************)
(* A Json::Value used as an array, which keeps its elements in a map: an   *)
(* index that was never set is a hole, which reads as null.                *)
(***************************************************************************)
EXTENDS JsonMap

CONSTANT MaxSize  \* bound: indices are below MaxSize

VARIABLES
  value,  \* the array
  list,   \* what it should read as
  odd     \* what was done to it last that a list would have taken otherwise

vars == <<value, list, odd>>

One == Scalar("int", 1)
Elements == {One, Container("array")}

Init == value = Null /\ list = <<>> /\ odd = {}

Padded(n) == [i \in 1..Max({n, Len(list)}) |-> IF i <= Len(list) THEN list[i] ELSE Null]

\* value[i] = x, and value[i] alone, which makes what is not there.
Puts(i, x) ==
  /\ value' = Put(Made(value, "array"), i, x)
  /\ list' = [Padded(i + 1) EXCEPT ![i + 1] = x]
  /\ UNCHANGED odd

Reads(i) ==
  /\ value' = Reach(Made(value, "array"), i)
  /\ list' = Padded(i + 1)
  /\ UNCHANGED odd

append(x) ==
  /\ Size(value) < MaxSize
  /\ value' = Put(Made(value, "array"), Size(value), x)
  /\ list' = Append(list, x)
  /\ UNCHANGED odd

clear ==
  /\ value' = [value EXCEPT !.map = <<>>] /\ list' = <<>>
  /\ UNCHANGED odd

\* Only the last element of a larger array is made.  A smaller one that ends in
\* a hole is smaller still, which is noticed and thrown.
resize(n) ==
  LET v == Made(value, "array")
      w == IF n = 0 THEN Container("array")
           ELSE IF n > Size(v) THEN Reach(v, n - 1)
           ELSE Erase(v, n..(MaxSize - 1))
  IN  /\ value' = w
      /\ list' = SubSeq(Padded(n), 1, n)
      /\ odd' = IF Size(w) # n THEN {"thrown"} ELSE {}

\* Mutant: the last element is not moved.
Shifted_short(v, i) ==
  LET last == Size(v) - 1
  IN  [v EXCEPT !.map = [k \in Keys(v) \cup i..(last - 1) |->
         IF k \in i..(last - 2) THEN Find(v, k + 1) ELSE Find(v, k)]]

\* All behind i move down by one, and the holes among them become nulls.
Shifted(v, i) ==
  LET last == Size(v) - 1
  IN  [v EXCEPT !.map = [k \in Keys(v) \cup i..(last - 1) |->
         IF k \in i..(last - 1) THEN Find(v, k + 1) ELSE Find(v, k)]]

\* A hole is not removed.  If a hole is before the last element, that is removed
\* with it.
removeIndex(i) ==
  /\ value.type = "array"
  /\ IF i \notin Keys(value)
     THEN /\ UNCHANGED value
          /\ odd' = IF i < Len(list) THEN {"kept"} ELSE {}
     ELSE LET w == Erase(Shifted(value, i), {Size(value) - 1})
          IN  /\ value' = w
              /\ odd' = IF Size(w) # Size(value) - 1 THEN {"shrunk"} ELSE {}
  /\ list' = IF i < Len(list) THEN RemoveAt(list, i + 1) ELSE list

\* What follows an odd step is not looked at: the list no longer tells.
Next ==
  /\ odd = {}
  /\ \/ \E i \in 0..(MaxSize - 1) : (\E x \in Elements : Puts(i, x)) \/ Reads(i) \/ removeIndex(i)
     \/ \E x \in Elements : append(x)
     \/ clear
     \/ \E n \in 0..MaxSize : resize(n)

Spec == Init /\ [][Next]_vars

-----------------------------------------------------------------------------
Nulls(l) == ToSet(l) \subseteq {Null}

\* An array reads as the list of what was put into it, holes as nulls.  Exempt are
\* three calls that do not do what Json.h says of them, if there are holes: resize(n)
\* cutting behind a hole leaves fewer than n elements (Json.h:824) and fails its own
\* assertion; removeIndex(i) of a hole removes nothing, and with a hole before the
\* last element removes both (Json.h:950).  Even there all that is missing, or there
\* is too much, are nulls: no element is lost.
ReadsAsList ==
  LET read == [i \in 1..Size(value) |-> Find(value, i - 1)]
  IN  CASE odd = {} -> read = list /\ \A i \in Len(list)..MaxSize : Find(value, i) = Null
        [] odd = {"kept"} ->
             \E i \in 1..Len(read) : read[i] = Null /\ list = RemoveAt(read, i)
        [] OTHER -> IsStrictPrefix(read, list) /\ Nulls(SubSeq(list, Len(read) + 1, Len(list)))
=============================================================================
