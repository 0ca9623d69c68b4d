------------------------------ MODULE JsonPath ------------------------------
(***************************************************************************)
(* Json::Path made of its text, and the line and column of a place in a    *)
(* document.  Characters are their codes; a path has up to five arguments, *)
(* of which only the first is ever looked at.                              *)
(***************************************************************************)
EXTENDS JsonTree

Dot == 46
Percent == 37
Open == 91
Close == 93
Return == 13
Newline == 10
Digits == 48..57

Numeral(ds) == FoldLeft(LAMBDA n, d : (n * 10) + d - 48, 0, ds)

\* How many characters at the beginning are among these.
Span(text, chars) == Max({n \in 0..Len(text) : \A i \in 1..n : text[i] \in chars})

\* An argument that is missing or of the other kind is left out.
addPathInArg(arg, kind) == IF arg.kind = kind THEN <<arg>> ELSE <<>>

\* Behind an index one character is skipped, the bracket or what else is there.
RECURSIVE makePath(_, _)
makePath(text, arg) ==
  LET From(i) == makePath(SubSeq(text, i, Len(text)), arg)
      digits == Span(Tail(text), Digits)
      name == Span(text, ToSet(text) \ {Open, Dot})
  IN  CASE text = <<>> -> <<>>
        [] text # <<>> /\ text[1] = Open ->
             (IF Len(text) > 1 /\ text[2] = Percent THEN addPathInArg(arg, "index")
              ELSE <<[kind |-> "index", key |-> Numeral(SubSeq(text, 2, 1 + digits))]>>)
               \o From(3 + digits)
        [] text # <<>> /\ text[1] = Percent -> addPathInArg(arg, "key") \o From(2)
        [] text # <<>> /\ text[1] = Dot -> From(2)
        [] OTHER -> <<[kind |-> "key", key |-> SubSeq(text, 1, name)]>> \o From(1 + name)

\* The loop, from current on: the line there has the number line and begins at
\* start.
RECURSIVE LineAndColumn(_, _, _, _, _)
LineAndColumn(text, location, current, start, line) ==
  IF current >= location THEN [line |-> line, column |-> (location - start) + 1]
  ELSE LET c == text[current + 1]
           two == c = Return /\ current + 1 < Len(text) /\ text[current + 2] = Newline
           next == current + IF two THEN 2 ELSE 1
       IN  IF c \in {Return, Newline} THEN LineAndColumn(text, location, next, next, line + 1)
           ELSE LineAndColumn(text, location, next, start, line)

\* What the messages of getFormattedErrorMessages() say of an error.
getLocationLineAndColumn(text, location) == LineAndColumn(text, location, 0, 0, 1)
=============================================================================
