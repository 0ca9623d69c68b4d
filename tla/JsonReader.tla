----------------------------- MODULE JsonReader -----------------------------
(***************************************************************************)
(* What the readers take for JSON, against a grammar of its own.           *)
(***************************************************************************)
EXTENDS JsonReading

CONSTANTS
  Beginnings,  \* documents to begin with
  MaxLexemes,  \* bound: lexemes added to them
  MaxExtras    \* bound: comments, newlines and errors among them

VARIABLE doc

vars == doc

Extras == Comments \cup {Newline, Bad}
Lexemes == {"{", "}", "[", "]", ",", ":"} \cup DOMAIN Atoms \cup Extras

Lenient == [OurDefaults EXCEPT !.dropped = TRUE, !.numericKeys = TRUE, !.limit = 2]
Numeric == [all EXCEPT !.numericKeys = TRUE]
Readers == {all, strictMode, OurDefaults, OurStrict, Lenient, Numeric}

Init == doc \in Beginnings

\* A document grows while a reader has come to its end.
Grow(l) ==
  /\ \E b \in Beginnings : IsPrefix(b, doc) /\ Len(doc) - Len(b) < MaxLexemes
  /\ l \in Extras => Len(SelectSeq(doc, LAMBDA m : m \in Extras)) < MaxExtras
  /\ \E F \in {all, Lenient} : parse(F, doc).token = End
  /\ doc' = Append(doc, l)

Next == \E l \in Lexemes : Grow(l)
Spec == Init /\ [][Next]_vars

-----------------------------------------------------------------------------
(* The grammar: the values that lexemes stand for. *)

Between(s) == SubSeq(s, 2, Len(s) - 1)
Upto(s, i) == SubSeq(s, 1, i - 1)
From(s, i) == SubSeq(s, i + 1, Len(s))

RECURSIVE Means(_), Lists(_), Members(_)
Means(s) ==
  CASE s = <<>> -> {}
    [] Len(s) = 1 -> IF s[1] \in DOMAIN Atoms THEN {Atoms[s[1]]} ELSE {}
    [] s[1] = "[" /\ Last(s) = "]" ->
         {[Container("array") EXCEPT !.map = [i \in 0..(Len(l) - 1) |-> l[i + 1]]] :
            l \in IF Len(s) = 2 THEN {<<>>} ELSE Lists(Between(s))}
    [] s[1] = "{" /\ Last(s) = "}" -> IF Len(s) = 2 THEN {Container("object")} ELSE Members(Between(s))
    [] OTHER -> {}

Lists(s) ==
  {<<v>> : v \in Means(s)} \cup
    UNION {{<<v>> \o l : v \in Means(Upto(s, i)), l \in Lists(From(s, i))} :
             i \in {j \in DOMAIN s : s[j] = ","}}

\* Of two members of a name the second counts.
Members(s) ==
  IF Len(s) < 3 \/ s[1] \notin {"e", "k"} \/ s[2] # ":" THEN {}
  ELSE {Put(Container("object"), NameOf[s[1]], v) : v \in Means(From(s, 2))} \cup
       UNION {{IF NameOf[s[1]] \in Keys(o) THEN o ELSE Put(o, NameOf[s[1]], v) :
                 v \in Means(SubSeq(s, 3, i - 1)), o \in Members(From(s, i))} :
                i \in {j \in DOMAIN s : s[j] = ","}}

Bare(s) == SelectSeq(s, LAMBDA l : l \notin Comments \cup {Newline})

RECURSIVE Depth(_)
Depth(v) == IF Keys(v) = {} THEN 0 ELSE 1 + Max({Depth(v.map[k]) : k \in Keys(v)})

Doubled(s) == \E i, j \in DOMAIN s : i < j /\ s[i] \in {"e", "k"} /\ s[j] = s[i]

Solid(s) == SelectSeq(s, LAMBDA l : l # Newline)

\* A comma before a closing brace left out.
Mended(s) ==
  FoldLeft(LAMBDA t, l : IF l = "}" /\ t # <<>> /\ Last(t) = "," THEN Append(Front(t), l) ELSE Append(t, l),
           <<>>, s)

\* The lexeme that is not a comment before and behind a comment.
Beside(s, i, l, r) ==
  \E a, b \in DOMAIN s : a < i /\ i < b /\ s[a] \in l /\ s[b] \in r
    /\ \A m \in (a + 1)..(b - 1) : s[m] \in Comments
Misplaced(s) == \E i \in DOMAIN s : s[i] \in Comments /\
  (Beside(s, i, Lexemes \ Comments, {":"}) \/ Beside(s, i, {"["}, {"]"}))

-----------------------------------------------------------------------------
\* Every JSON document is read as what it says, where the features do not forbid
\* it: by the strict reader a root that is an array or an object, by the
\* strictest no name twice, and none deeper than the limit, which throws.
ReadsJson ==
  \A v \in Means(Solid(doc)) : \A F \in Readers :
    LET s == parse(F, doc) IN
    /\ s.ok => s.root = v /\ Depth(v) < F.limit
    /\ s.thrown => Depth(v) >= F.limit \/ Doubled(doc)
    /\ ~s.ok => s.thrown \/ (F.rejectDupKeys /\ Doubled(doc))
                  \/ (F.strictRoot /\ v.type \notin {"array", "object"})

\* Without comments what a reader that is not lenient takes for a value is the JSON
\* value the document begins with, and the strictest reads only what ends there.
\* A comma that follows a member with an empty name is passed over, by the strict
\* readers too, strictMode ignores what follows the value, and failIfExtra does if that
\* is an error: their documentation (Json.h:389, 1629) has it that they fail, and
\* nothing is said of what the strict readers make of the first and of the last.
ReadsOnlyJson ==
  (\A i \in DOMAIN doc : doc[i] \notin Comments) =>
    \A F \in Readers \ {Lenient} :
      LET s == parse(F, doc)
          solid == Solid(doc)
          Json(i) == s.root \in Means(Mended(SubSeq(solid, 1, i)))
      IN  s.ok /\ (F.strictRoot => Mended(solid) = solid) =>
            /\ \E i \in DOMAIN solid : Json(i)
            /\ F.failIfExtra /\ Bad \notin ToSet(solid) => Json(Len(solid))

\* Comments do not change what is read, and all that they may be taken for is a comma
\* that is not one, behind a member.  Nothing is said of those before a colon and of
\* those alone between brackets, which Json.h:383 allows and the code refuses.
CommentsHarmless ==
  LET s == parse(all, doc)
      solid == Solid(doc)
  IN  /\ Means(Bare(doc)) # {} /\ ~Misplaced(solid) => s.ok /\ Means(Bare(doc)) = {s.root}
      /\ s.ok =>
           \E i \in DOMAIN solid :
             LET read == SubSeq(solid, 1, i) IN
             \/ s.root \in Means(Mended(Bare(read)))
             \/ \E c \in 2..i : read[c - 1] \in Comments
                  /\ s.root \in Means(Mended(Bare([read EXCEPT ![c] = ","])))

\* A comment is kept once, with one value, unless another follows it on the line
\* or a name stands there twice.
CommentsKept ==
  LET s == parse(all, doc)
      Keep(i) == {n \in s.notes : i \in ToSet(n.text)}
  IN  s.ok => \A i \in 1..(s.pos - 1) : doc[i] \in Comments =>
        /\ Cardinality(Keep(i)) <= 1
        /\ Keep(i) = {} => Doubled(doc) \/ \E j \in (i + 1)..(s.pos - 1) :
             doc[j] \in Comments /\ ~containsNewLine(doc, i, j)

\* The readers.
ReadingRight == ReadsJson /\ ReadsOnlyJson /\ CommentsHarmless /\ CommentsKept
=============================================================================
