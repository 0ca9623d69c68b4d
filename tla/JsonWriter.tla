----------------------------- MODULE JsonWriter -----------------------------
(***************************************************************************)
(* What the writers write of a value is read back.                         *)
(***************************************************************************)
EXTENDS JsonReader, JsonWriting

Fasts == {[style |-> "fast", indents |-> FALSE, comments |-> FALSE, drops |-> d] : d \in BOOLEAN}
Styled == [style |-> "styled", indents |-> TRUE, comments |-> TRUE, drops |-> FALSE]
Streams == {[Styled EXCEPT !.style = "stream", !.indents = i] : i \in BOOLEAN}
Builts ==
  {[style |-> "built", indents |-> i, comments |-> c, drops |-> d] :
     i \in BOOLEAN, c \in BOOLEAN, d \in BOOLEAN}
Writers == Fasts \cup {Styled} \cup Streams \cup Builts

\* The comments that were read, by what they are.
Texts(document, notes, spaced) ==
  {[n EXCEPT !.text = [i \in DOMAIN n.text |->
      IF document[n.text[i]] = Line /\ spaced THEN SpacedLine ELSE document[n.text[i]]]] : n \in notes}

RECURSIVE SoleNull(_)
SoleNull(v) ==
  \/ v.type = "array" /\ Size(v) = 1 /\ Find(v, 0) = Null
  \/ \E k \in Keys(v) : SoleNull(v.map[k])

\* A comment that hides what is written behind it: there is no newline without
\* indentation, and none from StyledWriter behind a comment that ends in a space.
Hides(W, notes) ==
  \E n \in notes : ToSet(n.text) \cap LineComments # {} /\
    \/ W.style = "built" /\ W.comments /\ ~W.indents
    \/ W.style = "styled" /\ n.place = "same line" /\ Last(n.text) = SpacedLine

\* What was read again as r is v with its notes, where W writes them all.
Back(W, spaced, v, notes, again, r) ==
  \/ Hides(W, notes)
  \/ W.drops /\ (v = Null \/ SoleNull(v))
  \/ /\ r.ok /\ r.root = v
     /\ W.comments /\ ~W.drops /\ (W.style = "built" => W.indents) =>
          Texts(again, r.notes, spaced) = notes

ReadAgain(W, spaced, v, notes, again) ==
  Back(W, spaced, v, notes, again, parse([all EXCEPT !.dropped = W.drops], again))

Written(W, spaced, v, notes) == ReadAgain(W, spaced, v, notes, Lexed(write(W, v, notes)))

WrittenBy(W, spaced, s) == s.ok => Written(W, spaced, s.root, Texts(doc, s.notes, spaced))

-----------------------------------------------------------------------------
\* A value that was read is written so that it is read again as the same, with
\* the same comments where they, the newlines or the nulls are not left out; but a
\* comment may hide what follows it, and with nulls left out a null by itself, or
\* alone in an array, is not found again.
WritesBack ==
  LET s == parse(all, doc) IN
  \A W \in Writers, spaced \in {Line \in ToSet(doc), FALSE} : WrittenBy(W, spaced, s)
=============================================================================
