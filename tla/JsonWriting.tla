---------------------------- MODULE JsonWriting ----------------------------
(***************************************************************************)
(* FastWriter, StyledWriter, StyledStreamWriter and the writer that        *)
(* StreamWriterBuilder makes.  W is which of them and its settings:        *)
(*   style: "fast", "styled", "stream" or "built"                          *)
(*   indents: whether the indentation is not empty, comments: All or None  *)
(*   drops: null is written as nothing                                     *)
(* What is written is a sequence of lexemes, with the spaces and newlines  *)
(* that later steps look at; a comment is written without its newline.     *)
(***************************************************************************)
EXTENDS JsonReading

CONSTANT rightMargin_  \* the width of a line, scaled down

Space == "space"
SpacedLine == "// "  \* a comment to the end of the line that ends in a space
LineComments == {Line, SpacedLine}

\* s: what is written, the depth, whether the line is indented already
\* (indented_), whether values are put aside (addChildValues_) and which were
\* (childValues_).
Blank == [out |-> <<>>, depth |-> 0, indented |-> FALSE, adding |-> FALSE, children |-> <<>>]

Emit(s, lexemes) == [s EXCEPT !.out = @ \o lexemes]
pushValue(s, lexemes) ==
  IF s.adding THEN [s EXCEPT !.children = Append(@, lexemes)] ELSE Emit(s, lexemes)

Begins(s, l) == s.out # <<>> /\ Last(s.out) \in l
NewLine(s) == Emit(s, <<Newline>> \o (IF s.depth > 0 THEN <<Space>> ELSE <<>>))

\* StyledWriter looks at what it wrote last; the others rely on their callers.
writeIndent(W, s) ==
  IF W.style # "styled" THEN (IF W.style = "stream" \/ W.indents THEN NewLine(s) ELSE s)
  ELSE IF Begins(s, {Space, SpacedLine}) THEN s
  ELSE IF s.out = <<>> \/ Begins(s, {Newline}) THEN Emit(s, IF s.depth > 0 THEN <<Space>> ELSE <<>>)
  ELSE NewLine(s)

Unless(W, s) == IF W.style # "styled" /\ s.indented THEN s ELSE writeIndent(W, s)
writeWithIndent(W, s, lexemes) == [Emit(Unless(W, s), lexemes) EXCEPT !.indented = FALSE]

-----------------------------------------------------------------------------
(* Comments: notes [path, place, text], of each path and place at most one. *)

Has(notes, path, place) == \E n \in notes : n.path = path /\ n.place = place
hasCommentForValue(notes, path) == \E n \in notes : n.path = path

\* The lines of the comment that is there.
getComment(notes, path, place) ==
  LET text == (CHOOSE n \in notes : n.path = path /\ n.place = place).text
  IN  FlattenSeq([i \in DOMAIN text |->
        IF text[i] \in LineComments /\ i < Len(text) THEN <<text[i], Newline>> ELSE <<text[i]>>])

writeCommentBeforeValue(W, s, notes, path) ==
  IF ~Has(notes, path, "before") THEN s
  ELSE LET text == getComment(notes, path, "before")
       IN  IF W.style = "styled"
           THEN Emit(writeIndent(W, Emit(s, <<Newline>>)), Append(text, Newline))
           ELSE [Emit(Unless(W, s), text) EXCEPT !.indented = FALSE]

writeCommentAfterValueOnSameLine(W, s, notes, path) ==
  LET same == IF ~Has(notes, path, "same line") THEN s
              ELSE Emit(s, <<Space>> \o getComment(notes, path, "same line"))
      text == getComment(notes, path, "after")
      after == CASE ~Has(notes, path, "after") -> same
                 [] Has(notes, path, "after") /\ W.style = "styled" ->
                      Emit(same, <<Newline>> \o Append(text, Newline))
                 [] OTHER -> Emit(writeIndent(W, same), text)
  IN  IF W.style = "stream" THEN [after EXCEPT !.indented = FALSE] ELSE after

-----------------------------------------------------------------------------
LexemeOf(v) == CHOOSE a \in DOMAIN Atoms : Atoms[a] = v
NameLexeme(k) == CHOOSE a \in DOMAIN NameOf : NameOf[a] = k
Simple(W, v) == IF v.type = "null" /\ W.drops THEN <<>> ELSE <<LexemeOf(v)>>
Joined(texts) == FlattenSeq([i \in DOMAIN texts |-> IF i = 1 THEN texts[i] ELSE <<",">> \o texts[i]])

\* FastWriter::writeValue
RECURSIVE Fast(_, _)
Fast(W, v) ==
  CASE v.type = "array" ->
         <<"[">> \o Joined([i \in 1..Size(v) |-> Fast(W, Find(v, i - 1))]) \o <<"]">>
    [] v.type = "object" ->
         LET ks == SortedKeys(v) IN
         <<"{">> \o Joined([i \in DOMAIN ks |-> <<NameLexeme(ks[i]), ":">> \o Fast(W, v.map[ks[i]])])
           \o <<"}">>
    [] OTHER -> Simple(W, v)

RECURSIVE writeValue(_, _, _, _, _)

\* isMultineArray(): an array of anything but simple values, or a long one.  The
\* values of one that may fit are put aside.
Nested(v) == \E k \in Keys(v) : v.map[k].type \in {"array", "object"} /\ Size(v.map[k]) > 0
Aside(W, s, v, notes, path) ==
  LET Add(t, i) == writeValue(W, t, Find(v, i - 1), notes, Append(path, Index(i - 1)))
      cleared == [s EXCEPT !.children = <<>>]
  IN  IF 3 * Size(v) >= rightMargin_ \/ Nested(v) THEN cleared
      ELSE [FoldLeft(Add, [cleared EXCEPT !.adding = TRUE], [i \in 1..Size(v) |-> i])
              EXCEPT !.adding = FALSE]
Multiline(s, v, notes, path) ==
  \/ s.children = <<>>
  \/ \E i \in 1..Size(v) : hasCommentForValue(notes, Append(path, Index(i - 1)))
  \/ 4 + 2 * (Size(v) - 1) + Len(FlattenSeq(s.children)) >= rightMargin_

\* Mutant: the comment is written before the comma.
Entry_early(W, s, entry, comma, notes, path) ==
  Emit(writeCommentAfterValueOnSameLine(W, entry, notes, path), IF comma THEN <<",">> ELSE <<>>)

\* What comes behind an item or a member.
Entry(W, s, entry, comma, notes, path) ==
  writeCommentAfterValueOnSameLine(W, Emit(entry, IF comma THEN <<",">> ELSE <<>>), notes, path)

Item(W, s, v, notes, path) ==
  IF W.style = "styled" THEN writeValue(W, writeIndent(W, s), v, notes, path)
  ELSE [writeValue(W, [Unless(W, s) EXCEPT !.indented = TRUE], v, notes, path) EXCEPT !.indented = FALSE]

writeArrayValue(W, s, v, notes, path) ==
  LET kept == W.style = "built" /\ W.comments
      t == IF kept THEN s ELSE Aside(W, s, v, notes, path)
      Each(u, i) ==
        LET at == Append(path, Index(i - 1))
            begun == writeCommentBeforeValue(W, u, notes, at)
        IN  Entry(W, u, IF t.children # <<>> THEN writeWithIndent(W, begun, t.children[i])
                        ELSE Item(W, begun, Find(v, i - 1), notes, at), i < Size(v), notes, at)
      opened == [writeWithIndent(W, t, <<"[">>) EXCEPT !.depth = @ + 1]
      inside == FoldLeft(Each, opened, [i \in 1..Size(v) |-> i])
  IN  IF Size(v) = 0 THEN pushValue(s, <<"[", "]">>)
      ELSE IF kept \/ Multiline(t, v, notes, path)
      THEN writeWithIndent(W, [inside EXCEPT !.depth = @ - 1], <<"]">>)
      ELSE Emit(t, <<"[">> \o Joined(t.children) \o <<"]">>)

writeObject(W, s, v, notes, path) ==
  LET ks == SortedKeys(v)
      Each(u, i) ==
        LET at == Append(path, Name(ks[i]))
            named == writeWithIndent(W, writeCommentBeforeValue(W, u, notes, at), <<NameLexeme(ks[i])>>)
            colon == Emit(named, IF W.style = "built" /\ ~W.indents THEN <<":">> ELSE <<":", Space>>)
        IN  Entry(W, u, writeValue(W, colon, v.map[ks[i]], notes, at), i < Len(ks), notes, at)
      opened == [writeWithIndent(W, s, <<"{">>) EXCEPT !.depth = @ + 1]
      inside == FoldLeft(Each, opened, [i \in DOMAIN ks |-> i])
  IN  IF ks = <<>> THEN pushValue(s, <<"{", "}">>)
      ELSE writeWithIndent(W, [inside EXCEPT !.depth = @ - 1], <<"}">>)

writeValue(W, s, v, notes, path) ==
  CASE v.type = "array" -> writeArrayValue(W, s, v, notes, path)
    [] v.type = "object" -> writeObject(W, s, v, notes, path)
    [] OTHER -> pushValue(s, Simple(W, v))

\* The four write(); comments may be left out.
write(W, root, all_notes) ==
  LET notes == IF W.comments THEN all_notes ELSE {}
      begun == writeCommentBeforeValue(W, [Blank EXCEPT !.indented = TRUE], notes, <<>>)
      ready == IF W.style = "styled" THEN begun ELSE [Unless(W, begun) EXCEPT !.indented = TRUE]
      written == writeCommentAfterValueOnSameLine(W, writeValue(W, ready, root, notes, <<>>), notes, <<>>)
  IN  IF W.style = "fast" THEN Fast(W, root) ELSE written.out

\* The lexemes that are read again: a comment to the end of its line hides all
\* that is written behind it there.
Lexed(out) ==
  LET Next(s, l) ==
        CASE s.hidden -> [s EXCEPT !.hidden = l # Newline]
          [] ~s.hidden /\ l = Space -> s
          [] ~s.hidden /\ l \in LineComments -> [doc |-> Append(s.doc, Line), hidden |-> TRUE]
          [] OTHER -> [s EXCEPT !.doc = Append(@, l)]
  IN  FoldLeft(Next, [doc |-> <<>>, hidden |-> FALSE], out).doc
=============================================================================
