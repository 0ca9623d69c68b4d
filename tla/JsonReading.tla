---------------------------- MODULE JsonReading ----------------------------
(***************************************************************************)
(* Json::Reader and OurReader: a document is a sequence of lexemes.  F is  *)
(* the features of the reader, s the state of its reading.  Once there is  *)
(* an error the document is refused; what the recovery from it reads on    *)
(* and what its message says are left out.                                 *)
(***************************************************************************)
EXTENDS JsonTree

\* Strings ("e" is the empty one) and a number; as names they are 0, 1 and 2.
Atoms == [e |-> Scalar("string", 0), k |-> Scalar("string", 1), n |-> Scalar("int", 1),
          u |-> Null]
NameOf == [e |-> 0, k |-> 1, n |-> 2]

\* A comment on a line of its own takes the newline with it.
Block == "/*"
Line == "//"
Comments == {Block, Line}
Newline == "newline"
Bad == "bad"
End == "end"

Index(i) == [kind |-> "index", key |-> i]
Name(n) == [kind |-> "key", key |-> n]

\* Features and OurFeatures; comments are collected if they are allowed.
all == [comments |-> TRUE, strictRoot |-> FALSE, dropped |-> FALSE, numericKeys |-> FALSE,
        our |-> FALSE, failIfExtra |-> FALSE, rejectDupKeys |-> FALSE, limit |-> 1000]
strictMode == [all EXCEPT !.comments = FALSE, !.strictRoot = TRUE]
OurDefaults == [all EXCEPT !.our = TRUE]
OurStrict == [strictMode EXCEPT !.our = TRUE, !.failIfExtra = TRUE, !.rejectDupKeys = TRUE]

-----------------------------------------------------------------------------
(* s.path leads to currentValue(); s.notes are the comments of the values. *)

Start ==
  [pos |-> 1, token |-> End, path |-> <<>>, root |-> Null, ok |-> TRUE, thrown |-> FALSE,
   pending |-> <<>>, notes |-> {}, last |-> <<>>, lastEnd |-> 0]

addError(s) == [s EXCEPT !.ok = FALSE]
Thrown(s) == [s EXCEPT !.ok = FALSE, !.thrown = TRUE, !.token = Bad]

\* setComment(): one of each placement for a value.
setComment(s, path, place, text) ==
  [s EXCEPT !.notes = {n \in @ : n.path # path \/ n.place # place}
                        \cup {[path |-> path, place |-> place, text |-> text]}]

\* swapPayload(): the value keeps its comments, but not what was below it.
swapPayload(s, v) ==
  [s EXCEPT !.root = Make(@, s.path, v), !.notes = {n \in @ : ~IsStrictPrefix(s.path, n.path)}]

\* currentValue()[key] and nodes_.push, nodes_.pop.
Push(s, key) ==
  LET path == Append(s.path, key)
  IN  [s EXCEPT !.path = path, !.root = Make(@, path, Resolve(@, path, Null))]
Pop(s) == [s EXCEPT !.path = Front(@)]

skipSpaces(doc, pos) == Min({p \in pos..(Len(doc) + 1) : p > Len(doc) \/ doc[p] # Newline})

containsNewLine(doc, begin, end) == \E p \in begin..(end - 1) : doc[p] \in {Newline, Line}

\* A comment on the line where the last value ended is that value's.
addComment(doc, s, p) ==
  IF s.lastEnd > 0 /\ ~containsNewLine(doc, s.lastEnd, p)
  THEN setComment(s, s.last, "same line", <<p>>)
  ELSE [s EXCEPT !.pending = Append(@, p)]

readToken(F, doc, s) ==
  LET p == skipSpaces(doc, s.pos)
      u == IF p > Len(doc) THEN [s EXCEPT !.pos = p, !.token = End]
           ELSE [s EXCEPT !.pos = p + 1, !.token = doc[p]]
  IN  IF u.token \in Comments /\ F.comments THEN addComment(doc, u, p) ELSE u

RECURSIVE PastComments(_, _, _)
PastComments(F, doc, s) ==
  IF s.token \in Comments THEN PastComments(F, doc, readToken(F, doc, s)) ELSE s

skipCommentTokens(F, doc, s) ==
  LET u == readToken(F, doc, s) IN IF F.comments THEN PastComments(F, doc, u) ELSE u

-----------------------------------------------------------------------------
RECURSIVE readValue(_, _, _), readMember(_, _, _, _), readItem(_, _, _, _)

\* The comments before a value are put before it.
Begun(s) ==
  IF s.pending = <<>> THEN s
  ELSE [setComment(s, s.path, "before", s.pending) EXCEPT !.pending = <<>>]

Ended(F, s) == IF F.comments THEN [s EXCEPT !.last = s.path, !.lastEnd = s.pos] ELSE s

\* A number that is a name has a string only in OurReader.
NumberThrows(F, token) == token = "n" /\ ~F.our

\* readObject() behind a member, comma being the token there: comments may stand
\* behind a value, and what follows those passes for a comma.
Continued(F, doc, comma, next, name) ==
  CASE comma.token \notin {"}", ","} \cup Comments -> addError(comma)
    [] comma.token \in {"}", ","} \cup Comments /\ next.token = "}" -> next
    [] OTHER -> readMember(F, doc, PastComments(F, doc, readToken(F, doc, next)), name)

AfterMember(F, doc, comma, name) == Continued(F, doc, comma, PastComments(F, doc, comma), name)

AfterValue(F, doc, v, name) ==
  IF v.ok THEN AfterMember(F, doc, readToken(F, doc, Pop(v)), name) ELSE v

AfterName(F, doc, colon, name) ==
  IF colon.token # ":" \/ (F.rejectDupKeys /\ name \in Keys(Resolve(colon.root, colon.path, Null)))
  THEN addError(colon)
  ELSE AfterValue(F, doc, readValue(F, doc, Push(colon, Name(name))), name)

\* The loop of readObject() from the token n on, behind the member of the name.
readMember(F, doc, n, name) ==
  CASE n.token = "}" /\ name = 0 -> n
    [] n.token \in {"e", "k"} \/ (n.token = "n" /\ F.numericKeys) ->
         IF NumberThrows(F, n.token) THEN Thrown(n)
         ELSE AfterName(F, doc, readToken(F, doc, n), NameOf[n.token])
    [] OTHER -> addError(n)

\* Comments may stand before a name.
readObject(F, doc, s) ==
  LET u == swapPayload(s, Container("object"))
  IN  readMember(F, doc, PastComments(F, doc, readToken(F, doc, u)), 0)

\* The loop of readArray() behind the item of the index, next being the token there.
AfterItem(F, doc, next, index) ==
  CASE next.token = "]" -> next
    [] next.token = "," -> readItem(F, doc, readValue(F, doc, Push(next, Index(index + 1))), index + 1)
    [] OTHER -> addError(next)

readItem(F, doc, v, index) ==
  IF v.ok THEN AfterItem(F, doc, PastComments(F, doc, readToken(F, doc, Pop(v))), index) ELSE v

\* An empty array is one whose bracket follows at once.
FirstItem(F, doc, u) ==
  LET p == skipSpaces(doc, u.pos)
  IN  IF p <= Len(doc) /\ doc[p] = "]" THEN readToken(F, doc, u)
      ELSE readItem(F, doc, readValue(F, doc, Push(u, Index(0))), 0)

readArray(F, doc, s) == FirstItem(F, doc, swapPayload(s, Container("array")))

\* A dropped null: the token behind it is read again.
Dropped(F, token) == F.dropped /\ token \in {",", "}", "]"}

\* The value that begins with the token.
ValueFrom(F, doc, t) ==
  CASE t.token = "{" -> Ended(F, readObject(F, doc, t))
    [] t.token = "[" -> Ended(F, readArray(F, doc, t))
    [] t.token \in DOMAIN Atoms -> Ended(F, swapPayload(t, Atoms[t.token]))
    [] Dropped(F, t.token) -> Ended(F, swapPayload([t EXCEPT !.pos = @ - 1], Null))
    [] OTHER -> addError(t)

readValue(F, doc, s) ==
  IF Len(s.path) >= F.limit THEN Thrown(s)
  ELSE ValueFrom(F, doc, Begun(skipCommentTokens(F, doc, s)))

\* What follows the root v is not read on; failIfExtra lets an error pass.
AfterRoot(F, v, t) ==
  IF \/ ~v.ok
     \/ F.strictRoot /\ v.root.type \notin {"array", "object"}
  THEN addError(v)
  ELSE CASE F.failIfExtra /\ t.token \notin {Bad, End} -> addError(t)
         [] t.pending = <<>> -> t
         [] OTHER -> setComment(t, <<>>, "after", t.pending)

WithRoot(F, doc, v) == AfterRoot(F, v, skipCommentTokens(F, doc, v))

parse(F, doc) == WithRoot(F, doc, readValue(F, doc, Start))
=============================================================================
