----------------------------- MODULE JsonScalar -----------------------------
(***************************************************************************)
(* Strings and numbers between their text and a Json::Value, and the texts *)
(* of paths and documents.  The widths are scaled down: a LargestInt has 6 bits,  *)
(* an Int 3, and the mantissa of a double 4, so that it holds every Int    *)
(* but not every LargestInt, as with 64, 32 and 53.                        *)
(***************************************************************************)
EXTENDS JsonPath

CONSTANT Length  \* bound: strings and numbers have up to Length characters

VARIABLE given  \* [kind, text, value]

vars == given

Minus == 45
Quotes == 34
Backslash == 92
LowerU == 117

-----------------------------------------------------------------------------
(* Numbers.  The atom of a real is twice its value. *)

Limits == [Int |-> <<-4, 3>>, UInt |-> <<0, 7>>, Int64 |-> <<-32, 31>>, UInt64 |-> <<0, 63>>]
Least(t) == Limits[t][1]
Greatest(t) == Limits[t][2]
Wide(t) == t \in {"Int64", "UInt64"}

AbsOf(n) == IF n < 0 THEN -n ELSE n
Truncated(h) == IF h < 0 THEN -(AbsOf(h) \div 2) ELSE h \div 2

\* The distance of doubles at twice a value, and the nearest double of an integer.
Step(h) == CHOOSE s \in {1, 2, 4, 8, 16} : 8 * s <= Max({AbsOf(h), 8}) /\ AbsOf(h) < 16 * s
Double(n) ==
  LET s == Step(2 * n)
      q == (2 * AbsOf(n)) \div s
      r == (2 * AbsOf(n)) % s
      up == 2 * r > s \/ (2 * r = s /\ q % 2 = 1)
      h == s * (q + IF up THEN 1 ELSE 0)
  IN  IF n < 0 THEN -h ELSE h

Reals == {h \in -130..130 : h % Step(h) = 0}

\* The bounds are compared as doubles.
InRange(h, t) == Double(Least(t)) <= h /\ h <= Double(Greatest(t))

\* Mutant: isInt64() compares with <=.
Is_closed(v, t) ==
  CASE v.type \in {"int", "uint"} -> v.atom \in Least(t)..Greatest(t)
    [] v.type = "real" -> v.atom % 2 = 0 /\ InRange(v.atom, t)
    [] OTHER -> FALSE

\* isInt(), isUInt(), isInt64(), isUInt64().
Is(v, t) ==
  CASE v.type \in {"int", "uint"} -> v.atom \in Least(t)..Greatest(t)
    [] v.type = "real" ->
         /\ v.atom % 2 = 0 /\ 2 * Least(t) <= v.atom
         /\ IF Wide(t) THEN v.atom < Double(Greatest(t)) ELSE v.atom <= 2 * Greatest(t)
    [] OTHER -> FALSE

\* asInt() and the others, which throw if not ok.
As(v, t) ==
  [ok |-> CASE v.type \in {"null", "boolean"} -> TRUE
            [] v.type \in {"int", "uint"} -> Is(v, t)
            [] v.type = "real" -> InRange(v.atom, t)
            [] OTHER -> FALSE,
   n |-> IF v.type = "real" THEN Truncated(v.atom) ELSE v.atom]

\* asDouble() and asBool() convert these, asString() strings besides.
Numeric(v) == v.type \in {"null", "boolean", "int", "uint", "real"}
AsString(v) == Numeric(v) \/ v.type = "string"

isConvertibleTo(v, type) ==
  CASE type = "int" ->
         Is(v, "Int") \/ (v.type = "real" /\ InRange(v.atom, "Int")) \/ v.type \in {"boolean", "null"}
    [] type = "uint" ->
         Is(v, "UInt") \/ (v.type = "real" /\ InRange(v.atom, "UInt")) \/ v.type \in {"boolean", "null"}
    [] type \in {"real", "boolean"} -> v.type \in {"int", "uint", "real", "boolean", "null"}
    [] type = "string" -> v.type \in {"int", "uint", "real", "boolean", "string", "null"}
    [] type \in {"array", "object"} -> v.type \in {type, "null"}

\* uintToString() and valueToString().
DigitsOf[n \in Nat] == (IF n < 10 THEN <<>> ELSE DigitsOf[n \div 10]) \o <<48 + (n % 10)>>
valueToString(n) == IF n < 0 THEN <<Minus>> \o DigitsOf[-n] ELSE DigitsOf[n]

\* The loop of decodeNumber(), in arithmetic of 6 bits: the value of the digits,
\* or that a double is read instead.
DecodeDigits(ds, greatest) ==
  LET Digit(acc, d) ==
        LET at == acc.at + 1
            large == acc.value >= greatest \div 10
            misfit == acc.value > greatest \div 10 \/ at # Len(ds) \/ d - 48 > greatest % 10
        IN  [at |-> at, value |-> ((acc.value * 10) + d - 48) % 64,
             double |-> acc.double \/ d \notin Digits \/ (large /\ misfit)]
  IN  FoldLeft(Digit, [at |-> 0, value |-> 0, double |-> FALSE], ds)

Negative(text) == text # <<>> /\ text[1] = Minus

\* Integers above maxInt become unsigned.
decodeNumber(text) ==
  LET ds == IF Negative(text) THEN Tail(text) ELSE text
      got == DecodeDigits(ds, IF Negative(text) THEN Greatest("Int64") + 1 ELSE Greatest("UInt64"))
  IN  CASE got.double -> Scalar("real", 0)
        [] ~got.double /\ Negative(text) -> Scalar("int", -got.value)
        [] OTHER -> Scalar(IF got.value <= Greatest("Int") THEN "int" ELSE "uint", got.value)

-----------------------------------------------------------------------------
(* Strings. *)

HexDigit(c) == c \in Digits \cup 97..102 \cup 65..70
HexValue(c) == CASE c \in Digits -> c - 48 [] c >= 97 -> c - 87 [] OTHER -> c - 55
Hex(n) == IF n < 10 THEN 48 + n ELSE 55 + n

\* The escapes; \b, \f, \r and \t are as \n.
Escaped(c) ==
  CASE c \in {Quotes, Backslash} -> <<Backslash, c>>
    [] c = Newline -> <<Backslash, 110>>
    [] c < 32 /\ c # Newline -> <<Backslash, LowerU, 48, 48, Hex(c \div 16), Hex(c % 16)>>
    [] OTHER -> <<c>>

valueToQuotedStringN(s) == <<Quotes>> \o FlattenSeq([i \in DOMAIN s |-> Escaped(s[i])]) \o <<Quotes>>

\* readString(): where the string ends that begins with the first character.
RECURSIVE StringEnd(_, _)
StringEnd(text, i) ==
  CASE i > Len(text) -> 0
    [] i <= Len(text) /\ text[i] = Quotes -> i
    [] i <= Len(text) /\ text[i] = Backslash -> StringEnd(text, i + 2)
    [] OTHER -> StringEnd(text, i + 1)

Bits(n, from, count) == (n \div (2 ^ from)) % (2 ^ count)

codePointToUTF8(c) ==
  CASE c <= 127 -> <<c>>
    [] c \in 128..2047 -> <<192 + Bits(c, 6, 5), 128 + Bits(c, 0, 6)>>
    [] c \in 2048..65535 -> <<224 + Bits(c, 12, 4), 128 + Bits(c, 6, 6), 128 + Bits(c, 0, 6)>>
    [] OTHER -> <<240 + Bits(c, 18, 3), 128 + Bits(c, 12, 6), 128 + Bits(c, 6, 6), 128 + Bits(c, 0, 6)>>

\* decodeUnicodeEscapeSequence(): four hexadecimal digits from i on, or -1.
Unit(s, i) ==
  IF i + 3 <= Len(s) /\ \A k \in i..(i + 3) : HexDigit(s[k])
  THEN 4096 * HexValue(s[i]) + 256 * HexValue(s[i + 1]) + 16 * HexValue(s[i + 2]) + HexValue(s[i + 3])
  ELSE -1

High == 55296..56319
Low == 56320..57343

Paired(u, v) == 65536 + (u % 1024) * 1024 + (v % 1024)

\* decodeUnicodeCodePoint(): the second of a pair need not be one.
CodePoint(s, i) ==
  LET u == Unit(s, i)
      v == Unit(s, i + 6)
  IN  CASE u = -1 -> [ok |-> FALSE, code |-> 0, next |-> i]
        [] u # -1 /\ u \notin High -> [ok |-> TRUE, code |-> u, next |-> i + 4]
        [] OTHER ->
             [ok |-> i + 5 <= Len(s) /\ s[i + 4] = Backslash /\ s[i + 5] = LowerU /\ v # -1,
              code |-> Paired(u, v), next |-> i + 10]

Unescaped(c) == CASE c \in {Quotes, Backslash, 47} -> c [] c = 110 -> Newline [] OTHER -> -1

\* decodeString(): what is between the quotes, from i on.
RECURSIVE Decoded(_, _)
Decoded(s, i) ==
  LET Then(front, next) ==
        LET rest == Decoded(s, next) IN [ok |-> rest.ok, text |-> front \o rest.text]
      Error == [ok |-> FALSE, text |-> <<>>]
  IN  CASE i > Len(s) -> [ok |-> TRUE, text |-> <<>>]
        [] i <= Len(s) /\ s[i] # Backslash -> Then(<<s[i]>>, i + 1)
        [] i = Len(s) /\ s[i] = Backslash -> Error
        [] OTHER ->
             IF s[i + 1] = LowerU
             THEN LET cp == CodePoint(s, i + 2)
                  IN  IF cp.ok THEN Then(codePointToUTF8(cp.code), cp.next) ELSE Error
             ELSE IF Unescaped(s[i + 1]) # -1 THEN Then(<<Unescaped(s[i + 1])>>, i + 2) ELSE Error

\* A string that begins a text is found and decoded.
ReadString(text) ==
  LET end == StringEnd(text, 2)
  IN  IF end = 0 THEN [ok |-> FALSE, text |-> <<>>] ELSE Decoded(SubSeq(text, 2, end - 1), 1)

-----------------------------------------------------------------------------
Texts(chars, n) == UNION {[1..k -> chars] : k \in 0..n}

Strings == Texts({97, 110, LowerU, 48, Quotes, Backslash, Newline, 0}, Length)
Numbers == Texts(Digits, Length) \cup {<<Minus>> \o t : t \in Texts(Digits, Length)}
             \cup {<<51, Dot, 53>>, <<54, 51, Dot>>}
Values ==
  UNION {{Scalar("int", n) : n \in Least("Int64")..Greatest("Int64")},
         {Scalar("uint", n) : n \in 0..Greatest("UInt64")},
         {Scalar("real", h) : h \in Reals},
         {Scalar("boolean", 0), Scalar("boolean", 1), Null, Scalar("string", 0),
          Container("array"), Container("object")}}
Steps == {".a", ".a%", "[1]", "[10]", ".%", "[%]"}
Units == {0, 10, 127, 128, 2047, 2048, 55295, 55296, 56319, 56320, 57343, 57344, 65535}

Init == given = [kind |-> "none", text |-> <<>>, value |-> Null]

\* What the operators are given.
Given ==
  /\ given.kind = "none"
  /\ \/ \E t \in Strings : given' = [kind |-> "string", text |-> t, value |-> Null]
     \/ \E t \in Numbers : given' = [kind |-> "number", text |-> t, value |-> Null]
     \/ \E v \in Values : given' = [kind |-> "value", text |-> <<>>, value |-> v]
     \/ \E p \in Texts(Steps, Length) : given' = [kind |-> "path", text |-> p, value |-> Null]
     \/ \E t \in Texts({97, Return, Newline}, Length + 1) :
          given' = [kind |-> "place", text |-> t, value |-> Null]
     \/ \E u, v \in Units : given' = [kind |-> "units", text |-> <<u, v>>, value |-> Null]

Next == Given
Spec == Init /\ [][Next]_vars

-----------------------------------------------------------------------------
\* The one real just above the largest 64-bit integer: the assertions of asInt64() and
\* asUInt64(), "double out of Int64 range", compare with a limit rounded up to it.
JustAbove(v, t) == Wide(t) /\ v.type = "real" /\ v.atom = Double(Greatest(t))

\* A conversion that does not throw gives the number, truncated, in the range of
\* its type, and isConvertibleTo() tells which throw.  Nothing is said of the real just
\* above, which is converted although the assertion promises that it is not.
Conversions ==
  given.kind = "value" =>
    LET v == given.value IN
    /\ \A t \in DOMAIN Limits :
         /\ As(v, t).ok /\ ~JustAbove(v, t) => As(v, t).n \in Least(t)..Greatest(t)
         /\ Is(v, t) => As(v, t).ok /\ As(v, t).n \in Least(t)..Greatest(t)
              /\ (v.type = "real" => v.atom = 2 * As(v, t).n)
    /\ isConvertibleTo(v, "int") = As(v, "Int").ok
    /\ isConvertibleTo(v, "uint") = As(v, "UInt").ok
    /\ isConvertibleTo(v, "boolean") = Numeric(v) /\ isConvertibleTo(v, "string") = AsString(v)

\* An integer that fits is read as what it says, whatever zeros lead it, another
\* as a double: the digits never wrap around.  It is unsigned above the largest
\* Int, so that an integer written and read back may have changed its type.
NumbersKept ==
  /\ given.kind = "number" =>
       LET ds == IF Negative(given.text) THEN Tail(given.text) ELSE given.text
           n == IF Negative(given.text) THEN -Numeral(ds) ELSE Numeral(ds)
           fits == n \in Least("Int64")..Greatest("UInt64")
       IN  IF (\A i \in DOMAIN ds : ds[i] \in Digits) /\ fits
           THEN decodeNumber(given.text) = Scalar(IF n <= Greatest("Int") THEN "int" ELSE "uint", n)
           ELSE decodeNumber(given.text).type = "real"
  /\ given.kind = "value" /\ given.value.type \in {"int", "uint"} =>
       LET back == decodeNumber(valueToString(given.value.atom))
       IN  /\ back.atom = given.value.atom
           /\ back.type # given.value.type => back.type = "uint" \/ back.atom <= Greatest("Int")

Follows == <<Quotes, Backslash, Quotes>>

\* A string that is quoted is read back as it was, whatever follows it.
StringsKept ==
  given.kind = "string" =>
    ReadString(valueToQuotedStringN(given.text) \o Follows) = [ok |-> TRUE, text |-> given.text]

\* The user name that a client puts between quotes as it is arrives unchanged if
\* and only if it has no quote and no backslash.
NamesArrive ==
  given.kind = "string" =>
    (ReadString(<<Quotes>> \o given.text \o <<Quotes, 125>>) = [ok |-> TRUE, text |-> given.text])
      = (\A i \in DOMAIN given.text : given.text[i] \notin {Quotes, Backslash})

UnitText(u) ==
  <<Backslash, LowerU, Hex(u \div 4096), Hex((u \div 256) % 16), Hex((u \div 16) % 16), Hex(u % 16)>>

FromUTF8(b) ==
  CASE Len(b) = 1 -> b[1]
    [] Len(b) = 2 -> (b[1] - 192) * 64 + b[2] - 128
    [] Len(b) = 3 -> (b[1] - 224) * 4096 + (b[2] - 128) * 64 + b[3] - 128
    [] Len(b) = 4 -> (b[1] - 240) * 262144 + (b[2] - 128) * 4096 + (b[3] - 128) * 64 + b[4] - 128

\* Two escaped units are read as the character they stand for, a pair of
\* surrogates, or as two, never as one behind the end of Unicode; a first
\* surrogate is never read alone.
UnitsRead ==
  given.kind = "units" =>
    LET u == given.text[1]
        v == given.text[2]
        got == Decoded(UnitText(u) \o UnitText(v), 1)
    IN  CASE u \in High ->
               /\ got.ok /\ Len(got.text) = 4 /\ FromUTF8(got.text) \in 65536..1114111
               /\ v \in Low => FromUTF8(got.text) = 65536 + (u - 55296) * 1024 + (v - 56320)
          [] u \notin High /\ v \in High -> ~got.ok
          [] OTHER -> got.text = codePointToUTF8(u) \o codePointToUTF8(v)
                      /\ FromUTF8(codePointToUTF8(u)) = u

StepText(p) ==
  CASE p = ".a" -> <<Dot, 97>> [] p = ".a%" -> <<Dot, 97, Percent>> [] p = "[1]" -> <<Open, 49, Close>>
    [] p = "[10]" -> <<Open, 49, 48, Close>> [] p = ".%" -> <<Dot, Percent>>
    [] p = "[%]" -> <<Open, Percent, Close>>
Key(text) == [kind |-> "key", key |-> text]
At(i) == [kind |-> "index", key |-> i]
Arguments == {Key(<<98>>), At(7), [kind |-> "none", key |-> 0]}

\* What a step stands for, as the documentation of Path has it.
Leads(p, arg) ==
  CASE p = ".a" -> <<Key(<<97>>)>> [] p = ".a%" -> <<Key(<<97, Percent>>)>> [] p = "[1]" -> <<At(1)>>
    [] p = "[10]" -> <<At(10)>> [] p = ".%" -> IF arg.kind = "key" THEN <<arg>> ELSE <<>>

\* Json.h:1083 documents "[%]" as an index that is given, and the constructor takes five
\* arguments: the code leaves the bracket behind "[%]" as a name, and fills every
\* placeholder with the first argument.
AsDocumented(p) ==
  LET Count(step) == Len(SelectSeq(p, LAMBDA q : q = step)) IN Count("[%]") = 0 /\ Count(".%") <= 1

\* A path leads where its text says, its placeholder to the argument.  Nothing is
\* said of those the code does not read as documented.
PathsRead ==
  given.kind = "path" /\ AsDocumented(given.text) => \A arg \in Arguments :
    LET Flat(texts) == FlattenSeq(texts)
    IN  makePath(Flat([i \in DOMAIN given.text |-> StepText(given.text[i])]), arg)
          = Flat([i \in DOMAIN given.text |-> Leads(given.text[i], arg)])

\* The place of an error is given by its line, where a return with a newline ends
\* one line and not two, and by its column from 1 on.  Between those two the column
\* is 0, where the code's own comment says that columns start at 1: nothing is said
\* of that place.
PlacesRight ==
  given.kind = "place" => \A at \in 0..Len(given.text) :
    LET text == given.text
        Both(i) == text[i] = Return /\ i < Len(text) /\ text[i + 1] = Newline
        Ends(i) == text[i] \in {Return, Newline} /\ ~Both(i)
        before == {i \in 1..at : Ends(i)}
        place == getLocationLineAndColumn(text, at)
    IN  ~(at > 0 /\ Both(at)) =>
          /\ place.line = Cardinality(before) + 1
          /\ place.column = at - Max(before \cup {0}) + 1

\* Strings and numbers, paths and places.
ScalarsKept ==
  Conversions /\ NumbersKept /\ StringsKept /\ NamesArrive /\ UnitsRead /\ PathsRead /\ PlacesRight
=============================================================================
