-------------------------------- MODULE Json --------------------------------
(***************************************************************************)
(* harness/json.hpp: the writer of the messages the host sends and the     *)
(* permissive reader of those it receives.  A text is a sequence of bytes, *)
(* a position in it the number of bytes before it, as in the code.         *)
(***************************************************************************)
EXTENDS Integers, SequencesExt

CONSTANTS
    IntMax       \* largest long long (2^63 - 1)

ASSUME JsonAssumption == IntMax \in Nat

(***************************************************************************)
(* Bytes.                                                                  *)
(***************************************************************************)
CodesFrom(first, string) ==
    [c \in {SubSeq(string, i, i) : i \in 1 .. Len(string)} |->
        first - 1 + CHOOSE i \in 1 .. Len(string) : SubSeq(string, i, i) = c]

Code == CodesFrom(32, " !\"#$%&'()*+,-./0123456789:;<=>?@ABCDEFGHIJKLMNOPQRSTUVWXYZ[\\]^_")
            @@ CodesFrom(97, "abcdefghijklmnopqrstuvwxyz{|}~")

(* The bytes of an ASCII string.                                           *)
Ascii(string) == [i \in 1 .. Len(string) |-> Code[SubSeq(string, i, i)]]

Quote == 34
Backslash == 92
Comma == 44
Colon == 58
Newline == 10

(* The bytes with an escape of one letter, and the letter.                 *)
Letter == (8 :> 98) @@ (9 :> 116) @@ (10 :> 110) @@ (12 :> 102) @@ (13 :> 114)
            @@ (Quote :> Quote) @@ (Backslash :> Backslash)

Unescaped == [letter \in Range(Letter) |-> CHOOSE b \in DOMAIN Letter : Letter[b] = letter] @@ (47 :> 47)

Whitespace == {32, 9, 10, 13}

DigitBytes == 48 .. 57

HexDigit == Ascii("0123456789abcdef")

HexValue ==
    [b \in DigitBytes |-> b - 48] @@ [b \in 97 .. 102 |-> b - 87] @@ [b \in 65 .. 70 |-> b - 55]

-----------------------------------------------------------------------------
(***************************************************************************)
(* The writer.                                                             *)
(***************************************************************************)
(* Mutant: only the characters with a letter of their own are escaped.     *)
EscapeNamed(b) == IF b \in DOMAIN Letter THEN <<Backslash, Letter[b]>> ELSE <<b>>

Escape(b) ==
    IF b \in DOMAIN Letter THEN <<Backslash, Letter[b]>>
    ELSE IF b < 32 THEN Ascii("\\u00") \o <<HexDigit[b \div 16 + 1], HexDigit[(b % 16) + 1]>>
    ELSE <<b>>

JoinWith(texts, separator) ==
    FlattenSeq([i \in DOMAIN texts |-> (IF i = 1 THEN <<>> ELSE separator) \o texts[i]])

jstr(s) == <<Quote>> \o FlattenSeq([i \in DOMAIN s |-> Escape(s[i])]) \o <<Quote>>

jnum(n) == Ascii(ToString(n))

jbool(b) == Ascii(IF b THEN "true" ELSE "false")

jarr(items) == Ascii("[") \o JoinWith(items, Ascii(",")) \o Ascii("]")

(* A field is a key and its value, already a text.                         *)
jobj(fields) ==
    Ascii("{") \o JoinWith([i \in DOMAIN fields |-> jstr(fields[i][1]) \o Ascii(":") \o fields[i][2]], Ascii(","))
        \o Ascii("}")

-----------------------------------------------------------------------------
(***************************************************************************)
(* The values the reader builds.  A number is digits * 10^exp, which       *)
(* stands for the double strtod makes of it.                               *)
(***************************************************************************)
Null == [type |-> "Null"]
Bool(b) == [type |-> "Bool", boolean |-> b]
Str(s) == [type |-> "Str", str |-> s]
Arr(items) == [type |-> "Arr", arr |-> items]
Obj(members) == [type |-> "Obj", obj |-> members]
Num(digits, exp) == [type |-> "Num", digits |-> digits, exp |-> exp]

Has(v, key) == v.type = "Obj" /\ key \in DOMAIN v.obj

as_str(v) == IF v.type = "Str" THEN v.str ELSE <<>>

as_bool(v) ==
    \/ v.type = "Bool" /\ v.boolean
    \/ v.type = "Num" /\ v.digits # 0

Power(n) == LET p[i \in 0 .. n] == IF i = 0 THEN 1 ELSE 10 * p[i - 1] IN p[n]

Truncated(v) ==
    IF v.exp >= 0 THEN v.digits * Power(v.exp)
    ELSE IF v.digits >= 0 THEN v.digits \div Power(-v.exp) ELSE -((-v.digits) \div Power(-v.exp))

(* The cast of a double to long long, 0 for what is no number; of one that *)
(* does not fit it is undefined and gives one end of the range or the      *)
(* other, depending on the processor.                                      *)
as_int(v) ==
    IF v.type # "Num" THEN {0}
    ELSE IF Truncated(v) \in -IntMax - 1 .. IntMax THEN {Truncated(v)}
    ELSE {-IntMax - 1, IntMax}

-----------------------------------------------------------------------------
(***************************************************************************)
(* The reader: each function returns the value it has read from position i *)
(* on and the position behind it, or fails.                                *)
(***************************************************************************)
Failed == [ok |-> FALSE]

Got(v, i) == [ok |-> TRUE, v |-> v, i |-> i]

Sees(s, i, bytes) == i < Len(s) /\ s[i + 1] \in bytes

RECURSIVE Skip(_, _, _)

(* The first position from i on without one of the bytes.                  *)
Skip(s, i, bytes) == IF Sees(s, i, bytes) THEN Skip(s, i + 1, bytes) ELSE i

skip_ws(s, i) == Skip(s, i, Whitespace)

Starts(s, i, word) == i + Len(word) <= Len(s) /\ SubSeq(s, i + 1, i + Len(word)) = word

(* A code point of the escape \u, as UTF-8.                                *)
Utf8(cp) ==
    IF cp < 128 THEN <<cp>>
    ELSE IF cp < 2048 THEN <<192 + cp \div 64, 128 + (cp % 64)>>
    ELSE <<224 + cp \div 4096, 128 + ((cp \div 64) % 64), 128 + (cp % 64)>>

CodePoint(hex) == FoldLeft(LAMBDA sum, b : 16 * sum + HexValue[b], 0, hex)

RECURSIVE StringFrom(_, _, _)

StringFrom(s, i, read) ==
    IF i >= Len(s) THEN Failed
    ELSE IF s[i + 1] = Quote THEN Got(read, i + 1)
    ELSE IF s[i + 1] # Backslash THEN StringFrom(s, i + 1, Append(read, s[i + 1]))
    ELSE IF Sees(s, i + 1, DOMAIN Unescaped) THEN StringFrom(s, i + 2, Append(read, Unescaped[s[i + 2]]))
    ELSE IF Sees(s, i + 1, {117}) /\ i + 6 <= Len(s) /\ ToSet(SubSeq(s, i + 3, i + 6)) \subseteq DOMAIN HexValue
      THEN StringFrom(s, i + 6, read \o Utf8(CodePoint(SubSeq(s, i + 3, i + 6))))
    ELSE Failed

parse_string(s, i) == IF Sees(s, i, {Quote}) THEN StringFrom(s, i + 1, <<>>) ELSE Failed

parse_word(s, i, word, v) == IF Starts(s, i, word) THEN Got(v, i + Len(word)) ELSE Failed

Decimal(digits) == FoldLeft(LAMBDA sum, b : 10 * sum + b - 48, 0, digits)

(* strtod: the longest beginning of the text that is a number, 0 if none.  *)
strtod(s) ==
    LET sign == Skip(s, 0, {43, 45})
        whole == Skip(s, sign, DigitBytes)
        part == IF Sees(s, whole, {46}) THEN Skip(s, whole + 1, DigitBytes) ELSE whole
        digits == SubSeq(s, sign + 1, whole) \o SubSeq(s, whole + 2, part)
        esign == IF Sees(s, part, {69, 101}) THEN part + (IF Sees(s, part + 1, {43, 45}) THEN 2 ELSE 1) ELSE part
        end == Skip(s, esign, DigitBytes)
        exp == Decimal(SubSeq(s, esign + 1, end))
    IN  IF sign > 1 \/ digits = <<>> THEN Num(0, 0)
        ELSE Num(IF sign = 1 /\ s[1] = 45 THEN -Decimal(digits) ELSE Decimal(digits),
                 (IF esign > part /\ s[esign] = 45 THEN -exp ELSE exp) - Len(digits) + whole - sign)

parse_number(s, i) ==
    LET end == Skip(s, i, DigitBytes \cup {43, 45, 46, 69, 101})
    IN  IF end = i THEN Failed ELSE Got(strtod(SubSeq(s, i + 1, end)), end)

RECURSIVE parse_value(_, _), ElementsFrom(_, _, _), MembersFrom(_, _, _)

(* Behind an element or a member: there is another one, or the end.        *)
AfterItem(s, i, close) ==
    LET j == skip_ws(s, i)
    IN  IF Sees(s, j, {Comma}) THEN Got("more", j + 1)
        ELSE IF Sees(s, j, {close}) THEN Got("over", j + 1)
        ELSE Failed

ElementsFrom(s, i, read) ==
    LET e == parse_value(s, i)
        after == AfterItem(s, e.i, 93)
        elements == Append(read, e.v)
    IN  IF ~e.ok THEN Failed
        ELSE IF ~after.ok THEN Failed
        ELSE IF after.v = "more" THEN ElementsFrom(s, after.i, elements)
        ELSE Got(Arr(elements), after.i)

(* Mutant: the last of several members with the same name counts.          *)
EmplaceOver(members, key, v) == (key :> v) @@ members

(* std::map::emplace: a member that is there already is kept.              *)
Emplace(members, key, v) == members @@ (key :> v)

MembersFrom(s, i, read) ==
    LET key == parse_string(s, skip_ws(s, i))
        colon == skip_ws(s, key.i)
        v == parse_value(s, colon + 1)
        after == AfterItem(s, v.i, 125)
        members == Emplace(read, key.v, v.v)
    IN  IF ~key.ok THEN Failed
        ELSE IF ~Sees(s, colon, {Colon}) THEN Failed
        ELSE IF ~v.ok THEN Failed
        ELSE IF ~after.ok THEN Failed
        ELSE IF after.v = "more" THEN MembersFrom(s, after.i, members)
        ELSE Got(Obj(members), after.i)

(* Behind the bracket that opens them.                                     *)
parse_object(s, i) ==
    IF Sees(s, skip_ws(s, i), {125}) THEN Got(Obj(<<>>), skip_ws(s, i) + 1) ELSE MembersFrom(s, i, <<>>)

parse_array(s, i) ==
    IF Sees(s, skip_ws(s, i), {93}) THEN Got(Arr(<<>>), skip_ws(s, i) + 1) ELSE ElementsFrom(s, i, <<>>)

parse_value(s, start) ==
    LET i == skip_ws(s, start)
        c == s[i + 1]
        string == parse_string(s, i)
    IN  IF i >= Len(s) THEN Failed
        ELSE IF c = 123 THEN parse_object(s, i + 1)
        ELSE IF c = 91 THEN parse_array(s, i + 1)
        ELSE IF c = Quote THEN IF string.ok THEN Got(Str(string.v), string.i) ELSE Failed
        ELSE IF c = 116 THEN parse_word(s, i, Ascii("true"), Bool(TRUE))
        ELSE IF c = 102 THEN parse_word(s, i, Ascii("false"), Bool(FALSE))
        ELSE IF c = 110 THEN parse_word(s, i, Ascii("null"), Null)
        ELSE parse_number(s, i)

(* What stands behind the value is not looked at.                          *)
json_parse(s) == parse_value(s, 0)
=============================================================================
