---------------------------- MODULE TextProofs ------------------------------
(***************************************************************************)
(* Text to tree, for every text: what lex() and parse() make of it is      *)
(* exact, compile() gets a source as it expects one, and the nodes follow  *)
(* the text.                                                               *)
(***************************************************************************)
EXTENDS CompileText, SequenceFacts, TLAPS

-----------------------------------------------------------------------------
(***************************************************************************)
(* Numbers.                                                                *)
(***************************************************************************)
(* What holds of 0, and of a number that follows one of which it holds,    *)
(* holds of all natural numbers.                                           *)
LEMMA FromZeroOn ==
    ASSUME NEW S, 0 \in S, \A n \in Nat : n \in S => n + 1 \in S
    PROVE  Nat \subseteq S
<1> DEFINE T == Nat \ S
<1> SUFFICES ASSUME T # {} PROVE FALSE
  OBVIOUS
<1>1. T \in SUBSET Nat
  OBVIOUS
<1>2. Min(T) \in T /\ \A x \in T : Min(T) <= x
  <2> HIDE DEF T
  <2> QED
    BY <1>1, MinProperties
<1> DEFINE m == Min(T)
<1>3. m \in Nat /\ m \notin S /\ m # 0 /\ \A x \in T : m <= x
  BY <1>2
<1> HIDE DEF m
<1>4. m - 1 \in Nat /\ ~ (m <= m - 1) /\ (m - 1) + 1 = m
  BY <1>3
<1>5. m - 1 \notin T
  BY <1>3, <1>4
<1>6. m - 1 \in S
  BY <1>4, <1>5
<1> QED
  BY <1>3, <1>4, <1>6

(* A function on 0 .. n may be given by its first value and a step.        *)
Recursion(f, n, V, base, step) ==
    f \in [0 .. n -> V] /\ f[0] = base /\ \A i \in 1 .. n : f[i] = step[<<i, f[i - 1]>>]

LEMMA RecursionExists ==
    ASSUME NEW V, NEW n \in Nat, NEW base \in V, NEW step \in [(1 .. n) \X V -> V]
    PROVE  \E f : Recursion(f, n, V, base, step)
<1> DEFINE S == {m \in Nat : m <= n => \E f : Recursion(f, m, V, base, step)}
<1>1. 0 \in S
  <2> DEFINE f == [i \in 0 .. 0 |-> base]
  <2>1. Recursion(f, 0, V, base, step)
    BY DEF Recursion
  <2> QED
    BY <2>1
<1>2. ASSUME NEW m \in Nat, m \in S PROVE m + 1 \in S
  <2> SUFFICES ASSUME m + 1 <= n PROVE \E f : Recursion(f, m + 1, V, base, step)
    OBVIOUS
  <2>1. PICK g : Recursion(g, m, V, base, step)
    BY <1>2
  <2> DEFINE next == step[<<m + 1, g[m]>>]
             f == [i \in 0 .. m + 1 |-> IF i = m + 1 THEN next ELSE g[i]]
  <2>2. next \in V /\ g[m] \in V
    BY <2>1 DEF Recursion
  <2>3. next = step[<<m + 1, g[m]>>]
    OBVIOUS
  <2> HIDE DEF next
  <2>4. f \in [0 .. m + 1 -> V] /\ f[m + 1] = next /\ \A i \in 0 .. m : f[i] = g[i]
    BY <2>1, <2>2 DEF Recursion
  <2> HIDE DEF f
  <2>5. \A i \in 1 .. m + 1 : f[i] = step[<<i, f[i - 1]>>]
    <3>1. ASSUME NEW i \in 1 .. m PROVE f[i] = step[<<i, f[i - 1]>>]
      <4>1. i \in 0 .. m /\ i - 1 \in 0 .. m
        OBVIOUS
      <4>2. f[i] = g[i] /\ f[i - 1] = g[i - 1] /\ g[i] = step[<<i, g[i - 1]>>]
        BY <2>1, <2>4, <4>1 DEF Recursion
      <4> QED
        BY <4>2
    <3>2. f[m] = g[m] /\ (m + 1) - 1 = m
      BY <2>4
    <3>3. f[m + 1] = step[<<m + 1, f[(m + 1) - 1]>>]
      BY <2>3, <2>4, <3>2
    <3>4. \A i \in 1 .. m + 1 : i \in 1 .. m \/ i = m + 1
      OBVIOUS
    <3> QED
      BY <3>1, <3>3, <3>4
  <2>6. f[0] = base
    BY <2>1, <2>4 DEF Recursion
  <2> QED
    BY <2>4, <2>5, <2>6 DEF Recursion
<1>3. Nat \subseteq S
  <2> HIDE DEF S
  <2> QED
    BY <1>1, <1>2, FromZeroOn
<1> QED
  BY <1>3

LEMMA DigitFacts ==
    ASSUME NEW c \in Digits
    PROVE  Digit(c) \in 0 .. 9
<1>1. PICK i \in DOMAIN DigitChars : DigitChars[i] = c
  BY DEF Digits, ToSet
<1>2. i \in 1 .. 10
  BY DEF DigitChars
<1> QED
  BY <1>1, <1>2 DEF Digit

MagnitudeStep(digits) ==
    [p \in (1 .. Len(digits)) \X Int |->
        IF p[2] = TooLarge \/ p[2] > (MaxInt - Digit(digits[p[1]])) \div 10 THEN TooLarge
        ELSE p[2] * 10 + Digit(digits[p[1]])]

LEMMA MagnitudeRecursion ==
    ASSUME NEW digits \in Seq(Digits)
    PROVE  \E v : /\ v \in [0 .. Len(digits) -> Int] /\ v[0] = 0
                  /\ \A i \in 1 .. Len(digits) :
                        v[i] = IF v[i - 1] = TooLarge \/ v[i - 1] > (MaxInt - Digit(digits[i])) \div 10 THEN TooLarge
                               ELSE v[i - 1] * 10 + Digit(digits[i])
                  /\ Magnitude(digits) = v[Len(digits)]
<1> DEFINE n == Len(digits)
           Next0(i, x) == IF x = TooLarge \/ x > (MaxInt - Digit(digits[i])) \div 10 THEN TooLarge
                          ELSE x * 10 + Digit(digits[i])
           Is(v) == v = [i \in 0 .. n |-> IF i = 0 THEN 0 ELSE Next0(i, v[i - 1])]
<1>1. n \in Nat
  OBVIOUS
<1>2. \A i \in 1 .. n, x \in Int : Next0(i, x) \in Int
  <2>1. \A i \in 1 .. n : digits[i] \in Digits
    BY ElementOfSeq
  <2> QED
    BY <2>1, DigitFacts DEF TooLarge
<1> DEFINE step == [p \in (1 .. n) \X Int |-> Next0(p[1], p[2])]
<1> HIDE DEF Next0, n
<1>3. step \in [(1 .. n) \X Int -> Int] /\ \A i \in 1 .. n, x \in Int : step[<<i, x>>] = Next0(i, x)
  BY <1>2
<1> HIDE DEF step
<1>4. PICK f : Recursion(f, n, Int, 0, step)
  <2>1. 0 \in Int
    OBVIOUS
  <2> QED
    BY <1>1, <1>3, <2>1, RecursionExists
<1>5. ASSUME NEW i \in 1 .. n PROVE f[i - 1] \in Int /\ f[i] = Next0(i, f[i - 1])
  <2>1. i - 1 \in 0 .. n
    BY <1>1
  <2>2. f[i - 1] \in Int /\ f[i] = step[<<i, f[i - 1]>>]
    BY <1>4, <2>1 DEF Recursion
  <2> QED
    BY <1>3, <2>2
<1>6. Is(f)
  <2>1. f = [i \in 0 .. n |-> f[i]] /\ f[0] = 0
    BY <1>4 DEF Recursion
  <2>2. \A i \in 0 .. n : f[i] = IF i = 0 THEN 0 ELSE Next0(i, f[i - 1])
    <3>1. \A i \in 0 .. n : i = 0 \/ (i \in 1 .. n /\ i # 0)
      BY <1>1
    <3> QED
      BY <1>5, <2>1, <3>1
  <2> QED
    BY <2>1, <2>2
<1> DEFINE v == CHOOSE w : Is(w)
<1>7. Is(v)
  <2> HIDE DEF Is
  <2> QED
    BY <1>6
<1>8. Magnitude(digits) = v[n]
  BY DEF Magnitude, Next0, n
<1> HIDE DEF v
<1>9. v[0] = 0 /\ \A i \in 1 .. n : v[i] = Next0(i, v[i - 1])
  <2>1. 0 \in 0 .. n /\ \A i \in 1 .. n : i \in 0 .. n /\ i # 0
    BY <1>1
  <2> QED
    BY <1>7, <2>1
<1>10. v \in [0 .. n -> Int]
  <2> DEFINE S == {m \in Nat : m <= n => v[m] \in Int}
  <2>1. 0 \in S
    BY <1>9
  <2>2. ASSUME NEW m \in Nat, m \in S PROVE m + 1 \in S
    <3> SUFFICES ASSUME m + 1 <= n PROVE v[m + 1] \in Int
      OBVIOUS
    <3>1. m + 1 \in 1 .. n /\ (m + 1) - 1 = m /\ v[m] \in Int
      BY <1>1, <2>2
    <3> QED
      BY <1>2, <1>9, <3>1
  <2>3. Nat \subseteq S
    <3> HIDE DEF S
    <3> QED
      BY <2>1, <2>2, FromZeroOn
  <2>4. \A m \in 0 .. n : v[m] \in Int
    BY <1>1, <2>3
  <2> QED
    BY <1>7, <2>4
<1> QED
  BY <1>8, <1>9, <1>10 DEF Next0, n

LEMMA DecimalRecursion ==
    ASSUME NEW digits \in Seq(Digits)
    PROVE  \E d : /\ d \in [0 .. Len(digits) -> Nat] /\ d[0] = 0
                  /\ \A i \in 1 .. Len(digits) : d[i] = 10 * d[i - 1] + Digit(digits[i])
                  /\ Decimal(digits) = d[Len(digits)]
<1> DEFINE n == Len(digits)
           Next0(i, x) == 10 * x + Digit(digits[i])
           Is(v) == v = [i \in 0 .. n |-> IF i = 0 THEN 0 ELSE Next0(i, v[i - 1])]
<1>1. n \in Nat
  OBVIOUS
<1>2. \A i \in 1 .. n, x \in Nat : Next0(i, x) \in Nat
  <2>1. \A i \in 1 .. n : digits[i] \in Digits
    BY ElementOfSeq
  <2> QED
    BY <2>1, DigitFacts
<1> DEFINE step == [p \in (1 .. n) \X Nat |-> Next0(p[1], p[2])]
<1> HIDE DEF Next0, n
<1>3. step \in [(1 .. n) \X Nat -> Nat] /\ \A i \in 1 .. n, x \in Nat : step[<<i, x>>] = Next0(i, x)
  BY <1>2
<1> HIDE DEF step
<1>4. PICK f : Recursion(f, n, Nat, 0, step)
  <2>1. 0 \in Nat
    OBVIOUS
  <2> QED
    BY <1>1, <1>3, <2>1, RecursionExists
<1>5. ASSUME NEW i \in 1 .. n PROVE f[i - 1] \in Nat /\ f[i] = Next0(i, f[i - 1])
  <2>1. i - 1 \in 0 .. n
    BY <1>1
  <2>2. f[i - 1] \in Nat /\ f[i] = step[<<i, f[i - 1]>>]
    BY <1>4, <2>1 DEF Recursion
  <2> QED
    BY <1>3, <2>2
<1>6. Is(f)
  <2>1. f = [i \in 0 .. n |-> f[i]] /\ f[0] = 0
    BY <1>4 DEF Recursion
  <2>2. \A i \in 0 .. n : f[i] = IF i = 0 THEN 0 ELSE Next0(i, f[i - 1])
    <3>1. \A i \in 0 .. n : i = 0 \/ (i \in 1 .. n /\ i # 0)
      BY <1>1
    <3> QED
      BY <1>5, <2>1, <3>1
  <2> QED
    BY <2>1, <2>2
<1> DEFINE v == CHOOSE w : Is(w)
<1>7. Is(v)
  <2> HIDE DEF Is
  <2> QED
    BY <1>6
<1>8. Decimal(digits) = v[n]
  BY DEF Decimal, Next0, n
<1> HIDE DEF v
<1>9. v[0] = 0 /\ \A i \in 1 .. n : v[i] = Next0(i, v[i - 1])
  <2>1. 0 \in 0 .. n /\ \A i \in 1 .. n : i \in 0 .. n /\ i # 0
    BY <1>1
  <2> QED
    BY <1>7, <2>1
<1>10. v \in [0 .. n -> Nat]
  <2> DEFINE S == {m \in Nat : m <= n => v[m] \in Nat}
  <2>1. 0 \in S
    BY <1>9
  <2>2. ASSUME NEW m \in Nat, m \in S PROVE m + 1 \in S
    <3> SUFFICES ASSUME m + 1 <= n PROVE v[m + 1] \in Nat
      OBVIOUS
    <3>1. m + 1 \in 1 .. n /\ (m + 1) - 1 = m /\ v[m] \in Nat
      BY <1>1, <2>2
    <3> QED
      BY <1>2, <1>9, <3>1
  <2>3. Nat \subseteq S
    <3> HIDE DEF S
    <3> QED
      BY <2>1, <2>2, FromZeroOn
  <2>4. \A m \in 0 .. n : v[m] \in Nat
    BY <1>1, <2>3
  <2> QED
    BY <1>7, <2>4
<1> QED
  BY <1>8, <1>9, <1>10 DEF Next0, n

(* parse_int() computes the decimal value, or tells that it is too large:  *)
(* the bound it tests before a multiplication is exact.                    *)
LEMMA MagnitudeExact ==
    ASSUME NEW digits \in Seq(Digits)
    PROVE  /\ Decimal(digits) \in Nat
           /\ Magnitude(digits) = IF Decimal(digits) > MaxInt THEN TooLarge ELSE Decimal(digits)
<1> DEFINE n == Len(digits)
<1>1. PICK v : /\ v \in [0 .. n -> Int] /\ v[0] = 0
               /\ \A i \in 1 .. n :
                     v[i] = IF v[i - 1] = TooLarge \/ v[i - 1] > (MaxInt - Digit(digits[i])) \div 10 THEN TooLarge
                            ELSE v[i - 1] * 10 + Digit(digits[i])
               /\ Magnitude(digits) = v[n]
  BY MagnitudeRecursion
<1>2. PICK d : /\ d \in [0 .. n -> Nat] /\ d[0] = 0
               /\ \A i \in 1 .. n : d[i] = 10 * d[i - 1] + Digit(digits[i])
               /\ Decimal(digits) = d[n]
  BY DecimalRecursion
<1>3. n \in Nat /\ \A i \in 1 .. n : Digit(digits[i]) \in 0 .. 9
  BY ElementOfSeq, DigitFacts
<1>4. MaxInt \in Nat
  BY LexerAssumption
<1> HIDE DEF n
<1> DEFINE S == {m \in Nat : m <= n => v[m] = IF d[m] > MaxInt THEN TooLarge ELSE d[m]}
<1>5. 0 \in S
  BY <1>1, <1>2, <1>4
<1>6. ASSUME NEW m \in Nat, m \in S PROVE m + 1 \in S
  <2> SUFFICES ASSUME m + 1 <= n PROVE v[m + 1] = IF d[m + 1] > MaxInt THEN TooLarge ELSE d[m + 1]
    OBVIOUS
  <2> DEFINE x == Digit(digits[m + 1])
             a == d[m]
  <2>1. m + 1 \in 1 .. n /\ (m + 1) - 1 = m /\ m \in 0 .. n
    BY <1>3
  <2>2. x \in 0 .. 9 /\ a \in Nat /\ v[m] = (IF a > MaxInt THEN TooLarge ELSE a) /\ d[m + 1] = 10 * a + x
    BY <1>2, <1>3, <1>6, <2>1
  <2>3. v[m + 1] = IF v[m] = TooLarge \/ v[m] > (MaxInt - x) \div 10 THEN TooLarge ELSE v[m] * 10 + x
    BY <1>1, <2>1
  <2> HIDE DEF x, a
  <2>4. a > (MaxInt - x) \div 10 <=> 10 * a + x > MaxInt
    <3> DEFINE y == MaxInt - x
    <3>1. y \in Int
      BY <1>4, <2>2
    <3> HIDE DEF y
    <3>2. a > y \div 10 <=> 10 * a > y
      BY <2>2, <3>1
    <3> QED
      BY <1>4, <2>2, <3>2 DEF y
  <2>5. CASE a > MaxInt
    BY <1>4, <2>2, <2>3, <2>5
  <2>6. CASE ~ (a > MaxInt)
    <3>1. v[m] = a /\ a # TooLarge
      BY <2>2, <2>6 DEF TooLarge
    <3> QED
      BY <1>4, <2>2, <2>3, <2>4, <3>1
  <2> QED
    BY <2>5, <2>6
<1>7. Nat \subseteq S
  <2> HIDE DEF S
  <2> QED
    BY <1>5, <1>6, FromZeroOn
<1>8. v[n] = IF d[n] > MaxInt THEN TooLarge ELSE d[n]
  BY <1>3, <1>7
<1>9. d[n] \in Nat
  BY <1>2, <1>3
<1> QED
  BY <1>1, <1>2, <1>8, <1>9

-----------------------------------------------------------------------------
(***************************************************************************)
(* The text and the places in it.                                          *)
(***************************************************************************)
Chars == {text[i] : i \in 1 .. Len(text)}

LEMMA TextFacts ==
    ASSUME text \in Texts
    PROVE  text \in Seq(Chars) /\ Len(text) \in Nat
<1>1. Len(text) \in Nat /\ text = [i \in 1 .. Len(text) |-> text[i]]
  BY LexerAssumption
<1>2. \A i \in 1 .. Len(text) : text[i] \in Chars
  BY DEF Chars
<1> QED
  BY <1>1, <1>2

LEMMA CharFacts ==
    /\ SymbolChars \cap (Blanks \cup {"(", ")", ";"}) = {}
    /\ "nl" \in Blanks /\ ";" \notin Blanks /\ "(" \notin Blanks /\ ")" \notin Blanks
    /\ "(" # ";" /\ ")" # ";" /\ "(" # ")"
    /\ Digits \subseteq SymbolChars /\ "-" \notin Digits
<1>1. Digits = {"0", "1", "2", "3", "4", "5", "6", "7", "8", "9"}
  <2>1. DOMAIN DigitChars = 1 .. 10
    BY DEF DigitChars
  <2>2. 1 .. 10 = {1, 2, 3, 4, 5, 6, 7, 8, 9, 10}
    OBVIOUS
  <2>3. Digits = {DigitChars[i] : i \in {1, 2, 3, 4, 5, 6, 7, 8, 9, 10}}
    BY <2>1, <2>2 DEF Digits, ToSet
  <2> QED
    BY <2>3 DEF DigitChars
<1>2. Letters \cap (Blanks \cup {"(", ")", ";"}) = {}
  BY LexerAssumption
<1> QED
  BY <1>1, <1>2 DEF SymbolChars, Blanks

(* The comments: one begins with a semicolon and ends before a line break. *)
LEMMA CommentGoesOn ==
    ASSUME text \in Texts, NEW o \in 0 .. Len(text) - 1
    PROVE  Commented(o + 1) <=> text[o + 1] # "nl" /\ (Commented(o) \/ text[o + 1] = ";")
<1>1. Len(text) \in Nat
  BY TextFacts
<1>2. ASSUME Commented(o + 1)
      PROVE  text[o + 1] # "nl" /\ (Commented(o) \/ text[o + 1] = ";")
  <2>1. PICK j \in 1 .. o + 1 : text[j] = ";" /\ \A k \in j .. o + 1 : text[k] # "nl"
    BY <1>2 DEF Commented
  <2>2. o + 1 \in j .. o + 1
    BY <1>1
  <2>3. CASE j = o + 1
    BY <2>1, <2>2, <2>3
  <2>4. CASE j # o + 1
    <3>1. j \in 1 .. o /\ \A k \in j .. o : k \in j .. o + 1
      BY <1>1, <2>4
    <3> QED
      BY <2>1, <2>2, <3>1 DEF Commented
  <2> QED
    BY <2>3, <2>4
<1>3. ASSUME text[o + 1] # "nl", Commented(o) PROVE Commented(o + 1)
  <2>1. PICK j \in 1 .. o : text[j] = ";" /\ \A k \in j .. o : text[k] # "nl"
    BY <1>3 DEF Commented
  <2>2. j \in 1 .. o + 1 /\ \A k \in j .. o + 1 : k \in j .. o \/ k = o + 1
    BY <1>1
  <2> QED
    BY <1>3, <2>1, <2>2 DEF Commented
<1>4. ASSUME text[o + 1] # "nl", text[o + 1] = ";" PROVE Commented(o + 1)
  <2>1. o + 1 \in 1 .. o + 1 /\ \A k \in o + 1 .. o + 1 : k = o + 1
    BY <1>1
  <2> QED
    BY <1>4, <2>1 DEF Commented
<1> QED
  BY <1>2, <1>3, <1>4

LEMMA NoCommentAtStart == ~Commented(0)
BY DEF Commented

(* A set of numbers with a bound has a greatest one.                       *)
LEMMA GreatestInterval ==
    ASSUME NEW n \in Nat, NEW S \in SUBSET (1 .. n), S # {}
    PROVE  Max(S) \in S /\ \A x \in S : Max(S) >= x
<1> DEFINE T == {n - x : x \in S}
<1>1. T \in SUBSET Nat /\ T # {}
  <2>1. \A x \in S : n - x \in Nat
    OBVIOUS
  <2> QED
    BY <2>1
<1>2. Min(T) \in T /\ \A y \in T : Min(T) <= y
  <2> HIDE DEF T
  <2> QED
    BY <1>1, MinProperties
<1>3. PICK x \in S : Min(T) = n - x
  BY <1>2
<1>4. \A y \in S : n - y \in T
  OBVIOUS
<1> HIDE DEF T
<1>5. \A y \in S : x >= y
  BY <1>2, <1>3, <1>4
<1> QED
  BY <1>5 DEF Max

LEMMA FiniteInterval ==
    ASSUME NEW n \in Nat
    PROVE  IsFiniteSet(1 .. n)
<1>1. n \in Int /\ 1 \in Int
  OBVIOUS
<1> QED
  BY <1>1, FS_Interval

(* advance() keeps line and column in step with the offset.                *)
Breaks(o) == {i \in 1 .. o : text[i] = "nl"}

LEMMA PlaceOfBreaks ==
    ASSUME NEW o
    PROVE  /\ PlaceOf(o) = Place(o, 1 + Cardinality(Breaks(o)),
                                 IF Breaks(o) = {} THEN o + 1 ELSE o + 1 - Max(Breaks(o)))
           /\ PlaceOf(o).offset = o
BY DEF PlaceOf, Breaks, Place

LEMMA AdvancedPlace ==
    ASSUME text \in Texts, at.offset \in 0 .. Len(text), at = PlaceOf(at.offset), ~AtEnd
    PROVE  /\ Advanced = PlaceOf(at.offset + 1) /\ Advanced.offset = at.offset + 1
           /\ at.offset + 1 \in 0 .. Len(text) /\ at.offset \in 0 .. Len(text) - 1
<1> DEFINE o == at.offset
           old == Breaks(o)
           new == Breaks(o + 1)
<1>1. Len(text) \in Nat /\ o \in Nat /\ o + 1 \in 0 .. Len(text) /\ o \in 0 .. Len(text) - 1
  BY TextFacts DEF AtEnd
<1>2. IsFiniteSet(old) /\ Cardinality(old) \in Nat /\ o + 1 \notin old
  <2>1. IsFiniteSet(1 .. o)
    BY <1>1, FiniteInterval
  <2>2. IsFiniteSet(old)
    BY <2>1, FS_Subset DEF Breaks
  <2> QED
    BY <1>1, <2>2, FS_CardinalityType DEF Breaks
<1>3. at = Place(o, 1 + Cardinality(old), IF old = {} THEN o + 1 ELSE o + 1 - Max(old))
  BY PlaceOfBreaks
<1>4. PlaceOf(o + 1) = Place(o + 1, 1 + Cardinality(new), IF new = {} THEN (o + 1) + 1 ELSE (o + 1) + 1 - Max(new))
  BY PlaceOfBreaks
<1>5. \A i \in 1 .. o + 1 : i \in 1 .. o \/ i = o + 1
  BY <1>1
<1>6. CASE char = "nl"
  <2>1. new = old \cup {o + 1}
    BY <1>1, <1>5, <1>6 DEF Breaks, char
  <2>2. Cardinality(new) = Cardinality(old) + 1
    BY <1>2, <2>1, FS_AddElement
  <2>3. Max(new) = o + 1
    <3>1. \A y \in new : o + 1 >= y /\ y \in Int
      BY <1>1, <2>1 DEF Breaks
    <3>2. o + 1 \in new
      BY <2>1
    <3>3. Max(new) \in new /\ \A y \in new : Max(new) >= y
      BY <3>1, <3>2 DEF Max
    <3> HIDE DEF new
    <3> QED
      BY <1>1, <3>1, <3>2, <3>3
  <2>4. PlaceOf(o + 1) = Place(o + 1, 1 + (Cardinality(old) + 1), 1)
    <3>1. new # {}
      BY <2>1
    <3>2. (o + 1) + 1 - (o + 1) = 1
      BY <1>1
    <3> QED
      BY <1>4, <2>2, <2>3, <3>1, <3>2
  <2>5. at.line = 1 + Cardinality(old)
    BY <1>3 DEF Place
  <2>6. at.line + 1 = 1 + (Cardinality(old) + 1)
    BY <1>2, <2>5
  <2> QED
    BY <1>1, <1>6, <2>4, <2>6 DEF Advanced, Place
<1>7. CASE char # "nl"
  <2>1. new = old
    BY <1>1, <1>5, <1>7 DEF Breaks, char
  <2>2. at.line = 1 + Cardinality(old)
    BY <1>3 DEF Place
  <2>3. at.column = IF old = {} THEN o + 1 ELSE o + 1 - Max(old)
    BY <1>3 DEF Place
  <2>4. at.column + 1 = IF old = {} THEN (o + 1) + 1 ELSE (o + 1) + 1 - Max(old)
    <3>1. CASE old = {}
      BY <1>1, <2>3, <3>1
    <3>2. CASE old # {}
      <4>1. old \in SUBSET (1 .. o)
        BY DEF Breaks
      <4>2. Max(old) \in Int
        <5> HIDE DEF old, o
        <5>1. Max(old) \in old
          BY <1>1, <3>2, <4>1, GreatestInterval
        <5>2. Max(old) \in 1 .. o
          BY <4>1, <5>1
        <5> QED
          BY <5>2
      <4> HIDE DEF old
      <4> QED
        BY <1>1, <2>3, <3>2, <4>2
    <3> QED
      BY <3>1, <3>2
  <2> QED
    BY <1>1, <1>4, <1>7, <2>1, <2>2, <2>4 DEF Advanced, Place
<1> QED
  BY <1>1, <1>6, <1>7

-----------------------------------------------------------------------------
(***************************************************************************)
(* The inductive invariant of the lexer.                                   *)
(***************************************************************************)
(* Everything before this place is in a token, blank, a comment or refused.*)
Consumed == IF mode = "word" THEN begun.offset ELSE at.offset

PlaceOK(p) == p.offset \in Nat /\ p.offset <= Len(text) /\ p = PlaceOf(p.offset)

IsWord(t) == t.kind \in {"Symbol", "Integer"}

IsParen(t) == t.kind \in {"LParen", "RParen"}

Visible == SymbolChars \cup {"(", ")"}

ValueOK(t) ==
    t.kind = "Integer" =>
        LET value == Decimal(Unsigned(t.word))
        IN  ~(value > MaxInt) => t.integer = IF t.word[1] = "-" THEN -value ELSE value

TokenOK(t) ==
    /\ IsWord(t) \/ IsParen(t) \/ t.kind = "End"
    /\ PlaceOK(t.span.from) /\ PlaceOK(t.span.to) /\ t.span = Span(t.span.from, t.span.to)
    /\ t.span.from.offset <= t.span.to.offset
    /\ t.word = SubSeq(text, t.span.from.offset + 1, t.span.to.offset)
    /\ \A i \in t.span.from.offset + 1 .. t.span.to.offset : text[i] \in Visible /\ ~Commented(i)
    /\ t.kind = "End" <=> t.span.from.offset = t.span.to.offset
    /\ t.integer \in -MaxInt .. MaxInt /\ ValueOK(t)

TokensFit(toks, upto) ==
    /\ \E S : toks \in Seq(S)
    /\ \A k \in 1 .. Len(toks) : TokenOK(toks[k]) /\ toks[k].span.to.offset <= upto
    /\ \A k, l \in 1 .. Len(toks) : k < l => toks[k].span.to.offset <= toks[l].span.from.offset
    /\ \A k \in 1 .. Len(toks) - 1 :
          toks[k].span.to.offset = toks[k + 1].span.from.offset =>
              ~IsWord(toks[k]) \/ ~IsWord(toks[k + 1])

Covered(toks, upto) ==
    \A i \in 1 .. upto :
        ~Commented(i) /\ text[i] \in Visible => \E k \in 1 .. Len(toks) : Within(i, toks[k].span)

(* What is wrong with the text, and how it is complained about: characters,*)
(* words, and parentheses, of which the lexer knows nothing.               *)
Unexpected(upto) == {i \in 1 .. upto : ~Commented(i) /\ text[i] \notin Blanks \cup Visible}

BadWords(toks) == {k \in 1 .. Len(toks) : BadWord(toks[k])}

CharSpan(i) == Span(PlaceOf(i - 1), PlaceOf(i))

(* One complaint for each token of W and each character of U.             *)
Answers(comps, toks, W, U) ==
    /\ \E S : comps \in Seq(S)
    /\ Len(comps) = Cardinality(U) + Cardinality(W)
    /\ \A k \in W : \E c \in 1 .. Len(comps) : comps[c] = toks[k].span
    /\ \A i \in U : \E c \in 1 .. Len(comps) : comps[c] = CharSpan(i)
    /\ \A c \in 1 .. Len(comps) :
          \/ \E k \in W : comps[c] = toks[k].span
          \/ \E i \in U : comps[c] = CharSpan(i)

Complains(comps, toks, upto, parens) ==
    Answers(comps, toks, BadWords(toks) \cup parens, Unexpected(upto))

CommentOK ==
    /\ mode = "between" /\ Commented(at.offset) => AtEnd \/ char = "nl"
    /\ mode = "comment" => Commented(at.offset) \/ Reads({";"})

WordOK ==
    mode = "word" =>
        /\ begun.offset <= at.offset /\ ~Commented(at.offset)
        /\ word = SubSeq(text, begun.offset + 1, at.offset)
        /\ \A i \in begun.offset + 1 .. at.offset : text[i] \in SymbolChars /\ ~Commented(i)
        /\ begun.offset = at.offset => Reads(SymbolChars)

(* A word ends only where it has to.                                       *)
LastOK ==
    /\ tokens # <<>> /\ IsWord(tokens[Len(tokens)])
    /\ tokens[Len(tokens)].span.to.offset = Consumed
    => mode # "word" /\ ~Reads(SymbolChars)

EndOK ==
    /\ \A k \in 1 .. Len(tokens) : tokens[k].kind = "End" => mode = "lexed" /\ k = Len(tokens)
    /\ mode = "lexed" => AtEnd /\ tokens # <<>> /\ tokens[Len(tokens)].kind = "End"

ReadOK ==
    /\ text \in Texts /\ mode \in Modes
    /\ PlaceOK(at) /\ PlaceOK(begun)
    /\ CommentOK /\ WordOK /\ LastOK /\ EndOK
    /\ TokensFit(tokens, Consumed) /\ Covered(tokens, Consumed)

Lexed == ReadOK /\ Complains(complaints, tokens, Consumed, {})

-----------------------------------------------------------------------------
(***************************************************************************)
(* Tokens and complaints are added at the end.                             *)
(***************************************************************************)
LEMMA SameText ==
    ASSUME text' = text
    PROVE  /\ \A o : Commented(o)' <=> Commented(o)
           /\ \A p : PlaceOK(p)' <=> PlaceOK(p)
           /\ \A toks, upto : TokensFit(toks, upto)' <=> TokensFit(toks, upto)
           /\ \A toks, upto : Covered(toks, upto)' <=> Covered(toks, upto)
           /\ \A comps, toks, upto, parens :
                 Complains(comps, toks, upto, parens)' <=> Complains(comps, toks, upto, parens)
<1>1. \A o : Commented(o)' <=> Commented(o)
  BY DEF Commented
<1>2. \A o : PlaceOf(o)' = PlaceOf(o)
  BY DEF PlaceOf
<1>3. \A p : PlaceOK(p)' <=> PlaceOK(p)
  BY <1>2 DEF PlaceOK
<1>4. \A t : TokenOK(t)' <=> TokenOK(t)
  BY <1>1, <1>3 DEF TokenOK
<1>5. \A toks, upto : TokensFit(toks, upto)' <=> TokensFit(toks, upto)
  BY <1>4 DEF TokensFit
<1>6. \A toks, upto : Covered(toks, upto)' <=> Covered(toks, upto)
  BY <1>1 DEF Covered
<1>7. \A upto : Unexpected(upto)' = Unexpected(upto)
  BY <1>1 DEF Unexpected
<1>8. \A i : CharSpan(i)' = CharSpan(i)
  BY <1>2 DEF CharSpan
<1>9. \A comps, toks, W, U : Answers(comps, toks, W, U)' <=> Answers(comps, toks, W, U)
  BY <1>8 DEF Answers
<1>10. \A comps, toks, upto, parens :
           Complains(comps, toks, upto, parens)' <=> Complains(comps, toks, upto, parens)
  BY <1>7, <1>9 DEF Complains
<1> QED
  BY <1>1, <1>3, <1>5, <1>6, <1>10

LEMMA GrownSeq ==
    ASSUME NEW s, \E S : s \in Seq(S), NEW m
    PROVE  /\ \E S : Append(s, m) \in Seq(S)
           /\ Len(s) \in Nat /\ Len(Append(s, m)) = Len(s) + 1
           /\ Append(s, m)[Len(s) + 1] = m
           /\ \A i \in 1 .. Len(s) : Append(s, m)[i] = s[i]
           /\ s = <<>> <=> Len(s) = 0
<1>1. PICK S : s \in Seq(S)
  OBVIOUS
<1>2. /\ Len(s) \in Nat /\ Len(Append(s, m)) = Len(s) + 1
      /\ Append(s, m)[Len(s) + 1] = m
      /\ \A i \in 1 .. Len(s) : Append(s, m)[i] = s[i]
  BY <1>1, Appended
<1>3. \E R : Append(s, m) \in Seq(R)
  BY AnySeq
<1>4. s = <<>> <=> Len(s) = 0
  BY <1>1, EmptySeq
<1> QED
  BY <1>2, <1>3, <1>4

LEMMA FitFurther ==
    ASSUME NEW toks, NEW a \in Nat, NEW b \in Nat, a <= b, TokensFit(toks, a)
    PROVE  TokensFit(toks, b)
<1>1. \A k \in 1 .. Len(toks) : toks[k].span.to.offset <= b
  <2> SUFFICES ASSUME NEW k \in 1 .. Len(toks) PROVE toks[k].span.to.offset <= b
    OBVIOUS
  <2>1. toks[k].span.to.offset <= a /\ toks[k].span.to.offset \in 0 .. Len(text)
    BY DEF TokensFit, TokenOK, PlaceOK
  <2> QED
    BY <2>1
<1> QED
  BY <1>1 DEF TokensFit

LEMMA FitToken ==
    ASSUME NEW toks, NEW a \in Nat, TokensFit(toks, a), NEW t, TokenOK(t),
           a <= t.span.from.offset, NEW b \in Nat, t.span.to.offset <= b,
           toks # <<>> /\ IsWord(toks[Len(toks)]) /\ toks[Len(toks)].span.to.offset = t.span.from.offset
              => ~IsWord(t)
    PROVE  TokensFit(Append(toks, t), b)
<1> DEFINE n == Len(toks)
           all == Append(toks, t)
<1>1. /\ \E S : all \in Seq(S)
      /\ n \in Nat /\ Len(all) = n + 1 /\ all[n + 1] = t
      /\ \A k \in 1 .. n : all[k] = toks[k]
      /\ toks = <<>> => n = 0
  <2>1. \E S : toks \in Seq(S)
    BY DEF TokensFit
  <2>2. \E S : all \in Seq(S)
    BY <2>1, GrownSeq
  <2>3. n \in Nat /\ Len(all) = n + 1 /\ all[n + 1] = t
    BY <2>1, GrownSeq
  <2>4. \A k \in 1 .. n : all[k] = toks[k]
    BY <2>1, GrownSeq
  <2>5. toks = <<>> => n = 0
    BY <2>1, GrownSeq
  <2> QED
    BY <2>2, <2>3, <2>4, <2>5
<1>2. \A k \in 1 .. n : /\ TokenOK(toks[k]) /\ toks[k].span.to.offset <= a
                        /\ toks[k].span.to.offset \in Nat /\ toks[k].span.from.offset \in Nat
  BY DEF TokensFit, TokenOK, PlaceOK
<1>3. t.span.from.offset \in Nat /\ t.span.to.offset \in Nat
  BY DEF TokenOK, PlaceOK
<1>4. /\ \A k, l \in 1 .. n : k < l => toks[k].span.to.offset <= toks[l].span.from.offset
      /\ \A k \in 1 .. n - 1 :
            toks[k].span.to.offset = toks[k + 1].span.from.offset =>
                ~IsWord(toks[k]) \/ ~IsWord(toks[k + 1])
  BY DEF TokensFit
<1>5. n # 0 => toks # <<>>
  BY EmptySeq
<1> HIDE DEF n, all
<1>6. \A k \in 1 .. n + 1 : k \in 1 .. n \/ k = n + 1
  BY <1>1
<1>7. a <= b
  <2>1. t.span.from.offset <= t.span.to.offset
    BY DEF TokenOK
  <2> QED
    BY <1>3, <2>1
<1>8. ASSUME NEW k \in 1 .. n + 1 PROVE TokenOK(all[k]) /\ all[k].span.to.offset <= b
  <2>1. CASE k = n + 1
    BY <1>1, <2>1
  <2>2. CASE k \in 1 .. n
    <3>1. all[k] = toks[k] /\ TokenOK(toks[k])
      BY <1>1, <1>2, <2>2
    <3>2. toks[k].span.to.offset <= b
      BY <1>2, <1>7, <2>2
    <3> QED
      BY <3>1, <3>2
  <2> QED
    BY <1>6, <2>1, <2>2
<1>9. ASSUME NEW k \in 1 .. n + 1, NEW l \in 1 .. n + 1, k < l
      PROVE  all[k].span.to.offset <= all[l].span.from.offset
  <2>1. k \in 1 .. n
    BY <1>1, <1>9
  <2>2. CASE l = n + 1
    <3>1. toks[k].span.to.offset <= t.span.from.offset
      BY <1>2, <1>3, <2>1
    <3> QED
      BY <1>1, <2>1, <2>2, <3>1
  <2>3. CASE l \in 1 .. n
    BY <1>1, <1>4, <1>9, <2>1, <2>3
  <2> QED
    BY <1>6, <2>2, <2>3
<1>10. ASSUME NEW k \in 1 .. (n + 1) - 1, all[k].span.to.offset = all[k + 1].span.from.offset
       PROVE  ~IsWord(all[k]) \/ ~IsWord(all[k + 1])
  <2>1. k \in 1 .. n /\ k + 1 \in 1 .. n + 1
    BY <1>1
  <2>2. CASE k = n
    <3>1. all[k] = toks[n] /\ all[k + 1] = t /\ toks # <<>>
      BY <1>1, <1>5, <2>1, <2>2
    <3> QED
      BY <1>10, <3>1 DEF n
  <2>3. CASE k # n
    <3>1. k \in 1 .. n - 1 /\ k + 1 \in 1 .. n
      BY <1>1, <2>1, <2>3
    <3>2. all[k] = toks[k] /\ all[k + 1] = toks[k + 1]
      BY <1>1, <2>1, <3>1
    <3> QED
      BY <1>4, <1>10, <3>1, <3>2
  <2> QED
    BY <2>2, <2>3
<1>11. TokensFit(all, b)
  BY <1>1, <1>8, <1>9, <1>10 DEF TokensFit
<1> QED
  BY <1>11 DEF all

LEMMA CoveredFurther ==
    ASSUME NEW toks, NEW a \in Nat, NEW b \in Nat, Covered(toks, a),
           \A i \in a + 1 .. b : Commented(i) \/ text[i] \notin Visible
    PROVE  Covered(toks, b)
<1>1. \A i \in 1 .. b : i \in 1 .. a \/ i \in a + 1 .. b
  OBVIOUS
<1> QED
  BY <1>1 DEF Covered

LEMMA CoveredToken ==
    ASSUME NEW toks, \E S : toks \in Seq(S), NEW a \in Nat, NEW b \in Nat, Covered(toks, a), NEW t,
           \A i \in a + 1 .. b : Commented(i) \/ text[i] \notin Visible \/ Within(i, t.span)
    PROVE  Covered(Append(toks, t), b)
<1> DEFINE n == Len(toks)
           all == Append(toks, t)
<1>1. /\ n \in Nat /\ Len(all) = n + 1 /\ all[n + 1] = t
      /\ \A k \in 1 .. n : all[k] = toks[k]
  BY GrownSeq
<1>2. \A i \in 1 .. a : ~Commented(i) /\ text[i] \in Visible => \E k \in 1 .. n : Within(i, toks[k].span)
  BY DEF Covered
<1> HIDE DEF n, all
<1>3. \A k \in 1 .. n : k \in 1 .. n + 1
  BY <1>1
<1>4. n + 1 \in 1 .. n + 1
  BY <1>1
<1>5. ASSUME NEW i \in 1 .. b, ~Commented(i), text[i] \in Visible
      PROVE  \E k \in 1 .. n + 1 : Within(i, all[k].span)
  <2>1. CASE i \in 1 .. a
    <3>1. PICK k \in 1 .. n : Within(i, toks[k].span)
      BY <1>2, <1>5, <2>1
    <3> QED
      BY <1>1, <1>3, <3>1
  <2>2. CASE i \in a + 1 .. b
    <3>1. Within(i, all[n + 1].span)
      BY <1>1, <1>5, <2>2
    <3> QED
      BY <1>4, <3>1
  <2> QED
    BY <2>1, <2>2
<1>6. Covered(all, b)
  BY <1>1, <1>5 DEF Covered
<1> QED
  BY <1>6 DEF all

LEMMA UnexpectedFacts ==
    ASSUME NEW a \in Nat
    PROVE  IsFiniteSet(Unexpected(a)) /\ Cardinality(Unexpected(a)) \in Nat
<1>1. IsFiniteSet(1 .. a)
  BY FiniteInterval
<1>2. IsFiniteSet(Unexpected(a))
  BY <1>1, FS_Subset DEF Unexpected
<1> QED
  BY <1>2, FS_CardinalityType

LEMMA NoneUnexpected ==
    ASSUME NEW a \in Nat, NEW b \in Nat, a <= b,
           \A i \in a + 1 .. b : Commented(i) \/ text[i] \in Blanks \cup Visible
    PROVE  Unexpected(b) = Unexpected(a)
<1>1. \A i \in 1 .. b : i \in 1 .. a \/ i \in a + 1 .. b
  OBVIOUS
<1>2. \A i \in 1 .. a : i \in 1 .. b
  OBVIOUS
<1> QED
  BY <1>1, <1>2 DEF Unexpected

LEMMA OneUnexpected ==
    ASSUME NEW a \in Nat, ~Commented(a + 1), text[a + 1] \notin Blanks \cup Visible
    PROVE  Unexpected(a + 1) = Unexpected(a) \cup {a + 1} /\ a + 1 \notin Unexpected(a)
<1>1. \A i \in 1 .. a + 1 : i \in 1 .. a \/ i = a + 1
  OBVIOUS
<1>2. (\A i \in 1 .. a : i \in 1 .. a + 1) /\ a + 1 \in 1 .. a + 1 /\ a + 1 \notin 1 .. a
  OBVIOUS
<1> QED
  BY <1>1, <1>2 DEF Unexpected

(* A complaint more, about a token or about a character.                   *)
LEMMA AnswerMore ==
    ASSUME NEW comps, NEW toks, NEW W, NEW U, Answers(comps, toks, W, U),
           IsFiniteSet(W), IsFiniteSet(U), NEW x
    PROVE  /\ \A k : k \notin W /\ x = toks[k].span => Answers(Append(comps, x), toks, W \cup {k}, U)
           /\ \A i : i \notin U /\ x = CharSpan(i) => Answers(Append(comps, x), toks, W, U \cup {i})
<1> DEFINE n == Len(comps)
           all == Append(comps, x)
<1>1. /\ \E S : all \in Seq(S)
      /\ n \in Nat /\ Len(all) = n + 1 /\ all[n + 1] = x
      /\ \A c \in 1 .. n : all[c] = comps[c]
  <2>1. \E S : comps \in Seq(S)
    BY DEF Answers
  <2>2. \E S : all \in Seq(S)
    BY <2>1, GrownSeq
  <2>3. n \in Nat /\ Len(all) = n + 1 /\ all[n + 1] = x
    BY <2>1, GrownSeq
  <2>4. \A c \in 1 .. n : all[c] = comps[c]
    BY <2>1, GrownSeq
  <2> QED
    BY <2>2, <2>3, <2>4
<1>2. /\ n = Cardinality(U) + Cardinality(W)
      /\ \A k \in W : \E c \in 1 .. n : comps[c] = toks[k].span
      /\ \A i \in U : \E c \in 1 .. n : comps[c] = CharSpan(i)
      /\ \A c \in 1 .. n : (\E k \in W : comps[c] = toks[k].span) \/ (\E i \in U : comps[c] = CharSpan(i))
  BY DEF Answers
<1>3. Cardinality(U) \in Nat /\ Cardinality(W) \in Nat
  BY FS_CardinalityType
<1> HIDE DEF n, all
<1>4. \A c \in 1 .. n + 1 : c \in 1 .. n \/ c = n + 1
  BY <1>1
<1>5. n + 1 \in 1 .. n + 1 /\ \A c \in 1 .. n : c \in 1 .. n + 1
  BY <1>1
<1>6. /\ \A k \in W : \E c \in 1 .. n + 1 : all[c] = toks[k].span
      /\ \A i \in U : \E c \in 1 .. n + 1 : all[c] = CharSpan(i)
  BY <1>1, <1>2, <1>5
<1>7. \A c \in 1 .. n + 1 :
          all[c] = x \/ (\E k \in W : all[c] = toks[k].span) \/ (\E i \in U : all[c] = CharSpan(i))
  BY <1>1, <1>2, <1>4
<1>8. ASSUME NEW k, k \notin W, x = toks[k].span PROVE Answers(all, toks, W \cup {k}, U)
  <2>1. Cardinality(W \cup {k}) = Cardinality(W) + 1
    BY <1>8, FS_AddElement
  <2>2. Len(all) = Cardinality(U) + Cardinality(W \cup {k})
    BY <1>1, <1>2, <1>3, <2>1
  <2>3. \E c \in 1 .. n + 1 : all[c] = toks[k].span
    BY <1>1, <1>5, <1>8
  <2> QED
    BY <1>1, <1>6, <1>7, <1>8, <2>2, <2>3 DEF Answers
<1>9. ASSUME NEW i, i \notin U, x = CharSpan(i) PROVE Answers(all, toks, W, U \cup {i})
  <2>1. Cardinality(U \cup {i}) = Cardinality(U) + 1
    BY <1>9, FS_AddElement
  <2>2. Len(all) = Cardinality(U \cup {i}) + Cardinality(W)
    BY <1>1, <1>2, <1>3, <2>1
  <2>3. \E c \in 1 .. n + 1 : all[c] = CharSpan(i)
    BY <1>1, <1>5, <1>9
  <2> QED
    BY <1>1, <1>6, <1>7, <1>9, <2>2, <2>3 DEF Answers
<1> QED
  BY <1>8, <1>9 DEF all

(* A token more, about which there is something to say or not.             *)
LEMMA BadTokenFacts ==
    ASSUME NEW toks, \E S : toks \in Seq(S), NEW t
    PROVE  /\ IsFiniteSet(BadWords(toks)) /\ BadWords(toks) \subseteq 1 .. Len(toks)
           /\ Len(toks) + 1 \notin BadWords(toks)
           /\ ~BadWord(t) => BadWords(Append(toks, t)) = BadWords(toks)
           /\ BadWord(t) => BadWords(Append(toks, t)) = BadWords(toks) \cup {Len(toks) + 1}
<1> DEFINE n == Len(toks)
           all == Append(toks, t)
<1>1. /\ n \in Nat /\ Len(all) = n + 1 /\ all[n + 1] = t
      /\ \A k \in 1 .. n : all[k] = toks[k]
  BY GrownSeq
<1>2. IsFiniteSet(1 .. n)
  BY <1>1, FiniteInterval
<1>3. IsFiniteSet(BadWords(toks)) /\ BadWords(toks) \subseteq 1 .. n
  BY <1>2, FS_Subset DEF BadWords
<1>4. BadWords(all) = {k \in 1 .. n + 1 : BadWord(all[k])} /\ BadWords(toks) = {k \in 1 .. n : BadWord(toks[k])}
  BY <1>1 DEF BadWords
<1> HIDE DEF n, all
<1>5. /\ \A k \in 1 .. n + 1 : k \in 1 .. n \/ k = n + 1
      /\ n + 1 \in 1 .. n + 1 /\ n + 1 \notin 1 .. n /\ \A k \in 1 .. n : k \in 1 .. n + 1
  BY <1>1
<1>6. \A k \in 1 .. n : BadWord(all[k]) <=> BadWord(toks[k])
  BY <1>1
<1>7. BadWord(all[n + 1]) <=> BadWord(t)
  BY <1>1
<1>8. ~BadWord(t) => BadWords(all) = BadWords(toks)
  BY <1>4, <1>5, <1>6, <1>7
<1>9. BadWord(t) => BadWords(all) = BadWords(toks) \cup {n + 1}
  BY <1>4, <1>5, <1>6, <1>7
<1> QED
  BY <1>3, <1>5, <1>8, <1>9 DEF n, all

LEMMA ComplainsToken ==
    ASSUME NEW comps, NEW toks, \E S : toks \in Seq(S), NEW t, NEW a \in Nat, NEW b,
           Unexpected(b) = Unexpected(a), Complains(comps, toks, a, {})
    PROVE  /\ ~BadWord(t) => Complains(comps, Append(toks, t), b, {})
           /\ BadWord(t) => Complains(Append(comps, t.span), Append(toks, t), b, {})
<1> DEFINE n == Len(toks)
           all == Append(toks, t)
           W == BadWords(toks)
           U == Unexpected(a)
<1>1. /\ n \in Nat /\ all[n + 1] = t
      /\ \A k \in 1 .. n : all[k] = toks[k]
  BY GrownSeq
<1>2. /\ IsFiniteSet(W) /\ W \subseteq 1 .. n /\ n + 1 \notin W
      /\ ~BadWord(t) => BadWords(all) = W
      /\ BadWord(t) => BadWords(all) = W \cup {n + 1}
  BY BadTokenFacts
<1>3. IsFiniteSet(U)
  BY UnexpectedFacts
<1>4. Answers(comps, toks, W, U)
  <2>1. BadWords(toks) \cup {} = BadWords(toks)
    OBVIOUS
  <2> QED
    BY <2>1 DEF Complains
<1>5. U = Unexpected(b)
  OBVIOUS
<1>6. \A x : /\ BadWords(all) \cup {} = BadWords(all)
             /\ Complains(x, all, b, {}) <=> Answers(x, all, BadWords(all), U)
  BY <1>5 DEF Complains
<1> HIDE DEF n, all, W, U
<1>7. Answers(comps, all, W, U)
  <2>1. \A k \in W : all[k] = toks[k]
    BY <1>1, <1>2
  <2> QED
    BY <1>4, <2>1 DEF Answers
<1>8. ~BadWord(t) => Complains(comps, all, b, {})
  BY <1>2, <1>6, <1>7
<1>9. Answers(Append(comps, t.span), all, W \cup {n + 1}, U)
  BY <1>1, <1>2, <1>3, <1>7, AnswerMore
<1>10. BadWord(t) => Complains(Append(comps, t.span), all, b, {})
  BY <1>2, <1>6, <1>9
<1> QED
  BY <1>8, <1>10 DEF all

-----------------------------------------------------------------------------
(***************************************************************************)
(* The steps of the lexer.                                                 *)
(***************************************************************************)
LEMMA ReadFacts ==
    ASSUME ReadOK
    PROVE  /\ text \in Texts /\ Len(text) \in Nat /\ text \in Seq(Chars)
           /\ at.offset \in 0 .. Len(text) /\ at = PlaceOf(at.offset)
           /\ begun.offset \in 0 .. Len(text) /\ begun = PlaceOf(begun.offset)
           /\ Consumed \in Nat /\ Consumed <= at.offset
           /\ \E S : tokens \in Seq(S)
<1>1. text \in Texts /\ PlaceOK(at) /\ PlaceOK(begun)
  BY DEF ReadOK
<1>2. Len(text) \in Nat /\ text \in Seq(Chars)
  BY <1>1, TextFacts
<1>3. mode = "word" => begun.offset <= at.offset
  BY DEF ReadOK, WordOK
<1>4. \E S : tokens \in Seq(S)
  BY DEF ReadOK, TokensFit
<1> QED
  BY <1>1, <1>2, <1>3, <1>4 DEF PlaceOK, Consumed

LEMMA NextChar ==
    ASSUME ReadOK, ~AtEnd
    PROVE  /\ at.offset \in Nat /\ at.offset + 1 <= Len(text) /\ char = text[at.offset + 1]
           /\ Advanced.offset = at.offset + 1 /\ PlaceOK(Advanced)
           /\ Advanced = PlaceOf(at.offset + 1)
           /\ Commented(at.offset + 1) <=> char # "nl" /\ (Commented(at.offset) \/ char = ";")
<1>1. /\ text \in Texts /\ at.offset \in 0 .. Len(text) /\ at = PlaceOf(at.offset) /\ Len(text) \in Nat
  BY ReadFacts
<1>2. /\ Advanced = PlaceOf(at.offset + 1) /\ Advanced.offset = at.offset + 1
      /\ at.offset + 1 \in 0 .. Len(text) /\ at.offset \in 0 .. Len(text) - 1
  BY <1>1, AdvancedPlace
<1>3. Commented(at.offset + 1) <=> text[at.offset + 1] # "nl" /\ (Commented(at.offset) \/ text[at.offset + 1] = ";")
  BY <1>1, <1>2, CommentGoesOn
<1>4. PlaceOK(Advanced)
  <2> DEFINE p == Advanced
  <2>1. p.offset \in Nat /\ p.offset <= Len(text) /\ p = PlaceOf(p.offset)
    BY <1>1, <1>2
  <2> HIDE DEF p
  <2>2. PlaceOK(p)
    BY <2>1 DEF PlaceOK
  <2> QED
    BY <2>2 DEF p
<1>5. char = text[at.offset + 1]
  BY DEF char
<1>6. Commented(at.offset + 1) <=> char # "nl" /\ (Commented(at.offset) \/ char = ";")
  BY <1>3, <1>5
<1>7. at.offset \in Nat /\ at.offset + 1 <= Len(text)
  BY <1>1, <1>2
<1> QED
  BY <1>2, <1>4, <1>5, <1>6, <1>7

(* Between two words, what comes next is in no comment.                    *)
LEMMA NotInComment ==
    ASSUME ReadOK, mode = "between", ~AtEnd, char # ";"
    PROVE  /\ ~Commented(at.offset + 1)
           /\ char # "nl" => ~Commented(at.offset)
<1>1. Commented(at.offset) => char = "nl"
  BY DEF ReadOK, CommentOK
<1> QED
  BY <1>1, NextChar

LEMMA LexedNext ==
    ASSUME text' = text, text \in Texts, mode' \in Modes, PlaceOK(at'), PlaceOK(begun'),
           CommentOK', WordOK', LastOK', EndOK',
           TokensFit(tokens', Consumed'), Covered(tokens', Consumed'),
           Complains(complaints', tokens', Consumed', {})
    PROVE  Lexed'
<1>1. text' \in Texts'
  OBVIOUS
<1>2. PlaceOK(at)' /\ PlaceOK(begun)'
  BY SameText
<1>3. TokensFit(tokens, Consumed)' /\ Covered(tokens, Consumed)'
  BY SameText
<1>4. Complains(complaints, tokens, Consumed, {})'
  BY SameText
<1>5. mode' \in Modes'
  OBVIOUS
<1> QED
  BY <1>1, <1>2, <1>3, <1>4, <1>5 DEF Lexed, ReadOK

(* Nothing but the place changes, over a character that is in no token and *)
(* not refused.                                                            *)
LEMMA PassedOver ==
    ASSUME Lexed, mode \in {"between", "comment"}, ~AtEnd, at' = Advanced, mode' = mode,
           UNCHANGED <<text, begun, word, tokens, complaints>>,
           Commented(at.offset + 1) \/ char \in Blanks, CommentOK'
    PROVE  Lexed'
<1> DEFINE o == at.offset
<1>1. ReadOK /\ Complains(complaints, tokens, Consumed, {})
  BY DEF Lexed
<1>2. /\ o \in Nat /\ o + 1 <= Len(text) /\ char = text[o + 1] /\ Advanced.offset = o + 1
      /\ PlaceOK(Advanced)
  BY <1>1, NextChar
<1>3. Consumed = o /\ Consumed' = o + 1
  BY <1>2 DEF Consumed
<1>4. \A i \in o + 1 .. o + 1 : i = o + 1
  BY <1>2
<1> HIDE DEF o
<1>5. char \in Blanks => char \notin Visible
  BY CharFacts DEF Visible
<1>6. TokensFit(tokens, o + 1)
  <2>1. o + 1 \in Nat /\ o <= o + 1
    BY <1>2
  <2> QED
    BY <1>1, <1>2, <1>3, <2>1, FitFurther DEF ReadOK
<1>7. Covered(tokens, o + 1)
  <2>1. o + 1 \in Nat
    BY <1>2
  <2>2. \A i \in o + 1 .. o + 1 : Commented(i) \/ text[i] \notin Visible
    BY <1>2, <1>4, <1>5 DEF o
  <2> QED
    BY <1>1, <1>2, <1>3, <2>1, <2>2, CoveredFurther DEF ReadOK
<1>8. Complains(complaints, tokens, o + 1, {})
  <2>1. o + 1 \in Nat /\ o <= o + 1
    BY <1>2
  <2>2. \A i \in o + 1 .. o + 1 : Commented(i) \/ text[i] \in Blanks \cup Visible
    BY <1>2, <1>4 DEF o
  <2>3. Unexpected(o + 1) = Unexpected(o)
    BY <1>2, <2>1, <2>2, NoneUnexpected
  <2> QED
    BY <1>1, <1>3, <2>3 DEF Complains
<1>9. LastOK'
  <2> SUFFICES ASSUME tokens # <<>>, tokens[Len(tokens)].span.to.offset = o + 1 PROVE FALSE
    BY <1>3 DEF LastOK
  <2>1. Len(tokens) \in 1 .. Len(tokens)
    <3>1. PICK S : tokens \in Seq(S)
      BY <1>1, ReadFacts
    <3> QED
      BY <3>1, EmptySeq
  <2>2. tokens[Len(tokens)].span.to.offset <= o
    BY <1>1, <1>3, <2>1 DEF ReadOK, TokensFit
  <2> QED
    BY <1>2, <2>2
<1>10. WordOK'
  BY DEF WordOK
<1>11. EndOK'
  BY <1>1 DEF ReadOK, EndOK
<1> QED
  BY <1>1, <1>2, <1>3, <1>6, <1>7, <1>8, <1>9, <1>10, <1>11, LexedNext DEF ReadOK

LEMMA BlankSkipped == ASSUME Lexed, SkipBlank PROVE Lexed'
<1>1. /\ ReadOK /\ mode = "between" /\ ~AtEnd /\ char \in Blanks /\ at' = Advanced
      /\ UNCHANGED <<text, mode, begun, word, tokens, complaints>>
  BY DEF SkipBlank, Reads, Lexed
<1>2. char # ";"
  BY <1>1, CharFacts
<1>3. ~Commented(at.offset + 1)
  BY <1>1, <1>2, NotInComment
<1>4. at'.offset = at.offset + 1
  BY <1>1, NextChar
<1>5. ~Commented(at.offset)'
  BY <1>1, <1>3, <1>4, SameText
<1>6. CommentOK'
  BY <1>1, <1>5 DEF CommentOK
<1> QED
  BY <1>1, <1>6, PassedOver

(* Only the mode changes, outside of words.                                *)
LEMMA ModeChanged ==
    ASSUME Lexed, mode \in {"between", "comment"}, mode' \in {"between", "comment"},
           UNCHANGED <<text, at, begun, word, tokens, complaints>>, CommentOK'
    PROVE  Lexed'
<1>1. ReadOK /\ Complains(complaints, tokens, Consumed, {})
  BY DEF Lexed
<1>2. Consumed' = Consumed
  BY DEF Consumed
<1>3. WordOK' /\ EndOK'
  BY <1>1 DEF ReadOK, WordOK, EndOK
<1>4. Reads(SymbolChars)' <=> Reads(SymbolChars)
  BY DEF Reads, AtEnd, char
<1>5. LastOK'
  BY <1>1, <1>2, <1>4 DEF ReadOK, LastOK
<1> QED
  BY <1>1, <1>2, <1>3, <1>5, LexedNext DEF ReadOK, Modes

LEMMA CommentBegun == ASSUME Lexed, BeginComment PROVE Lexed'
<1>1. /\ mode = "between" /\ Reads({";"}) /\ mode' = "comment"
      /\ UNCHANGED <<text, at, begun, word, tokens, complaints>>
  BY DEF BeginComment
<1>2. Reads({";"})'
  BY <1>1 DEF Reads, AtEnd, char
<1>3. CommentOK'
  BY <1>1, <1>2 DEF CommentOK
<1> QED
  BY <1>1, <1>3, ModeChanged

LEMMA CommentRead == ASSUME Lexed, ReadComment PROVE Lexed'
<1>1. mode = "comment" /\ UNCHANGED <<text, begun, word, tokens, complaints>>
  BY DEF ReadComment
<1>2. CASE AtEnd \/ char = "nl"
  <2>1. mode' = "between" /\ at' = at
    BY <1>2 DEF ReadComment
  <2>2. AtEnd' \/ char' = "nl"
    BY <1>1, <1>2, <2>1 DEF AtEnd, char
  <2>3. CommentOK'
    BY <2>1, <2>2 DEF CommentOK
  <2> QED
    BY <1>1, <2>1, <2>3, ModeChanged
<1>3. CASE ~ (AtEnd \/ char = "nl")
  <2>1. at' = Advanced /\ mode' = mode /\ ~AtEnd
    BY <1>3 DEF ReadComment
  <2>2. ReadOK /\ (Commented(at.offset) \/ char = ";")
    BY <1>1 DEF Lexed, ReadOK, CommentOK, Reads
  <2>3. Commented(at.offset + 1) /\ Advanced.offset = at.offset + 1
    BY <1>3, <2>1, <2>2, NextChar
  <2>4. Commented(at.offset)'
    BY <1>1, <2>1, <2>3, SameText
  <2>5. CommentOK'
    BY <1>1, <2>1, <2>4 DEF CommentOK
  <2> QED
    BY <1>1, <2>1, <2>3, <2>5, PassedOver
<1> QED
  BY <1>2, <1>3

(* A token more, and all the text up to its end is read.                   *)
LEMMA TokenRead ==
    ASSUME Lexed, mode' = "between" \/ mode' = "lexed", NEW t, tokens' = Append(tokens, t),
           UNCHANGED <<text, begun, word>>, PlaceOK(at'),
           TokenOK(t), t.span.from.offset = Consumed, t.span.to.offset = at'.offset,
           mode = "word" \/ ~IsWord(t),
           ~BadWord(t) => complaints' = complaints,
           BadWord(t) => complaints' = Append(complaints, t.span),
           t.kind = "End" <=> mode' = "lexed", mode # "lexed", mode' = "lexed" => AtEnd',
           CommentOK', IsWord(t) => ~Reads(SymbolChars)'
    PROVE  Lexed'
<1> DEFINE a == Consumed
           b == at'.offset
           n == Len(tokens)
<1>1. ReadOK /\ Complains(complaints, tokens, a, {})
  BY DEF Lexed
<1>2. a \in Nat /\ b \in Nat /\ a <= b /\ Consumed' = b
  <2>1. a \in Nat
    BY <1>1, ReadFacts
  <2>2. b \in Nat
    BY DEF PlaceOK
  <2>3. a <= b
    BY DEF TokenOK
  <2> QED
    BY <2>1, <2>2, <2>3 DEF Consumed
<1>3. \E S : tokens \in Seq(S)
  BY <1>1, ReadFacts
<1>4. /\ n \in Nat /\ Len(tokens') = n + 1 /\ tokens'[n + 1] = t
      /\ \A k \in 1 .. n : tokens'[k] = tokens[k]
      /\ tokens' # <<>>
  <2>1. /\ n \in Nat /\ Len(tokens') = n + 1 /\ tokens'[n + 1] = t
        /\ \A k \in 1 .. n : tokens'[k] = tokens[k]
    BY <1>3, GrownSeq
  <2>2. Len(tokens') # 0
    BY <2>1
  <2>3. Len(<<>>) = 0
    OBVIOUS
  <2> QED
    BY <2>1, <2>2, <2>3
<1>5. TokensFit(tokens, a) /\ Covered(tokens, a)
  BY <1>1 DEF ReadOK
<1> HIDE DEF a, b, n
<1>6. TokensFit(tokens', b)
  <2>1. a <= t.span.from.offset /\ t.span.to.offset <= b
    BY <1>2 DEF a, b
  <2>2. tokens # <<>> /\ IsWord(tokens[Len(tokens)]) /\ tokens[Len(tokens)].span.to.offset = t.span.from.offset
            => ~IsWord(t)
    BY <1>1 DEF ReadOK, LastOK
  <2> QED
    BY <1>2, <1>5, <2>1, <2>2, FitToken
<1>7. \A i \in a + 1 .. b : Within(i, t.span)
  BY <1>2 DEF Within, a, b
<1>8. Covered(tokens', b)
  BY <1>2, <1>3, <1>5, <1>7, CoveredToken
<1>9. Unexpected(b) = Unexpected(a)
  <2>1. \A i \in a + 1 .. b : text[i] \in Visible
    BY DEF TokenOK, a, b
  <2> QED
    BY <1>2, <2>1, NoneUnexpected
<1>10. Complains(complaints', tokens', b, {})
  <2>1. /\ ~BadWord(t) => Complains(complaints, Append(tokens, t), b, {})
        /\ BadWord(t) => Complains(Append(complaints, t.span), Append(tokens, t), b, {})
    BY <1>1, <1>2, <1>3, <1>9, ComplainsToken
  <2>2. CASE BadWord(t)
    BY <2>1, <2>2
  <2>3. CASE ~BadWord(t)
    BY <2>1, <2>3
  <2> QED
    BY <2>2, <2>3
<1>11. LastOK'
  <2>1. mode' # "word" /\ tokens'[Len(tokens')] = t
    BY <1>4
  <2> QED
    BY <2>1 DEF LastOK
<1>12. EndOK'
  <2>1. \A k \in 1 .. n : tokens[k].kind # "End"
    BY <1>1 DEF ReadOK, EndOK, n
  <2>2. \A k \in 1 .. n + 1 : k \in 1 .. n \/ k = n + 1
    BY <1>4
  <2>3. \A k \in 1 .. n + 1 : tokens'[k].kind = "End" => mode' = "lexed" /\ k = n + 1
    BY <1>4, <2>1, <2>2
  <2> QED
    BY <1>4, <2>3 DEF EndOK
<1>13. WordOK'
  BY DEF WordOK
<1>14. text \in Texts /\ PlaceOK(begun')
  BY <1>1 DEF ReadOK
<1>15. mode' \in Modes
  BY DEF Modes
<1> QED
  BY <1>2, <1>6, <1>8, <1>10, <1>11, <1>12, <1>13, <1>14, <1>15, LexedNext

LEMMA ZeroFits == 0 \in -MaxInt .. MaxInt
<1>1. MaxInt \in Nat
  BY LexerAssumption
<1> QED
  BY <1>1

LEMMA TokenFields ==
    ASSUME NEW kind, NEW span, NEW w, NEW i
    PROVE  /\ Token(kind, span, w, i).kind = kind /\ Token(kind, span, w, i).span = span
           /\ Token(kind, span, w, i).word = w /\ Token(kind, span, w, i).integer = i
           /\ \A p, q : Span(p, q).from = p /\ Span(p, q).to = q
BY DEF Token, Span

(* The characters of the text from one place to another.                   *)
LEMMA Piece ==
    ASSUME text \in Texts, NEW a \in Nat, NEW b \in Nat, a <= b, b <= Len(text)
    PROVE  /\ SubSeq(text, a + 1, b) \in Seq(Chars)
           /\ Len(SubSeq(text, a + 1, b)) = b - a
           /\ \A i \in 1 .. b - a : SubSeq(text, a + 1, b)[i] = text[a + i]
<1>1. text \in Seq(Chars) /\ Len(text) \in Nat
  BY TextFacts
<1>2. \A i \in a + 1 .. b : text[i] \in Chars
  <2>1. \A i \in a + 1 .. b : i \in 1 .. Len(text)
    BY <1>1
  <2> QED
    BY <2>1 DEF Chars
<1>3. a + 1 \in Int /\ b \in Int
  OBVIOUS
<1>4. /\ SubSeq(text, a + 1, b) \in Seq(Chars)
      /\ Len(SubSeq(text, a + 1, b)) = IF a + 1 <= b THEN b - (a + 1) + 1 ELSE 0
      /\ \A i \in 1 .. b - (a + 1) + 1 : SubSeq(text, a + 1, b)[i] = text[(a + 1) + i - 1]
  BY <1>2, <1>3, SubSeqProperties
<1>5. b - (a + 1) + 1 = b - a /\ (~ (a + 1 <= b) => b - a = 0)
  OBVIOUS
<1>6. \A i \in 1 .. b - a : (a + 1) + i - 1 = a + i
  OBVIOUS
<1>7. Len(SubSeq(text, a + 1, b)) = b - a
  BY <1>4, <1>5
<1>8. \A i \in 1 .. b - a : SubSeq(text, a + 1, b)[i] = text[a + i]
  BY <1>4, <1>5, <1>6
<1> QED
  BY <1>4, <1>7, <1>8

LEMMA ParenthesisRead == ASSUME Lexed, ReadParenthesis PROVE Lexed'
<1> DEFINE o == at.offset
           kind == IF char = "(" THEN "LParen" ELSE "RParen"
           t == Token(kind, Span(at, Advanced), <<char>>, 0)
<1>1. /\ ReadOK /\ mode = "between" /\ ~AtEnd /\ char \in {"(", ")"}
      /\ at' = Advanced /\ tokens' = Append(tokens, t)
      /\ UNCHANGED <<text, mode, begun, word, complaints>>
  BY DEF ReadParenthesis, Reads, Lexed
<1>2. /\ o \in Nat /\ o + 1 <= Len(text) /\ char = text[o + 1] /\ Advanced.offset = o + 1
      /\ PlaceOK(Advanced) /\ PlaceOK(at) /\ Consumed = o /\ Len(text) \in Nat /\ text \in Texts
  BY <1>1, NextChar, ReadFacts DEF ReadOK, Consumed
<1>3. char # ";" /\ char # "nl"
  BY <1>1, CharFacts
<1>4. ~Commented(o + 1)
  BY <1>1, <1>3, NotInComment
<1>5. /\ t.kind = kind /\ t.span = Span(at, Advanced) /\ t.word = <<char>> /\ t.integer = 0
      /\ t.span.from = at /\ t.span.to = Advanced
  BY TokenFields
<1>6. kind \in {"LParen", "RParen"}
  OBVIOUS
<1> HIDE DEF t, kind
<1>7. SubSeq(text, o + 1, o + 1) = <<char>>
  <2> DEFINE s == SubSeq(text, o + 1, o + 1)
  <2>1. o + 1 \in Nat /\ o <= o + 1 /\ (o + 1) - o = 1
    BY <1>2
  <2>2. s \in Seq(Chars) /\ Len(s) = 1 /\ \A i \in 1 .. 1 : s[i] = text[o + i]
    BY <1>2, <2>1, Piece
  <2> HIDE DEF s, o
  <2>3. s[1] = char
    BY <1>2, <2>2
  <2>4. s = <<char>>
    BY <2>2, <2>3
  <2> QED
    BY <2>4 DEF s
<1>8. TokenOK(t)
  <2>1. \A i \in o + 1 .. o + 1 : i = o + 1
    BY <1>2
  <2>2. char \in Visible
    BY <1>1 DEF Visible
  <2>3. \A i \in o + 1 .. o + 1 : text[i] \in Visible /\ ~Commented(i)
    BY <1>2, <1>4, <2>1, <2>2
  <2>4. 0 \in -MaxInt .. MaxInt
    BY ZeroFits
  <2>5. IsParen(t) /\ t.kind # "End" /\ t.kind # "Integer"
    BY <1>5, <1>6 DEF IsParen
  <2>6. t.span.from.offset = o /\ t.span.to.offset = o + 1 /\ o <= o + 1 /\ o # o + 1
    BY <1>2, <1>5
  <2> QED
    BY <1>2, <1>5, <1>7, <2>3, <2>4, <2>5, <2>6 DEF TokenOK, ValueOK
<1>9. ~BadWord(t) /\ ~IsWord(t) /\ t.kind # "End"
  BY <1>5, <1>6 DEF BadWord, IsWord
<1>10. CommentOK'
  <2>1. ~Commented(at.offset)'
    BY <1>1, <1>2, <1>4, SameText
  <2> QED
    BY <1>1, <2>1 DEF CommentOK
<1>11. t.span.from.offset = Consumed /\ t.span.to.offset = at'.offset /\ PlaceOK(at')
  BY <1>1, <1>2, <1>5
<1> QED
  BY <1>1, <1>8, <1>9, <1>10, <1>11, TokenRead

LEMMA TextEnded == ASSUME Lexed, EndText PROVE Lexed'
<1> DEFINE o == at.offset
           t == Token("End", Span(at, at), <<>>, 0)
<1>1. /\ ReadOK /\ mode = "between" /\ AtEnd /\ mode' = "lexed" /\ tokens' = Append(tokens, t)
      /\ UNCHANGED <<text, at, begun, word, complaints>>
  BY DEF EndText, Lexed
<1>2. /\ o \in Nat /\ o = Len(text) /\ PlaceOK(at) /\ Consumed = o /\ text \in Texts
  BY <1>1, ReadFacts DEF ReadOK, Consumed, AtEnd
<1>3. /\ t.kind = "End" /\ t.word = <<>> /\ t.integer = 0 /\ t.span.from = at /\ t.span.to = at
      /\ t.span = Span(at, at)
  BY TokenFields
<1> HIDE DEF t
<1>4. SubSeq(text, o + 1, o) = <<>>
  <2> DEFINE s == SubSeq(text, o + 1, o)
  <2>1. o <= o /\ o - o = 0
    BY <1>2
  <2>2. s \in Seq(Chars) /\ Len(s) = 0
    BY <1>2, <2>1, Piece
  <2> HIDE DEF s
  <2>3. s = <<>>
    BY <2>2, EmptySeq
  <2> QED
    BY <2>3 DEF s
<1>5. TokenOK(t)
  <2>1. \A i \in o + 1 .. o : text[i] \in Visible /\ ~Commented(i)
    BY <1>2
  <2>2. 0 \in -MaxInt .. MaxInt
    BY ZeroFits
  <2>3. t.span.from.offset = o /\ t.span.to.offset = o /\ o <= o /\ t.kind # "Integer"
    BY <1>2, <1>3
  <2> QED
    BY <1>2, <1>3, <1>4, <2>1, <2>2, <2>3 DEF TokenOK, ValueOK
<1>6. ~BadWord(t) /\ ~IsWord(t)
  BY <1>3 DEF BadWord, IsWord
<1>7. AtEnd' /\ CommentOK'
  BY <1>1 DEF AtEnd, CommentOK
<1>8. t.span.from.offset = Consumed /\ t.span.to.offset = at'.offset /\ PlaceOK(at')
  BY <1>1, <1>2, <1>3
<1> QED
  BY <1>1, <1>3, <1>5, <1>6, <1>7, <1>8, TokenRead

LEMMA EmptyPiece ==
    ASSUME text \in Texts, NEW o \in Nat, o <= Len(text)
    PROVE  SubSeq(text, o + 1, o) = <<>>
<1> DEFINE s == SubSeq(text, o + 1, o)
<1>1. o <= o /\ o - o = 0
  OBVIOUS
<1>2. s \in Seq(Chars) /\ Len(s) = 0
  BY <1>1, Piece
<1> HIDE DEF s
<1>3. s = <<>>
  BY <1>2, EmptySeq
<1> QED
  BY <1>3 DEF s

LEMMA LongerPiece ==
    ASSUME text \in Texts, NEW a \in Nat, NEW b \in Nat, a <= b, b + 1 <= Len(text)
    PROVE  SubSeq(text, a + 1, b + 1) = Append(SubSeq(text, a + 1, b), text[b + 1])
<1> DEFINE s == SubSeq(text, a + 1, b)
           l == SubSeq(text, a + 1, b + 1)
           x == text[b + 1]
<1>1. Len(text) \in Nat
  BY TextFacts
<1>2. s \in Seq(Chars) /\ Len(s) = b - a /\ \A i \in 1 .. b - a : s[i] = text[a + i]
  <2>1. b <= Len(text)
    BY <1>1
  <2> QED
    BY <2>1, Piece
<1>3. l \in Seq(Chars) /\ Len(l) = (b + 1) - a /\ \A i \in 1 .. (b + 1) - a : l[i] = text[a + i]
  <2>1. b + 1 \in Nat /\ a <= b + 1
    OBVIOUS
  <2> QED
    BY <2>1, Piece
<1>4. x \in Chars
  <2>1. b + 1 \in 1 .. Len(text)
    BY <1>1
  <2> QED
    BY <2>1 DEF Chars
<1>5. x = text[b + 1]
  OBVIOUS
<1> HIDE DEF s, l, x
<1>6. /\ Append(s, x) \in Seq(Chars) /\ Len(Append(s, x)) = (b - a) + 1
      /\ \A i \in 1 .. b - a : Append(s, x)[i] = s[i]
      /\ Append(s, x)[(b - a) + 1] = x
  BY <1>2, <1>4, AppendProperties
<1>7. ASSUME NEW i \in 1 .. (b + 1) - a PROVE Append(s, x)[i] = l[i]
  <2>1. CASE i \in 1 .. b - a
    BY <1>2, <1>3, <1>6, <2>1
  <2>2. CASE i = (b - a) + 1
    <3>1. a + i = b + 1
      BY <2>2
    <3>2. l[i] = text[b + 1]
      BY <1>3, <3>1
    <3> QED
      BY <1>5, <1>6, <2>2, <3>2
  <2>3. i \in 1 .. b - a \/ i = (b - a) + 1
    OBVIOUS
  <2> QED
    BY <2>1, <2>2, <2>3
<1>8. Len(Append(s, x)) = Len(l) /\ Len(l) = (b + 1) - a
  BY <1>3, <1>6
<1>9. Append(s, x) = l
  BY <1>3, <1>6, <1>7, <1>8, SeqEqual
<1> QED
  BY <1>9 DEF s, l, x

LEMMA WordBegun == ASSUME Lexed, BeginWord PROVE Lexed'
<1>1. /\ ReadOK /\ Complains(complaints, tokens, Consumed, {})
      /\ mode = "between" /\ ~AtEnd /\ char \in SymbolChars /\ Reads(SymbolChars)
      /\ mode' = "word" /\ begun' = at /\ word' = <<>>
      /\ UNCHANGED <<text, at, tokens, complaints>>
  BY DEF BeginWord, Reads, Lexed
<1>2. /\ at.offset \in Nat /\ at.offset <= Len(text) /\ PlaceOK(at) /\ text \in Texts
      /\ Consumed = at.offset /\ Consumed' = at.offset
  BY <1>1, ReadFacts DEF ReadOK, Consumed
<1>3. char # ";" /\ char # "nl"
  BY <1>1, CharFacts
<1>4. ~Commented(at.offset)'
  BY <1>1, <1>3, NotInComment, SameText
<1>5. Reads(SymbolChars)'
  BY <1>1 DEF Reads, AtEnd, char
<1>6. (word = SubSeq(text, begun.offset + 1, at.offset))'
  BY <1>1, <1>2, EmptyPiece
<1>7. (\A i \in begun.offset + 1 .. at.offset : text[i] \in SymbolChars /\ ~Commented(i))'
  BY <1>1, <1>2
<1>8. (begun.offset <= at.offset)'
  BY <1>1, <1>2
<1>9. WordOK'
  BY <1>4, <1>5, <1>6, <1>7, <1>8 DEF WordOK
<1>10. LastOK'
  <2> SUFFICES ASSUME tokens # <<>>, IsWord(tokens[Len(tokens)]), tokens[Len(tokens)].span.to.offset = at.offset
               PROVE  FALSE
    BY <1>1, <1>2 DEF LastOK
  <2> QED
    BY <1>1, <1>2 DEF ReadOK, LastOK
<1>11. CommentOK' /\ EndOK'
  BY <1>1 DEF ReadOK, EndOK, CommentOK
<1>12. PlaceOK(at') /\ PlaceOK(begun') /\ mode' \in Modes
  BY <1>1, <1>2 DEF Modes
<1>13. TokensFit(tokens', Consumed') /\ Covered(tokens', Consumed') /\ Complains(complaints', tokens', Consumed', {})
  BY <1>1, <1>2 DEF ReadOK
<1> QED
  BY <1>1, <1>2, <1>9, <1>10, <1>11, <1>12, <1>13, LexedNext

LEMMA WordGoesOn == ASSUME Lexed, ReadWord PROVE Lexed'
<1>1. /\ ReadOK /\ Complains(complaints, tokens, Consumed, {})
      /\ mode = "word" /\ ~AtEnd /\ char \in SymbolChars
      /\ word' = Append(word, char) /\ at' = Advanced
      /\ UNCHANGED <<text, mode, begun, tokens, complaints>>
  BY DEF ReadWord, Reads, Lexed
<1>2. /\ at.offset \in Nat /\ at.offset + 1 <= Len(text) /\ char = text[at.offset + 1]
      /\ Advanced.offset = at.offset + 1 /\ PlaceOK(Advanced)
  BY <1>1, NextChar
<1>3. begun.offset \in Nat /\ PlaceOK(begun) /\ text \in Texts /\ Consumed' = Consumed
  BY <1>1, ReadFacts DEF ReadOK, Consumed
<1>4. /\ begun.offset <= at.offset /\ ~Commented(at.offset)
      /\ word = SubSeq(text, begun.offset + 1, at.offset)
      /\ \A i \in begun.offset + 1 .. at.offset : text[i] \in SymbolChars /\ ~Commented(i)
  BY <1>1 DEF ReadOK, WordOK
<1>5. char # ";" /\ char # "nl"
  BY <1>1, CharFacts
<1>6. ~Commented(at.offset + 1)
  BY <1>1, <1>4, <1>5, NextChar
<1>7. at'.offset = at.offset + 1 /\ begun'.offset = begun.offset
  BY <1>1, <1>2
<1>8. ~Commented(at.offset)'
  BY <1>1, <1>6, <1>7, SameText
<1>9. (word = SubSeq(text, begun.offset + 1, at.offset))'
  <2>1. SubSeq(text, begun.offset + 1, at.offset + 1) = Append(word, char)
    BY <1>2, <1>3, <1>4, LongerPiece
  <2> QED
    BY <1>1, <1>7, <2>1
<1>10. (\A i \in begun.offset + 1 .. at.offset : text[i] \in SymbolChars /\ ~Commented(i))'
  <2>1. \A i \in begun.offset + 1 .. at.offset + 1 : i \in begun.offset + 1 .. at.offset \/ i = at.offset + 1
    BY <1>2, <1>3
  <2>2. \A i \in begun.offset + 1 .. at.offset + 1 : text[i] \in SymbolChars /\ ~Commented(i)
    BY <1>1, <1>2, <1>4, <1>6, <2>1
  <2> QED
    BY <1>1, <1>7, <2>2, SameText
<1>11. (begun.offset <= at.offset)' /\ begun'.offset # at'.offset
  BY <1>2, <1>3, <1>4, <1>7
<1>12. WordOK'
  BY <1>8, <1>9, <1>10, <1>11 DEF WordOK
<1>13. LastOK'
  BY <1>1, <1>3 DEF ReadOK, LastOK
<1>14. CommentOK' /\ EndOK'
  BY <1>1 DEF ReadOK, EndOK, CommentOK
<1>15. PlaceOK(at') /\ PlaceOK(begun') /\ mode' \in Modes
  BY <1>1, <1>2, <1>3 DEF Modes
<1>16. TokensFit(tokens', Consumed') /\ Covered(tokens', Consumed') /\ Complains(complaints', tokens', Consumed', {})
  BY <1>1, <1>3 DEF ReadOK
<1> QED
  BY <1>1, <1>3, <1>12, <1>13, <1>14, <1>15, <1>16, LexedNext

LEMMA CharacterRefused == ASSUME Lexed, SkipUnexpected PROVE Lexed'
<1> DEFINE o == at.offset
<1>1. /\ ReadOK /\ Complains(complaints, tokens, Consumed, {})
      /\ mode = "between" /\ ~AtEnd /\ char \notin Blanks \cup SymbolChars \cup {"(", ")", ";"}
      /\ at' = Advanced /\ complaints' = Append(complaints, Span(at, Advanced))
      /\ UNCHANGED <<text, mode, begun, word, tokens>>
  BY DEF SkipUnexpected, Lexed
<1>2. /\ o \in Nat /\ o + 1 <= Len(text) /\ char = text[o + 1] /\ Advanced.offset = o + 1
      /\ PlaceOK(Advanced) /\ Consumed = o /\ Consumed' = o + 1 /\ text \in Texts
      /\ at = PlaceOf(o) /\ Advanced = PlaceOf(o + 1) /\ o + 1 \in Nat
  <2>1. o \in Nat /\ o + 1 <= Len(text) /\ char = text[o + 1] /\ Advanced.offset = o + 1 /\ PlaceOK(Advanced)
    BY <1>1, NextChar
  <2>2. Advanced = PlaceOf(o + 1)
    BY <1>1, NextChar
  <2>3. at = PlaceOf(o) /\ text \in Texts
    BY <1>1, ReadFacts
  <2>4. Consumed = at.offset /\ Consumed' = at'.offset
    BY <1>1 DEF Consumed
  <2>5. Advanced.offset = at.offset + 1
    BY <1>1, NextChar
  <2>6. at' = Advanced
    BY <1>1
  <2>7. at'.offset = at.offset + 1
    BY <2>5, <2>6
  <2>8. o + 1 \in Nat
    BY <2>1
  <2> QED
    BY <2>1, <2>2, <2>3, <2>4, <2>5, <2>7, <2>8
<1>3. char # ";" /\ char # "nl" /\ char \notin Visible /\ char \notin Blanks
  BY <1>1, CharFacts DEF Visible
<1>4. ~Commented(o + 1) /\ ~Commented(o)
  BY <1>1, <1>3, NotInComment
<1>11. ~Commented(at.offset)'
  BY <1>1, <1>2, <1>4, SameText
<1> HIDE DEF o
<1>5. TokensFit(tokens, o + 1)
  <2>1. o <= o + 1
    BY <1>2
  <2> QED
    BY <1>1, <1>2, <2>1, FitFurther DEF ReadOK
<1>6. Covered(tokens, o + 1)
  <2>1. \A i \in o + 1 .. o + 1 : i = o + 1
    BY <1>2
  <2>2. \A i \in o + 1 .. o + 1 : Commented(i) \/ text[i] \notin Visible
    BY <1>2, <1>3, <2>1
  <2> QED
    BY <1>1, <1>2, <2>2, CoveredFurther DEF ReadOK
<1>7. Complains(complaints', tokens, o + 1, {})
  <2> DEFINE W == BadWords(tokens) \cup {}
             U == Unexpected(o)
  <2>1. Unexpected(o + 1) = U \cup {o + 1} /\ o + 1 \notin U
    BY <1>2, <1>3, <1>4, OneUnexpected
  <2>2. IsFiniteSet(W) /\ IsFiniteSet(U)
    <3>1. \E S : tokens \in Seq(S)
      BY <1>1, ReadFacts
    <3>2. IsFiniteSet(BadWords(tokens))
      BY <3>1, BadTokenFacts
    <3>3. BadWords(tokens) \cup {} = BadWords(tokens)
      OBVIOUS
    <3> QED
      BY <1>2, <3>2, <3>3, UnexpectedFacts
  <2>3. Answers(complaints, tokens, W, U)
    BY <1>1, <1>2 DEF Complains
  <2>4. CharSpan(o + 1) = Span(at, Advanced)
    <3>1. (o + 1) - 1 = o
      BY <1>2
    <3> QED
      BY <1>2, <3>1 DEF CharSpan
  <2>5. Complains(complaints', tokens, o + 1, {}) <=> Answers(complaints', tokens, W, U \cup {o + 1})
    BY <2>1 DEF Complains
  <2> HIDE DEF W, U
  <2>6. Answers(complaints', tokens, W, U \cup {o + 1})
    BY <1>1, <2>1, <2>2, <2>3, <2>4, AnswerMore
  <2> QED
    BY <2>5, <2>6
<1>8. LastOK'
  <2> SUFFICES ASSUME tokens # <<>>, tokens[Len(tokens)].span.to.offset = o + 1 PROVE FALSE
    BY <1>1, <1>2 DEF LastOK
  <2>1. Len(tokens) \in 1 .. Len(tokens)
    <3>1. PICK S : tokens \in Seq(S)
      BY <1>1, ReadFacts
    <3> QED
      BY <3>1, EmptySeq
  <2>2. tokens[Len(tokens)].span.to.offset <= o
    BY <1>1, <1>2, <2>1 DEF ReadOK, TokensFit
  <2> QED
    BY <1>2, <2>2
<1>9. CommentOK'
  BY <1>1, <1>11 DEF CommentOK
<1>10. WordOK' /\ EndOK'
  BY <1>1 DEF ReadOK, EndOK, WordOK
<1>12. PlaceOK(at') /\ PlaceOK(begun') /\ mode' \in Modes
  BY <1>1, <1>2 DEF ReadOK
<1>13. TokensFit(tokens', Consumed') /\ Covered(tokens', Consumed') /\ Complains(complaints', tokens', Consumed', {})
  BY <1>1, <1>2, <1>5, <1>6, <1>7
<1> QED
  BY <1>1, <1>2, <1>8, <1>9, <1>10, <1>12, <1>13, LexedNext

LEMMA WordCharacters ==
    ASSUME ReadOK, mode = "word", ~Reads(SymbolChars)
    PROVE  /\ begun.offset \in Nat /\ at.offset \in Nat /\ begun.offset < at.offset /\ ~Commented(at.offset)
           /\ word = SubSeq(text, begun.offset + 1, at.offset)
           /\ word \in Seq(SymbolChars) /\ Len(word) \in Nat \ {0} /\ word # <<>>
           /\ \A i \in begun.offset + 1 .. at.offset : text[i] \in Visible /\ ~Commented(i)
<1>1. /\ begun.offset <= at.offset /\ ~Commented(at.offset)
      /\ word = SubSeq(text, begun.offset + 1, at.offset)
      /\ \A i \in begun.offset + 1 .. at.offset : text[i] \in SymbolChars /\ ~Commented(i)
      /\ begun.offset # at.offset
  BY DEF ReadOK, WordOK
<1>2. /\ text \in Texts /\ begun.offset \in Nat /\ at.offset \in Nat /\ at.offset <= Len(text) /\ Len(text) \in Nat
  BY ReadFacts
<1>3. begun.offset < at.offset
  BY <1>1, <1>2
<1>4. /\ word \in Seq(Chars) /\ Len(word) = at.offset - begun.offset
      /\ \A i \in 1 .. at.offset - begun.offset : word[i] = text[begun.offset + i]
  BY <1>1, <1>2, Piece
<1>5. Len(word) \in Nat \ {0}
  BY <1>2, <1>3, <1>4
<1>6. \A i \in 1 .. Len(word) : word[i] \in SymbolChars
  <2>1. \A i \in 1 .. Len(word) : begun.offset + i \in begun.offset + 1 .. at.offset
    BY <1>2, <1>4
  <2> QED
    BY <1>1, <1>4, <2>1
<1>7. word \in Seq(SymbolChars)
  <2>1. word = [i \in 1 .. Len(word) |-> word[i]]
    BY <1>4
  <2> QED
    BY <1>5, <1>6, <2>1
<1>8. word # <<>>
  BY <1>5, <1>7, EmptySeq
<1> QED
  BY <1>1, <1>2, <1>3, <1>5, <1>7, <1>8 DEF Visible

(* An integer literal has digits only, after its sign.                     *)
LEMMA LiteralDigits ==
    ASSUME NEW w \in Seq(SymbolChars), IsInteger(w)
    PROVE  Unsigned(w) \in Seq(Digits)
<1> DEFINE u == Unsigned(w)
<1>1. w # <<>> /\ ToSet(u) \subseteq Digits
  BY DEF IsInteger
<1>2. u \in Seq(SymbolChars)
  BY <1>1 DEF Unsigned
<1> HIDE DEF u
<1>3. Len(u) \in Nat /\ u = [i \in 1 .. Len(u) |-> u[i]] /\ DOMAIN u = 1 .. Len(u)
  BY <1>2
<1>4. \A i \in 1 .. Len(u) : u[i] \in Digits
  BY <1>1, <1>3 DEF ToSet
<1>5. u \in Seq(Digits)
  BY <1>3, <1>4
<1> QED
  BY <1>5 DEF u

LEMMA WordEnded == ASSUME Lexed, EndWord PROVE Lexed'
<1> DEFINE span == Span(begun, at)
           digits == Unsigned(word)
           size == Magnitude(digits)
           t == WordToken.token
           wrong == WordToken.wrong
           value == Decimal(digits)
<1>1. /\ ReadOK /\ mode = "word" /\ ~Reads(SymbolChars) /\ mode' = "between"
      /\ tokens' = Append(tokens, t) /\ complaints' = complaints \o wrong
      /\ UNCHANGED <<text, at, begun, word>>
  BY DEF EndWord, Lexed
<1>2. /\ begun.offset \in Nat /\ at.offset \in Nat /\ begun.offset < at.offset /\ ~Commented(at.offset)
      /\ word = SubSeq(text, begun.offset + 1, at.offset)
      /\ word \in Seq(SymbolChars) /\ Len(word) \in Nat \ {0} /\ word # <<>>
      /\ \A i \in begun.offset + 1 .. at.offset : text[i] \in Visible /\ ~Commented(i)
  BY <1>1, WordCharacters
<1>3. PlaceOK(at) /\ PlaceOK(begun) /\ Consumed = begun.offset
  BY <1>1 DEF ReadOK, Consumed
<1>4. MaxInt \in Nat
  BY LexerAssumption
<1>5. span.from = begun /\ span.to = at /\ span = Span(begun, at)
  BY DEF Span
<1>6. ASSUME IsInteger(word)
      PROVE  /\ value \in Nat
             /\ size = IF value > MaxInt THEN TooLarge ELSE value
             /\ size = TooLarge <=> value > MaxInt
  <2>1. digits \in Seq(Digits)
    BY <1>2, <1>6, LiteralDigits
  <2>2. value \in Nat /\ size = IF value > MaxInt THEN TooLarge ELSE value
    BY <2>1, MagnitudeExact
  <2> HIDE DEF value, size
  <2> QED
    BY <2>2 DEF TooLarge
<1>7. /\ ~IsInteger(word) => /\ t = Token("Symbol", span, word, 0)
                            /\ wrong = IF word[1] \in Digits THEN <<span>> ELSE <<>>
      /\ IsInteger(word) /\ size = TooLarge => t = Token("Integer", span, word, 0) /\ wrong = <<span>>
      /\ IsInteger(word) /\ size # TooLarge =>
            t = Token("Integer", span, word, IF word[1] = "-" THEN -size ELSE size) /\ wrong = <<>>
  BY DEF WordToken
<1> HIDE DEF span, size, t, wrong, value, digits
<1>8. /\ t.span = span /\ t.word = word
      /\ ~IsInteger(word) => t.kind = "Symbol" /\ t.integer = 0
      /\ IsInteger(word) => t.kind = "Integer"
      /\ IsInteger(word) /\ size = TooLarge => t.integer = 0
      /\ IsInteger(word) /\ size # TooLarge => t.integer = IF word[1] = "-" THEN -size ELSE size
  BY <1>7, TokenFields
<1>9. value = Decimal(Unsigned(t.word))
  BY <1>8 DEF value, digits
<1>10. IsWord(t) /\ t.kind # "End"
  BY <1>8 DEF IsWord
<1>11. BadWord(t) => wrong = <<span>>
  BY <1>6, <1>7, <1>8, <1>9 DEF BadWord
<1>12. ~BadWord(t) => wrong = <<>>
  BY <1>6, <1>7, <1>8, <1>9 DEF BadWord
<1>13. t.integer \in -MaxInt .. MaxInt
  <2>1. 0 \in -MaxInt .. MaxInt
    BY ZeroFits
  <2>2. CASE IsInteger(word) /\ size # TooLarge
    <3>1. size \in 0 .. MaxInt
      BY <1>4, <1>6, <2>2
    <3>2. size \in -MaxInt .. MaxInt /\ -size \in -MaxInt .. MaxInt
      BY <1>4, <3>1
    <3> QED
      BY <1>8, <2>2, <3>2
  <2> QED
    BY <1>8, <2>1, <2>2
<1>14. ValueOK(t)
  <2>1. ASSUME t.kind = "Integer", ~(value > MaxInt)
        PROVE  t.integer = IF t.word[1] = "-" THEN -value ELSE value
    <3>1. IsInteger(word)
      BY <1>8, <2>1
    <3>2. size = value /\ size # TooLarge
      BY <1>4, <1>6, <2>1, <3>1
    <3> QED
      BY <1>8, <3>1, <3>2
  <2> QED
    BY <1>9, <2>1 DEF ValueOK
<1>15. t.span.from = begun /\ t.span.to = at /\ t.span = Span(begun, at)
  BY <1>5, <1>8
<1>16. TokenOK(t)
  <2>1. begun.offset <= at.offset /\ begun.offset # at.offset
    BY <1>2
  <2> QED
    BY <1>2, <1>3, <1>8, <1>10, <1>13, <1>14, <1>15, <2>1 DEF TokenOK
<1>17. /\ ~BadWord(t) => complaints' = complaints
       /\ BadWord(t) => complaints' = Append(complaints, t.span)
  <2>1. PICK S : complaints \in Seq(S)
    BY DEF Lexed, Complains, Answers
  <2>2. complaints \o <<>> = complaints
    BY <2>1
  <2>3. complaints \o <<span>> = Append(complaints, span)
    BY <2>1, AppendIsConcat
  <2> QED
    BY <1>1, <1>8, <1>11, <1>12, <2>2, <2>3
<1>18. CommentOK'
  <2>1. ~Commented(at.offset)'
    BY <1>1, <1>2, SameText
  <2> QED
    BY <1>1, <2>1 DEF CommentOK
<1>19. ~Reads(SymbolChars)'
  BY <1>1 DEF Reads, AtEnd, char
<1>20. t.span.from.offset = Consumed /\ t.span.to.offset = at'.offset /\ PlaceOK(at')
  BY <1>1, <1>3, <1>15
<1> QED
  BY <1>1, <1>10, <1>16, <1>17, <1>18, <1>19, <1>20, TokenRead

(* The invariant of the lexer holds before the first character is read.    *)
LEMMA LexerBegins == ASSUME LexerInit PROVE Lexed
<1>1. /\ text \in Texts /\ at = Start /\ begun = Start /\ mode = "between" /\ tokens = <<>> /\ complaints = <<>>
  BY DEF LexerInit
<1>2. Start.offset = 0 /\ Consumed = 0
  BY <1>1 DEF Start, Place, Consumed
<1>3. Len(text) \in Nat
  BY <1>1, TextFacts
<1>4. Breaks(0) = {}
  BY DEF Breaks
<1>5. PlaceOf(0) = Start
  BY <1>4, PlaceOfBreaks, FS_EmptySet DEF Start
<1>6. PlaceOK(at) /\ PlaceOK(begun)
  BY <1>1, <1>2, <1>3, <1>5 DEF PlaceOK
<1>7. CommentOK /\ WordOK /\ LastOK
  BY <1>1, <1>2, NoCommentAtStart DEF CommentOK, WordOK, LastOK
<1>8. Len(tokens) = 0 /\ Len(complaints) = 0 /\ tokens \in Seq({}) /\ complaints \in Seq({})
  BY <1>1
<1>9. EndOK
  BY <1>1, <1>8 DEF EndOK
<1>10. TokensFit(tokens, 0)
  BY <1>8 DEF TokensFit
<1>11. Covered(tokens, 0)
  BY DEF Covered
<1>12. Unexpected(0) = {} /\ BadWords(tokens) \cup {} = {}
  BY <1>8 DEF Unexpected, BadWords
<1>13. Answers(complaints, tokens, {}, {})
  BY <1>8, FS_EmptySet DEF Answers
<1>14. Complains(complaints, tokens, 0, {})
  BY <1>12, <1>13 DEF Complains
<1> QED
  BY <1>1, <1>2, <1>6, <1>7, <1>9, <1>10, <1>11, <1>14 DEF Lexed, ReadOK, Modes

LEMMA LexerKeepsRules == ASSUME Lexed, LexerNext PROVE Lexed'
BY BlankSkipped, CommentBegun, CommentRead, ParenthesisRead, WordBegun, WordGoesOn, WordEnded,
   CharacterRefused, TextEnded DEF LexerNext

-----------------------------------------------------------------------------
(***************************************************************************)
(* The inductive invariant of the parser: what it has built is what the    *)
(* levels of the parentheses up to pos call for.                           *)
(***************************************************************************)
Shut(k, upto) == \E c \in k + 1 .. upto : Level[c] = Level[k] + 1 /\ tokens[c].kind = "RParen"

Complete(upto) ==
    {k \in 1 .. upto : IsWord(tokens[k]) \/ (tokens[k].kind = "LParen" /\ Shut(k, upto))}

Pending(upto) == {k \in 1 .. upto : tokens[k].kind = "LParen" /\ ~Shut(k, upto)}

Ordered(s, set) ==
    /\ \E S : s \in Seq(S)
    /\ InOrder(s, set)

CloseOf(e) == IF tokens[e].kind = "LParen" THEN Min(Matching(e, Level)) ELSE e

NodeExact(e, kept) ==
    /\ nodes[e] = Node(IF tokens[e].kind = "LParen" THEN "List" ELSE tokens[e].kind,
                       Span(tokens[e].span.from, tokens[CloseOf(e)].span.to),
                       IF tokens[e].kind = "Symbol" THEN tokens[e].word ELSE <<>>,
                       IF tokens[e].kind = "LParen" THEN 0 ELSE tokens[e].integer,
                       nodes[e].list)
    /\ Ordered(nodes[e].list, Inside(e, kept, Level))

Tree(kept) ==
    /\ DOMAIN nodes = kept
    /\ Ordered(exprs, {k \in kept : Level[k] = 0})
    /\ \A e \in kept : NodeExact(e, kept)

Elements(first, upto) == {c \in Complete(upto) : first < c /\ Level[c] = Level[first] + 1}

Lists(ls, upto) ==
    \A i \in 1 .. Len(ls) :
        /\ ls[i] = [first |-> ls[i].first, list |-> ls[i].list]
        /\ ls[i].first \in Pending(upto) /\ Level[ls[i].first] = i - 1
        /\ Ordered(ls[i].list, Elements(ls[i].first, upto))

OpenOK ==
    /\ \E S : open \in Seq(S)
    /\ Len(open) = Level[pos]
    /\ Lists(open, pos - 1)

(* The lists around an error have been given up.                           *)
Dropped == open = <<>> /\ peek.kind = "End" /\ Level[pos] > 0

Refused ==
    {k \in Stray : k < pos}
        \cup IF stage # "lexing" /\ Dropped THEN {Max(NeverClosed(Level))} ELSE {}

ParseOK ==
    IF stage = "lexing"
      THEN mode # "lexed" /\ pos = 1 /\ open = <<>> /\ exprs = <<>> /\ nodes = <<>>
      ELSE /\ stage \in {"parsing", "over"} /\ mode = "lexed" /\ pos \in 1 .. Len(tokens)
           /\ stage = "over" => peek.kind = "End" /\ open = <<>>
           /\ IF Dropped THEN NeverClosed(Level) # {} /\ Tree(Kept) ELSE Tree(Complete(pos - 1)) /\ OpenOK

Parsed == ReadOK /\ Complains(complaints, tokens, Consumed, Refused) /\ ParseOK

LEMMA LevelFacts ==
    ASSUME Len(tokens) \in Nat
    PROVE  /\ Level \in [1 .. Len(tokens) -> Nat]
           /\ 1 <= Len(tokens) => Level[1] = 0
           /\ \A k \in 1 .. Len(tokens) - 1 :
                 Level[k + 1] = IF tokens[k].kind = "LParen" THEN Level[k] + 1
                                ELSE IF tokens[k].kind = "RParen" /\ Level[k] > 0 THEN Level[k] - 1
                                ELSE Level[k]
<1> DEFINE n == Len(tokens)
           Next0(k, x) == IF tokens[k - 1].kind = "LParen" THEN x + 1
                          ELSE IF tokens[k - 1].kind = "RParen" /\ x > 0 THEN x - 1
                          ELSE x
           Is(v) == v = [k \in 1 .. n |-> IF k = 1 THEN 0 ELSE Next0(k, v[k - 1])]
           step == [p \in (1 .. n) \X Nat |-> IF p[1] = 1 THEN 0 ELSE Next0(p[1], p[2])]
<1>1. \A k, x : x \in Nat => Next0(k, x) \in Nat
  OBVIOUS
<1>2. Level = CHOOSE v : Is(v)
  BY DEF Level
<1>3. \A k \in 1 .. n - 1 : k + 1 \in 1 .. n /\ k + 1 # 1 /\ (k + 1) - 1 = k
  OBVIOUS
<1>4. \A k, x : Next0(k + 1, x) = IF tokens[(k + 1) - 1].kind = "LParen" THEN x + 1
                                  ELSE IF tokens[(k + 1) - 1].kind = "RParen" /\ x > 0 THEN x - 1
                                  ELSE x
  OBVIOUS
<1> HIDE DEF Next0
<1>5. step \in [(1 .. n) \X Nat -> Nat]
  BY <1>1
<1>6. \A k \in 1 .. n, x \in Nat : step[<<k, x>>] = IF k = 1 THEN 0 ELSE Next0(k, x)
  OBVIOUS
<1> HIDE DEF step, n
<1>7. n \in Nat
  BY DEF n
<1>8. PICK f : Recursion(f, n, Nat, 0, step)
  <2>1. 0 \in Nat
    OBVIOUS
  <2> QED
    BY <1>5, <1>7, <2>1, RecursionExists
<1>9. \E v : Is(v)
  <2> DEFINE g == [k \in 1 .. n |-> f[k]]
  <2>1. ASSUME NEW k \in 1 .. n PROVE g[k] = IF k = 1 THEN 0 ELSE Next0(k, g[k - 1])
    <3>1. k - 1 \in 0 .. n /\ f[k - 1] \in Nat
      BY <1>7, <1>8 DEF Recursion
    <3>2. f[k] = IF k = 1 THEN 0 ELSE Next0(k, f[k - 1])
      BY <1>6, <1>8, <3>1 DEF Recursion
    <3>3. k # 1 => k - 1 \in 1 .. n
      BY <1>7
    <3> QED
      BY <3>2, <3>3
  <2> HIDE DEF g
  <2>2. g = [k \in 1 .. n |-> g[k]]
    BY DEF g
  <2>3. Is(g)
    BY <2>1, <2>2
  <2> QED
    BY <2>3
<1> DEFINE lv == CHOOSE v : Is(v)
<1>10. Is(lv)
  <2> HIDE DEF Is
  <2> QED
    BY <1>9
<1>11. lv = Level
  BY <1>2
<1> HIDE DEF lv
<1>12. \A k \in 1 .. n : lv[k] = IF k = 1 THEN 0 ELSE Next0(k, lv[k - 1])
  BY <1>10
<1>13. lv = [k \in 1 .. n |-> lv[k]]
  BY <1>10, <1>12
<1> HIDE DEF Is
<1>14. \A k \in 1 .. n : lv[k] \in Nat
  <2> DEFINE S == {m \in Nat : m \in 1 .. n => lv[m] \in Nat}
  <2>1. 0 \in S
    BY <1>7
  <2>2. ASSUME NEW m \in Nat, m \in S PROVE m + 1 \in S
    <3> SUFFICES ASSUME m + 1 \in 1 .. n PROVE lv[m + 1] \in Nat
      OBVIOUS
    <3>1. CASE m + 1 = 1
      BY <1>12, <3>1
    <3>2. CASE m + 1 # 1
      <4>1. (m + 1) - 1 = m /\ m \in 1 .. n
        BY <1>7, <3>2
      <4>2. lv[m] \in Nat
        BY <2>2, <4>1
      <4> QED
        BY <1>1, <1>12, <3>2, <4>1, <4>2
    <3> QED
      BY <3>1, <3>2
  <2>3. Nat \subseteq S
    <3> HIDE DEF S
    <3> QED
      BY <2>1, <2>2, FromZeroOn
  <2> QED
    BY <1>7, <2>3
<1>15. lv \in [1 .. n -> Nat]
  BY <1>13, <1>14
<1>16. 1 <= n => lv[1] = 0
  <2> SUFFICES ASSUME 1 <= n PROVE lv[1] = 0
    OBVIOUS
  <2>1. 1 \in 1 .. n
    BY <1>7
  <2> QED
    BY <1>12, <2>1
<1>17. \A k \in 1 .. n - 1 : lv[k + 1] = Next0(k + 1, lv[k])
  BY <1>3, <1>12 DEF n
<1>18. \A k \in 1 .. n - 1 :
           Next0(k + 1, lv[k]) = IF tokens[k].kind = "LParen" THEN lv[k] + 1
                                 ELSE IF tokens[k].kind = "RParen" /\ lv[k] > 0 THEN lv[k] - 1
                                 ELSE lv[k]
  BY <1>3, <1>4 DEF n
<1> QED
  BY <1>11, <1>15, <1>16, <1>17, <1>18 DEF n

LEMMA SameTokens ==
    ASSUME tokens' = tokens
    PROVE  /\ Level' = Level /\ Stray' = Stray /\ Kept' = Kept
           /\ NeverClosed(Level)' = NeverClosed(Level)
           /\ \A u : Complete(u)' = Complete(u)
           /\ \A u : Pending(u)' = Pending(u)
           /\ \A e : CloseOf(e)' = CloseOf(e)
           /\ \A e, kept : Inside(e, kept, Level)' = Inside(e, kept, Level)
           /\ \A f, u : Elements(f, u)' = Elements(f, u)
<1>1. Level' = Level
  BY DEF Level
<1>2. Stray' = Stray
  BY <1>1 DEF Stray
<1>3. \A k : Matching(k, Level)' = Matching(k, Level)
  BY <1>1 DEF Matching
<1>4. NeverClosed(Level)' = NeverClosed(Level)
  BY <1>3 DEF NeverClosed
<1>5. Kept' = Kept
  BY <1>1, <1>4 DEF Kept, Abandoned
<1>6. \A k, u : Shut(k, u)' <=> Shut(k, u)
  BY <1>1 DEF Shut
<1>7. \A u : Complete(u)' = Complete(u)
  BY <1>6 DEF Complete
<1>8. \A u : Pending(u)' = Pending(u)
  BY <1>6 DEF Pending
<1>9. \A e : CloseOf(e)' = CloseOf(e)
  BY <1>3 DEF CloseOf
<1>10. \A e, kept : Inside(e, kept, Level)' = Inside(e, kept, Level)
  BY <1>1, <1>3 DEF Inside
<1>11. \A f, u : Elements(f, u)' = Elements(f, u)
  BY <1>1, <1>7 DEF Elements
<1> QED
  BY <1>1, <1>2, <1>4, <1>5, <1>7, <1>8, <1>9, <1>10, <1>11

LEMMA ShutFurther ==
    ASSUME NEW k \in Nat, NEW a \in Int, NEW b \in Int, a <= b, Shut(k, a)
    PROVE  Shut(k, b)
<1>1. \A c \in k + 1 .. a : c \in k + 1 .. b
  OBVIOUS
<1> QED
  BY <1>1 DEF Shut

(* Behind a parenthesis that is not closed, everything is deeper.          *)
LEMMA Deeper ==
    ASSUME Len(tokens) \in Nat, NEW k \in 1 .. Len(tokens), tokens[k].kind = "LParen",
           NEW j \in k + 1 .. Len(tokens), ~Shut(k, j - 1)
    PROVE  Level[k] + 1 <= Level[j]
<1> DEFINE n == Len(tokens)
           lv == Level
           S == {m \in Nat : k + 1 + m <= j => lv[k] + 1 <= lv[k + 1 + m]}
<1>1. /\ lv \in [1 .. n -> Nat]
      /\ \A i \in 1 .. n - 1 :
             lv[i + 1] = IF tokens[i].kind = "LParen" THEN lv[i] + 1
                         ELSE IF tokens[i].kind = "RParen" /\ lv[i] > 0 THEN lv[i] - 1
                         ELSE lv[i]
  BY LevelFacts
<1>2. \A c \in k + 1 .. j - 1 : ~ (lv[c] = lv[k] + 1 /\ tokens[c].kind = "RParen")
  BY DEF Shut
<1> HIDE DEF lv, n
<1>3. n \in Nat /\ k \in 1 .. n /\ j \in k + 1 .. n
  BY DEF n
<1>4. k \in 1 .. n - 1 /\ lv[k] \in Nat
  BY <1>1, <1>3
<1>5. lv[k + 1] = lv[k] + 1
  BY <1>1, <1>4
<1>6. 0 \in S
  <2>1. k + 1 + 0 = k + 1
    BY <1>3
  <2> QED
    BY <1>4, <1>5, <2>1
<1>7. ASSUME NEW m \in Nat, m \in S PROVE m + 1 \in S
  <2> SUFFICES ASSUME k + 1 + (m + 1) <= j PROVE lv[k] + 1 <= lv[k + 1 + (m + 1)]
    OBVIOUS
  <2> DEFINE c == k + 1 + m
  <2>1. c \in k + 1 .. j - 1 /\ c \in 1 .. n - 1 /\ c \in 1 .. n /\ c <= j /\ k + 1 + (m + 1) = c + 1
    BY <1>3
  <2>2. lv[k] + 1 <= lv[c]
    BY <1>7, <2>1
  <2> HIDE DEF c
  <2>3. lv[c] \in Nat /\ ~ (lv[c] = lv[k] + 1 /\ tokens[c].kind = "RParen")
    BY <1>1, <1>2, <2>1
  <2>4. lv[c + 1] = IF tokens[c].kind = "LParen" THEN lv[c] + 1
                    ELSE IF tokens[c].kind = "RParen" /\ lv[c] > 0 THEN lv[c] - 1
                    ELSE lv[c]
    BY <1>1, <2>1
  <2>5. lv[k] + 1 <= lv[c + 1]
    BY <1>4, <2>2, <2>3, <2>4
  <2> QED
    BY <2>1, <2>5
<1>8. Nat \subseteq S
  <2> HIDE DEF S
  <2> QED
    BY <1>6, <1>7, FromZeroOn
<1>9. j - (k + 1) \in Nat /\ k + 1 + (j - (k + 1)) = j
  BY <1>3
<1>10. lv[k] + 1 <= lv[j]
  <2> DEFINE m == j - (k + 1)
  <2>1. m \in Nat /\ k + 1 + m = j /\ j <= j
    BY <1>3, <1>9
  <2> HIDE DEF m
  <2>2. m \in S
    BY <1>8, <2>1
  <2>3. k + 1 + m <= j
    BY <1>3, <2>1
  <2>4. lv[k] + 1 <= lv[k + 1 + m]
    BY <2>2, <2>3
  <2> QED
    BY <2>1, <2>4
<1> QED
  BY <1>10 DEF lv


(* The parentheses that are not closed before p are those open there, one  *)
(* at each level.                                                          *)
LEMMA PendingFacts ==
    ASSUME Len(tokens) \in Nat, NEW p \in 1 .. Len(tokens)
    PROVE  /\ \A k \in Pending(p - 1) : k \in 1 .. p - 1 /\ Level[k] \in Nat /\ Level[k] + 1 <= Level[p]
           /\ \A k, l \in Pending(p - 1) : k < l => Level[k] + 1 <= Level[l]
           /\ \A k \in Pending(p - 1), c \in 1 .. p - 1 : k < c => Level[k] + 1 <= Level[c]
<1>1. ASSUME NEW k \in Pending(p - 1), NEW c \in 1 .. p, k < c PROVE Level[k] + 1 <= Level[c]
  <2>1. k \in 1 .. p - 1 /\ tokens[k].kind = "LParen" /\ ~Shut(k, p - 1)
    BY DEF Pending
  <2>2. k \in Nat /\ c - 1 \in Int /\ p - 1 \in Int /\ c - 1 <= p - 1
    BY <2>1
  <2>3. ~Shut(k, c - 1)
    BY <2>1, <2>2, ShutFurther
  <2>4. k \in 1 .. Len(tokens) /\ c \in k + 1 .. Len(tokens)
    BY <1>1, <2>1
  <2> QED
    BY <2>1, <2>3, <2>4, Deeper
<1>2. \A k \in Pending(p - 1) : k \in 1 .. p - 1 /\ k \in 1 .. Len(tokens) /\ p \in 1 .. p /\ k < p
  BY DEF Pending
<1>3. \A k \in Pending(p - 1) : Level[k] \in Nat
  BY <1>2, LevelFacts
<1>4. \A c \in 1 .. p - 1 : c \in 1 .. p
  OBVIOUS
<1> QED
  BY <1>1, <1>2, <1>3, <1>4

(* Where a parenthesis is closed.                                          *)
LEMMA Matched ==
    ASSUME Len(tokens) \in Nat, NEW u \in Nat, u <= Len(tokens), NEW k \in 1 .. u, Shut(k, u)
    PROVE  /\ Min(Matching(k, Level)) \in k + 1 .. u
           /\ tokens[Min(Matching(k, Level))].kind = "RParen"
           /\ Level[Min(Matching(k, Level))] = Level[k] + 1
           /\ ~Shut(k, Min(Matching(k, Level)) - 1)
<1> DEFINE M == Matching(k, Level)
           m == Min(M)
<1>1. PICK c \in k + 1 .. u : Level[c] = Level[k] + 1 /\ tokens[c].kind = "RParen"
  BY DEF Shut
<1>2. c \in M /\ M \in SUBSET Nat /\ M \subseteq k + 1 .. Len(tokens)
  BY <1>1 DEF Matching
<1>3. \A x \in M : Level[x] = Level[k] + 1 /\ tokens[x].kind = "RParen"
  BY DEF Matching
<1>4. \A x \in k + 1 .. Len(tokens) : Level[x] = Level[k] + 1 /\ tokens[x].kind = "RParen" => x \in M
  BY DEF Matching
<1> HIDE DEF M
<1>5. m \in M /\ \A x \in M : m <= x
  BY <1>2, MinProperties
<1>6. m = Min(Matching(k, Level))
  BY DEF M
<1> HIDE DEF m
<1>7. m \in k + 1 .. u
  BY <1>1, <1>2, <1>5
<1>8. ~Shut(k, m - 1)
  <2> SUFFICES ASSUME NEW x \in k + 1 .. m - 1, Level[x] = Level[k] + 1, tokens[x].kind = "RParen"
               PROVE  FALSE
    BY DEF Shut
  <2>1. x \in k + 1 .. Len(tokens) /\ ~ (m <= x)
    BY <1>7
  <2> QED
    BY <1>4, <1>5, <2>1
<1> QED
  BY <1>3, <1>5, <1>6, <1>7, <1>8

(* The first parenthesis that closes is the one that counts.               *)
LEMMA MatchedFirst ==
    ASSUME Len(tokens) \in Nat, NEW p \in 1 .. Len(tokens), NEW k \in 1 .. p - 1, ~Shut(k, p - 1),
           tokens[p].kind = "RParen", Level[p] = Level[k] + 1
    PROVE  Min(Matching(k, Level)) = p
<1> DEFINE m == Min(Matching(k, Level))
<1>1. p \in k + 1 .. p
  OBVIOUS
<1>2. Shut(k, p)
  BY <1>1 DEF Shut
<1>3. p \in Nat /\ p <= Len(tokens) /\ k \in 1 .. p
  OBVIOUS
<1>4. m \in k + 1 .. p /\ tokens[m].kind = "RParen" /\ Level[m] = Level[k] + 1
  BY <1>2, <1>3, Matched
<1> HIDE DEF m
<1>5. m \notin k + 1 .. p - 1
  BY <1>4 DEF Shut
<1>6. m = p
  BY <1>4, <1>5
<1> QED
  BY <1>6 DEF m

LEMMA ShutNext ==
    ASSUME NEW p \in Nat \ {0}, NEW k \in 1 .. p - 1
    PROVE  Shut(k, p) <=> Shut(k, p - 1) \/ (tokens[p].kind = "RParen" /\ Level[p] = Level[k] + 1)
<1>1. \A c : c \in k + 1 .. p <=> c \in k + 1 .. p - 1 \/ c = p
  OBVIOUS
<1> QED
  BY <1>1 DEF Shut

LEMMA NotShutAtOnce == ASSUME NEW p \in Nat PROVE ~Shut(p, p)
<1>1. p + 1 .. p = {}
  OBVIOUS
<1> QED
  BY <1>1 DEF Shut

(* What a token more completes, and what it leaves open.                   *)
LEMMA NothingShut ==
    ASSUME NEW p \in Nat \ {0},
           tokens[p].kind # "RParen" \/ \A k \in Pending(p - 1) : Level[p] # Level[k] + 1
    PROVE  /\ IsWord(tokens[p]) => Complete(p) = Complete(p - 1) \cup {p} /\ Pending(p) = Pending(p - 1)
           /\ tokens[p].kind = "LParen" => Complete(p) = Complete(p - 1) /\ Pending(p) = Pending(p - 1) \cup {p}
           /\ tokens[p].kind \in {"RParen", "End"} => Complete(p) = Complete(p - 1) /\ Pending(p) = Pending(p - 1)
           /\ p \notin Complete(p - 1) /\ p \notin Pending(p - 1)
<1>1. \A k : k \in 1 .. p <=> k \in 1 .. p - 1 \/ k = p
  OBVIOUS
<1>2. p \notin 1 .. p - 1
  OBVIOUS
<1>3. ASSUME NEW k \in 1 .. p - 1, tokens[k].kind = "LParen" PROVE Shut(k, p) <=> Shut(k, p - 1)
  <2>1. Shut(k, p) <=> Shut(k, p - 1) \/ (tokens[p].kind = "RParen" /\ Level[p] = Level[k] + 1)
    BY ShutNext
  <2>2. ~Shut(k, p - 1) => k \in Pending(p - 1)
    BY <1>3 DEF Pending
  <2> QED
    BY <2>1, <2>2
<1>4. \A k \in 1 .. p - 1 : k \in Complete(p) <=> k \in Complete(p - 1)
  BY <1>1, <1>3 DEF Complete
<1>5. \A k \in 1 .. p - 1 : k \in Pending(p) <=> k \in Pending(p - 1)
  BY <1>1, <1>3 DEF Pending
<1>6. ~Shut(p, p)
  BY NotShutAtOnce
<1>7. /\ p \in Complete(p) <=> IsWord(tokens[p])
      /\ p \in Pending(p) <=> tokens[p].kind = "LParen"
  BY <1>1, <1>6 DEF Complete, Pending
<1>8. /\ \A k \in Complete(p) \cup Pending(p) : k \in 1 .. p - 1 \/ k = p
      /\ \A k \in Complete(p - 1) \cup Pending(p - 1) : k \in 1 .. p - 1
  BY <1>1 DEF Complete, Pending
<1>9. tokens[p].kind \in {"LParen", "RParen", "End"} => ~IsWord(tokens[p])
  BY DEF IsWord
<1>10. IsWord(tokens[p]) => Complete(p) = Complete(p - 1) \cup {p} /\ Pending(p) = Pending(p - 1)
  BY <1>4, <1>5, <1>7, <1>8 DEF IsWord
<1>11. tokens[p].kind = "LParen" => Complete(p) = Complete(p - 1) /\ Pending(p) = Pending(p - 1) \cup {p}
  BY <1>4, <1>5, <1>7, <1>8, <1>9
<1>12. tokens[p].kind \in {"RParen", "End"} => Complete(p) = Complete(p - 1) /\ Pending(p) = Pending(p - 1)
  BY <1>4, <1>5, <1>7, <1>8, <1>9
<1> QED
  BY <1>2, <1>8, <1>10, <1>11, <1>12

LEMMA OneShut ==
    ASSUME Len(tokens) \in Nat, NEW p \in 1 .. Len(tokens), tokens[p].kind = "RParen",
           NEW d \in Pending(p - 1), Level[p] = Level[d] + 1
    PROVE  /\ Complete(p) = Complete(p - 1) \cup {d} /\ d \notin Complete(p - 1)
           /\ Pending(p) = Pending(p - 1) \ {d}
<1>1. (\A k : k \in 1 .. p <=> k \in 1 .. p - 1 \/ k = p) /\ p \in Nat \ {0}
  OBVIOUS
<1>2. d \in 1 .. p - 1 /\ tokens[d].kind = "LParen" /\ ~Shut(d, p - 1)
  BY DEF Pending
<1>3. \A k \in Pending(p - 1) : Level[k] = Level[d] => k = d
  <2> SUFFICES ASSUME NEW k \in Pending(p - 1), Level[k] = Level[d], k # d PROVE FALSE
    OBVIOUS
  <2>1. k \in 1 .. p - 1 /\ Level[k] \in Nat
    BY PendingFacts
  <2>2. k < d \/ d < k
    BY <1>2, <2>1
  <2>3. Level[k] + 1 <= Level[d] \/ Level[d] + 1 <= Level[k]
    BY <2>2, PendingFacts
  <2> QED
    BY <2>1, <2>3
<1>4. \A k \in Pending(p - 1) : Level[k] \in Nat
  BY PendingFacts
<1>5. ASSUME NEW k \in 1 .. p - 1, tokens[k].kind = "LParen" PROVE Shut(k, p) <=> Shut(k, p - 1) \/ k = d
  <2>1. Shut(k, p) <=> Shut(k, p - 1) \/ Level[p] = Level[k] + 1
    BY <1>1, ShutNext
  <2>2. ~Shut(k, p - 1) => k \in Pending(p - 1)
    BY <1>5 DEF Pending
  <2>3. ~Shut(k, p - 1) /\ Level[p] = Level[k] + 1 => Level[k] = Level[d]
    BY <1>4, <2>2
  <2> QED
    BY <1>3, <2>1, <2>2, <2>3
<1>6. ~IsWord(tokens[d]) /\ ~IsWord(tokens[p]) /\ tokens[p].kind # "LParen"
  BY <1>2 DEF IsWord
<1>7. \A k : k \in Complete(p) <=> k \in Complete(p - 1) \/ k = d
  BY <1>1, <1>2, <1>5, <1>6 DEF Complete
<1>8. \A k : k \in Pending(p) <=> k \in Pending(p - 1) /\ k # d
  BY <1>1, <1>2, <1>5, <1>6 DEF Pending
<1>9. d \notin Complete(p - 1)
  BY <1>2, <1>6 DEF Complete
<1> QED
  BY <1>7, <1>8, <1>9


LEMMA OrderedEmpty == Ordered(<<>>, {})
BY DEF Ordered, InOrder, ToSet

LEMMA OrderedMore ==
    ASSUME NEW s, NEW T, Ordered(s, T), NEW e, \A x \in T : x < e
    PROVE  Ordered(Append(s, e), T \cup {e})
<1> DEFINE n == Len(s)
           all == Append(s, e)
<1>1. PICK S : s \in Seq(S)
  BY DEF Ordered
<1>2. /\ n \in Nat /\ Len(all) = n + 1 /\ all[n + 1] = e
      /\ \A i \in 1 .. n : all[i] = s[i]
  BY <1>1, Appended
<1>3. \E R : all \in Seq(R)
  BY AnySeq, <1>1
<1>4. DOMAIN s = 1 .. n /\ DOMAIN all = 1 .. n + 1
  BY <1>1, <1>2, <1>3
<1>5. T = {s[i] : i \in 1 .. n} /\ \A i, j \in 1 .. n : i < j => s[i] < s[j]
  BY <1>4 DEF Ordered, InOrder, ToSet
<1> HIDE DEF n, all
<1>6. \A i \in 1 .. n + 1 : i \in 1 .. n \/ i = n + 1
  BY <1>2
<1>7. n + 1 \in 1 .. n + 1 /\ (\A i \in 1 .. n : i \in 1 .. n + 1) /\ \A i \in 1 .. n : ~ (n + 1 < i)
  BY <1>2
<1>8. T \cup {e} = {all[i] : i \in 1 .. n + 1}
  BY <1>2, <1>5, <1>6, <1>7
<1>9. ASSUME NEW i \in 1 .. n + 1, NEW j \in 1 .. n + 1, i < j PROVE all[i] < all[j]
  <2>1. i \in 1 .. n
    BY <1>2, <1>9
  <2>2. CASE j = n + 1
    BY <1>2, <1>5, <2>1, <2>2
  <2>3. CASE j \in 1 .. n
    BY <1>2, <1>5, <1>9, <2>1, <2>3
  <2> QED
    BY <1>6, <2>2, <2>3
<1>10. Ordered(all, T \cup {e})
  BY <1>3, <1>4, <1>8, <1>9 DEF Ordered, InOrder, ToSet
<1> QED
  BY <1>10 DEF all

LEMMA OrderedSeq ==
    ASSUME NEW s, NEW T, Ordered(s, T)
    PROVE  s \in Seq(T)
<1>1. PICK S : s \in Seq(S)
  BY DEF Ordered
<1>2. DOMAIN s = 1 .. Len(s) /\ Len(s) \in Nat /\ s = [i \in 1 .. Len(s) |-> s[i]]
  BY <1>1
<1>3. \A i \in 1 .. Len(s) : s[i] \in T
  BY <1>2 DEF Ordered, InOrder, ToSet
<1> QED
  BY <1>2, <1>3

(* What is complete gets no further elements.                              *)
LEMMA InsideSettled ==
    ASSUME Len(tokens) \in Nat, NEW p \in 1 .. Len(tokens), NEW k \in Complete(p - 1),
           NEW x, x = p \/ x \in Pending(p - 1)
    PROVE  Inside(k, Complete(p - 1) \cup {x}, Level) = Inside(k, Complete(p - 1), Level)
<1> DEFINE m == Min(Matching(k, Level))
<1>1. CASE tokens[k].kind # "LParen"
  BY <1>1 DEF Inside
<1>2. CASE tokens[k].kind = "LParen"
  <2>1. k \in 1 .. p - 1 /\ Shut(k, p - 1) /\ p - 1 \in Nat /\ p - 1 <= Len(tokens)
    BY <1>2 DEF Complete, IsWord
  <2>2. m \in k + 1 .. p - 1 /\ tokens[m].kind = "RParen" /\ Level[m] = Level[k] + 1
    BY <2>1, Matched
  <2> HIDE DEF m
  <2>3. ~ (x \in k + 1 .. m /\ Level[x] = Level[k] + 1)
    <3> SUFFICES ASSUME x \in k + 1 .. m, Level[x] = Level[k] + 1 PROVE FALSE
      OBVIOUS
    <3>1. CASE x = p
      BY <2>1, <2>2, <3>1
    <3>2. CASE x \in Pending(p - 1)
      <4>1. x # m
        BY <2>2, <3>2 DEF Pending
      <4>2. x < m /\ m \in 1 .. p - 1
        BY <2>1, <2>2, <4>1
      <4>3. Level[x] \in Nat /\ Level[x] + 1 <= Level[m]
        BY <3>2, <4>2, PendingFacts
      <4> QED
        BY <2>2, <4>3
    <3> QED
      BY <3>1, <3>2
  <2> QED
    BY <1>2, <2>3 DEF Inside, m
<1> QED
  BY <1>1, <1>2

(* An expression more.                                                     *)
LEMMA TreeMore ==
    ASSUME NEW kept, Tree(kept), NEW e, e \notin kept, NEW node, tokens' = tokens, nodes' = With(e, node),
           \A x \in kept : Inside(x, kept \cup {e}, Level) = Inside(x, kept, Level),
           Ordered(exprs', {k \in kept \cup {e} : Level[k] = 0}),
           node = Node(IF tokens[e].kind = "LParen" THEN "List" ELSE tokens[e].kind,
                       Span(tokens[e].span.from, tokens[CloseOf(e)].span.to),
                       IF tokens[e].kind = "Symbol" THEN tokens[e].word ELSE <<>>,
                       IF tokens[e].kind = "LParen" THEN 0 ELSE tokens[e].integer,
                       node.list),
           Ordered(node.list, Inside(e, kept \cup {e}, Level))
    PROVE  Tree(kept \cup {e})'
<1> DEFINE all == kept \cup {e}
<1>1. DOMAIN nodes = kept /\ \A x \in kept : NodeExact(x, kept)
  BY DEF Tree
<1>2. nodes' = [x \in kept \cup {e} |-> IF x = e THEN node ELSE nodes[x]]
  BY <1>1 DEF With
<1>3. DOMAIN nodes' = all /\ nodes'[e] = node /\ \A x \in kept : nodes'[x] = nodes[x]
  BY <1>2
<1>4. /\ Level' = Level
      /\ \A x : CloseOf(x)' = CloseOf(x)
      /\ \A x, s : Inside(x, s, Level)' = Inside(x, s, Level)
  BY SameTokens
<1> HIDE DEF all
<1>5. \A s, T : Ordered(s, T)' <=> Ordered(s, T)
  BY DEF Ordered, InOrder
<1>6. Ordered(exprs, {k \in all : Level[k] = 0})'
  <2>1. {k \in all : Level[k] = 0}' = {k \in all : Level[k] = 0}
    BY <1>4
  <2>2. Ordered(exprs', {k \in all : Level[k] = 0})
    BY DEF all
  <2> QED
    BY <1>5, <2>1, <2>2
<1>7. NodeExact(e, all)'
  <2>1. nodes'[e] = Node(IF tokens[e].kind = "LParen" THEN "List" ELSE tokens[e].kind,
                         Span(tokens[e].span.from, tokens[CloseOf(e)].span.to),
                         IF tokens[e].kind = "Symbol" THEN tokens[e].word ELSE <<>>,
                         IF tokens[e].kind = "LParen" THEN 0 ELSE tokens[e].integer,
                         nodes'[e].list)
    BY <1>3
  <2>2. Ordered(nodes'[e].list, Inside(e, all, Level)')
    BY <1>3, <1>4 DEF all
  <2> QED
    BY <1>4, <2>1, <2>2 DEF NodeExact, Ordered, InOrder
<1>8. ASSUME NEW x \in kept PROVE NodeExact(x, all)'
  <2>1. NodeExact(x, kept) /\ nodes'[x] = nodes[x]
    BY <1>1, <1>3
  <2>2. Inside(x, all, Level)' = Inside(x, kept, Level)
    BY <1>4 DEF all
  <2>3. Ordered(nodes'[x].list, Inside(x, all, Level)')
    BY <2>1, <2>2 DEF NodeExact
  <2> QED
    BY <1>4, <2>1, <2>3 DEF NodeExact, Ordered, InOrder
<1>9. \A x \in all : NodeExact(x, all)'
  BY <1>7, <1>8 DEF all
<1>10. Tree(all)'
  BY <1>3, <1>6, <1>9 DEF Tree
<1> QED
  BY <1>10 DEF all

(* An open list with one more element.                                     *)
LEMMA LongerList ==
    ASSUME NEW f, NEW l, NEW e
    PROVE  [[first |-> f, list |-> l] EXCEPT !.list = Append(@, e)] = [first |-> f, list |-> Append(l, e)]
OBVIOUS

(* The expression e is handed to the list around it.                       *)
LEMMA Delivered ==
    ASSUME Len(tokens) \in Nat, NEW p \in 1 .. Len(tokens), NEW around, \E S : around \in Seq(S),
           NEW e \in 1 .. p, Complete(p) = Complete(p - 1) \cup {e}, Level[e] = Len(around),
           \A c \in Complete(p - 1) : Level[c] = Level[e] => c < e,
           Lists(around, p - 1), \A i \in 1 .. Len(around) : around[i].first \in Pending(p) /\ around[i].first < e,
           Ordered(exprs, {k \in Complete(p - 1) : Level[k] = 0}),
           Deliver(e, around)
    PROVE  /\ Ordered(exprs', {k \in Complete(p) : Level[k] = 0})
           /\ \E S : open' \in Seq(S)
           /\ Len(open') = Len(around)
           /\ Lists(open', p)
<1> DEFINE n == Len(around)
<1>1. PICK S : around \in Seq(S)
  OBVIOUS
<1>2. n \in Nat /\ (around = <<>> <=> n = 0)
  BY <1>1, EmptySeq
<1>3. \A i \in 1 .. n : /\ around[i] = [first |-> around[i].first, list |-> around[i].list]
                        /\ around[i].first \in Pending(p) /\ Level[around[i].first] = i - 1
                        /\ around[i].first < e
                        /\ Ordered(around[i].list, Elements(around[i].first, p - 1))
  BY DEF Lists
<1>4. CASE around = <<>>
  <2>1. open' = <<>> /\ exprs' = Append(exprs, e)
    BY <1>4 DEF Deliver
  <2>2. Level[e] = 0
    BY <1>2, <1>4
  <2>3. {k \in Complete(p) : Level[k] = 0} = {k \in Complete(p - 1) : Level[k] = 0} \cup {e}
    BY <2>2
  <2>4. \A x \in {k \in Complete(p - 1) : Level[k] = 0} : x < e
    BY <2>2
  <2>5. Ordered(exprs', {k \in Complete(p) : Level[k] = 0})
    BY <2>1, <2>3, <2>4, OrderedMore
  <2>6. Len(open') = 0 /\ open' \in Seq({})
    BY <2>1
  <2>7. Lists(open', p)
    BY <2>6 DEF Lists
  <2> QED
    BY <1>2, <1>4, <2>5, <2>6, <2>7
<1>5. CASE around # <<>>
  <2>1. open' = [around EXCEPT ![n].list = Append(@, e)] /\ exprs' = exprs
    BY <1>5 DEF Deliver
  <2> HIDE DEF n
  <2>2. n \in 1 .. n /\ Level[e] = n /\ n # 0
    BY <1>2, <1>5 DEF n
  <2>3. {k \in Complete(p) : Level[k] = 0} = {k \in Complete(p - 1) : Level[k] = 0}
    BY <2>2
  <2>4. DOMAIN around = 1 .. n
    BY <1>1 DEF n
  <2>5. /\ \A i \in 1 .. n : i # n => open'[i] = around[i]
        /\ open'[n] = [first |-> around[n].first, list |-> Append(around[n].list, e)]
    <3>1. /\ \A i \in 1 .. n : i # n => open'[i] = around[i]
          /\ open'[n] = [around[n] EXCEPT !.list = Append(@, e)]
      BY <2>1, <2>2, <2>4
    <3>2. around[n] = [first |-> around[n].first, list |-> around[n].list]
      BY <1>3, <2>2
    <3>3. open'[n] = [[first |-> around[n].first, list |-> around[n].list] EXCEPT !.list = Append(@, e)]
      BY <3>1, <3>2
    <3>4. open'[n] = [first |-> around[n].first, list |-> Append(around[n].list, e)]
      BY <3>3, LongerList
    <3> QED
      BY <3>1, <3>4
  <2>6. DOMAIN open' = 1 .. n /\ open' = [i \in 1 .. n |-> open'[i]]
    BY <2>1, <2>4
  <2>7. open' \in Seq({open'[i] : i \in 1 .. n}) /\ Len(open') = n
    BY <1>2, <2>6 DEF n
  <2>8. ASSUME NEW i \in 1 .. n
        PROVE  /\ open'[i] = [first |-> open'[i].first, list |-> open'[i].list]
               /\ open'[i].first \in Pending(p) /\ Level[open'[i].first] = i - 1
               /\ Ordered(open'[i].list, Elements(open'[i].first, p))
    <3> DEFINE f == around[i].first
    <3>1. f \in Pending(p) /\ Level[f] = i - 1 /\ f < e /\ Ordered(around[i].list, Elements(f, p - 1))
      BY <1>3
    <3>2. Level[f] + 1 = i
      BY <3>1
    <3>3. Elements(f, p) = {c \in Complete(p - 1) \cup {e} : f < c /\ Level[c] = i}
      BY <3>2 DEF Elements
    <3>4. Elements(f, p - 1) = {c \in Complete(p - 1) : f < c /\ Level[c] = i}
      BY <3>2 DEF Elements
    <3>5. f = around[i].first
      OBVIOUS
    <3> HIDE DEF f
    <3>6. CASE i = n
      <4>1. Elements(f, p) = Elements(f, p - 1) \cup {e}
        BY <2>2, <3>1, <3>3, <3>4, <3>6
      <4>2. \A x \in Elements(f, p - 1) : x < e
        BY <2>2, <3>4, <3>6
      <4>3. Ordered(Append(around[i].list, e), Elements(f, p))
        BY <3>1, <4>1, <4>2, OrderedMore
      <4>4. open'[i] = [first |-> f, list |-> Append(around[i].list, e)]
        BY <2>5, <3>5, <3>6
      <4>5. open'[i].first = f /\ open'[i].list = Append(around[i].list, e)
        BY <4>4
      <4> QED
        BY <3>1, <4>3, <4>4, <4>5
    <3>7. CASE i # n
      <4>1. Elements(f, p) = Elements(f, p - 1)
        BY <2>2, <3>3, <3>4, <3>7
      <4>2. open'[i] = around[i]
        BY <2>5, <3>7
      <4> QED
        BY <1>3, <3>1, <3>5, <4>1, <4>2
    <3> QED
      BY <3>6, <3>7
  <2>9. Lists(open', p)
    BY <2>7, <2>8 DEF Lists
  <2> QED
    BY <2>1, <2>3, <2>7, <2>9 DEF n
<1> QED
  BY <1>4, <1>5

-----------------------------------------------------------------------------
(***************************************************************************)
(* The steps of the parser.                                                *)
(***************************************************************************)
LEMMA TokenKinds ==
    ASSUME ReadOK, mode = "lexed"
    PROVE  /\ Len(tokens) \in Nat \ {0} /\ Len(tokens) \in 1 .. Len(tokens)
           /\ \A k \in 1 .. Len(tokens) : /\ TokenOK(tokens[k])
                                          /\ tokens[k].kind \in {"Symbol", "Integer", "LParen", "RParen", "End"}
                                          /\ tokens[k].kind = "End" <=> k = Len(tokens)
           /\ \E S : tokens \in Seq(S)
           /\ Consumed = Len(text)
<1>1. PICK S : tokens \in Seq(S)
  BY ReadFacts
<1>2. tokens # <<>> /\ tokens[Len(tokens)].kind = "End" /\ AtEnd
  BY DEF ReadOK, EndOK
<1>3. Len(tokens) \in Nat \ {0}
  BY <1>1, <1>2, EmptySeq
<1>4. Len(tokens) \in 1 .. Len(tokens)
  BY <1>3
<1>5. \A k \in 1 .. Len(tokens) : TokenOK(tokens[k])
  BY DEF ReadOK, TokensFit
<1>6. \A k \in 1 .. Len(tokens) : tokens[k].kind \in {"Symbol", "Integer", "LParen", "RParen", "End"}
  BY <1>5 DEF TokenOK, IsWord, IsParen
<1>7. \A k \in 1 .. Len(tokens) : tokens[k].kind = "End" => k = Len(tokens)
  BY DEF ReadOK, EndOK
<1>8. Consumed = Len(text)
  BY <1>2 DEF Consumed, AtEnd, ReadOK
<1> QED
  BY <1>1, <1>2, <1>3, <1>4, <1>5, <1>6, <1>7, <1>8

LEMMA ReadUntouched ==
    ASSUME ReadOK, UNCHANGED <<text, at, mode, begun, word, tokens>>
    PROVE  ReadOK' /\ Consumed' = Consumed
<1>1. Consumed' = Consumed
  BY DEF Consumed
<1>2. PlaceOK(at)' /\ PlaceOK(begun)' /\ TokensFit(tokens, Consumed)' /\ Covered(tokens, Consumed)'
  BY <1>1, SameText DEF ReadOK
<1>3. Reads({";"})' = Reads({";"}) /\ Reads(SymbolChars)' = Reads(SymbolChars) /\ AtEnd' = AtEnd /\ char' = char
  BY DEF Reads, AtEnd, char
<1>4. Commented(at.offset)' <=> Commented(at.offset)
  BY SameText
<1>5. CommentOK'
  BY <1>3, <1>4 DEF CommentOK, ReadOK
<1>6. WordOK'
  <2>1. WordOK
    BY DEF ReadOK
  <2>2. \A i : Commented(i)' <=> Commented(i)
    BY SameText
  <2> QED
    BY <1>3, <2>1, <2>2 DEF WordOK
<1>7. LastOK' /\ EndOK'
  BY <1>1, <1>3 DEF LastOK, EndOK, ReadOK
<1> QED
  BY <1>1, <1>2, <1>5, <1>6, <1>7 DEF ReadOK

LEMMA SameComplaints ==
    ASSUME text' = text, tokens' = tokens, complaints' = complaints, NEW u, NEW R,
           Complains(complaints, tokens, u, R)
    PROVE  Complains(complaints, tokens, u, R)'
BY SameText

(* As long as nothing was dropped.                                         *)
Growing ==
    /\ ReadOK /\ mode = "lexed" /\ pos \in 1 .. Len(tokens)
    /\ Tree(Complete(pos - 1)) /\ OpenOK

LEMMA ParsingFacts ==
    ASSUME Parsed, stage = "parsing", peek.kind # "End" \/ open # <<>>
    PROVE  /\ Growing /\ ~Dropped
           /\ Refused = {k \in Stray : k < pos}
           /\ Complains(complaints, tokens, Consumed, Refused)
<1>1. ~Dropped
  BY DEF Dropped
<1> QED
  BY <1>1 DEF Parsed, ParseOK, Growing, Refused

(* The next token, when it is not the last.                                *)
LEMMA NextToken ==
    ASSUME Growing, peek.kind # "End"
    PROVE  /\ Len(tokens) \in Nat /\ pos \in 1 .. Len(tokens) /\ pos \in Nat \ {0} /\ pos + 1 \in 1 .. Len(tokens)
           /\ pos \in 1 .. Len(tokens) - 1 /\ (pos + 1) - 1 = pos
           /\ Level[pos] \in Nat /\ Level[pos + 1] \in Nat
           /\ Level[pos + 1] = IF peek.kind = "LParen" THEN Level[pos] + 1
                               ELSE IF peek.kind = "RParen" /\ Level[pos] > 0 THEN Level[pos] - 1
                               ELSE Level[pos]
           /\ \E S : open \in Seq(S)
           /\ Len(open) = Level[pos] /\ Lists(open, pos - 1)
           /\ open = <<>> <=> Level[pos] = 0
           /\ \A i \in 1 .. Len(open) : open[i].first \in Pending(pos - 1) /\ Level[open[i].first] = i - 1
           /\ Tree(Complete(pos - 1)) /\ Ordered(exprs, {k \in Complete(pos - 1) : Level[k] = 0})
<1>1. /\ Len(tokens) \in Nat /\ pos \in 1 .. Len(tokens)
      /\ \A k \in 1 .. Len(tokens) : tokens[k].kind = "End" <=> k = Len(tokens)
  BY TokenKinds DEF Growing
<1>2. pos # Len(tokens)
  BY <1>1 DEF peek
<1>3. pos \in 1 .. Len(tokens) - 1 /\ pos + 1 \in 1 .. Len(tokens) /\ pos \in Nat \ {0} /\ (pos + 1) - 1 = pos
  BY <1>1, <1>2
<1>4. Level \in [1 .. Len(tokens) -> Nat]
  BY <1>1, LevelFacts
<1>5. Level[pos + 1] = IF peek.kind = "LParen" THEN Level[pos] + 1
                       ELSE IF peek.kind = "RParen" /\ Level[pos] > 0 THEN Level[pos] - 1
                       ELSE Level[pos]
  BY <1>1, <1>3, LevelFacts DEF peek
<1>6. PICK S : open \in Seq(S)
  BY DEF Growing, OpenOK
<1>7. Len(open) = Level[pos] /\ Lists(open, pos - 1)
  BY DEF Growing, OpenOK
<1>8. open = <<>> <=> Level[pos] = 0
  BY <1>6, <1>7, EmptySeq
<1>9. \A i \in 1 .. Len(open) : open[i].first \in Pending(pos - 1) /\ Level[open[i].first] = i - 1
  BY <1>7 DEF Lists
<1>10. Tree(Complete(pos - 1)) /\ Ordered(exprs, {k \in Complete(pos - 1) : Level[k] = 0})
  BY DEF Growing, Tree
<1> QED
  BY <1>1, <1>3, <1>4, <1>5, <1>6, <1>7, <1>8, <1>9, <1>10

LEMMA SameLists ==
    ASSUME tokens' = tokens
    PROVE  /\ \A s, T : Ordered(s, T)' <=> Ordered(s, T)
           /\ \A ls, u : Lists(ls, u)' <=> Lists(ls, u)
<1>1. \A s, T : Ordered(s, T)' <=> Ordered(s, T)
  BY DEF Ordered, InOrder
<1> QED
  BY <1>1, SameTokens DEF Lists

(* The parser goes on to the next token.                                   *)
LEMMA GoesOn ==
    ASSUME Parsed, stage = "parsing", peek.kind # "End",
           UNCHANGED <<text, at, mode, begun, word, tokens, stage>>, pos' = pos + 1,
           NEW kept, kept = Complete(pos), Tree(kept)',
           \E S : open' \in Seq(S), Len(open') = Level[pos + 1], Lists(open', pos),
           NEW R, Refused = R,
           pos \in Stray => Complains(complaints', tokens, Consumed, R \cup {pos}),
           pos \notin Stray => complaints' = complaints
    PROVE  Parsed'
<1>1. /\ Growing /\ ~Dropped /\ Refused = {k \in Stray : k < pos}
      /\ Complains(complaints, tokens, Consumed, Refused)
  BY ParsingFacts
<1>2. /\ Len(tokens) \in Nat /\ pos + 1 \in 1 .. Len(tokens) /\ pos \in Nat \ {0} /\ (pos + 1) - 1 = pos
      /\ Level[pos + 1] \in Nat
  BY <1>1, NextToken
<1>3. ReadOK' /\ Consumed' = Consumed
  BY ReadUntouched DEF Parsed
<1>4. Level' = Level /\ Stray' = Stray /\ \A u : Complete(u)' = Complete(u)
  BY SameTokens
<1>5. (open = <<>> => Level[pos] = 0)'
  <2>1. PICK S : open' \in Seq(S)
    OBVIOUS
  <2>2. open' = <<>> => Level[pos + 1] = 0
    BY <2>1, EmptySeq
  <2> QED
    BY <1>4, <2>2
<1>6. ~Dropped'
  <2>1. (Level[pos])' = Level[pos + 1]
    BY <1>4
  <2> QED
    BY <1>2, <1>5, <2>1 DEF Dropped
<1>7. Refused' = IF pos \in Stray THEN R \cup {pos} ELSE R
  <2>1. Refused' = {k \in Stray : k < pos + 1}
    BY <1>4, <1>6 DEF Refused
  <2>2. \A k \in Stray : k < pos + 1 <=> k < pos \/ k = pos
    <3>1. Stray \subseteq Nat
      BY DEF Stray
    <3> QED
      BY <1>2, <3>1
  <2> QED
    BY <1>1, <2>1, <2>2
<1>8. Complains(complaints, tokens, Consumed, Refused)'
  <2>1. Complains(complaints', tokens, Consumed, Refused')
    BY <1>1, <1>7
  <2> QED
    BY <1>3, <2>1, SameText
<1>9. Complete(pos - 1)' = kept
  BY <1>2, <1>4
<1>10. Tree(Complete(pos - 1))'
  BY <1>9
<1>11. OpenOK'
  <2>1. Lists(open, pos - 1)'
    <3>1. (pos - 1)' = pos
      BY <1>2
    <3> QED
      BY <3>1, SameLists
  <2>2. (Len(open) = Level[pos])'
    BY <1>4
  <2> QED
    BY <2>1, <2>2 DEF OpenOK
<1>12. (pos \in 1 .. Len(tokens))'
  BY <1>2
<1>13. ParseOK'
  BY <1>1, <1>6, <1>10, <1>11, <1>12 DEF ParseOK, Growing
<1> QED
  BY <1>3, <1>8, <1>13 DEF Parsed

LEMMA AtomParsed == ASSUME Parsed, ParseAtom PROVE Parsed'
<1> DEFINE node == Node(peek.kind, peek.span, IF peek.kind = "Symbol" THEN peek.word ELSE <<>>, peek.integer, <<>>)
<1>1. /\ stage = "parsing" /\ IsWord(peek) /\ peek.kind \notin {"End", "LParen", "RParen"}
      /\ nodes' = With(pos, node) /\ Deliver(pos, open) /\ pos' = pos + 1
      /\ UNCHANGED <<text, at, mode, begun, word, tokens, complaints, stage>>
  BY DEF ParseAtom, Parsing, IsWord, lexerVars
<1>2. Growing /\ Refused = {k \in Stray : k < pos}
  BY <1>1, ParsingFacts
<1>3. /\ Len(tokens) \in Nat /\ pos \in 1 .. Len(tokens) /\ pos \in Nat \ {0} /\ pos \in 1 .. pos
      /\ Level[pos + 1] = Level[pos] /\ Len(open) = Level[pos]
      /\ \E S : open \in Seq(S)
  BY <1>1, <1>2, NextToken
<1>4. Lists(open, pos - 1) /\ Tree(Complete(pos - 1)) /\ Ordered(exprs, {k \in Complete(pos - 1) : Level[k] = 0})
  BY <1>1, <1>2, NextToken
<1>5. /\ Complete(pos) = Complete(pos - 1) \cup {pos} /\ Pending(pos) = Pending(pos - 1)
      /\ pos \notin Complete(pos - 1)
  <2>1. IsWord(tokens[pos]) /\ tokens[pos].kind # "RParen"
    BY <1>1 DEF peek
  <2> QED
    BY <1>3, <2>1, NothingShut
<1>6. \A c \in Complete(pos - 1) : c < pos
  <2>1. \A c \in Complete(pos - 1) : c \in 1 .. pos - 1
    BY DEF Complete
  <2> QED
    BY <1>3, <2>1
<1>7. \A i \in 1 .. Len(open) : open[i].first \in Pending(pos) /\ open[i].first < pos
  <2>1. \A i \in 1 .. Len(open) : open[i].first \in Pending(pos - 1)
    BY <1>4 DEF Lists
  <2>2. \A k \in Pending(pos - 1) : k \in 1 .. pos - 1
    BY DEF Pending
  <2> QED
    BY <1>3, <1>5, <2>1, <2>2
<1>8. /\ Ordered(exprs', {k \in Complete(pos) : Level[k] = 0})
      /\ \E S : open' \in Seq(S)
      /\ Len(open') = Len(open)
      /\ Lists(open', pos)
  BY <1>1, <1>3, <1>4, <1>5, <1>6, <1>7, Delivered
<1>9. PICK kept, all : kept = Complete(pos - 1) /\ all = Complete(pos)
  OBVIOUS
<1>10. \A x \in kept : Inside(x, kept \cup {pos}, Level) = Inside(x, kept, Level)
  BY <1>3, <1>9, InsideSettled
<1>11. /\ node = Node(IF tokens[pos].kind = "LParen" THEN "List" ELSE tokens[pos].kind,
                      Span(tokens[pos].span.from, tokens[CloseOf(pos)].span.to),
                      IF tokens[pos].kind = "Symbol" THEN tokens[pos].word ELSE <<>>,
                      IF tokens[pos].kind = "LParen" THEN 0 ELSE tokens[pos].integer,
                      node.list)
       /\ node.list = <<>> /\ Inside(pos, kept \cup {pos}, Level) = {}
  <2>1. peek.kind # "LParen" /\ peek = tokens[pos]
    BY <1>1 DEF peek
  <2>2. node.list = <<>>
    BY DEF Node
  <2>3. CloseOf(pos) = pos
    BY <2>1 DEF CloseOf
  <2>4. tokens[pos].span = Span(tokens[pos].span.from, tokens[pos].span.to)
    <3>1. TokenOK(tokens[pos])
      BY <1>2, <1>3, TokenKinds DEF Growing
    <3> QED
      BY <3>1 DEF TokenOK
  <2>5. Inside(pos, kept \cup {pos}, Level) = {}
    BY <2>1 DEF Inside
  <2> QED
    BY <2>1, <2>2, <2>3, <2>4, <2>5
<1> HIDE DEF node
<1>12. Tree(all)'
  <2>1. PICK p : p = pos
    OBVIOUS
  <2>2. Tree(kept) /\ p \notin kept /\ nodes' = With(p, node) /\ tokens' = tokens
    BY <1>1, <1>4, <1>5, <1>9, <2>1
  <2>3. Ordered(exprs', {k \in kept \cup {p} : Level[k] = 0})
    BY <1>5, <1>8, <1>9, <2>1
  <2>4. Ordered(node.list, Inside(p, kept \cup {p}, Level))
    BY <1>11, <2>1, OrderedEmpty
  <2>5. Tree(kept \cup {p})'
    BY <1>10, <1>11, <2>1, <2>2, <2>3, <2>4, TreeMore
  <2>6. all = kept \cup {p}
    BY <1>5, <1>9, <2>1
  <2> QED
    BY <2>5, <2>6
<1>13. pos \notin Stray
  BY <1>1 DEF Stray, peek
<1> QED
  BY <1>1, <1>3, <1>5, <1>8, <1>9, <1>12, <1>13, GoesOn

LEMMA ListOpened == ASSUME Parsed, OpenList PROVE Parsed'
<1> DEFINE item == [first |-> pos, list |-> <<>>]
<1>1. /\ stage = "parsing" /\ peek.kind = "LParen"
      /\ open' = Append(open, item) /\ pos' = pos + 1
      /\ UNCHANGED <<text, at, mode, begun, word, tokens, complaints, stage, exprs, nodes>>
  BY DEF OpenList, Parsing, lexerVars
<1>2. Growing /\ Refused = {k \in Stray : k < pos}
  BY <1>1, ParsingFacts
<1>3. /\ Len(tokens) \in Nat /\ pos \in 1 .. Len(tokens) /\ pos \in Nat \ {0}
      /\ Level[pos + 1] = Level[pos] + 1 /\ Len(open) = Level[pos] /\ Level[pos] \in Nat
      /\ \E S : open \in Seq(S)
  BY <1>1, <1>2, NextToken
<1>4. Lists(open, pos - 1) /\ Tree(Complete(pos - 1))
  BY <1>1, <1>2, NextToken
<1>5. Complete(pos) = Complete(pos - 1) /\ Pending(pos) = Pending(pos - 1) \cup {pos}
  <2>1. tokens[pos].kind = "LParen" /\ tokens[pos].kind # "RParen"
    BY <1>1 DEF peek
  <2> QED
    BY <1>3, <2>1, NothingShut
<1>6. item.first = pos /\ item.list = <<>> /\ item = [first |-> item.first, list |-> item.list]
  OBVIOUS
<1>7. /\ \E S : open' \in Seq(S)
      /\ Len(open') = Len(open) + 1 /\ open'[Len(open) + 1] = item
      /\ \A i \in 1 .. Len(open) : open'[i] = open[i]
  <2>1. \E S : open' \in Seq(S)
    BY <1>1, <1>3, GrownSeq
  <2>2. Len(open') = Len(open) + 1 /\ open'[Len(open) + 1] = item
    BY <1>1, <1>3, GrownSeq
  <2>3. \A i \in 1 .. Len(open) : open'[i] = open[i]
    BY <1>1, <1>3, GrownSeq
  <2> QED
    BY <2>1, <2>2, <2>3
<1> HIDE DEF item
<1>8. Elements(pos, pos) = {}
  <2>1. \A c \in Complete(pos) : c \in 1 .. pos
    BY DEF Complete
  <2> QED
    BY <1>3, <2>1 DEF Elements
<1>9. \A f : Elements(f, pos) = Elements(f, pos - 1)
  BY <1>5 DEF Elements
<1>10. ASSUME NEW i \in 1 .. Len(open) + 1
       PROVE  /\ open'[i] = [first |-> open'[i].first, list |-> open'[i].list]
              /\ open'[i].first \in Pending(pos) /\ Level[open'[i].first] = i - 1
              /\ Ordered(open'[i].list, Elements(open'[i].first, pos))
  <2>1. CASE i = Len(open) + 1
    <3>1. open'[i] = item /\ i - 1 = Level[pos]
      BY <1>3, <1>7, <2>1
    <3> QED
      BY <1>5, <1>6, <1>8, <3>1, OrderedEmpty
  <2>2. CASE i \in 1 .. Len(open)
    <3>1. open'[i] = open[i]
      BY <1>7, <2>2
    <3> QED
      BY <1>4, <1>5, <1>9, <2>2, <3>1 DEF Lists
  <2>3. i = Len(open) + 1 \/ i \in 1 .. Len(open)
    BY <1>3
  <2> QED
    BY <2>1, <2>2, <2>3
<1>11. Lists(open', pos)
  BY <1>7, <1>10 DEF Lists
<1>12. PICK kept : kept = Complete(pos)
  OBVIOUS
<1>13. Tree(kept)'
  <2>1. Tree(kept)
    BY <1>4, <1>5, <1>12
  <2>2. /\ \A x, s : Inside(x, s, Level)' = Inside(x, s, Level)
        /\ Level' = Level /\ \A x : CloseOf(x)' = CloseOf(x)
    BY <1>1, SameTokens
  <2>3. \A s, T : Ordered(s, T)' <=> Ordered(s, T)
    BY <1>1, SameLists
  <2>4. \A x : NodeExact(x, kept)' <=> NodeExact(x, kept)
    BY <1>1, <2>2, <2>3 DEF NodeExact
  <2>5. {k \in kept : Level[k] = 0}' = {k \in kept : Level[k] = 0}
    BY <2>2
  <2> QED
    BY <1>1, <2>1, <2>3, <2>4, <2>5 DEF Tree
<1>14. pos \notin Stray
  BY <1>1 DEF Stray, peek
<1>15. Len(open') = Level[pos + 1]
  BY <1>3, <1>7
<1> QED
  BY <1>1, <1>7, <1>11, <1>12, <1>13, <1>14, <1>15, GoesOn

(* A parenthesis that was not complained about yet is complained about.    *)
LEMMA ComplainsParenthesis ==
    ASSUME NEW R \in SUBSET (1 .. Len(tokens)), ReadOK, mode = "lexed", Complains(complaints, tokens, Consumed, R),
           NEW k \in 1 .. Len(tokens), k \notin R, IsParen(tokens[k])
    PROVE  Complains(Append(complaints, tokens[k].span), tokens, Consumed, R \cup {k})
<1> DEFINE W == BadWords(tokens) \cup R
           U == Unexpected(Consumed)
<1>1. Len(tokens) \in Nat /\ \E S : tokens \in Seq(S)
  BY TokenKinds
<1>2. IsFiniteSet(1 .. Len(tokens))
  BY <1>1, FiniteInterval
<1>3. W \subseteq 1 .. Len(tokens) /\ k \notin W
  <2>1. ~BadWord(tokens[k])
    BY DEF BadWord, IsParen
  <2> QED
    BY <2>1 DEF BadWords
<1>4. IsFiniteSet(W)
  BY <1>2, <1>3, FS_Subset
<1>5. Consumed \in Nat
  BY ReadFacts
<1>6. IsFiniteSet(U)
  BY <1>5, UnexpectedFacts
<1>7. Answers(complaints, tokens, W, U)
  BY DEF Complains
<1>8. \A comps : Complains(comps, tokens, Consumed, R \cup {k}) <=> Answers(comps, tokens, W \cup {k}, U)
  <2>1. BadWords(tokens) \cup (R \cup {k}) = W \cup {k}
    OBVIOUS
  <2> QED
    BY <2>1 DEF Complains
<1> HIDE DEF W, U
<1>9. Answers(Append(complaints, tokens[k].span), tokens, W \cup {k}, U)
  BY <1>3, <1>4, <1>6, <1>7, AnswerMore
<1> QED
  BY <1>8, <1>9

LEMMA StrayRefused == ASSUME Parsed, StrayClose PROVE Parsed'
<1>1. /\ stage = "parsing" /\ peek.kind = "RParen" /\ open = <<>>
      /\ complaints' = Append(complaints, peek.span) /\ pos' = pos + 1
      /\ UNCHANGED <<text, at, mode, begun, word, tokens, stage, exprs, nodes, open>>
  BY DEF StrayClose, Parsing
<1>2. /\ Growing /\ Refused = {k \in Stray : k < pos}
      /\ Complains(complaints, tokens, Consumed, Refused)
  BY <1>1, ParsingFacts
<1>3. /\ Len(tokens) \in Nat /\ pos \in 1 .. Len(tokens) /\ pos \in Nat \ {0}
      /\ Level[pos] = 0 /\ Level[pos + 1] = 0
  <2>1. Level[pos] = 0
    BY <1>1, <1>2, NextToken
  <2> QED
    BY <1>1, <1>2, <2>1, NextToken
<1>4. Tree(Complete(pos - 1))
  BY <1>1, <1>2, NextToken
<1>5. Pending(pos - 1) = {}
  <2>1. \A k \in Pending(pos - 1) : Level[k] \in Nat /\ Level[k] + 1 <= Level[pos]
    BY <1>3, PendingFacts
  <2>2. \A k \in Pending(pos - 1) : FALSE
    BY <1>3, <2>1
  <2> QED
    BY <2>2
<1>6. Complete(pos) = Complete(pos - 1)
  <2>1. tokens[pos].kind = "RParen"
    BY <1>1 DEF peek
  <2> QED
    BY <1>3, <1>5, <2>1, NothingShut
<1>7. open' = <<>> /\ Len(open') = 0 /\ open' \in Seq({}) /\ Lists(open', pos)
  BY <1>1 DEF Lists
<1>8. PICK kept : kept = Complete(pos)
  OBVIOUS
<1>9. Tree(kept)'
  <2>1. Tree(kept)
    BY <1>4, <1>6, <1>8
  <2>2. /\ \A x, s : Inside(x, s, Level)' = Inside(x, s, Level)
        /\ Level' = Level /\ \A x : CloseOf(x)' = CloseOf(x)
    BY <1>1, SameTokens
  <2>3. \A s, T : Ordered(s, T)' <=> Ordered(s, T)
    BY <1>1, SameLists
  <2>4. \A x : NodeExact(x, kept)' <=> NodeExact(x, kept)
    BY <1>1, <2>2, <2>3 DEF NodeExact
  <2>5. {k \in kept : Level[k] = 0}' = {k \in kept : Level[k] = 0}
    BY <2>2
  <2> QED
    BY <1>1, <2>1, <2>3, <2>4, <2>5 DEF Tree
<1>10. pos \in Stray
  BY <1>1, <1>3 DEF Stray, peek
<1>11. Complains(complaints', tokens, Consumed, Refused \cup {pos})
  <2>1. Refused \subseteq 1 .. Len(tokens) /\ pos \notin Refused
    BY <1>2, <1>3 DEF Stray
  <2>2. ReadOK /\ mode = "lexed"
    BY <1>2 DEF Growing
  <2>3. IsParen(tokens[pos])
    BY <1>1 DEF peek, IsParen
  <2> QED
    BY <1>1, <1>2, <1>3, <2>1, <2>2, <2>3, ComplainsParenthesis DEF peek
<1> QED
  BY <1>1, <1>3, <1>7, <1>8, <1>9, <1>10, <1>11, GoesOn

LEMMA ListClosed == ASSUME Parsed, CloseList PROVE Parsed'
<1> DEFINE e == innermost.first
           node == Node("List", Span(tokens[e].span.from, peek.span.to), <<>>, 0, innermost.list)
           around == Front(open)
           n == Len(open)
<1>1. /\ stage = "parsing" /\ peek.kind = "RParen" /\ open # <<>>
      /\ nodes' = With(e, node) /\ Deliver(e, around) /\ pos' = pos + 1
      /\ UNCHANGED <<text, at, mode, begun, word, tokens, complaints, stage>>
  BY DEF CloseList, Parsing, lexerVars
<1>2. Growing /\ Refused = {k \in Stray : k < pos}
  BY <1>1, ParsingFacts
<1>3. /\ Len(tokens) \in Nat /\ pos \in 1 .. Len(tokens) /\ pos \in Nat \ {0}
      /\ n = Level[pos] /\ Level[pos] \in Nat /\ Level[pos] # 0 /\ Level[pos + 1] = Level[pos] - 1
      /\ \E S : open \in Seq(S)
  <2>1. /\ Len(tokens) \in Nat /\ pos \in 1 .. Len(tokens) /\ pos \in Nat \ {0}
        /\ n = Level[pos] /\ Level[pos] \in Nat /\ Level[pos] # 0 /\ \E S : open \in Seq(S)
    BY <1>1, <1>2, NextToken
  <2>2. Level[pos + 1] = IF peek.kind = "LParen" THEN Level[pos] + 1
                         ELSE IF peek.kind = "RParen" /\ Level[pos] > 0 THEN Level[pos] - 1
                         ELSE Level[pos]
    BY <1>1, <1>2, NextToken
  <2>3. Level[pos] > 0
    BY <2>1
  <2> QED
    BY <1>1, <2>1, <2>2, <2>3
<1>4. Lists(open, pos - 1) /\ Tree(Complete(pos - 1)) /\ Ordered(exprs, {k \in Complete(pos - 1) : Level[k] = 0})
  BY <1>1, <1>2, NextToken
<1>5. n \in 1 .. n /\ innermost = open[n]
  BY <1>3 DEF innermost
<1>6. /\ e \in Pending(pos - 1) /\ Level[e] = n - 1
      /\ Ordered(innermost.list, Elements(e, pos - 1))
  BY <1>4, <1>5 DEF Lists
<1>7. e \in 1 .. pos - 1 /\ e \in 1 .. pos /\ tokens[e].kind = "LParen" /\ ~Shut(e, pos - 1)
  BY <1>3, <1>6 DEF Pending
<1>8. /\ \E S : around \in Seq(S)
      /\ Len(around) = n - 1
      /\ \A i \in 1 .. n - 1 : around[i] = open[i]
  <2>1. PICK S : open \in Seq(S)
    BY <1>3
  <2>2. Front(open) \in Seq(S)
    BY <1>1, <2>1, FrontProperties
  <2>3. Len(Front(open)) = Len(open) - 1 /\ \A i \in 1 .. Len(open) - 1 : Front(open)[i] = open[i]
    BY <1>1, <2>1, FrontProperties
  <2> QED
    BY <2>2, <2>3
<1>9. peek = tokens[pos]
  BY DEF peek
<1> HIDE DEF e, node, around, n
<1>10. /\ Complete(pos) = Complete(pos - 1) \cup {e} /\ e \notin Complete(pos - 1)
       /\ Pending(pos) = Pending(pos - 1) \ {e}
  <2>1. Level[pos] = Level[e] + 1
    BY <1>3, <1>6
  <2> QED
    BY <1>1, <1>3, <1>6, <1>9, <2>1, OneShut
<1>11. \A c \in Complete(pos - 1) : Level[c] = Level[e] => c < e
  <2> SUFFICES ASSUME NEW c \in Complete(pos - 1), Level[c] = Level[e], ~ (c < e) PROVE FALSE
    OBVIOUS
  <2>1. c \in 1 .. pos - 1 /\ c # e
    BY <1>10 DEF Complete
  <2>2. e < c
    BY <1>7, <2>1
  <2>3. Level[e] + 1 <= Level[c]
    BY <1>3, <1>6, <2>1, <2>2, PendingFacts
  <2> QED
    BY <1>3, <1>6, <2>3
<1>12. ASSUME NEW i \in 1 .. n - 1
       PROVE  open[i].first \in Pending(pos) /\ open[i].first < e
  <2>1. i \in 1 .. n /\ i - 1 < n - 1
    BY <1>3
  <2>2. open[i].first \in Pending(pos - 1) /\ Level[open[i].first] = i - 1
    BY <1>4, <2>1 DEF Lists, n
  <2> DEFINE f == open[i].first
  <2>3. f \in Pending(pos - 1) /\ Level[f] = i - 1
    BY <2>2
  <2> HIDE DEF f
  <2>4. f # e
    BY <1>3, <1>6, <2>1, <2>3
  <2>5. f \in 1 .. pos - 1
    BY <2>3 DEF Pending
  <2>6. ~ (e < f)
    <3> SUFFICES ASSUME e < f PROVE FALSE
      OBVIOUS
    <3>1. Level[e] + 1 <= Level[f]
      BY <1>3, <1>6, <2>3, PendingFacts
    <3> QED
      BY <1>3, <1>6, <2>1, <2>3, <3>1
  <2>7. f < e /\ f \in Pending(pos)
    BY <1>7, <1>10, <2>3, <2>4, <2>5, <2>6
  <2> QED
    BY <2>7 DEF f
<1>13. Lists(around, pos - 1) /\ \A i \in 1 .. Len(around) : around[i].first \in Pending(pos) /\ around[i].first < e
  <2>1. \A i \in 1 .. n - 1 : i \in 1 .. n
    BY <1>3
  <2>2. Lists(around, pos - 1)
    BY <1>4, <1>8, <2>1 DEF Lists, n
  <2> QED
    BY <1>8, <1>12, <2>2
<1>14. /\ Ordered(exprs', {k \in Complete(pos) : Level[k] = 0})
       /\ \E S : open' \in Seq(S)
       /\ Len(open') = Len(around)
       /\ Lists(open', pos)
  <2>1. Level[e] = Len(around)
    BY <1>6, <1>8
  <2> QED
    BY <1>1, <1>3, <1>4, <1>7, <1>8, <1>10, <1>11, <1>13, <2>1, Delivered
<1>15. PICK kept, all, d : kept = Complete(pos - 1) /\ all = Complete(pos) /\ d = e
  OBVIOUS
<1>16. \A x \in kept : Inside(x, kept \cup {d}, Level) = Inside(x, kept, Level)
  BY <1>3, <1>6, <1>15, InsideSettled
<1>17. CloseOf(e) = pos
  <2>1. Level[pos] = Level[e] + 1
    BY <1>3, <1>6
  <2>2. Min(Matching(e, Level)) = pos
    BY <1>1, <1>3, <1>7, <1>9, <2>1, MatchedFirst
  <2> QED
    BY <1>7, <2>2 DEF CloseOf
<1>18. Inside(e, Complete(pos), Level) = Elements(e, pos - 1)
  <2>1. Inside(e, Complete(pos), Level) = {c \in e + 1 .. pos : c \in Complete(pos) /\ Level[c] = Level[e] + 1}
    BY <1>7, <1>17 DEF Inside, CloseOf
  <2>2. pos \notin Complete(pos)
    <3>1. pos \notin Complete(pos - 1) /\ pos # e
      BY <1>3, <1>7 DEF Complete
    <3> QED
      BY <1>10, <3>1
  <2>3. \A c \in Complete(pos - 1) : c \in 1 .. pos - 1
    BY DEF Complete
  <2>4. \A c : c \in e + 1 .. pos /\ c \in Complete(pos) <=> c \in Complete(pos - 1) /\ e < c
    BY <1>3, <1>7, <1>10, <2>2, <2>3
  <2> QED
    BY <2>1, <2>4 DEF Elements
<1>19. node = Node("List", Span(tokens[e].span.from, tokens[pos].span.to), <<>>, 0, innermost.list) /\ node.list = innermost.list
  BY <1>9 DEF node, Node
<1>20. Tree(all)'
  <2>1. Tree(kept) /\ d \notin kept /\ nodes' = With(d, node) /\ tokens' = tokens
    BY <1>1, <1>4, <1>10, <1>15
  <2>2. Ordered(exprs', {k \in kept \cup {d} : Level[k] = 0})
    BY <1>10, <1>14, <1>15
  <2>3. Ordered(node.list, Inside(d, kept \cup {d}, Level))
    BY <1>6, <1>10, <1>15, <1>18, <1>19
  <2>4. node = Node(IF tokens[d].kind = "LParen" THEN "List" ELSE tokens[d].kind,
                    Span(tokens[d].span.from, tokens[CloseOf(d)].span.to),
                    IF tokens[d].kind = "Symbol" THEN tokens[d].word ELSE <<>>,
                    IF tokens[d].kind = "LParen" THEN 0 ELSE tokens[d].integer,
                    node.list)
    BY <1>7, <1>15, <1>17, <1>19
  <2>5. Tree(kept \cup {d})'
    BY <1>16, <2>1, <2>2, <2>3, <2>4, TreeMore
  <2>6. all = kept \cup {d}
    BY <1>10, <1>15
  <2> QED
    BY <2>5, <2>6
<1>21. pos \notin Stray
  BY <1>3 DEF Stray
<1>22. Len(open') = Level[pos + 1]
  BY <1>3, <1>8, <1>14
<1>23. peek.kind # "End"
  BY <1>1
<1> QED
  BY <1>1, <1>14, <1>15, <1>20, <1>21, <1>22, <1>23, GoesOn

(* At the end of the tokens the pending parentheses are those never closed.*)
LEMMA PendingAtEnd ==
    ASSUME ReadOK, mode = "lexed", pos \in 1 .. Len(tokens), peek.kind = "End"
    PROVE  /\ pos = Len(tokens) /\ NeverClosed(Level) = Pending(pos - 1)
           /\ \A k \in 1 .. Len(tokens) :
                 tokens[k].kind \notin {"RParen", "End"} /\ k \notin NeverClosed(Level) <=> k \in Complete(pos - 1)
           /\ \A k \in Stray : k < pos
<1> DEFINE n == Len(tokens)
<1>1. /\ n \in Nat \ {0}
      /\ \A k \in 1 .. n : /\ tokens[k].kind \in {"Symbol", "Integer", "LParen", "RParen", "End"}
                           /\ tokens[k].kind = "End" <=> k = n
  BY TokenKinds
<1>2. pos = n
  BY <1>1 DEF peek
<1> HIDE DEF n
<1>3. ASSUME NEW k \in 1 .. n - 1 PROVE Matching(k, Level) = {} <=> ~Shut(k, n - 1)
  <2>1. \A c : c \in k + 1 .. n <=> c \in k + 1 .. n - 1 \/ c = n
    BY <1>1
  <2>2. tokens[n].kind # "RParen"
    <3>1. n \in 1 .. n
      BY <1>1
    <3>2. tokens[n].kind = "End"
      BY <1>1, <3>1
    <3> QED
      BY <3>2
  <2> QED
    BY <2>1, <2>2 DEF Matching, Shut, n
<1>4. \A k \in 1 .. n : tokens[k].kind # "End" => k \in 1 .. n - 1
  BY <1>1
<1>5. \A k \in 1 .. n - 1 : k \in 1 .. n /\ tokens[k].kind # "End"
  BY <1>1
<1>6. NeverClosed(Level) = Pending(n - 1)
  BY <1>3, <1>4, <1>5 DEF NeverClosed, Pending, n
<1>7. ASSUME NEW k \in 1 .. n
      PROVE  tokens[k].kind \notin {"RParen", "End"} /\ k \notin Pending(n - 1) <=> k \in Complete(n - 1)
  <2>1. CASE tokens[k].kind = "End"
    BY <1>4, <1>5, <2>1 DEF Complete
  <2>2. CASE tokens[k].kind # "End"
    <3>1. k \in 1 .. n - 1
      BY <1>4, <2>2
    <3> QED
      BY <1>1, <2>2, <3>1 DEF Complete, Pending, IsWord
  <2> QED
    BY <2>1, <2>2
<1>8. \A k \in Stray : k < n
  <2>1. \A k \in Stray : k \in 1 .. n /\ tokens[k].kind = "RParen"
    BY DEF Stray, n
  <2>2. \A k \in Stray : k \in 1 .. n - 1
    BY <1>4, <2>1
  <2> QED
    BY <1>1, <2>2
<1> QED
  BY <1>2, <1>6, <1>7, <1>8 DEF n

(* When lists are open at the end, all up to the outermost of them is kept.*)
LEMMA KeptAtEnd ==
    ASSUME Growing, peek.kind = "End"
    PROVE  /\ open = <<>> /\ ~Dropped => Kept = Complete(pos - 1) /\ NeverClosed(Level) = {}
           /\ open # <<>> => /\ Kept = {k \in Complete(pos - 1) : k < open[1].first}
                             /\ NeverClosed(Level) # {} /\ Max(NeverClosed(Level)) = innermost.first
                             /\ innermost.first \in 1 .. Len(tokens) /\ tokens[innermost.first].kind = "LParen"
                             /\ innermost.first \in Pending(pos - 1) /\ Level[pos] > 0
                             /\ open[1].first \in Pending(pos - 1) /\ Level[open[1].first] = 0
<1> DEFINE N == NeverClosed(Level)
           o == open[1].first
           i == innermost.first
<1>1. /\ ReadOK /\ mode = "lexed" /\ pos \in 1 .. Len(tokens)
      /\ Len(tokens) \in Nat
      /\ Len(open) = Level[pos] /\ Lists(open, pos - 1)
      /\ \E S : open \in Seq(S)
  BY TokenKinds DEF Growing, OpenOK
<1>2. /\ pos = Len(tokens) /\ N = Pending(pos - 1)
      /\ \A k \in 1 .. Len(tokens) :
             tokens[k].kind \notin {"RParen", "End"} /\ k \notin N <=> k \in Complete(pos - 1)
  BY <1>1, PendingAtEnd
<1>3. Level \in [1 .. Len(tokens) -> Nat]
  BY <1>1, LevelFacts
<1>4. /\ \A k \in Pending(pos - 1) : k \in 1 .. pos - 1 /\ Level[k] \in Nat /\ Level[k] + 1 <= Level[pos]
      /\ \A k, l \in Pending(pos - 1) : k < l => Level[k] + 1 <= Level[l]
      /\ \A k \in Pending(pos - 1), c \in 1 .. pos - 1 : k < c => Level[k] + 1 <= Level[c]
  BY <1>1, PendingFacts
<1>5. Kept = {k \in 1 .. Len(tokens) : /\ tokens[k].kind \notin {"RParen", "End"}
                                       /\ ~ \E j \in N : Level[j] = 0 /\ j <= k}
  <2>1. Abandoned = {k \in 1 .. Len(tokens) : \E j \in N : Level[j] = 0 /\ j <= k}
    BY DEF Abandoned
  <2> QED
    BY <2>1 DEF Kept
<1>6. \A k \in Complete(pos - 1) : k \in 1 .. Len(tokens)
  BY <1>1 DEF Complete
<1>7. \A j \in NeverClosed(Level) : tokens[j].kind = "LParen"
  BY DEF NeverClosed
<1>8. \A k \in Complete(pos - 1) : k \in 1 .. pos - 1
  BY DEF Complete
<1> HIDE DEF N, o, i
<1>9. ASSUME open = <<>>, ~Dropped
      PROVE  Kept = Complete(pos - 1) /\ N = {}
  <2>1. Level[pos] = 0
    <3>1. Len(open) = 0
      BY <1>9
    <3> QED
      BY <1>1, <3>1
  <2>2. \A k \in Pending(pos - 1) : FALSE
    BY <1>4, <2>1
  <2>3. N = {}
    BY <1>2, <2>2
  <2> QED
    BY <1>2, <1>5, <1>6, <2>3
<1>10. ASSUME open # <<>>
       PROVE  /\ Kept = {k \in Complete(pos - 1) : k < o}
              /\ N # {} /\ Max(N) = i
              /\ i \in 1 .. Len(tokens) /\ tokens[i].kind = "LParen"
              /\ i \in Pending(pos - 1) /\ Level[pos] > 0
              /\ o \in Pending(pos - 1) /\ Level[o] = 0
  <2> DEFINE n == Len(open)
  <2>1. n \in Nat \ {0} /\ n = Level[pos]
    <3>1. PICK S : open \in Seq(S)
      BY <1>1
    <3> QED
      BY <1>1, <1>10, <3>1, EmptySeq
  <2>2. 1 \in 1 .. n /\ n \in 1 .. n
    BY <2>1
  <2>3. o \in Pending(pos - 1) /\ Level[o] = 0 /\ i \in Pending(pos - 1) /\ Level[i] = n - 1
    <3>1. \A j \in 1 .. n : open[j].first \in Pending(pos - 1) /\ Level[open[j].first] = j - 1
      BY <1>1 DEF Lists
    <3>2. o = open[1].first /\ i = open[n].first /\ 1 - 1 = 0
      BY DEF o, i, innermost
    <3> HIDE DEF n
    <3> QED
      BY <2>2, <3>1, <3>2
  <2> HIDE DEF n
  <2>4. o \in 1 .. pos - 1 /\ i \in 1 .. pos - 1
    BY <1>4, <2>3
  <2>5. \A k \in N : k \in 1 .. pos - 1 /\ Level[k] \in Nat
    BY <1>2, <1>4
  <2>6. \A k \in N : k <= i
    <3> SUFFICES ASSUME NEW k \in N, ~ (k <= i) PROVE FALSE
      OBVIOUS
    <3>1. k \in Pending(pos - 1) /\ i < k
      BY <1>2, <2>4, <2>5
    <3>2. Level[i] + 1 <= Level[k] /\ Level[k] + 1 <= Level[pos]
      BY <1>4, <2>3, <3>1
    <3> QED
      BY <2>1, <2>3, <2>5, <3>2
  <2>7. Max(N) = i
    <3>1. i \in N /\ \A x \in N : i >= x /\ x \in Int
      BY <1>2, <2>3, <2>4, <2>5, <2>6
    <3>2. Max(N) \in N /\ \A x \in N : Max(N) >= x
      BY <3>1 DEF Max
    <3> DEFINE m == Max(N)
    <3>3. m \in N /\ m >= i /\ i >= m /\ m \in Int
      BY <3>1, <3>2
    <3> HIDE DEF m
    <3>4. m = i
      BY <2>4, <3>3
    <3> QED
      BY <3>4 DEF m
  <2>8. \A j \in N : Level[j] = 0 => j = o
    <3> SUFFICES ASSUME NEW j \in N, Level[j] = 0, j # o PROVE FALSE
      OBVIOUS
    <3>1. j < o \/ o < j
      BY <2>4, <2>5
    <3>2. Level[j] + 1 <= Level[o] \/ Level[o] + 1 <= Level[j]
      BY <1>2, <1>4, <2>3, <3>1
    <3> QED
      BY <2>3, <3>2
  <2>9. \A k \in N : o <= k
    <3> SUFFICES ASSUME NEW k \in N, ~ (o <= k) PROVE FALSE
      OBVIOUS
    <3>1. k < o /\ k \in Pending(pos - 1) /\ Level[k] \in Nat
      BY <1>2, <2>4, <2>5
    <3>2. Level[k] + 1 <= Level[o]
      BY <1>4, <2>3, <3>1
    <3> QED
      BY <2>3, <3>1, <3>2
  <2>10. ASSUME NEW k \in 1 .. Len(tokens)
         PROVE  k \in Kept <=> k \in Complete(pos - 1) /\ k < o
    <3>1. (\E j \in N : Level[j] = 0 /\ j <= k) <=> ~ (k < o)
      BY <1>2, <2>3, <2>4, <2>8
    <3>2. k < o => k \notin N
      BY <2>4, <2>9
    <3>3. k \in Kept <=> tokens[k].kind \notin {"RParen", "End"} /\ k < o
      BY <1>5, <3>1
    <3>4. tokens[k].kind \notin {"RParen", "End"} /\ k \notin N <=> k \in Complete(pos - 1)
      BY <1>2
    <3> QED
      BY <3>2, <3>3, <3>4
  <2>11. Kept \subseteq 1 .. Len(tokens)
    BY <1>5
  <2>12. Kept = {k \in Complete(pos - 1) : k < o}
    BY <1>6, <2>10, <2>11
  <2>13. N # {} /\ i \in 1 .. Len(tokens) /\ tokens[i].kind = "LParen" /\ Level[pos] > 0
    BY <1>1, <1>2, <1>7, <2>1, <2>3, <2>4 DEF N
  <2> QED
    BY <2>3, <2>7, <2>12, <2>13
<1> QED
  BY <1>9, <1>10 DEF N, o, i

(* What is left of a tree when everything from o on is dropped.            *)
LEMMA TreeCut ==
    ASSUME Len(tokens) \in Nat, NEW p \in 1 .. Len(tokens), NEW o \in Pending(p - 1), Level[o] = 0,
           NEW all, all = Complete(p - 1), NEW kept, kept = {k \in all : k < o}, Tree(all),
           tokens' = tokens, exprs' = exprs, nodes' = [e \in {x \in DOMAIN nodes : x < o} |-> nodes[e]]
    PROVE  Tree(kept)'
<1>1. DOMAIN nodes = all /\ Ordered(exprs, {k \in all : Level[k] = 0}) /\ \A e \in all : NodeExact(e, all)
  BY DEF Tree
<1>2. DOMAIN nodes' = kept /\ \A e \in kept : e \in all /\ nodes'[e] = nodes[e]
  BY <1>1
<1>3. o \in 1 .. p - 1
  BY DEF Pending
<1>4. \A k \in all : k \in 1 .. p - 1 /\ k # o /\ Level[k] \in Nat
  <2>1. \A k \in all : k \in 1 .. p - 1 /\ k \in 1 .. Len(tokens)
    BY DEF Complete
  <2>2. o \notin all
    BY DEF Complete, Pending, IsWord
  <2> QED
    BY <2>1, <2>2, LevelFacts
<1>5. \A c \in 1 .. p - 1 : o < c => 1 <= Level[c]
  BY PendingFacts
<1>6. {k \in all : Level[k] = 0} = {k \in kept : Level[k] = 0}
  <2>1. \A k \in all : Level[k] = 0 => k < o
    BY <1>3, <1>4, <1>5
  <2> QED
    BY <2>1
<1>7. ASSUME NEW e \in kept PROVE Inside(e, kept, Level) = Inside(e, all, Level)
  <2> DEFINE m == Min(Matching(e, Level))
  <2>1. CASE tokens[e].kind # "LParen"
    BY <2>1 DEF Inside
  <2>2. CASE tokens[e].kind = "LParen"
    <3>1. e \in 1 .. p - 1 /\ Shut(e, p - 1) /\ p - 1 \in Nat /\ p - 1 <= Len(tokens) /\ e < o /\ Level[e] \in Nat
      BY <1>2, <1>4, <2>2 DEF Complete, IsWord
    <3>2. m \in e + 1 .. p - 1 /\ tokens[m].kind = "RParen" /\ Level[m] = Level[e] + 1 /\ ~Shut(e, m - 1)
      BY <3>1, Matched
    <3>3. m = Min(Matching(e, Level))
      OBVIOUS
    <3> HIDE DEF m
    <3>4. ~ (o <= m)
      <4> SUFFICES ASSUME o <= m PROVE FALSE
        OBVIOUS
      <4>1. o # m
        BY <3>2 DEF Pending
      <4>2. o \in e + 1 .. m - 1 /\ o \in e + 1 .. Len(tokens) /\ e \in 1 .. Len(tokens) /\ o - 1 \in Int
            /\ m - 1 \in Int /\ o - 1 <= m - 1 /\ e \in Nat
        BY <1>3, <3>1, <3>2, <4>1
      <4>3. ~Shut(e, o - 1)
        BY <3>2, <4>2, ShutFurther
      <4>4. Level[e] + 1 <= Level[o]
        BY <2>2, <4>2, <4>3, Deeper
      <4> QED
        BY <3>1, <4>4
    <3>5. \A c \in e + 1 .. m : c \in kept <=> c \in all
      BY <1>3, <3>1, <3>2, <3>4
    <3> QED
      BY <2>2, <3>3, <3>5 DEF Inside
  <2> QED
    BY <2>1, <2>2
<1>8. /\ \A x, s : Inside(x, s, Level)' = Inside(x, s, Level)
      /\ Level' = Level /\ \A x : CloseOf(x)' = CloseOf(x)
  BY SameTokens
<1>9. \A s, T : Ordered(s, T)' <=> Ordered(s, T)
  BY SameLists
<1>10. Ordered(exprs, {k \in kept : Level[k] = 0})'
  <2>1. {k \in kept : Level[k] = 0}' = {k \in kept : Level[k] = 0}
    BY <1>8
  <2> QED
    BY <1>1, <1>6, <1>9, <2>1
<1>11. ASSUME NEW e \in kept PROVE NodeExact(e, kept)'
  <2>1. NodeExact(e, all) /\ nodes'[e] = nodes[e]
    BY <1>1, <1>2
  <2>2. Inside(e, kept, Level)' = Inside(e, all, Level)
    BY <1>7, <1>8
  <2> QED
    BY <1>8, <1>9, <2>1, <2>2 DEF NodeExact
<1> QED
  BY <1>2, <1>10, <1>11 DEF Tree


LEMMA UnclosedReported == ASSUME Parsed, Unclosed PROVE Parsed'
<1>1. /\ stage = "parsing" /\ peek.kind = "End" /\ open # <<>>
      /\ complaints' = Append(complaints, tokens[innermost.first].span)
      /\ nodes' = [e \in {x \in DOMAIN nodes : x < open[1].first} |-> nodes[e]]
      /\ open' = <<>>
      /\ UNCHANGED <<text, at, mode, begun, word, tokens, pos, exprs, stage>>
  BY DEF Unclosed, Parsing
<1>2. /\ Growing /\ Refused = {k \in Stray : k < pos}
      /\ Complains(complaints, tokens, Consumed, Refused)
  BY <1>1, ParsingFacts
<1>3. /\ ReadOK /\ mode = "lexed" /\ pos \in 1 .. Len(tokens) /\ Tree(Complete(pos - 1))
      /\ Len(tokens) \in Nat
  BY <1>2, TokenKinds DEF Growing
<1>4. /\ Kept = {k \in Complete(pos - 1) : k < open[1].first}
      /\ Max(NeverClosed(Level)) = innermost.first
      /\ innermost.first \in 1 .. Len(tokens) /\ tokens[innermost.first].kind = "LParen"
      /\ Level[pos] > 0
      /\ open[1].first \in Pending(pos - 1) /\ Level[open[1].first] = 0
  BY <1>1, <1>2, KeptAtEnd
<1>5. /\ Level' = Level /\ Stray' = Stray /\ Kept' = Kept
      /\ NeverClosed(Level)' = NeverClosed(Level)
  BY <1>1, SameTokens
<1>6. PICK all, kept, o : all = Complete(pos - 1) /\ kept = Kept /\ o = open[1].first
  OBVIOUS
<1>7. Tree(kept)'
  <2>1. o \in Pending(pos - 1) /\ Level[o] = 0 /\ kept = {k \in all : k < o} /\ Tree(all)
    BY <1>3, <1>4, <1>6
  <2>2. tokens' = tokens /\ exprs' = exprs /\ nodes' = [e \in {x \in DOMAIN nodes : x < o} |-> nodes[e]]
    BY <1>1, <1>6
  <2> QED
    BY <1>3, <1>6, <2>1, <2>2, TreeCut
<1>8. Tree(Kept)'
  BY <1>5, <1>6, <1>7
<1>9. peek' = peek
  BY <1>1 DEF peek
<1>10. Dropped'
  <2>1. (Level[pos])' = Level[pos]
    BY <1>1, <1>5
  <2> QED
    BY <1>1, <1>4, <1>9, <2>1 DEF Dropped
<1>11. ParseOK'
  <2>1. (pos \in 1 .. Len(tokens))' /\ stage' = "parsing" /\ mode' = "lexed"
    BY <1>1, <1>3
  <2>2. (NeverClosed(Level) # {})'
    BY <1>1, <1>2, <1>5, KeptAtEnd
  <2> QED
    BY <1>8, <1>10, <2>1, <2>2 DEF ParseOK
<1>12. Refused' = Refused \cup {innermost.first}
  <2>1. (stage # "lexing")'
    BY <1>1
  <2>2. Refused' = {k \in Stray : k < pos} \cup {Max(NeverClosed(Level))}
    <3>1. Max(NeverClosed(Level))' = Max(NeverClosed(Level))
      BY <1>5
    <3> QED
      BY <1>1, <1>5, <1>10, <2>1, <3>1 DEF Refused
  <2> QED
    BY <1>2, <1>4, <2>2
<1>13. Complains(complaints', tokens, Consumed, Refused \cup {innermost.first})
  <2>1. Refused \subseteq 1 .. Len(tokens) /\ innermost.first \notin Refused
    BY <1>2, <1>4 DEF Stray
  <2>2. IsParen(tokens[innermost.first])
    BY <1>4 DEF IsParen
  <2> QED
    BY <1>1, <1>2, <1>3, <1>4, <2>1, <2>2, ComplainsParenthesis
<1>14. ReadOK' /\ Consumed' = Consumed
  BY <1>1, <1>3, ReadUntouched
<1>15. Complains(complaints, tokens, Consumed, Refused)'
  <2>1. Complains(complaints', tokens, Consumed, Refused')
    BY <1>12, <1>13
  <2> QED
    BY <1>1, <1>14, <2>1, SameText
<1> QED
  BY <1>11, <1>14, <1>15 DEF Parsed

(* Steps that change nothing the invariant speaks of but the stage.        *)
LEMMA OnlyStage ==
    ASSUME Parsed, UNCHANGED <<text, at, mode, begun, word, tokens, complaints, pos, open, exprs, nodes>>,
           \/ stage' = stage
           \/ stage = "parsing" /\ stage' = "over" /\ peek.kind = "End" /\ open = <<>>
    PROVE  Parsed'
<1>1. UNCHANGED <<text, at, mode, begun, word, tokens, complaints, pos, open, exprs, nodes>>
  OBVIOUS
<1>2. ReadOK' /\ Consumed' = Consumed
  BY <1>1, ReadUntouched DEF Parsed
<1>3. /\ Level' = Level /\ Stray' = Stray /\ Kept' = Kept
      /\ NeverClosed(Level)' = NeverClosed(Level)
      /\ \A u : Complete(u)' = Complete(u)
      /\ \A x, s : Inside(x, s, Level)' = Inside(x, s, Level)
      /\ \A x : CloseOf(x)' = CloseOf(x)
  BY <1>1, SameTokens
<1>4. peek' = peek
  BY <1>1 DEF peek
<1>5. Dropped' <=> Dropped
  BY <1>1, <1>3, <1>4 DEF Dropped
<1>6. Refused' = Refused
  <2>1. Max(NeverClosed(Level))' = Max(NeverClosed(Level))
    BY <1>3
  <2>2. stage' # "lexing" <=> stage # "lexing"
    OBVIOUS
  <2> QED
    BY <1>1, <1>3, <1>5, <2>1, <2>2 DEF Refused
<1>7. Complains(complaints, tokens, Consumed, Refused)'
  <2>1. Complains(complaints', tokens, Consumed, Refused')
    BY <1>1, <1>6 DEF Parsed
  <2> QED
    BY <1>1, <1>2, <2>1, SameText
<1>8. \A kept : Tree(kept)' <=> Tree(kept)
  <2>1. \A s, T : Ordered(s, T)' <=> Ordered(s, T)
    BY <1>1, SameLists
  <2>2. \A x, kept : NodeExact(x, kept)' <=> NodeExact(x, kept)
    BY <1>1, <1>3, <2>1 DEF NodeExact
  <2>3. \A kept : {k \in kept : Level[k] = 0}' = {k \in kept : Level[k] = 0}
    BY <1>3
  <2> QED
    BY <1>1, <2>1, <2>2, <2>3 DEF Tree
<1>9. Tree(Kept)' <=> Tree(Kept)
  <2>1. PICK kept : kept = Kept
    OBVIOUS
  <2>2. Tree(kept)' <=> Tree(kept)
    BY <1>8
  <2> QED
    BY <1>3, <2>1, <2>2
<1>10. Tree(Complete(pos - 1))' <=> Tree(Complete(pos - 1))
  <2>1. PICK kept : kept = Complete(pos - 1)
    OBVIOUS
  <2>2. Tree(kept)' <=> Tree(kept)
    BY <1>8
  <2>3. Complete(pos - 1)' = Complete(pos - 1)
    BY <1>1, <1>3
  <2> QED
    BY <2>1, <2>2, <2>3
<1>11. OpenOK' <=> OpenOK
  <2>1. Lists(open, pos - 1)' <=> Lists(open, pos - 1)
    BY <1>1, SameLists
  <2> QED
    BY <1>1, <1>3, <2>1 DEF OpenOK
<1>12. CASE stage = "lexing"
  <2>1. ParseOK'
    BY <1>1, <1>12 DEF Parsed, ParseOK
  <2> QED
    BY <1>2, <1>7, <2>1 DEF Parsed
<1>13. CASE stage # "lexing"
  <2>1. /\ mode = "lexed" /\ pos \in 1 .. Len(tokens) /\ stage \in {"parsing", "over"}
        /\ stage = "over" => peek.kind = "End" /\ open = <<>>
        /\ IF Dropped THEN NeverClosed(Level) # {} /\ Tree(Kept) ELSE Tree(Complete(pos - 1)) /\ OpenOK
    BY <1>13 DEF Parsed, ParseOK
  <2>2. (IF Dropped THEN NeverClosed(Level) # {} /\ Tree(Kept) ELSE Tree(Complete(pos - 1)) /\ OpenOK)'
    BY <1>3, <1>5, <1>9, <1>10, <1>11, <2>1
  <2>3. (mode = "lexed" /\ pos \in 1 .. Len(tokens))'
    BY <1>1, <2>1
  <2>4. stage' \in {"parsing", "over"} /\ (stage' = "over" => peek'.kind = "End" /\ open' = <<>>)
    BY <1>1, <1>4, <2>1
  <2>5. ParseOK'
    BY <2>2, <2>3, <2>4 DEF ParseOK
  <2> QED
    BY <1>2, <1>7, <2>5 DEF Parsed
<1> QED
  BY <1>12, <1>13

LEMMA ParsingOver == ASSUME Parsed, ParseOver PROVE Parsed'
BY OnlyStage DEF ParseOver, Parsing, lexerVars

(* While the lexer works the parser waits, and then begins.                *)
LEMMA NoneRefused == pos = 1 => {k \in Stray : k < pos} = {}
<1>1. \A k \in Stray : k \in 1 .. Len(tokens)
  BY DEF Stray
<1>2. \A k \in 1 .. Len(tokens) : ~ (k < 1)
  OBVIOUS
<1> QED
  BY <1>1, <1>2

LEMMA ParserBegins ==
    Lexed /\ mode = "lexed" /\ stage = "parsing" /\ pos = 1 /\ open = <<>> /\ exprs = <<>> /\ nodes = <<>>
        => Parsed
<1> SUFFICES ASSUME Lexed, mode = "lexed", stage = "parsing", pos = 1, open = <<>>, exprs = <<>>, nodes = <<>>
             PROVE  Parsed
  OBVIOUS
<1>1. Len(tokens) \in Nat /\ pos \in 1 .. Len(tokens) /\ 1 <= Len(tokens)
  <2>1. Len(tokens) \in Nat \ {0}
    BY TokenKinds DEF Lexed
  <2> QED
    BY <2>1
<1>2. Level[pos] = 0
  BY <1>1, LevelFacts
<1>3. ~Dropped
  BY <1>2 DEF Dropped
<1>4. Refused = {}
  BY <1>3, NoneRefused DEF Refused
<1>5. Complete(pos - 1) = {}
  BY DEF Complete
<1>6. Tree({})
  <2>1. DOMAIN nodes = {} /\ {k \in {} : Level[k] = 0} = {}
    OBVIOUS
  <2> QED
    BY <2>1, OrderedEmpty DEF Tree
<1>7. Len(open) = 0 /\ open \in Seq({})
  OBVIOUS
<1>8. OpenOK
  BY <1>2, <1>7 DEF OpenOK, Lists
<1>9. ParseOK
  BY <1>1, <1>3, <1>5, <1>6, <1>8 DEF ParseOK
<1> QED
  BY <1>4, <1>9 DEF Parsed, Lexed

LEMMA LexStep == ASSUME Parsed, Lex PROVE Parsed'
<1>1. /\ LexerNext /\ mode # "lexed"
      /\ stage' = (IF mode' = "lexed" THEN "parsing" ELSE "lexing")
      /\ UNCHANGED <<pos, open, exprs, nodes>>
  BY DEF Lex, LexerNext, SkipBlank, BeginComment, ReadComment, ReadParenthesis, BeginWord,
         ReadWord, EndWord, SkipUnexpected, EndText
<1>2. stage = "lexing" /\ pos = 1 /\ open = <<>> /\ exprs = <<>> /\ nodes = <<>>
  BY <1>1 DEF Parsed, ParseOK
<1>3. Refused = {}
  BY <1>2, NoneRefused DEF Refused
<1>4. Lexed
  BY <1>3 DEF Parsed, Lexed
<1>5. Lexed'
  BY <1>1, <1>4, LexerKeepsRules
<1>6. pos' = 1 /\ open' = <<>> /\ exprs' = <<>> /\ nodes' = <<>>
  BY <1>1, <1>2
<1>7. CASE mode' # "lexed"
  <2>1. stage' = "lexing"
    BY <1>1, <1>7
  <2>2. (pos = 1 => {k \in Stray : k < pos} = {})'
    BY NoneRefused, PTL
  <2>3. Refused' = {}
    BY <1>6, <2>1, <2>2 DEF Refused
  <2> QED
    BY <1>5, <1>6, <1>7, <2>1, <2>3 DEF Parsed, ParseOK, Lexed
<1>8. CASE mode' = "lexed"
  <2>1. stage' = "parsing"
    BY <1>1, <1>8
  <2>2. (Lexed /\ mode = "lexed" /\ stage = "parsing" /\ pos = 1 /\ open = <<>> /\ exprs = <<>> /\ nodes = <<>>
            => Parsed)'
    BY ParserBegins, PTL
  <2> QED
    BY <1>5, <1>6, <1>8, <2>1, <2>2
<1> QED
  BY <1>7, <1>8

LEMMA ReadingBegins == ASSUME Init PROVE Parsed
<1>1. LexerInit /\ stage = "lexing" /\ pos = 1 /\ open = <<>> /\ exprs = <<>> /\ nodes = <<>>
  BY DEF Init
<1>2. Lexed /\ mode # "lexed"
  BY <1>1, LexerBegins DEF LexerInit
<1>3. Refused = {}
  BY <1>1, NoneRefused DEF Refused
<1> QED
  BY <1>1, <1>2, <1>3 DEF Parsed, ParseOK, Lexed

LEMMA ReadStep == ASSUME Parsed, Lex \/ Parse PROVE Parsed'
BY LexStep, AtomParsed, ListOpened, ListClosed, StrayRefused, UnclosedReported, ParsingOver DEF Parse

LEMMA ReadIdle == ASSUME Parsed, UNCHANGED vars PROVE Parsed'
BY OnlyStage DEF vars, lexerVars, parserVars

-----------------------------------------------------------------------------
(***************************************************************************)
(* What the invariant says of the tokens.                                  *)
(***************************************************************************)
LEMMA RefusedFacts ==
    ASSUME Parsed
    PROVE  /\ ReadOK /\ Len(tokens) \in Nat
           /\ \A k \in Refused : k \in 1 .. Len(tokens) /\ IsParen(tokens[k])
<1>1. ReadOK
  BY DEF Parsed
<1>2. Len(tokens) \in Nat
  BY <1>1, ReadFacts, LenProperties
<1>3. \A k \in Stray : k \in 1 .. Len(tokens) /\ IsParen(tokens[k])
  BY DEF Stray, IsParen
<1>4. ASSUME stage # "lexing", Dropped
      PROVE  Max(NeverClosed(Level)) \in 1 .. Len(tokens) /\ IsParen(tokens[Max(NeverClosed(Level))])
  <2>1. NeverClosed(Level) # {} /\ NeverClosed(Level) \in SUBSET (1 .. Len(tokens))
    BY <1>4 DEF Parsed, ParseOK, NeverClosed
  <2>2. Max(NeverClosed(Level)) \in NeverClosed(Level)
    BY <1>2, <2>1, GreatestInterval
  <2> QED
    BY <2>2 DEF NeverClosed, IsParen
<1>5. \A k \in Refused : k \in Stray \/ (stage # "lexing" /\ Dropped /\ k = Max(NeverClosed(Level)))
  BY DEF Refused
<1> QED
  BY <1>1, <1>2, <1>3, <1>4, <1>5

(* Tokens do not overlap.                                                  *)
LEMMA TokensApart ==
    ASSUME ReadOK, Len(tokens) \in Nat, NEW k \in 1 .. Len(tokens), NEW l \in 1 .. Len(tokens), NEW i \in Int,
           Within(i, tokens[k].span), Within(i, tokens[l].span)
    PROVE  k = l
<1>1. \A a, b \in 1 .. Len(tokens) : a < b => tokens[a].span.to.offset <= tokens[b].span.from.offset
  BY DEF ReadOK, TokensFit
<1>2. \A a \in 1 .. Len(tokens) : tokens[a].span.to.offset \in Nat /\ tokens[a].span.from.offset \in Nat
  BY DEF ReadOK, TokensFit, TokenOK, PlaceOK
<1>3. ASSUME NEW a \in 1 .. Len(tokens), NEW b \in 1 .. Len(tokens),
             Within(i, tokens[a].span), Within(i, tokens[b].span)
      PROVE  ~ (a < b)
  <2> DEFINE end == tokens[a].span.to.offset  start == tokens[b].span.from.offset
  <2>1. i <= end /\ start < i
    BY <1>3 DEF Within
  <2>2. end \in Nat /\ start \in Nat /\ (a < b => end <= start)
    BY <1>1, <1>2
  <2> HIDE DEF end, start
  <2> QED
    BY <2>1, <2>2
<1> QED
  BY <1>3

LEMMA CharSpanFacts ==
    ASSUME NEW i
    PROVE  CharSpan(i).from.offset = i - 1 /\ CharSpan(i).to.offset = i
BY PlaceOfBreaks DEF CharSpan, Span

LEMMA PlacesRead == ASSUME ReadOK PROVE PlacesExact
<1>1. \A k \in 1 .. Len(tokens) : PlaceOK(tokens[k].span.from) /\ PlaceOK(tokens[k].span.to)
  BY DEF ReadOK, TokensFit, TokenOK
<1> QED
  BY <1>1 DEF ReadOK, PlaceOK, PlacesExact

LEMMA IntegersRead == ASSUME Parsed PROVE IntegersExact
<1>1. ReadOK /\ Len(tokens) \in Nat /\ \A k \in Refused : k \in 1 .. Len(tokens) /\ IsParen(tokens[k])
  BY RefusedFacts
<1>2. Answers(complaints, tokens, BadWords(tokens) \cup Refused, Unexpected(Consumed))
  BY DEF Parsed, Complains
<1> SUFFICES ASSUME NEW k \in 1 .. Len(tokens), tokens[k].kind = "Integer"
             PROVE  LET value == Decimal(Unsigned(tokens[k].word))
                    IN  IF value > MaxInt THEN Complained(tokens[k].span)
                        ELSE /\ tokens[k].integer = IF tokens[k].word[1] = "-" THEN -value ELSE value
                             /\ ~Complained(tokens[k].span)
  BY DEF IntegersExact
<1> DEFINE t == tokens[k]
           value == Decimal(Unsigned(t.word))
<1>3. TokenOK(t)
  BY <1>1 DEF ReadOK, TokensFit
<1>4. BadWord(t) <=> value > MaxInt
  BY DEF BadWord
<1>5. ~(value > MaxInt) => t.integer = IF t.word[1] = "-" THEN -value ELSE value
  BY <1>3 DEF TokenOK, ValueOK
<1>6. ASSUME BadWord(t) PROVE Complained(t.span)
  <2>1. k \in BadWords(tokens)
    BY <1>6 DEF BadWords
  <2> QED
    BY <1>2, <2>1 DEF Answers, Complained
<1>7. ASSUME ~BadWord(t), Complained(t.span) PROVE FALSE
  <2>1. PICK c \in 1 .. Len(complaints) : complaints[c] = t.span
    BY <1>7 DEF Complained
  <2>2. /\ t.span.from.offset \in Nat /\ t.span.to.offset \in Nat
        /\ t.span.from.offset <= t.span.to.offset /\ t.span.from.offset # t.span.to.offset
        /\ \A i \in t.span.from.offset + 1 .. t.span.to.offset : text[i] \in Visible
    BY <1>3 DEF TokenOK, PlaceOK
  <2>3. Within(t.span.to.offset, t.span)
    BY <2>2 DEF Within
  <2>4. CASE \E j \in BadWords(tokens) \cup Refused : complaints[c] = tokens[j].span
    <3>1. PICK j \in BadWords(tokens) \cup Refused : complaints[c] = tokens[j].span
      BY <2>4
    <3>2. j \in 1 .. Len(tokens) /\ j # k
      <4>1. ~IsParen(t)
        BY DEF IsParen
      <4> QED
        BY <1>1, <1>7, <3>1, <4>1 DEF BadWords
    <3>3. Within(t.span.to.offset, tokens[j].span)
      BY <2>1, <2>3, <3>1
    <3> HIDE DEF t
    <3>4. j = k
      BY <1>1, <2>2, <2>3, <3>2, <3>3, TokensApart DEF t
    <3> QED
      BY <3>2, <3>4
  <2>5. CASE \E i \in Unexpected(Consumed) : complaints[c] = CharSpan(i)
    <3>1. PICK i \in Unexpected(Consumed) : complaints[c] = CharSpan(i)
      BY <2>5
    <3>2. i \in Int /\ text[i] \notin Visible
      BY <3>1 DEF Unexpected
    <3>3. t.span.from.offset = i - 1 /\ t.span.to.offset = i
      BY <2>1, <3>1, CharSpanFacts
    <3>4. i \in (i - 1) + 1 .. i
      BY <3>2
    <3> QED
      BY <2>2, <3>2, <3>3, <3>4
  <2> QED
    BY <1>2, <2>1, <2>4, <2>5 DEF Answers
<1> HIDE DEF t, value
<1>8. IF value > MaxInt THEN Complained(t.span)
      ELSE /\ t.integer = IF t.word[1] = "-" THEN -value ELSE value
           /\ ~Complained(t.span)
  BY <1>4, <1>5, <1>6, <1>7
<1> QED
  BY <1>8 DEF t, value

LEMMA CoverRead == ASSUME Parsed PROVE TokensCoverText
<1> SUFFICES ASSUME Over PROVE TokensCoverText
  BY DEF TokensCoverText
<1>1. ReadOK /\ mode = "lexed"
  BY DEF Parsed, ParseOK, Over
<1>2. /\ Len(tokens) \in Nat /\ Consumed = Len(text) /\ Len(text) \in Nat
      /\ \A k \in 1 .. Len(tokens) : /\ TokenOK(tokens[k])
                                     /\ tokens[k].kind \in {"Symbol", "Integer", "LParen", "RParen", "End"}
  BY <1>1, TokenKinds, ReadFacts
<1>3. Answers(complaints, tokens, BadWords(tokens) \cup Refused, Unexpected(Len(text)))
  BY <1>2 DEF Parsed, Complains
<1>4. ASSUME NEW i \in 1 .. Len(text)
      PROVE  LET holding == {k \in 1 .. Len(tokens) : Within(i, tokens[k].span)}
                 ignored == text[i] \in Blanks \/ Commented(i)
                 known == text[i] \in SymbolChars \cup {"(", ")"}
             IN  /\ Cardinality(holding) = IF ~ignored /\ known THEN 1 ELSE 0
                 /\ ~ignored /\ ~known => \E k \in 1 .. Len(complaints) : Within(i, complaints[k])
  <2> DEFINE holding == {k \in 1 .. Len(tokens) : Within(i, tokens[k].span)}
             ignored == text[i] \in Blanks \/ Commented(i)
             known == text[i] \in SymbolChars \cup {"(", ")"}
  <2>1. known <=> text[i] \in Visible
    BY DEF Visible
  <2>2. known => text[i] \notin Blanks
    BY CharFacts
  <2>3. CASE ~ignored /\ known
    <3>1. PICK k \in 1 .. Len(tokens) : Within(i, tokens[k].span)
      BY <1>1, <1>2, <2>1, <2>3 DEF ReadOK, Covered
    <3>2. \A l \in holding : l = k
      BY <1>1, <1>2, <3>1, TokensApart
    <3>3. holding = {k}
      BY <3>1, <3>2
    <3> QED
      BY <2>3, <3>3, FS_Singleton
  <2>4. CASE ~ (~ignored /\ known)
    <3>1. ASSUME NEW k \in holding PROVE FALSE
      <4>1. TokenOK(tokens[k]) /\ Within(i, tokens[k].span)
        BY <1>2
      <4>2. i \in tokens[k].span.from.offset + 1 .. tokens[k].span.to.offset
        BY <4>1 DEF TokenOK, PlaceOK, Within
      <4>3. text[i] \in Visible /\ ~Commented(i)
        BY <4>1, <4>2 DEF TokenOK
      <4> QED
        BY <2>1, <2>2, <2>4, <4>3
    <3>2. holding = {}
      BY <3>1
    <3>3. Cardinality(holding) = 0
      BY <3>2, FS_EmptySet
    <3>4. ASSUME ~ignored, ~known PROVE \E k \in 1 .. Len(complaints) : Within(i, complaints[k])
      <4>1. i \in Unexpected(Len(text))
        BY <2>1, <3>4 DEF Unexpected
      <4>2. PICK c \in 1 .. Len(complaints) : complaints[c] = CharSpan(i)
        BY <1>3, <4>1 DEF Answers
      <4>3. Within(i, CharSpan(i))
        BY CharSpanFacts DEF Within
      <4> QED
        BY <4>2, <4>3
    <3> HIDE DEF holding, known, ignored
    <3>5. Cardinality(holding) = IF ~ignored /\ known THEN 1 ELSE 0
      BY <2>4, <3>3
    <3> QED
      BY <3>4, <3>5 DEF holding, known, ignored
  <2> QED
    BY <2>3, <2>4
<1>5. \A k \in 1 .. Len(tokens) :
          tokens[k].word = SubSeq(text, tokens[k].span.from.offset + 1, tokens[k].span.to.offset)
  BY <1>2 DEF TokenOK
<1>6. ASSUME NEW k \in 1 .. Len(tokens) - 1
      PROVE  /\ tokens[k].span.to.offset <= tokens[k + 1].span.from.offset
             /\ tokens[k].span.to.offset = tokens[k + 1].span.from.offset =>
                    {tokens[k].kind, tokens[k + 1].kind} \cap {"LParen", "RParen", "End"} # {}
  <2>1. k \in 1 .. Len(tokens) /\ k + 1 \in 1 .. Len(tokens) /\ k < k + 1
    BY <1>2
  <2>2. tokens[k].span.to.offset <= tokens[k + 1].span.from.offset
    BY <1>1, <2>1 DEF ReadOK, TokensFit
  <2>3. ASSUME tokens[k].span.to.offset = tokens[k + 1].span.from.offset
        PROVE  {tokens[k].kind, tokens[k + 1].kind} \cap {"LParen", "RParen", "End"} # {}
    <3>1. ~IsWord(tokens[k]) \/ ~IsWord(tokens[k + 1])
      BY <1>1, <2>3 DEF ReadOK, TokensFit
    <3>2. tokens[k].kind \in {"LParen", "RParen", "End"} \/ tokens[k + 1].kind \in {"LParen", "RParen", "End"}
      BY <1>2, <2>1, <3>1 DEF IsWord
    <3> QED
      BY <3>2
  <2> QED
    BY <2>2, <2>3
<1> QED
  BY <1>4, <1>5, <1>6 DEF TokensCoverText

LEMMA TokensRead == ASSUME Parsed PROVE TokensCoverText /\ PlacesExact /\ IntegersExact
BY RefusedFacts, CoverRead, PlacesRead, IntegersRead

-----------------------------------------------------------------------------
(***************************************************************************)
(* What the invariant says of the tree when parse() returns.               *)
(***************************************************************************)
LEMMA FinalTree ==
    ASSUME Parsed, Over
    PROVE  /\ ReadOK /\ mode = "lexed" /\ Tree(Kept)
           /\ Refused = Stray \cup IF NeverClosed(Level) = {} THEN {} ELSE {Max(NeverClosed(Level))}
<1>1. /\ ReadOK /\ mode = "lexed" /\ pos \in 1 .. Len(tokens) /\ stage = "over"
      /\ peek.kind = "End" /\ open = <<>>
      /\ IF Dropped THEN NeverClosed(Level) # {} /\ Tree(Kept) ELSE Tree(Complete(pos - 1)) /\ OpenOK
  BY DEF Parsed, ParseOK, Over
<1>2. \A k \in Stray : k < pos
  BY <1>1, PendingAtEnd
<1>3. {k \in Stray : k < pos} = Stray
  BY <1>2
<1>4. CASE Dropped
  BY <1>1, <1>3, <1>4 DEF Refused
<1>5. CASE ~Dropped
  <2>1. Growing
    BY <1>1, <1>5 DEF Growing
  <2>2. Kept = Complete(pos - 1) /\ NeverClosed(Level) = {}
    BY <1>1, <1>5, <2>1, KeptAtEnd
  <2> QED
    BY <1>1, <1>3, <1>5, <2>2 DEF Refused
<1> QED
  BY <1>4, <1>5

LEMMA TreeRead == ASSUME Parsed PROVE TreeFollowsTokens
<1> SUFFICES ASSUME Over PROVE TreeFollowsTokens
  BY DEF TreeFollowsTokens
<1>1. Tree(Kept)
  BY FinalTree
<1>2. ASSUME NEW k \in Kept
      PROVE  /\ InOrder(nodes[k].list, Inside(k, Kept, Level))
             /\ nodes[k].span = Span(tokens[k].span.from,
                                     IF tokens[k].kind = "LParen"
                                       THEN tokens[Min(Matching(k, Level))].span.to ELSE tokens[k].span.to)
  <2>1. NodeExact(k, Kept)
    BY <1>1 DEF Tree
  <2>2. InOrder(nodes[k].list, Inside(k, Kept, Level))
    BY <2>1 DEF NodeExact, Ordered
  <2>3. nodes[k].span = Span(tokens[k].span.from, tokens[CloseOf(k)].span.to)
    BY <2>1 DEF NodeExact, Node
  <2> QED
    BY <2>2, <2>3 DEF CloseOf
<1>3. DOMAIN nodes = Kept /\ InOrder(exprs, {k \in Kept : Level[k] = 0})
  BY <1>1 DEF Tree, Ordered
<1> QED
  BY <1>2, <1>3 DEF TreeFollowsTokens

LEMMA FaultsRead == ASSUME Parsed PROVE FaultsReported
<1> SUFFICES ASSUME Over PROVE FaultsReported
  BY DEF FaultsReported
<1> DEFINE unexpected == {i \in 1 .. Len(text) :
                ~Commented(i) /\ text[i] \notin Blanks \cup SymbolChars \cup {"(", ")"}}
           words == {k \in 1 .. Len(tokens) : BadWord(tokens[k])}
           unclosed == NeverClosed(Level)
           last == IF unclosed = {} THEN {} ELSE {Max(unclosed)}
<1>1. /\ ReadOK /\ mode = "lexed"
      /\ Refused = Stray \cup IF NeverClosed(Level) = {} THEN {} ELSE {Max(NeverClosed(Level))}
  BY FinalTree
<1>2. Consumed = Len(text)
  BY <1>1, TokenKinds
<1>3. Unexpected(Len(text)) = unexpected
  BY DEF Unexpected, Visible
<1>4. BadWords(tokens) = words
  BY DEF BadWords
<1>5. Refused = Stray \cup last
  BY <1>1
<1>6. BadWords(tokens) \cup Refused = words \cup Stray \cup last
  BY <1>4, <1>5
<1>7. Answers(complaints, tokens, words \cup Stray \cup last, unexpected)
  BY <1>2, <1>3, <1>6 DEF Parsed, Complains
<1> HIDE DEF unexpected, words, last
<1>8. /\ Len(complaints) = Cardinality(unexpected) + Cardinality(words \cup Stray \cup last)
      /\ \A k \in words \cup Stray \cup last : Complained(tokens[k].span)
      /\ \A i \in unexpected : Complained(Span(PlaceOf(i - 1), PlaceOf(i)))
  BY <1>7 DEF Answers, Complained, CharSpan
<1> QED
  BY <1>8 DEF FaultsReported, unexpected, words, last

-----------------------------------------------------------------------------
(***************************************************************************)
(* The compiler of CompileText is the one CompilerProofs is about.         *)
(***************************************************************************)
CP == INSTANCE CompilerProofs WITH stage <- compiling, Sources <- {}

LEMMA SameSteps == C!Next <=> CP!Next
<1> USE DEF C!ToSet, CP!ToSet, C!Front, CP!Front, C!Last, CP!Last, C!Colors, CP!Colors,
            C!Ints, CP!Ints, C!MinInt, CP!MinInt, C!ColorNames, CP!ColorNames,
            C!Reserved, CP!Reserved, C!Comparisons, CP!Comparisons, C!BooleanOps,
            CP!BooleanOps, C!ArithmeticOps, CP!ArithmeticOps, C!SensorForms,
            CP!SensorForms, C!CommandForms, CP!CommandForms, C!ControlForms,
            CP!ControlForms, C!Forms, CP!Forms, C!Builtins, CP!Builtins, C!IsList,
            CP!IsList, C!IsSymbol, CP!IsSymbol, C!IsInteger, CP!IsInteger, C!List,
            CP!List, C!Symbol, CP!Symbol, C!IsForm, CP!IsForm, C!Op, CP!Op, C!Argc,
            CP!Argc, C!Arg, CP!Arg, C!SingleDo, CP!SingleDo, C!Tops, CP!Tops,
            C!TopLevel, CP!TopLevel, C!DefinesFunction, CP!DefinesFunction,
            C!IsSignature, CP!IsSignature, C!Signatures, CP!Signatures, C!FunctionName,
            CP!FunctionName, C!Known, CP!Known, C!First, CP!First, C!Arity, CP!Arity,
            C!Duplicates, CP!Duplicates, C!WrongCount, CP!WrongCount, C!Unknown,
            CP!Unknown, C!BadTarget, CP!BadTarget, C!Accepted, CP!Accepted,
            C!LiteralRange, CP!LiteralRange, C!Questionable, CP!Questionable,
            C!Operands, CP!Operands, C!ArgCount, CP!ArgCount, C!FormKind, CP!FormKind,
            C!NewNode, CP!NewNode, C!ColorNamed, CP!ColorNamed, C!NamedAtom,
            CP!NamedAtom, C!Atom, CP!Atom, C!Params, CP!Params, C!NodeOp, CP!NodeOp,
            C!FormNode, CP!FormNode, C!Frame, CP!Frame, C!active, CP!active, C!More,
            CP!More, C!upcoming, CP!upcoming, C!WithNode, CP!WithNode, C!Received,
            CP!Received, C!Passed, CP!Passed
<1>1. C!CollectSignatures <=> CP!CollectSignatures
  BY DEF C!CollectSignatures, CP!CollectSignatures
<1>2. C!CompileAtom <=> CP!CompileAtom
  BY DEF C!CompileAtom, CP!CompileAtom
<1>3. C!RefuseForm <=> CP!RefuseForm
  BY DEF C!RefuseForm, CP!RefuseForm
<1>4. C!OpenForm <=> CP!OpenForm
  BY DEF C!OpenForm, CP!OpenForm
<1>5. C!CloseForm <=> CP!CloseForm
  BY DEF C!CloseForm, CP!CloseForm
<1>6. C!Finish <=> CP!Finish
  BY DEF C!Finish, CP!Finish
<1> QED
  BY <1>1, <1>2, <1>3, <1>4, <1>5, <1>6 DEF C!Next, CP!Next

LEMMA SameOk == C!Ok <=> CP!Ok
BY DEF C!Ok, C!Rooted, CP!Ok, CP!Rooted

LEMMA SameReserved == C!Reserved = CP!Reserved
BY DEF C!Reserved, CP!Reserved, C!ToSet, CP!ToSet, C!ColorNames, CP!ColorNames

LEMMA SameSourceOK == \A s : C!SourceOK(s) <=> CP!SourceOK(s)
BY SameReserved DEF C!SourceOK, CP!SourceOK

(* What CompilerProofs takes for granted holds here.                       *)
LEMMA CompilerFits ==
    /\ \A s \in {} : CP!SourceOK(s)
    /\ RepeatMax \in 0 .. MaxInt
    /\ Names \subseteq STRING
    /\ {"", "do"} \subseteq STRING
    /\ MaxInt \in Nat /\ MaxInt >= 5
    /\ SpeedMax \in 0 .. MaxInt
    /\ DurationMax \in 0 .. MaxInt
    /\ TurnMax \in 0 .. MaxInt
BY TextAssumption, LexerAssumption

CompileInv == CP!IInv /\ CP!AllThere /\ CP!RootPending /\ CP!Faithful /\ CP!Adopted /\ CP!Settled

LEMMA CompileBegins ==
    /\ C!SourceOK(source) /\ compiling = "signatures" /\ program = [root |-> source.whole, ast |-> <<>>]
    /\ frames = <<>> /\ blamed = {}
    => CompileInv
<1> SUFFICES ASSUME C!SourceOK(source), compiling = "signatures",
                    program = [root |-> source.whole, ast |-> <<>>], frames = <<>>, blamed = {}
             PROVE  CompileInv
  OBVIOUS
<1>1. CP!Fresh
  BY SameSourceOK DEF CP!Fresh
<1>2. CP!IInv /\ CP!AllThere /\ CP!Adopted /\ CP!Settled
  BY <1>1, CompilerFits, CP!FreshInv, CP!FreshAllThere, CP!FreshAdopted
<1> QED
  BY <1>2 DEF CompileInv, CP!RootPending, CP!Faithful, CP!Nodes

LEMMA CompileGoes == ASSUME CompileInv, C!Next \/ UNCHANGED compiler PROVE CompileInv'
<1>1. [CP!Next \/ CP!Returned]_(CP!compilerVars)
  BY SameSteps DEF compiler, CP!compilerVars
<1>2. CP!IInv /\ CP!AllThere /\ CP!RootPending /\ CP!Faithful /\ CP!Adopted /\ CP!Settled
  BY DEF CompileInv
<1>3. CP!IInv'
  BY <1>1, <1>2, CompilerFits, CP!CompilerStep
<1>4. CP!AllThere'
  BY <1>1, <1>2, CompilerFits, CP!AllThereStep
<1>5. CP!RootPending'
  BY <1>1, <1>2, CompilerFits, CP!RootStep
<1>6. CP!Faithful'
  BY <1>1, <1>2, CompilerFits, CP!FaithfulStep
<1>7. CP!Adopted' /\ CP!Settled'
  BY <1>1, <1>2, CompilerFits, CP!AdoptedStep
<1> QED
  BY <1>3, <1>4, <1>5, <1>6, <1>7 DEF CompileInv

(* Whatever parse() returns is a source as Compiler assumes one.           *)
LEMMA ParsedFits == ASSUME Parsed, Over PROVE C!SourceOK(ParseResult)
<1> DEFINE ids == DOMAIN nodes
           raw == [kind : {"Integer", "Symbol", "List"}, symbol : STRING,
                   integer : -MaxInt .. MaxInt, list : Seq(ids)]
           N == [e \in ids |->
                   [kind |-> nodes[e].kind, integer |-> nodes[e].integer, list |-> nodes[e].list,
                    symbol |-> IF nodes[e].kind = "Symbol" THEN Spelling(nodes[e].word) ELSE ""]]
           s == ParseResult
<1>1. ReadOK /\ mode = "lexed" /\ Tree(Kept)
  BY FinalTree
<1>2. /\ Len(tokens) \in Nat /\ Len(text) \in Nat /\ text \in Texts
      /\ \A k \in 1 .. Len(tokens) : /\ TokenOK(tokens[k])
                                     /\ tokens[k].kind \in {"Symbol", "Integer", "LParen", "RParen", "End"}
  BY <1>1, TokenKinds, ReadFacts
<1>3. ids = Kept
  BY <1>1 DEF Tree
<1>4. \A e \in Kept : e \in 1 .. Len(tokens) /\ tokens[e].kind \in {"Symbol", "Integer", "LParen"}
  BY <1>2 DEF Kept
<1>5. s.exprs = exprs /\ s.nodes = N /\ s.whole = 0 /\ s.faulty \in BOOLEAN
      /\ s = [exprs |-> s.exprs, nodes |-> s.nodes, whole |-> s.whole, faulty |-> s.faulty]
      /\ DOMAIN s.nodes = ids
  BY DEF ParseResult, Whole
<1>6. exprs \in Seq(ids)
  <2>1. exprs \in Seq({k \in Kept : Level[k] = 0})
    BY <1>1, OrderedSeq DEF Tree
  <2> QED
    BY <1>3, <2>1, WiderSeq
<1>7. ASSUME NEW e \in ids
      PROVE  /\ nodes[e].kind \in {"Integer", "Symbol", "List"}
             /\ nodes[e].kind = "Symbol" => Spelling(nodes[e].word) \in Names \cup C!Reserved
             /\ nodes[e].integer \in -MaxInt .. MaxInt
             /\ nodes[e].list \in Seq(ids)
  <2>1. /\ TokenOK(tokens[e]) /\ tokens[e].kind \in {"Symbol", "Integer", "LParen"}
        /\ NodeExact(e, Kept)
    BY <1>1, <1>2, <1>3, <1>4 DEF Tree
  <2>2. /\ nodes[e].kind = IF tokens[e].kind = "LParen" THEN "List" ELSE tokens[e].kind
        /\ nodes[e].word = IF tokens[e].kind = "Symbol" THEN tokens[e].word ELSE <<>>
        /\ nodes[e].integer = IF tokens[e].kind = "LParen" THEN 0 ELSE tokens[e].integer
    BY <2>1 DEF NodeExact, Node
  <2>3. nodes[e].list \in Seq(ids)
    <3>1. nodes[e].list \in Seq(Inside(e, Kept, Level))
      BY <2>1, OrderedSeq DEF NodeExact
    <3>2. Inside(e, Kept, Level) \subseteq Kept
      BY DEF Inside
    <3> QED
      BY <1>3, <3>1, <3>2, WiderSeq
  <2>4. ASSUME nodes[e].kind = "Symbol" PROVE Spelling(nodes[e].word) \in Names \cup C!Reserved
    <3> DEFINE a == tokens[e].span.from.offset
               b == tokens[e].span.to.offset
    <3>1. tokens[e].kind = "Symbol" /\ nodes[e].word = SubSeq(text, a + 1, b)
      BY <2>1, <2>2, <2>4 DEF TokenOK
    <3>2. a \in Nat /\ b \in Nat /\ a <= b /\ a # b /\ b <= Len(text)
      BY <2>1, <3>1 DEF TokenOK, PlaceOK
    <3> HIDE DEF a, b
    <3>3. a + 1 \in 1 .. Len(text) /\ b \in 1 .. Len(text) /\ a + 1 <= b
      BY <1>2, <3>2
    <3> QED
      BY <1>2, <3>1, <3>3, TextAssumption
  <2>5. nodes[e].integer \in -MaxInt .. MaxInt
    BY <2>1, <2>2, ZeroFits DEF TokenOK
  <2> QED
    BY <2>1, <2>2, <2>3, <2>4, <2>5
<1>8. Names \cup C!Reserved \cup {""} \subseteq STRING
  BY TextAssumption
<1>9. N \in [ids -> raw]
  <2>1. ASSUME NEW e \in ids PROVE N[e] \in raw
    <3>1. (IF nodes[e].kind = "Symbol" THEN Spelling(nodes[e].word) ELSE "") \in STRING
      BY <1>7, <1>8
    <3> QED
      BY <1>7, <3>1
  <2> QED
    BY <2>1
<1>10. 0 \notin ids
  BY <1>2, <1>3, <1>4
<1>11. \A e \in ids : N[e].kind = "Symbol" => N[e].symbol \in Names \cup C!Reserved
  BY <1>7
<1> HIDE DEF N, s, ids, raw
<1>12. /\ s.nodes \in [DOMAIN s.nodes -> [kind : {"Integer", "Symbol", "List"}, symbol : STRING,
                                         integer : -MaxInt .. MaxInt, list : Seq(DOMAIN s.nodes)]]
  BY <1>5, <1>9 DEF raw
<1>13. C!SourceOK(s)
  BY <1>5, <1>6, <1>10, <1>11, <1>12 DEF C!SourceOK
<1> QED
  BY <1>13 DEF s

-----------------------------------------------------------------------------
(***************************************************************************)
(* The invariant of reading and compiling: the compiler begins when the    *)
(* parser is done, and works on what the parser returned.                  *)
(***************************************************************************)
TextInv ==
    /\ Parsed
    /\ compiling # "parsing" => Over /\ source = ParseResult /\ CompileInv

LEMMA TextBegins == TextInit => TextInv
BY ReadingBegins DEF TextInit, TextInv

LEMMA ReadKeeps == ASSUME TextInv, Read PROVE TextInv'
<1>1. Parsed'
  BY ReadStep DEF TextInv, Read
<1>2. ~Over
  <2>1. Lex => mode # "lexed"
    BY DEF Lex, LexerNext, SkipBlank, BeginComment, ReadComment, ReadParenthesis, BeginWord,
           ReadWord, EndWord, SkipUnexpected, EndText
  <2>2. Parse => stage = "parsing"
    BY DEF Parse, ParseAtom, OpenList, CloseList, StrayClose, Unclosed, ParseOver, Parsing
  <2>3. Over => mode = "lexed"
    BY DEF TextInv, Parsed, ParseOK, Over
  <2> QED
    BY <2>1, <2>2, <2>3 DEF Over, Read
<1>3. compiling' = "parsing"
  BY <1>2 DEF TextInv, Read, compiler
<1> QED
  BY <1>1, <1>3 DEF TextInv

LEMMA SameResult == UNCHANGED vars => ParseResult' = ParseResult /\ (Over' <=> Over)
BY DEF vars, lexerVars, parserVars, ParseResult, Over

LEMMA HandOverKeeps == ASSUME TextInv, HandOver PROVE TextInv'
<1>1. Over /\ UNCHANGED vars
  BY DEF HandOver, Over
<1>2. Parsed' /\ Over' /\ ParseResult' = ParseResult
  BY <1>1, ReadIdle, SameResult DEF TextInv
<1>3. /\ source' = ParseResult /\ compiling' = "signatures"
      /\ program' = [root |-> source'.whole, ast |-> <<>>] /\ frames' = <<>> /\ blamed' = {}
  BY DEF HandOver, Begin
<1>4. C!SourceOK(source)'
  <2>1. C!SourceOK(ParseResult)
    BY <1>1, ParsedFits DEF TextInv
  <2>2. \A s : C!SourceOK(s)' <=> C!SourceOK(s)
    BY DEF C!SourceOK, C!Reserved, C!ToSet, C!ColorNames
  <2> QED
    BY <1>3, <2>1, <2>2
<1>5. (/\ C!SourceOK(source) /\ compiling = "signatures" /\ program = [root |-> source.whole, ast |-> <<>>]
       /\ frames = <<>> /\ blamed = {}
       => CompileInv)'
  BY CompileBegins, PTL
<1>6. CompileInv'
  BY <1>3, <1>4, <1>5
<1> QED
  BY <1>2, <1>3, <1>6 DEF TextInv

LEMMA CompilerKeeps == ASSUME TextInv, Compile \/ TextOver \/ UNCHANGED textVars PROVE TextInv'
<1>1. UNCHANGED vars /\ (C!Next \/ UNCHANGED compiler)
  BY DEF Compile, TextOver, C!Returned, C!compilerVars, compiler, textVars
<1>2. Parsed' /\ ParseResult' = ParseResult /\ (Over' <=> Over)
  BY <1>1, ReadIdle, SameResult DEF TextInv
<1>3. C!Next => compiling # "parsing"
  BY DEF C!Next, C!CollectSignatures, C!CompileAtom, C!RefuseForm, C!OpenForm, C!CloseForm, C!Finish, C!More
<1>4. C!Next => source' = source
  BY DEF C!Next, C!CollectSignatures, C!CompileAtom, C!RefuseForm, C!OpenForm, C!CloseForm, C!Finish
<1>5. source' = source
  BY <1>1, <1>4 DEF compiler
<1>6. CASE compiling = "parsing"
  <2>1. compiling' = "parsing"
    BY <1>1, <1>3, <1>6 DEF compiler
  <2> QED
    BY <1>2, <2>1 DEF TextInv
<1>7. CASE compiling # "parsing"
  <2>1. CompileInv'
    BY <1>1, <1>7, CompileGoes DEF TextInv
  <2> QED
    BY <1>2, <1>5, <1>7, <2>1 DEF TextInv
<1> QED
  BY <1>6, <1>7

LEMMA TextStep == TextInv /\ [TextNext]_textVars => TextInv'
BY ReadKeeps, HandOverKeeps, CompilerKeeps DEF TextNext

-----------------------------------------------------------------------------
(***************************************************************************)
(* The nodes of a program and the text: where they begin and end.          *)
(***************************************************************************)
LEMMA AllClosed ==
    ASSUME Parsed, Over, complaints = <<>>
    PROVE  NeverClosed(Level) = {}
<1> SUFFICES ASSUME NeverClosed(Level) # {} PROVE FALSE
  OBVIOUS
<1> DEFINE last == IF NeverClosed(Level) = {} THEN {} ELSE {Max(NeverClosed(Level))}
<1>1. Max(NeverClosed(Level)) \in last
  OBVIOUS
<1>2. \A k \in last : Complained(tokens[k].span)
  BY FaultsRead DEF FaultsReported
<1>3. Complained(tokens[Max(NeverClosed(Level))].span)
  BY <1>1, <1>2
<1>4. Len(complaints) = 0
  BY LenProperties, EmptySeq
<1> QED
  BY <1>3, <1>4 DEF Complained

(* A kept expression ends at a token of its own.                           *)
LEMMA KeptEnds ==
    ASSUME Parsed, Over, complaints = <<>>, NEW k \in Kept
    PROVE  /\ k \in 1 .. Len(tokens) /\ Len(tokens) \in Nat
           /\ tokens[k].kind \in {"Symbol", "Integer", "LParen"}
           /\ CloseOf(k) \in k .. Len(tokens) /\ CloseOf(k) \in 1 .. Len(tokens)
           /\ tokens[CloseOf(k)].kind # "End"
           /\ tokens[k].kind # "LParen" => CloseOf(k) = k
           /\ tokens[k].kind = "LParen" =>
                 /\ CloseOf(k) \in k + 1 .. Len(tokens) /\ tokens[CloseOf(k)].kind = "RParen"
                 /\ Level[CloseOf(k)] = Level[k] + 1 /\ ~Shut(k, CloseOf(k) - 1)
<1>1. ReadOK /\ mode = "lexed"
  BY FinalTree
<1>2. /\ Len(tokens) \in Nat
      /\ \A e \in 1 .. Len(tokens) : tokens[e].kind \in {"Symbol", "Integer", "LParen", "RParen", "End"}
  BY <1>1, TokenKinds
<1>3. k \in 1 .. Len(tokens) /\ tokens[k].kind \notin {"RParen", "End"}
  BY DEF Kept
<1>4. CASE tokens[k].kind # "LParen"
  <2>1. CloseOf(k) = k
    BY <1>4 DEF CloseOf
  <2> QED
    BY <1>2, <1>3, <1>4, <2>1
<1>5. CASE tokens[k].kind = "LParen"
  <2>1. Matching(k, Level) # {}
    BY <1>3, <1>5, AllClosed DEF NeverClosed
  <2>2. Shut(k, Len(tokens))
    BY <2>1 DEF Matching, Shut
  <2>3. /\ Min(Matching(k, Level)) \in k + 1 .. Len(tokens)
        /\ tokens[Min(Matching(k, Level))].kind = "RParen"
        /\ Level[Min(Matching(k, Level))] = Level[k] + 1
        /\ ~Shut(k, Min(Matching(k, Level)) - 1)
    BY <1>2, <1>3, <2>2, Matched
  <2>4. CloseOf(k) = Min(Matching(k, Level))
    BY <1>5 DEF CloseOf
  <2> HIDE DEF CloseOf
  <2> QED
    BY <1>2, <1>3, <1>5, <2>3, <2>4
<1> QED
  BY <1>4, <1>5

(* What is between a parenthesis and its match is deeper.                  *)
LEMMA DeeperInside ==
    ASSUME Parsed, Over, complaints = <<>>, NEW k \in Kept, tokens[k].kind = "LParen",
           NEW j \in k + 1 .. CloseOf(k)
    PROVE  Level[k] + 1 <= Level[j]
<1> DEFINE m == CloseOf(k)
<1>1. /\ k \in 1 .. Len(tokens) /\ Len(tokens) \in Nat
      /\ m \in k + 1 .. Len(tokens) /\ ~Shut(k, m - 1)
  BY KeptEnds
<1> HIDE DEF m
<1>2. j \in k + 1 .. Len(tokens) /\ j - 1 <= m - 1 /\ k \in Nat /\ j - 1 \in Int /\ m - 1 \in Int
  BY <1>1 DEF m
<1>3. ~Shut(k, j - 1)
  BY <1>1, <1>2, ShutFurther
<1> QED
  BY <1>1, <1>2, <1>3, Deeper

LEMMA EndsBefore ==
    ASSUME Parsed, Over, complaints = <<>>, NEW c \in Kept, NEW d \in Kept, c < d, Level[d] = Level[c]
    PROVE  CloseOf(c) < d
<1>1. /\ c \in 1 .. Len(tokens) /\ d \in 1 .. Len(tokens) /\ Len(tokens) \in Nat
      /\ CloseOf(c) \in 1 .. Len(tokens)
      /\ tokens[c].kind # "LParen" => CloseOf(c) = c
  BY KeptEnds
<1>2. Level[c] \in Nat
  BY <1>1, LevelFacts
<1>3. CASE tokens[c].kind # "LParen"
  BY <1>1, <1>3
<1>4. CASE tokens[c].kind = "LParen"
  <2> SUFFICES ASSUME ~(CloseOf(c) < d) PROVE FALSE
    OBVIOUS
  <2>1. d \in c + 1 .. CloseOf(c)
    BY <1>1
  <2>2. Level[c] + 1 <= Level[d]
    BY <1>4, <2>1, DeeperInside
  <2> QED
    BY <1>2, <2>2
<1> QED
  BY <1>3, <1>4

LEMMA EndsWithin ==
    ASSUME Parsed, Over, complaints = <<>>, NEW k \in Kept, NEW c \in Inside(k, Kept, Level)
    PROVE  c \in Kept /\ k < c /\ CloseOf(c) < CloseOf(k) /\ Level[c] = Level[k] + 1
<1>1. /\ tokens[k].kind = "LParen" /\ c \in k + 1 .. CloseOf(k) /\ c \in Kept
      /\ Level[c] = Level[k] + 1
  BY DEF Inside, CloseOf
<1>2. /\ k \in 1 .. Len(tokens) /\ c \in 1 .. Len(tokens) /\ Len(tokens) \in Nat
      /\ CloseOf(k) \in 1 .. Len(tokens) /\ CloseOf(c) \in 1 .. Len(tokens)
      /\ tokens[CloseOf(k)].kind = "RParen" /\ Level[CloseOf(k)] = Level[k] + 1
      /\ tokens[c].kind # "RParen"
      /\ tokens[c].kind # "LParen" => CloseOf(c) = c
  BY <1>1, KeptEnds
<1>3. Level[k] \in Nat
  BY <1>2, LevelFacts
<1>4. c < CloseOf(k) /\ k < c
  BY <1>1, <1>2
<1>5. CASE tokens[c].kind # "LParen"
  BY <1>1, <1>2, <1>4, <1>5
<1>6. CASE tokens[c].kind = "LParen"
  <2> SUFFICES ASSUME ~(CloseOf(c) < CloseOf(k)) PROVE FALSE
    BY <1>1, <1>4
  <2>1. CloseOf(k) \in c + 1 .. CloseOf(c)
    BY <1>2, <1>4
  <2>2. Level[c] + 1 <= Level[CloseOf(k)]
    BY <1>1, <1>6, <2>1, DeeperInside
  <2> QED
    BY <1>1, <1>2, <1>3, <2>2
<1> QED
  BY <1>5, <1>6

(* Expressions have the span of their tokens, and tokens do not overlap.   *)
LEMMA KeptSpans ==
    ASSUME Parsed, Over, complaints = <<>>
    PROVE  /\ \A k \in Kept : nodes[k].span = Span(tokens[k].span.from, tokens[CloseOf(k)].span.to)
           /\ \A k \in 1 .. Len(tokens) :
                 /\ tokens[k].span.from.offset \in Nat /\ tokens[k].span.to.offset \in Nat
                 /\ tokens[k].kind # "End" => tokens[k].span.from.offset < tokens[k].span.to.offset
           /\ \A k, l \in 1 .. Len(tokens) :
                 k < l => tokens[k].span.to.offset <= tokens[l].span.from.offset
<1>1. ReadOK /\ mode = "lexed" /\ Tree(Kept)
  BY FinalTree
<1>2. \A k \in 1 .. Len(tokens) : TokenOK(tokens[k])
  BY <1>1, TokenKinds
<1>3. \A k \in Kept : nodes[k].span = Span(tokens[k].span.from, tokens[CloseOf(k)].span.to)
  BY <1>1 DEF Tree, NodeExact, Node
<1>4. ASSUME NEW k \in 1 .. Len(tokens)
      PROVE  /\ tokens[k].span.from.offset \in Nat /\ tokens[k].span.to.offset \in Nat
             /\ tokens[k].kind # "End" => tokens[k].span.from.offset < tokens[k].span.to.offset
  BY <1>2 DEF TokenOK, PlaceOK
<1>5. \A k, l \in 1 .. Len(tokens) :
          k < l => tokens[k].span.to.offset <= tokens[l].span.from.offset
  BY <1>1 DEF ReadOK, TokensFit
<1> QED
  BY <1>3, <1>4, <1>5

(* A sequence of tokens in the order of the text.                          *)
Rising(s, T) == s \in Seq(T) /\ \A i, j \in 1 .. Len(s) : i < j => s[i] < s[j]

LEMMA RisingNone == ASSUME NEW T PROVE Rising(<<>>, T)
BY EmptySeq DEF Rising

LEMMA RisingTail ==
    ASSUME NEW T, NEW s, Rising(s, T), s # <<>>
    PROVE  Rising(Tail(s), T)
<1> DEFINE t == Tail(s)
<1>1. /\ s \in Seq(T) /\ t \in Seq(T) /\ Len(t) = Len(s) - 1
      /\ \A i \in 1 .. Len(t) : t[i] = s[i + 1]
  BY HeadTailProperties DEF Rising
<1>2. Len(s) \in Nat /\ Len(t) \in Nat
  BY <1>1, LenProperties
<1> HIDE DEF t
<1>3. \A i \in 1 .. Len(t) : i + 1 \in 1 .. Len(s)
  BY <1>1, <1>2
<1>4. ASSUME NEW i \in 1 .. Len(t), NEW j \in 1 .. Len(t), i < j PROVE t[i] < t[j]
  <2>1. i + 1 < j + 1 /\ i + 1 \in 1 .. Len(s) /\ j + 1 \in 1 .. Len(s)
    BY <1>3, <1>4
  <2> QED
    BY <1>1, <2>1 DEF Rising
<1>5. Rising(t, T)
  BY <1>1, <1>4 DEF Rising
<1> QED
  BY <1>5 DEF t

LEMMA OrderedRises ==
    ASSUME NEW s, NEW T, Ordered(s, T)
    PROVE  Rising(s, T)
<1>1. s \in Seq(T) /\ DOMAIN s = 1 .. Len(s)
  BY OrderedSeq, LenProperties
<1> QED
  BY <1>1 DEF Rising, Ordered, InOrder

(* What is known when compile() returns a tree.                            *)
LEMMA CompiledFacts ==
    ASSUME TextInv, C!Ok
    PROVE  /\ Parsed /\ Over /\ complaints = <<>> /\ Tree(Kept)
           /\ CompileInv /\ CP!Ok /\ CP!SourceOK(source) /\ CP!TreeOK /\ blamed = {} /\ compiling = "over"
           /\ source.exprs = exprs /\ source.whole = Whole /\ DOMAIN source.nodes = Kept
           /\ \A e \in Kept : /\ CP!List(e) = nodes[e].list
                              /\ CP!IsList(e) <=> tokens[e].kind = "LParen"
           /\ Whole \notin Kept /\ C!Nodes = CP!Nodes /\ \A n : C!Below(n) = CP!Below(n)
           /\ CP!Nodes \subseteq Kept \cup {Whole} /\ program.root \in CP!Nodes
<1>1. Parsed /\ Over /\ source = ParseResult /\ CompileInv
  BY DEF TextInv, C!Ok
<1>2. /\ CP!Ok /\ CP!SourceOK(source) /\ CP!TreeOK /\ blamed = {} /\ ~source.faulty /\ compiling = "over"
      /\ program.root \in CP!Nodes
  BY <1>1, SameOk, CompilerFits, CP!Parts DEF CompileInv, CP!Ok, CP!Rooted, CP!Nodes
<1>3. complaints = <<>> /\ source.exprs = exprs /\ source.whole = Whole /\ DOMAIN source.nodes = DOMAIN nodes
  BY <1>1, <1>2 DEF ParseResult
<1>4. Tree(Kept)
  BY <1>1, FinalTree
<1>5. DOMAIN nodes = Kept
  BY <1>4 DEF Tree
<1>6. ASSUME NEW e \in Kept
      PROVE  CP!List(e) = nodes[e].list /\ (CP!IsList(e) <=> tokens[e].kind = "LParen")
  <2>1. source.nodes[e].list = nodes[e].list /\ source.nodes[e].kind = nodes[e].kind
    BY <1>1, <1>5 DEF ParseResult
  <2>2. nodes[e].kind = IF tokens[e].kind = "LParen" THEN "List" ELSE tokens[e].kind
    BY <1>4 DEF Tree, NodeExact, Node
  <2>3. tokens[e].kind \in {"Symbol", "Integer", "LParen"}
    BY <1>1, <1>3, KeptEnds
  <2> QED
    BY <2>1, <2>2, <2>3 DEF CP!List, CP!IsList
<1>7. C!Nodes = CP!Nodes /\ \A n : C!Below(n) = CP!Below(n)
  BY DEF C!Nodes, CP!Nodes, C!Below, CP!Below, C!Ast, CP!Ast
<1>8. Whole \notin Kept
  BY DEF Whole, Kept
<1>9. CP!Nodes \subseteq Kept \cup {Whole}
  BY <1>1, <1>3, <1>5 DEF CompileInv, CP!IInv, CP!TypeOK
<1> QED
  BY <1>1, <1>2, <1>3, <1>4, <1>5, <1>6, <1>7, <1>8, <1>9

LEMMA BelowAreNodes ==
    ASSUME TextInv, C!Ok, NEW n \in C!Nodes
    PROVE  C!Below(n) \in Seq(C!Nodes)
<1>1. CP!TreeOK /\ n \in CP!Nodes /\ C!Nodes = CP!Nodes /\ C!Below(n) = CP!Below(n)
  BY CompiledFacts
<1>2. CP!Ast[n].args \in Seq(CP!Nodes) /\ CP!Ast[n].children \in Seq(CP!Nodes)
  BY <1>1, CompilerFits, CP!TreeSound DEF CP!Sound
<1>3. CP!Ast[n].args \o CP!Ast[n].children \in Seq(CP!Nodes)
  BY <1>2, ConcatProperties
<1> QED
  BY <1>1, <1>3 DEF CP!Below

(* The operands of a form are elements of its list, in order.              *)
LEMMA OperandsRise ==
    ASSUME TextInv, C!Ok, NEW e \in Kept, CP!Accepted(e)
    PROVE  Rising(CP!Operands(e), Inside(e, Kept, Level)) /\ Rising(Tail(CP!List(e)), Inside(e, Kept, Level))
<1> DEFINE T == Inside(e, Kept, Level)
           l == CP!List(e)
<1>1. /\ Tree(Kept) /\ CP!SourceOK(source) /\ e \in DOMAIN source.nodes /\ l = nodes[e].list
      /\ e # source.whole
  BY CompiledFacts
<1>2. Rising(l, T)
  BY <1>1, OrderedRises DEF Tree, NodeExact
<1>3. /\ CP!IsForm(e) /\ CP!Argc(e) \in Nat
      /\ CP!Op(e) = "set!" => CP!Argc(e) = 2
      /\ CP!Op(e) = "define" => CP!Argc(e) >= 1
  BY <1>1, CompilerFits, CP!AcceptedFacts
<1>4. l # <<>> /\ Len(l) = CP!Argc(e) + 1
  BY <1>1, <1>3, CompilerFits, CP!FormFacts DEF CP!IsForm
<1>5. Rising(Tail(l), T)
  BY <1>2, <1>4, RisingTail
<1>6. CASE CP!Op(e) \in {"define", "set!"}
  <2>1. Len(Tail(l)) = Len(l) - 1
    BY <1>2, <1>4, HeadTailProperties DEF Rising
  <2>2. Tail(l) # <<>>
    BY <1>3, <1>4, <1>6, <2>1, EmptySeq
  <2>3. Rising(Tail(Tail(l)), T)
    BY <1>5, <2>2, RisingTail
  <2>4. CP!Operands(e) = Tail(Tail(l))
    BY <1>1, <1>6 DEF CP!Operands
  <2> QED
    BY <1>5, <2>3, <2>4
<1>7. CASE CP!Op(e) \notin {"define", "set!"}
  <2>1. CP!Operands(e) = Tail(l)
    BY <1>1, <1>7 DEF CP!Operands
  <2> QED
    BY <1>5, <2>1
<1> QED
  BY <1>6, <1>7

LEMMA AtomIsLeaf ==
    ASSUME NEW e
    PROVE  CP!Atom(e).args = <<>> /\ CP!Atom(e).children = <<>>
<1> DEFINE none == <<>>
<1>1. \A k, o, num : CP!NewNode(k, o, num) = [kind |-> k, op |-> o, args |-> none, children |-> none,
                                              params |-> none, num |-> num]
  BY DEF CP!NewNode
<1> HIDE DEF none
<1>2. \A k, o, num : CP!NewNode(k, o, num).args = none /\ CP!NewNode(k, o, num).children = none
  BY <1>1
<1>3. PICK k, o, num : CP!Atom(e) = CP!NewNode(k, o, num)
  BY DEF CP!Atom, CP!NamedAtom
<1> QED
  BY <1>2, <1>3 DEF none

LEMMA BelowForm ==
    ASSUME TextInv, C!Ok, NEW n \in C!Nodes, n # Whole
    PROVE  n \in Kept /\ Rising(C!Below(n), Inside(n, Kept, Level))
<1>1. /\ n \in Kept /\ n \in CP!Nodes /\ n # source.whole /\ C!Below(n) = CP!Below(n) /\ blamed = {}
      /\ CompileInv
  BY CompiledFacts
<1>2. CP!FaithfulAs(n, CP!Ast[n])
  BY <1>1 DEF CompileInv, CP!Faithful
<1>3. CASE CP!IsList(n)
  <2>1. CP!Below(n) = CP!Operands(n)
    BY <1>1, <1>3 DEF CompileInv, CP!AllThere, CP!NodesGather
  <2>2. CP!Accepted(n)
    BY <1>1, <1>2, <1>3 DEF CP!FaithfulAs
  <2> QED
    BY <1>1, <2>1, <2>2, OperandsRise
<1>4. CASE ~CP!IsList(n)
  <2>1. CP!Ast[n] = CP!Atom(n)
    BY <1>1, <1>2, <1>4 DEF CP!FaithfulAs
  <2>2. CP!Below(n) = <<>> \o <<>>
    BY <2>1, AtomIsLeaf DEF CP!Below
  <2>3. <<>> \o <<>> = <<>>
    BY EmptySeq, ConcatEmptySeq
  <2> QED
    BY <1>1, <2>2, <2>3, RisingNone
<1> QED
  BY <1>3, <1>4

(* Every node but the root is an operand of another.                       *)
LEMMA ParentOf ==
    ASSUME TextInv, C!Ok, NEW n \in C!Nodes
    PROVE  n = program.root \/ \E p \in C!Nodes : \E k \in 1 .. Len(C!Below(p)) : C!Below(p)[k] = n
<1>1. /\ n \in CP!Nodes /\ C!Nodes = CP!Nodes /\ \A m : C!Below(m) = CP!Below(m)
      /\ blamed = {} /\ compiling = "over" /\ CompileInv
  BY CompiledFacts
<1>2. n = program.root \/ \E p \in CP!Nodes : CP!OperandOf(n, p)
  BY <1>1 DEF CompileInv, CP!Adopted
<1>3. ASSUME NEW p \in CP!Nodes, CP!OperandOf(n, p)
      PROVE  \E k \in 1 .. Len(CP!Below(p)) : CP!Below(p)[k] = n
  <2>1. CP!Below(p) = CP!Operands(p)
    BY <1>1, <1>3 DEF CompileInv, CP!AllThere, CP!NodesGather, CP!OperandOf
  <2> QED
    BY <1>3, <2>1 DEF CP!OperandOf
<1> QED
  BY <1>1, <1>2, <1>3

(* The node around a whole program is there when there are several         *)
(* statements, or a do around them, which it then stands for.              *)
LEMMA BelowWhole ==
    ASSUME TextInv, C!Ok, Whole \in C!Nodes
    PROVE  /\ exprs # <<>> /\ Rising(exprs, {k \in Kept : Level[k] = 0})
           /\ program.root = Whole
           /\ \/ /\ C!Below(Whole) = exprs /\ Len(exprs) > 1
              \/ /\ Rising(C!Below(Whole), Inside(exprs[1], Kept, Level))
                 /\ Len(exprs) = 1 /\ exprs[1] \notin C!Nodes
<1>1. /\ Tree(Kept) /\ CompileInv /\ CP!Ok /\ blamed = {} /\ compiling = "over"
      /\ source.exprs = exprs /\ source.whole = Whole /\ DOMAIN source.nodes = Kept
      /\ Whole \notin Kept /\ C!Nodes = CP!Nodes /\ \A n : C!Below(n) = CP!Below(n)
      /\ Parsed /\ Over /\ complaints = <<>> /\ CP!SourceOK(source)
      /\ CP!Nodes \subseteq Kept \cup {Whole}
  BY CompiledFacts
<1>2. exprs # <<>>
  BY <1>1 DEF CompileInv, CP!Settled
<1>3. Rising(exprs, {k \in Kept : Level[k] = 0})
  BY <1>1, OrderedRises DEF Tree
<1>4. /\ Len(exprs) \in Nat \ {0} /\ exprs[1] \in {k \in Kept : Level[k] = 0}
  <2>1. exprs \in Seq({k \in Kept : Level[k] = 0}) /\ Len(exprs) \in Nat /\ Len(exprs) # 0
    BY <1>2, <1>3, EmptySeq, LenProperties DEF Rising
  <2>2. 1 \in 1 .. Len(exprs)
    BY <2>1
  <2> QED
    BY <2>1, <2>2, ElementOfSeq
<1>5. CP!Below(Whole) = CP!Tops
  BY <1>1 DEF CompileInv, CP!AllThere, CP!NodesGather, CP!Operands
<1>6. program.root = Whole
  <2> SUFFICES ASSUME program.root # Whole PROVE FALSE
    OBVIOUS
  <2>1. PICK p \in C!Nodes : \E k \in 1 .. Len(C!Below(p)) : C!Below(p)[k] = Whole
    BY ParentOf
  <2>2. CP!Below(p) \in Seq(Kept)
    <3>1. CASE p = Whole
      BY <1>1, <1>5, <3>1, CompilerFits, CP!TopsFacts
    <3>2. CASE p # Whole
      <4>1. Rising(C!Below(p), Inside(p, Kept, Level)) /\ Inside(p, Kept, Level) \subseteq Kept
        BY <2>1, <3>2, BelowForm DEF Inside
      <4> QED
        BY <1>1, <4>1, WiderSeq DEF Rising
    <3> QED
      BY <3>1, <3>2
  <2> QED
    BY <1>1, <2>1, <2>2, ElementOfSeq
<1>7. CASE CP!SingleDo
  <2>1. Len(exprs) = 1 /\ CP!IsForm(exprs[1]) /\ CP!Op(exprs[1]) = "do"
    BY <1>1, <1>7 DEF CP!SingleDo
  <2>2. CP!Tops = Tail(CP!List(exprs[1]))
    BY <1>1, <1>7 DEF CP!Tops
  <2>3. CP!List(exprs[1]) = nodes[exprs[1]].list /\ CP!List(exprs[1]) # <<>>
    BY <1>1, <1>4, <2>1, CompiledFacts DEF CP!IsForm
  <2>4. Rising(nodes[exprs[1]].list, Inside(exprs[1], Kept, Level))
    BY <1>1, <1>4, OrderedRises DEF Tree, NodeExact
  <2>5. Rising(C!Below(Whole), Inside(exprs[1], Kept, Level))
    BY <1>1, <1>5, <2>2, <2>3, <2>4, RisingTail
  <2>6. exprs[1] \notin C!Nodes
    <3> SUFFICES ASSUME exprs[1] \in C!Nodes PROVE FALSE
      OBVIOUS
    <3>1. exprs[1] # program.root
      BY <1>1, <1>4, <1>6
    <3>2. PICK p \in C!Nodes : \E k \in 1 .. Len(C!Below(p)) : C!Below(p)[k] = exprs[1]
      BY <3>1, ParentOf
    <3>3. PICK q \in Kept : Rising(C!Below(p), Inside(q, Kept, Level))
      BY <1>4, <2>5, <3>2, BelowForm
    <3>4. exprs[1] \in Inside(q, Kept, Level)
      BY <3>2, <3>3, ElementOfSeq DEF Rising
    <3>5. Level[exprs[1]] = Level[q] + 1
      BY <1>1, <3>4, EndsWithin
    <3>6. Level[q] \in Nat
      BY <1>1, KeptEnds, LevelFacts
    <3> QED
      BY <1>4, <3>5, <3>6
  <2> QED
    BY <1>2, <1>3, <1>6, <2>1, <2>5, <2>6
<1>8. CASE ~CP!SingleDo
  <2>1. C!Below(Whole) = exprs
    BY <1>1, <1>5, <1>8 DEF CP!Tops
  <2>2. Len(exprs) # 1
    <3> SUFFICES ASSUME Len(exprs) = 1 PROVE FALSE
      OBVIOUS
    <3>1. program.root = exprs[1]
      BY <1>1, <1>8 DEF CompileInv, CP!Settled
    <3> QED
      BY <1>1, <1>4, <1>6, <3>1
  <2>3. Len(exprs) > 1
    <3>1. \A l \in Nat \ {0} : l # 1 => l > 1
      OBVIOUS
    <3> QED
      BY <1>4, <2>2, <3>1
  <2> QED
    BY <1>2, <1>3, <1>6, <2>1, <2>3
<1> QED
  BY <1>7, <1>8

-----------------------------------------------------------------------------
(***************************************************************************)
(* The span of a node tells it from all others.                            *)
(***************************************************************************)
From(k) == tokens[k].span.from.offset

To(k) == tokens[k].span.to.offset

FirstOf(n) == IF n = Whole THEN exprs[1] ELSE n

LastOf(n) == CloseOf(IF n = Whole THEN Last(exprs) ELSE n)

(* A node begins with an expression and ends where one ends.               *)
LEMMA NodeSpan ==
    ASSUME TextInv, C!Ok, NEW n \in C!Nodes
    PROVE  /\ FirstOf(n) \in Kept /\ LastOf(n) \in 1 .. Len(tokens)
           /\ FirstOf(n) <= LastOf(n) /\ tokens[LastOf(n)].kind # "End"
           /\ SpanOf(n) = Span(tokens[FirstOf(n)].span.from, tokens[LastOf(n)].span.to)
           /\ n = Whole => LastOf(n) = CloseOf(exprs[Len(exprs)]) /\ exprs[Len(exprs)] \in Kept
<1>1. /\ Parsed /\ Over /\ complaints = <<>>
      /\ \A k \in Kept : nodes[k].span = Span(tokens[k].span.from, tokens[CloseOf(k)].span.to)
  BY CompiledFacts, KeptSpans
<1>2. CASE n # Whole
  <2>1. n \in Kept
    BY <1>2, BelowForm
  <2> QED
    BY <1>1, <1>2, <2>1, KeptEnds DEF FirstOf, LastOf, SpanOf
<1>3. CASE n = Whole
  <2>1. exprs # <<>> /\ Rising(exprs, {k \in Kept : Level[k] = 0})
    BY <1>3, BelowWhole
  <2>2. /\ exprs \in Seq({k \in Kept : Level[k] = 0}) /\ Len(exprs) \in Nat /\ Len(exprs) # 0
        /\ \A i, j \in 1 .. Len(exprs) : i < j => exprs[i] < exprs[j]
    BY <2>1, EmptySeq, LenProperties DEF Rising
  <2>3. 1 \in 1 .. Len(exprs) /\ Len(exprs) \in 1 .. Len(exprs)
    BY <2>2
  <2> DEFINE a == exprs[1]
             z == exprs[Len(exprs)]
  <2>4. a \in Kept /\ z \in Kept /\ (a = z \/ a < z)
    <3>1. a \in Kept /\ z \in Kept
      BY <2>2, <2>3, ElementOfSeq
    <3>2. Len(exprs) # 1 => a < z
      <4>1. \A l \in Nat : l # 0 /\ l # 1 => 1 < l
        OBVIOUS
      <4> QED
        BY <2>2, <2>3, <4>1
    <3> QED
      BY <3>1, <3>2
  <2>5. Last(exprs) = z
    BY DEF Last
  <2> HIDE DEF a, z
  <2>6. FirstOf(n) = a /\ LastOf(n) = CloseOf(z)
    BY <1>3, <2>5 DEF FirstOf, LastOf, a
  <2>7. /\ a \in 1 .. Len(tokens) /\ Len(tokens) \in Nat
        /\ CloseOf(z) \in z .. Len(tokens) /\ CloseOf(z) \in 1 .. Len(tokens) /\ tokens[CloseOf(z)].kind # "End"
        /\ z \in 1 .. Len(tokens)
    BY <1>1, <2>4, KeptEnds
  <2>8. SpanOf(n) = Span(nodes[a].span.from, nodes[z].span.to)
    BY <1>3, <2>5 DEF SpanOf, a
  <2>9. nodes[a].span.from = tokens[a].span.from /\ nodes[z].span.to = tokens[CloseOf(z)].span.to
    <3>1. \A f, t : Span(f, t).from = f /\ Span(f, t).to = t
      BY DEF Span
    <3> HIDE DEF Span
    <3> QED
      BY <1>1, <2>4, <3>1
  <2>10. a <= CloseOf(z)
    BY <2>4, <2>7
  <2> QED
    BY <2>4, <2>6, <2>7, <2>8, <2>9, <2>10 DEF z
<1> QED
  BY <1>2, <1>3

(* Where a node begins and ends follows from its first and last token.     *)
LEMMA TokenOrder ==
    ASSUME Parsed, Over, complaints = <<>>, NEW a \in 1 .. Len(tokens), NEW b \in 1 .. Len(tokens),
           tokens[a].kind # "End", tokens[b].kind # "End"
    PROVE  /\ From(a) \in Nat /\ To(a) \in Nat /\ From(b) \in Nat /\ To(b) \in Nat
           /\ a < b => From(a) < From(b) /\ To(a) < To(b) /\ To(a) <= From(b)
           /\ From(a) = From(b) => a = b
           /\ To(a) = To(b) => a = b
           /\ a <= b => From(a) <= From(b) /\ To(a) <= To(b)
<1>1. /\ From(a) \in Nat /\ To(a) \in Nat /\ From(b) \in Nat /\ To(b) \in Nat
      /\ From(a) < To(a) /\ From(b) < To(b)
      /\ a < b => To(a) <= From(b)
      /\ b < a => To(b) <= From(a)
  BY KeptSpans DEF From, To
<1> QED
  BY <1>1

LEMMA SpanOffsets ==
    ASSUME TextInv, C!Ok, NEW n \in C!Nodes
    PROVE  /\ SpanOf(n).from.offset = From(FirstOf(n)) /\ SpanOf(n).to.offset = To(LastOf(n))
           /\ FirstOf(n) \in 1 .. Len(tokens) /\ LastOf(n) \in 1 .. Len(tokens)
           /\ tokens[FirstOf(n)].kind # "End" /\ tokens[LastOf(n)].kind # "End"
<1>1. Parsed /\ Over /\ complaints = <<>>
  BY CompiledFacts
<1>2. /\ FirstOf(n) \in Kept /\ LastOf(n) \in 1 .. Len(tokens) /\ tokens[LastOf(n)].kind # "End"
      /\ SpanOf(n) = Span(tokens[FirstOf(n)].span.from, tokens[LastOf(n)].span.to)
  BY NodeSpan
<1>3. FirstOf(n) \in 1 .. Len(tokens) /\ tokens[FirstOf(n)].kind # "End"
  BY <1>1, <1>2, KeptEnds
<1> QED
  BY <1>2, <1>3 DEF Span, From, To

LEMMA SameSpan ==
    ASSUME TextInv, C!Ok, NEW m \in C!Nodes, NEW n \in C!Nodes, SpanOf(m) = SpanOf(n)
    PROVE  FirstOf(m) = FirstOf(n) /\ LastOf(m) = LastOf(n)
<1>1. Parsed /\ Over /\ complaints = <<>>
  BY CompiledFacts
<1> DEFINE a == FirstOf(m)  b == FirstOf(n)  c == LastOf(m)  d == LastOf(n)
<1>2. /\ a \in 1 .. Len(tokens) /\ b \in 1 .. Len(tokens) /\ c \in 1 .. Len(tokens) /\ d \in 1 .. Len(tokens)
      /\ tokens[a].kind # "End" /\ tokens[b].kind # "End" /\ tokens[c].kind # "End" /\ tokens[d].kind # "End"
  BY SpanOffsets
<1>3. From(a) = From(b) /\ To(c) = To(d)
  BY SpanOffsets
<1> HIDE DEF a, b, c, d
<1>4. a = b
  BY <1>1, <1>2, <1>3, TokenOrder
<1>5. c = d
  BY <1>1, <1>2, <1>3, TokenOrder
<1> QED
  BY <1>4, <1>5 DEF a, b, c, d

(* Nodes that begin and end in some order do so in the text.               *)
LEMMA OrderedEnds ==
    ASSUME TextInv, C!Ok, NEW m \in C!Nodes, NEW n \in C!Nodes
    PROVE  /\ FirstOf(m) <= FirstOf(n) => From(FirstOf(m)) <= From(FirstOf(n))
           /\ LastOf(m) <= LastOf(n) => To(LastOf(m)) <= To(LastOf(n))
           /\ LastOf(m) < FirstOf(n) => To(LastOf(m)) <= From(FirstOf(n))
<1> DEFINE a == FirstOf(m)  b == FirstOf(n)  c == LastOf(m)  d == LastOf(n)
<1>1. Parsed /\ Over /\ complaints = <<>>
  BY CompiledFacts
<1>2. /\ a \in 1 .. Len(tokens) /\ b \in 1 .. Len(tokens) /\ c \in 1 .. Len(tokens) /\ d \in 1 .. Len(tokens)
      /\ tokens[a].kind # "End" /\ tokens[b].kind # "End" /\ tokens[c].kind # "End" /\ tokens[d].kind # "End"
  BY SpanOffsets
<1> HIDE DEF a, b, c, d
<1>3. a <= b => From(a) <= From(b)
  BY <1>1, <1>2, TokenOrder
<1>4. c <= d => To(c) <= To(d)
  BY <1>1, <1>2, TokenOrder
<1>5. c < b => To(c) <= From(b)
  BY <1>1, <1>2, TokenOrder
<1> QED
  BY <1>3, <1>4, <1>5 DEF a, b, c, d

(* The program does not begin and end with one of its nodes.               *)
LEMMA WholeApart ==
    ASSUME TextInv, C!Ok, Whole \in C!Nodes, NEW n \in C!Nodes, n # Whole
    PROVE  SpanOf(Whole) # SpanOf(n)
<1> SUFFICES ASSUME SpanOf(Whole) = SpanOf(n) PROVE FALSE
  OBVIOUS
<1>1. Parsed /\ Over /\ complaints = <<>>
  BY CompiledFacts
<1>2. n = exprs[1] /\ CloseOf(n) = CloseOf(exprs[Len(exprs)])
  BY SameSpan, NodeSpan DEF FirstOf, LastOf
<1>3. Len(exprs) > 1 /\ Rising(exprs, {k \in Kept : Level[k] = 0})
  BY <1>2, BelowWhole
<1>4. /\ exprs \in Seq({k \in Kept : Level[k] = 0}) /\ Len(exprs) \in Nat
      /\ \A i, j \in 1 .. Len(exprs) : i < j => exprs[i] < exprs[j]
  BY <1>3, LenProperties DEF Rising
<1>5. 1 \in 1 .. Len(exprs) /\ Len(exprs) \in 1 .. Len(exprs) /\ 1 < Len(exprs)
  BY <1>3, <1>4
<1> DEFINE a == exprs[1]
           z == exprs[Len(exprs)]
<1>6. a \in Kept /\ z \in Kept /\ Level[a] = 0 /\ Level[z] = 0 /\ a < z
  BY <1>4, <1>5, ElementOfSeq
<1>7. CloseOf(a) = CloseOf(z)
  BY <1>2
<1> HIDE DEF a, z
<1>8. CloseOf(a) < z
  BY <1>1, <1>6, EndsBefore
<1>9. CloseOf(z) \in z .. Len(tokens) /\ z \in 1 .. Len(tokens) /\ Len(tokens) \in Nat
  BY <1>1, <1>6, KeptEnds
<1> QED
  BY <1>7, <1>8, <1>9

LEMMA SpansDiffer ==
    ASSUME TextInv, C!Ok, NEW m \in C!Nodes, NEW n \in C!Nodes, m # n
    PROVE  SpanOf(m) # SpanOf(n)
<1>1. CASE m # Whole /\ n # Whole
  BY <1>1, SameSpan DEF FirstOf
<1>2. CASE m = Whole \/ n = Whole
  BY <1>2, WholeApart
<1> QED
  BY <1>1, <1>2

(* Operands are numbered upwards, end before the next one begins, and are  *)
(* between the ends of their form.                                         *)
LEMMA BelowInText ==
    ASSUME TextInv, C!Ok, NEW n \in C!Nodes, NEW b, b = C!Below(n)
    PROVE  /\ b \in Seq(C!Nodes) /\ Len(b) \in Nat
           /\ \A i \in 1 .. Len(b) : /\ b[i] \in C!Nodes /\ b[i] \in Kept /\ b[i] # Whole /\ n < b[i]
                                     /\ FirstOf(n) <= b[i] /\ CloseOf(b[i]) <= LastOf(n)
                                     /\ b[i] # n
           /\ \A i, j \in 1 .. Len(b) : i < j => CloseOf(b[i]) < b[j]
<1>1. /\ Parsed /\ Over /\ complaints = <<>> /\ Whole \notin Kept
  BY CompiledFacts
<1>2. b \in Seq(C!Nodes) /\ Len(b) \in Nat /\ \A i \in 1 .. Len(b) : b[i] \in C!Nodes
  BY BelowAreNodes, LenProperties, ElementOfSeq
<1>3. \A k \in Kept : k \in 1 .. Len(tokens) /\ CloseOf(k) \in k .. Len(tokens) /\ Len(tokens) \in Nat
  BY <1>1, KeptEnds
<1>4. ASSUME NEW T, T \subseteq Kept, \A k, l \in T : Level[k] = Level[l], Rising(b, T)
      PROVE  /\ \A i \in 1 .. Len(b) : b[i] \in T /\ b[i] \in Kept /\ b[i] # Whole
             /\ \A i, j \in 1 .. Len(b) : i < j => CloseOf(b[i]) < b[j]
  <2>1. \A i \in 1 .. Len(b) : b[i] \in T
    BY <1>4, ElementOfSeq DEF Rising
  <2>2. ASSUME NEW i \in 1 .. Len(b), NEW j \in 1 .. Len(b), i < j PROVE CloseOf(b[i]) < b[j]
    BY <1>1, <1>4, <2>1, <2>2, EndsBefore DEF Rising
  <2> QED
    BY <1>1, <1>4, <2>1, <2>2
<1>5. ASSUME NEW k \in Kept, Rising(b, Inside(k, Kept, Level))
      PROVE  /\ \A i \in 1 .. Len(b) : /\ b[i] \in Kept /\ b[i] # Whole
                                       /\ k < b[i] /\ CloseOf(b[i]) < CloseOf(k)
             /\ \A i, j \in 1 .. Len(b) : i < j => CloseOf(b[i]) < b[j]
  <2>1. /\ Inside(k, Kept, Level) \subseteq Kept
        /\ \A c, d \in Inside(k, Kept, Level) : Level[c] = Level[d]
    BY <1>1, <1>5, EndsWithin
  <2>2. /\ \A i \in 1 .. Len(b) : b[i] \in Inside(k, Kept, Level) /\ b[i] \in Kept /\ b[i] # Whole
        /\ \A i, j \in 1 .. Len(b) : i < j => CloseOf(b[i]) < b[j]
    BY <1>4, <1>5, <2>1
  <2> QED
    BY <1>1, <1>5, <2>2, EndsWithin
<1>6. CASE n # Whole
  <2>1. n \in Kept /\ Rising(b, Inside(n, Kept, Level)) /\ FirstOf(n) = n /\ LastOf(n) = CloseOf(n)
    BY <1>6, BelowForm DEF FirstOf, LastOf
  <2>2. /\ \A i \in 1 .. Len(b) : /\ b[i] \in Kept /\ b[i] # Whole
                                  /\ n < b[i] /\ CloseOf(b[i]) < CloseOf(n)
        /\ \A i, j \in 1 .. Len(b) : i < j => CloseOf(b[i]) < b[j]
    BY <1>5, <2>1
  <2>3. ASSUME NEW i \in 1 .. Len(b)
        PROVE  FirstOf(n) <= b[i] /\ CloseOf(b[i]) <= LastOf(n) /\ b[i] # n
    BY <1>3, <2>1, <2>2
  <2> QED
    BY <1>2, <2>2, <2>3
<1>7. CASE n = Whole
  <2>1. exprs # <<>> /\ Rising(exprs, {k \in Kept : Level[k] = 0})
    BY <1>7, BelowWhole
  <2>2. /\ exprs \in Seq({k \in Kept : Level[k] = 0}) /\ Len(exprs) \in Nat /\ Len(exprs) # 0
        /\ \A i, j \in 1 .. Len(exprs) : i < j => exprs[i] < exprs[j]
    BY <2>1, EmptySeq, LenProperties DEF Rising
  <2>3. 1 \in 1 .. Len(exprs) /\ Len(exprs) \in 1 .. Len(exprs)
    BY <2>2
  <2> DEFINE a == exprs[1]
             z == exprs[Len(exprs)]
  <2>4. a \in Kept /\ z \in Kept
    BY <2>2, <2>3, ElementOfSeq
  <2>5. FirstOf(n) = a /\ LastOf(n) = CloseOf(z)
    BY <1>7, NodeSpan DEF FirstOf
  <2>6. \A k \in Kept : 0 < k
    BY <1>3
  <2>7. CASE Rising(b, Inside(exprs[1], Kept, Level)) /\ Len(exprs) = 1
    <3>1. a = z /\ Rising(b, Inside(a, Kept, Level))
      BY <2>7
    <3> HIDE DEF a, z
    <3>2. /\ \A i \in 1 .. Len(b) : /\ b[i] \in Kept /\ b[i] # Whole
                                    /\ a < b[i] /\ CloseOf(b[i]) < CloseOf(a)
          /\ \A i, j \in 1 .. Len(b) : i < j => CloseOf(b[i]) < b[j]
      BY <1>5, <2>4, <3>1
    <3>3. ASSUME NEW i \in 1 .. Len(b)
          PROVE  n < b[i] /\ FirstOf(n) <= b[i] /\ CloseOf(b[i]) <= LastOf(n) /\ b[i] # n
      BY <1>3, <1>7, <2>4, <2>5, <2>6, <3>1, <3>2 DEF Whole
    <3> QED
      BY <1>2, <3>2, <3>3
  <2>8. CASE b = exprs
    <3> DEFINE T == {k \in Kept : Level[k] = 0}
    <3>1. /\ \A i \in 1 .. Len(b) : b[i] \in Kept /\ b[i] # Whole
          /\ \A i, j \in 1 .. Len(b) : i < j => CloseOf(b[i]) < b[j]
      <4>1. T \subseteq Kept /\ Rising(b, T) /\ \A k, l \in T : Level[k] = Level[l]
        BY <2>1, <2>8
      <4> HIDE DEF T
      <4> QED
        BY <1>4, <4>1
    <3>2. ASSUME NEW i \in 1 .. Len(b)
          PROVE  n < b[i] /\ FirstOf(n) <= b[i] /\ CloseOf(b[i]) <= LastOf(n) /\ b[i] # n
      <4>1. a = b[1] /\ z = b[Len(b)] /\ 1 \in 1 .. Len(b) /\ Len(b) \in 1 .. Len(b)
        BY <2>3, <2>8
      <4>2. a = b[i] \/ a < b[i]
        BY <1>2, <2>2, <2>8, <4>1
      <4>3. z = b[i] \/ CloseOf(b[i]) < z
        BY <1>2, <3>1, <4>1
      <4> HIDE DEF a, z
      <4>4. /\ CloseOf(z) \in z .. Len(tokens) /\ z \in 1 .. Len(tokens) /\ a \in 1 .. Len(tokens)
            /\ b[i] \in 1 .. Len(tokens) /\ CloseOf(b[i]) \in b[i] .. Len(tokens) /\ Len(tokens) \in Nat
        BY <1>3, <2>4, <3>1
      <4> QED
        BY <1>7, <2>5, <4>2, <4>3, <4>4 DEF Whole
    <3> QED
      BY <1>2, <3>1, <3>2
  <2> QED
    BY <1>7, <2>7, <2>8, BelowWhole
<1> QED
  BY <1>6, <1>7

LEMMA SpansTell == TextInv => SpansTellNodesApart
<1> SUFFICES ASSUME TextInv, C!Ok
             PROVE  /\ \A m, n \in C!Nodes : m # n => SpanOf(m) # SpanOf(n)
                    /\ \A n \in C!Nodes :
                          LET below == C!Below(n)
                          IN  /\ \A i \in 1 .. Len(below) : Enclosed(SpanOf(below[i]), SpanOf(n))
                              /\ \A i \in 1 .. Len(below) - 1 : Before(SpanOf(below[i]), SpanOf(below[i + 1]))
  BY DEF SpansTellNodesApart
<1>1. Parsed /\ Over /\ complaints = <<>>
  BY CompiledFacts
<1>2. \A m, n \in C!Nodes : m # n => SpanOf(m) # SpanOf(n)
  BY SpansDiffer
<1>3. ASSUME NEW n \in C!Nodes
      PROVE  /\ \A i \in 1 .. Len(C!Below(n)) : Enclosed(SpanOf(C!Below(n)[i]), SpanOf(n))
             /\ \A i \in 1 .. Len(C!Below(n)) - 1 :
                    Before(SpanOf(C!Below(n)[i]), SpanOf(C!Below(n)[i + 1]))
  <2> PICK b : b = C!Below(n)
    OBVIOUS
  <2>1. /\ Len(b) \in Nat
        /\ \A i \in 1 .. Len(b) : /\ b[i] \in C!Nodes /\ b[i] \in Kept /\ b[i] # Whole /\ n < b[i]
                                  /\ FirstOf(n) <= b[i] /\ CloseOf(b[i]) <= LastOf(n)
                                  /\ b[i] # n
        /\ \A i, j \in 1 .. Len(b) : i < j => CloseOf(b[i]) < b[j]
    BY BelowInText
  <2>2. ASSUME NEW i \in 1 .. Len(b) PROVE FirstOf(b[i]) = b[i] /\ LastOf(b[i]) = CloseOf(b[i])
    BY <2>1 DEF FirstOf, LastOf
  <2>3. ASSUME NEW i \in 1 .. Len(b) PROVE Enclosed(SpanOf(b[i]), SpanOf(n))
    <3>1. SpanOf(b[i]) # SpanOf(n)
      BY <2>1, SpansDiffer
    <3>2. From(FirstOf(n)) <= From(FirstOf(b[i])) /\ To(LastOf(b[i])) <= To(LastOf(n))
      <4>1. b[i] \in C!Nodes /\ FirstOf(n) <= FirstOf(b[i]) /\ LastOf(b[i]) <= LastOf(n)
        BY <2>1, <2>2
      <4> QED
        BY <1>1, <4>1, OrderedEnds
    <3> QED
      BY <2>1, <3>1, <3>2, SpanOffsets DEF Enclosed
  <2>4. ASSUME NEW i \in 1 .. Len(b) - 1 PROVE Before(SpanOf(b[i]), SpanOf(b[i + 1]))
    <3>1. i \in 1 .. Len(b) /\ i + 1 \in 1 .. Len(b) /\ i < i + 1
      BY <2>1
    <3> PICK j : j = i + 1
      OBVIOUS
    <3>2. CloseOf(b[i]) < b[j] /\ b[i] \in C!Nodes /\ b[j] \in C!Nodes /\ j \in 1 .. Len(b)
      BY <2>1, <3>1
    <3>3. To(LastOf(b[i])) <= From(FirstOf(b[j]))
      <4>1. LastOf(b[i]) < FirstOf(b[j])
        BY <2>2, <3>1, <3>2
      <4> QED
        BY <3>2, <4>1, OrderedEnds
    <3>4. Before(SpanOf(b[i]), SpanOf(b[j]))
      BY <3>2, <3>3, SpanOffsets DEF Before
    <3> QED
      BY <3>4
  <2> QED
    BY <2>3, <2>4
<1> QED
  BY <1>2, <1>3

-----------------------------------------------------------------------------
(***************************************************************************)
(* The nodes in the order of their numbers.                                *)
(***************************************************************************)
ItemsOf(s) == {s[i] : i \in 1 .. Len(s)}

Precedes(s, t) == \A x \in ItemsOf(s), y \in ItemsOf(t) : x < y

IsWalk(f, S, own, below) ==
    f = [n \in S |-> own[n] \o C!FlattenSeq([i \in 1 .. Len(below[n]) |-> f[below[n][i]]])]

(* A walk over a tree whose nodes are numbered downwards from the root     *)
(* exists.                                                                 *)
LEMMA WalkExists ==
    ASSUME NEW N \in Nat, NEW S \in SUBSET (0 .. N), NEW own, NEW below,
           \A n \in S : \A i \in 1 .. Len(below[n]) : below[n][i] \in S /\ n < below[n][i]
    PROVE  \E f : IsWalk(f, S, own, below)
<1> DEFINE Above(m) == {n \in S : N - m < n}
           M == {m \in Nat : \E f : IsWalk(f, Above(m), own, below)}
<1>1. \A n \in S : n \in Int /\ 0 <= n /\ n <= N
  OBVIOUS
<1>0. /\ \A n \in Int : n <= N => ~(N - 0 < n)
      /\ \A n \in Int : 0 <= n => N - (N + 1) < n
      /\ \A m \in Nat : \A n, k \in Int : N - (m + 1) < n /\ n < k => N - m < k
  OBVIOUS
<1>2. 0 \in M
  <2>1. Above(0) = {}
    BY <1>0, <1>1, Zenon
  <2>2. IsWalk(<<>>, {}, own, below)
    BY DEF IsWalk
  <2> QED
    BY <2>1, <2>2
<1>3. ASSUME NEW m \in Nat, m \in M PROVE m + 1 \in M
  <2> DEFINE A == Above(m)
             B == Above(m + 1)
  <2>1. PICK f : IsWalk(f, A, own, below)
    BY <1>3
  <2> DEFINE g == [n \in B |-> IF n \in A THEN f[n]
                               ELSE own[n] \o C!FlattenSeq([i \in 1 .. Len(below[n]) |-> f[below[n][i]]])]
  <2>2. A \subseteq B
    <3>1. \A n \in S : N - m < n => N - (m + 1) < n
      BY <1>1
    <3> QED
      BY <3>1
  <2>3. ASSUME NEW n \in B, NEW i \in 1 .. Len(below[n]) PROVE below[n][i] \in A
    <3>1. n \in S /\ below[n][i] \in S /\ n < below[n][i] /\ N - (m + 1) < n
      OBVIOUS
    <3>2. N - m < below[n][i]
      BY <1>0, <1>1, <3>1, Zenon
    <3> QED
      BY <3>1, <3>2
  <2> HIDE DEF A, B
  <2>4. f = [n \in A |-> own[n] \o C!FlattenSeq([i \in 1 .. Len(below[n]) |-> f[below[n][i]]])]
    BY <2>1 DEF IsWalk
  <2>5. ASSUME NEW n \in B
        PROVE  g[n] = own[n] \o C!FlattenSeq([i \in 1 .. Len(below[n]) |-> g[below[n][i]]])
    <3>1. \A i \in 1 .. Len(below[n]) : g[below[n][i]] = f[below[n][i]]
      BY <2>2, <2>3
    <3> HIDE DEF g
    <3>2. [i \in 1 .. Len(below[n]) |-> g[below[n][i]]] = [i \in 1 .. Len(below[n]) |-> f[below[n][i]]]
      BY <3>1
    <3> DEFINE whole == own[n] \o C!FlattenSeq([i \in 1 .. Len(below[n]) |-> f[below[n][i]]])
    <3>3. n \in A => f[n] = whole
      BY <2>4
    <3>4. g[n] = IF n \in A THEN f[n] ELSE whole
      BY DEF g
    <3>5. g[n] = whole
      BY <3>3, <3>4
    <3> QED
      BY <3>2, <3>5
  <2>6. g = [n \in B |-> g[n]]
    OBVIOUS
  <2> HIDE DEF g
  <2>7. g = [n \in B |-> own[n] \o C!FlattenSeq([i \in 1 .. Len(below[n]) |-> g[below[n][i]]])]
    BY <2>5, <2>6
  <2>8. IsWalk(g, B, own, below)
    BY <2>7 DEF IsWalk
  <2>9. m + 1 \in Nat
    OBVIOUS
  <2> QED
    BY <2>8, <2>9, Zenon DEF B
<1>4. N + 1 \in M
  <2> HIDE DEF M
  <2>1. Nat \subseteq M
    BY <1>2, <1>3, FromZeroOn
  <2> QED
    BY <2>1
<1>5. Above(N + 1) = S
  BY <1>0, <1>1, Zenon
<1> QED
  BY <1>4, <1>5

LEMMA JoinRises ==
    ASSUME NEW T, NEW s, NEW t, Rising(s, T), Rising(t, T), Precedes(s, t)
    PROVE  /\ Rising(s \o t, T)
           /\ \A x : x \in ItemsOf(s \o t) <=> x \in ItemsOf(s) \/ x \in ItemsOf(t)
<1> DEFINE r == s \o t
<1>1. /\ r \in Seq(T) /\ Len(r) = Len(s) + Len(t) /\ Len(s) \in Nat /\ Len(t) \in Nat
      /\ \A i \in 1 .. Len(s) + Len(t) : r[i] = IF i <= Len(s) THEN s[i] ELSE t[i - Len(s)]
      /\ s \in Seq(T) /\ t \in Seq(T)
  BY ConcatProperties, LenProperties DEF Rising
<1> HIDE DEF r
<1>2. \A i \in 1 .. Len(r) : \/ i \in 1 .. Len(s) /\ r[i] = s[i]
                             \/ i - Len(s) \in 1 .. Len(t) /\ r[i] = t[i - Len(s)] /\ i > Len(s)
  BY <1>1
<1>3. \A i \in 1 .. Len(s) : i \in 1 .. Len(r) /\ r[i] = s[i]
  BY <1>1
<1>4. ASSUME NEW i \in 1 .. Len(t) PROVE \E j \in 1 .. Len(r) : r[j] = t[i]
  <2>1. i + Len(s) \in 1 .. Len(r) /\ ~(i + Len(s) <= Len(s)) /\ (i + Len(s)) - Len(s) = i
    BY <1>1
  <2>2. r[i + Len(s)] = t[i]
    BY <1>1, <2>1
  <2> QED
    BY <2>1, <2>2
<1>5. ItemsOf(r) = ItemsOf(s) \cup ItemsOf(t)
  <2>1. ASSUME NEW x \in ItemsOf(r) PROVE x \in ItemsOf(s) \cup ItemsOf(t)
    BY <1>2, <2>1 DEF ItemsOf
  <2>2. ASSUME NEW x \in ItemsOf(s) PROVE x \in ItemsOf(r)
    BY <1>3, <2>2 DEF ItemsOf
  <2>3. ASSUME NEW x \in ItemsOf(t) PROVE x \in ItemsOf(r)
    BY <1>4, <2>3 DEF ItemsOf
  <2> QED
    BY <2>1, <2>2, <2>3
<1>6. ASSUME NEW i \in 1 .. Len(r), NEW j \in 1 .. Len(r), i < j PROVE r[i] < r[j]
  <2>1. CASE i \in 1 .. Len(s) /\ j \in 1 .. Len(s)
    BY <1>3, <1>6, <2>1 DEF Rising
  <2>2. CASE i \in 1 .. Len(s) /\ j \notin 1 .. Len(s)
    <3>1. r[i] = s[i] /\ j - Len(s) \in 1 .. Len(t) /\ r[j] = t[j - Len(s)]
      BY <1>2, <1>3, <2>2
    <3>2. r[i] \in ItemsOf(s) /\ r[j] \in ItemsOf(t)
      BY <2>2, <3>1 DEF ItemsOf
    <3> QED
      BY <3>2 DEF Precedes
  <2>3. CASE i \notin 1 .. Len(s)
    <3>1. /\ i - Len(s) \in 1 .. Len(t) /\ r[i] = t[i - Len(s)] /\ i > Len(s)
      BY <1>2, <2>3
    <3>2. j \notin 1 .. Len(s)
      BY <1>1, <1>6, <3>1
    <3>3. j - Len(s) \in 1 .. Len(t) /\ r[j] = t[j - Len(s)] /\ i - Len(s) < j - Len(s)
      BY <1>1, <1>2, <1>6, <3>2
    <3> QED
      BY <3>1, <3>3 DEF Rising
  <2> QED
    BY <2>1, <2>2, <2>3
<1>7. Rising(r, T)
  BY <1>1, <1>6 DEF Rising
<1> QED
  BY <1>5, <1>7 DEF r

(* FlattenSeq has a value, the one its recursion describes.                *)
LEMMA FlattenRecursion ==
    ASSUME NEW V, NEW ss \in Seq(Seq(V)), ss # <<>>
    PROVE  \E f : /\ f \in [1 .. Len(ss) -> Seq(V)] /\ f[1] = ss[1]
                  /\ \A i \in 1 .. Len(ss) - 1 : f[i + 1] = f[i] \o ss[i + 1]
                  /\ C!FlattenSeq(ss) = f[Len(ss)]
<1> DEFINE n == Len(ss)
           Joined(v) == v = [i \in 1 .. n |-> IF i = 1 THEN ss[i] ELSE v[i - 1] \o ss[i]]
           step == [p \in (1 .. n) \X Seq(V) |-> IF p[1] = 1 THEN ss[1] ELSE p[2] \o ss[p[1]]]
           none == <<>>
<1>1. n \in Nat /\ n # 0 /\ \A i \in 1 .. n : ss[i] \in Seq(V)
  BY EmptySeq, LenProperties, ElementOfSeq
<1>2. C!FlattenSeq(ss) = (CHOOSE v : Joined(v))[n]
  BY <1>1 DEF C!FlattenSeq
<1>3. none \in Seq(V)
  BY EmptySeq
<1> HIDE DEF none
<1>4. step \in [(1 .. n) \X Seq(V) -> Seq(V)]
  <2>1. ASSUME NEW i \in 1 .. n, NEW x \in Seq(V) PROVE (IF i = 1 THEN ss[1] ELSE x \o ss[i]) \in Seq(V)
    <3>1. ss[i] \in Seq(V) /\ x \o ss[i] \in Seq(V)
      BY <1>1, ConcatProperties
    <3> QED
      BY <3>1
  <2> HIDE DEF n
  <2> QED
    BY <2>1
<1>5. \A i \in 1 .. n, x \in Seq(V) : step[<<i, x>>] = IF i = 1 THEN ss[1] ELSE x \o ss[i]
  OBVIOUS
<1> HIDE DEF step, n
<1>6. PICK f : Recursion(f, n, Seq(V), none, step)
  BY <1>1, <1>3, <1>4, RecursionExists
<1> DEFINE g == [i \in 1 .. n |-> f[i]]
<1>7. ASSUME NEW i \in 1 .. n PROVE g[i] \in Seq(V) /\ g[i] = IF i = 1 THEN ss[i] ELSE g[i - 1] \o ss[i]
  <2>1. i - 1 \in 0 .. n /\ i \in 0 .. n /\ f[i - 1] \in Seq(V) /\ f[i] \in Seq(V)
    BY <1>1, <1>6 DEF Recursion
  <2>2. f[i] = IF i = 1 THEN ss[1] ELSE f[i - 1] \o ss[i]
    BY <1>5, <1>6, <2>1 DEF Recursion
  <2>3. i # 1 => i - 1 \in 1 .. n
    BY <1>1
  <2> QED
    BY <2>1, <2>2, <2>3
<1>8. g = [i \in 1 .. n |-> g[i]]
  OBVIOUS
<1> HIDE DEF g
<1>9. Joined(g)
  BY <1>7, <1>8
<1> DEFINE h == CHOOSE v : Joined(v)
<1>10. Joined(h)
  <2> HIDE DEF Joined
  <2> QED
    BY <1>9
<1>11. C!FlattenSeq(ss) = h[n]
  BY <1>2
<1> HIDE DEF h
<1>12. \A i \in 1 .. n : h[i] = IF i = 1 THEN ss[i] ELSE h[i - 1] \o ss[i]
  BY <1>10
<1>13. h = [i \in 1 .. n |-> h[i]]
  BY <1>10, <1>12
<1> HIDE DEF Joined
<1>14. 1 \in 1 .. n /\ n \in 1 .. n
  BY <1>1
<1>15. \A i \in 1 .. n - 1 : i + 1 \in 1 .. n /\ i \in 1 .. n /\ i + 1 # 1 /\ (i + 1) - 1 = i
  BY <1>1
<1>16. h[1] = ss[1] /\ \A i \in 1 .. n - 1 : h[i + 1] = h[i] \o ss[i + 1]
  BY <1>12, <1>14, <1>15
<1>17. \A i \in 1 .. n : h[i] \in Seq(V)
  <2> DEFINE S == {m \in Nat : m \in 1 .. n => h[m] \in Seq(V)}
  <2>1. 0 \in S
    BY <1>1
  <2>2. ASSUME NEW m \in Nat, m \in S PROVE m + 1 \in S
    <3> SUFFICES ASSUME m + 1 \in 1 .. n PROVE h[m + 1] \in Seq(V)
      OBVIOUS
    <3>1. CASE m = 0
      BY <1>1, <1>16, <3>1
    <3>2. CASE m # 0
      <4>1. m \in 1 .. n - 1 /\ m \in 1 .. n
        BY <1>1, <3>2
      <4>2. h[m] \in Seq(V) /\ ss[m + 1] \in Seq(V) /\ h[m + 1] = h[m] \o ss[m + 1]
        BY <1>1, <1>16, <2>2, <4>1
      <4> QED
        BY <4>2, ConcatProperties
    <3> QED
      BY <3>1, <3>2
  <2>3. Nat \subseteq S
    <3> HIDE DEF S
    <3> QED
      BY <2>1, <2>2, FromZeroOn
  <2> QED
    BY <1>1, <2>3
<1>18. h \in [1 .. n -> Seq(V)]
  BY <1>13, <1>17
<1> QED
  BY <1>11, <1>16, <1>18 DEF n

(* Rising sequences one after the other rise, and nothing of them is lost. *)
LEMMA FlattenRises ==
    ASSUME NEW V, NEW ss \in Seq(Seq(V)),
           \A i \in 1 .. Len(ss) : Rising(ss[i], V),
           \A i, j \in 1 .. Len(ss) : i < j => Precedes(ss[i], ss[j])
    PROVE  /\ Rising(C!FlattenSeq(ss), V)
           /\ \A x : x \in ItemsOf(C!FlattenSeq(ss)) <=> \E i \in 1 .. Len(ss) : x \in ItemsOf(ss[i])
<1> DEFINE n == Len(ss)
<1>1. n \in Nat
  BY LenProperties
<1>4. ASSUME NEW s, NEW t, Rising(s, V), Rising(t, V), Precedes(s, t)
      PROVE  /\ Rising(s \o t, V)
             /\ \A x : x \in ItemsOf(s \o t) <=> x \in ItemsOf(s) \/ x \in ItemsOf(t)
  BY <1>4, JoinRises
<1>2. CASE ss = <<>>
  <2>1. n = 0 /\ C!FlattenSeq(ss) = <<>>
    BY <1>2, EmptySeq DEF C!FlattenSeq
  <2>2. ItemsOf(<<>>) = {}
    BY EmptySeq DEF ItemsOf
  <2> QED
    BY <2>1, <2>2, RisingNone
<1>3. CASE ss # <<>>
  <2>1. PICK f : /\ f \in [1 .. n -> Seq(V)] /\ f[1] = ss[1]
                 /\ \A i \in 1 .. n - 1 : f[i + 1] = f[i] \o ss[i + 1]
                 /\ C!FlattenSeq(ss) = f[n]
    BY <1>3, FlattenRecursion
  <2>2. n # 0
    BY <1>3, EmptySeq
  <2>3. /\ \A i \in 1 .. n : Rising(ss[i], V)
        /\ \A i, j \in 1 .. n : i < j => Precedes(ss[i], ss[j])
    OBVIOUS
  <2> HIDE DEF n
  <2> DEFINE Good(m) == /\ Rising(f[m], V)
                        /\ \A x : x \in ItemsOf(f[m]) <=> \E i \in 1 .. m : x \in ItemsOf(ss[i])
             S == {m \in Nat : m \in 1 .. n => Good(m)}
  <2>4. 0 \in S
    OBVIOUS
  <2>5. ASSUME NEW m \in Nat, m \in S PROVE m + 1 \in S
    <3> HIDE DEF Good
    <3> SUFFICES ASSUME m + 1 \in 1 .. n PROVE Good(m + 1)
      OBVIOUS
    <3> USE DEF Good
    <3>1. CASE m = 0
      <4>1. 1 \in 1 .. n /\ m + 1 = 1 /\ \A i \in 1 .. m + 1 : i = 1
        BY <1>1, <2>2, <3>1
      <4> QED
        BY <2>1, <2>3, <4>1
    <3>2. CASE m # 0
      <4>1. /\ m \in 1 .. n - 1 /\ m \in 1 .. n
            /\ \A i \in 1 .. m : i < m + 1 /\ i \in 1 .. n /\ i \in 1 .. m + 1
            /\ \A i \in 1 .. m + 1 : i \in 1 .. m \/ i = m + 1
            /\ m + 1 \in 1 .. m + 1
        BY <1>1, <3>2
      <4>2. Good(m) /\ f[m + 1] = f[m] \o ss[m + 1] /\ Rising(ss[m + 1], V)
        BY <2>1, <2>3, <2>5, <4>1
      <4>3. Precedes(f[m], ss[m + 1])
        BY <2>3, <4>1, <4>2 DEF Precedes
      <4>4. /\ Rising(f[m + 1], V)
            /\ \A x : x \in ItemsOf(f[m + 1]) <=> x \in ItemsOf(f[m]) \/ x \in ItemsOf(ss[m + 1])
        BY <1>4, <4>2, <4>3
      <4>5. \A x : x \in ItemsOf(f[m + 1]) <=> \E i \in 1 .. m + 1 : x \in ItemsOf(ss[i])
        BY <4>1, <4>2, <4>4
      <4> QED
        BY <4>4, <4>5
    <3> QED
      BY <3>1, <3>2
  <2>6. Nat \subseteq S
    <3> HIDE DEF S
    <3> QED
      BY <2>4, <2>5, FromZeroOn
  <2>7. Good(n)
    <3> HIDE DEF Good
    <3>1. n \in 1 .. n
      BY <1>1, <2>2
    <3> QED
      BY <1>1, <2>6, <3>1
  <2> QED
    BY <2>1, <2>7 DEF n
<1> QED
  BY <1>2, <1>3

Own(n) == IF C!Highlightable(n) THEN <<n>> ELSE <<>>

LEMMA NodeNumbers ==
    ASSUME TextInv, C!Ok
    PROVE  /\ Len(tokens) \in Nat /\ C!Nodes \in SUBSET (0 .. Len(tokens))
           /\ program.root \in C!Nodes
           /\ \A n \in C!Nodes : LastOf(n) \in 1 .. Len(tokens) /\ n \in Int
<1>1. /\ Parsed /\ Over /\ complaints = <<>> /\ C!Nodes \subseteq Kept \cup {Whole}
      /\ program.root \in C!Nodes
  BY CompiledFacts
<1>2. Len(tokens) \in Nat
  BY <1>1, FinalTree, TokenKinds
<1>3. \A k \in Kept : k \in 0 .. Len(tokens)
  BY DEF Kept
<1>4. Whole \in 0 .. Len(tokens)
  BY <1>2 DEF Whole
<1>5. \A n \in C!Nodes : LastOf(n) \in 1 .. Len(tokens)
  BY NodeSpan
<1>6. C!Nodes \subseteq 0 .. Len(tokens) /\ 0 .. Len(tokens) \subseteq Int
  BY <1>1, <1>3, <1>4
<1> QED
  BY <1>1, <1>2, <1>5, <1>6

LEMMA PreOrderWalks ==
    ASSUME TextInv, C!Ok, NEW n \in C!Nodes
    PROVE  C!PreOrder[n] =
               Own(n) \o C!FlattenSeq([i \in 1 .. Len(C!Below(n)) |-> C!PreOrder[C!Below(n)[i]]])
<1> DEFINE own == [m \in C!Nodes |-> Own(m)]
           below == [m \in C!Nodes |-> C!Below(m)]
           W(f) == f = [m \in C!Nodes |->
                           Own(m) \o C!FlattenSeq([i \in 1 .. Len(C!Below(m)) |-> f[C!Below(m)[i]]])]
<1>1. \A m \in C!Nodes : \A i \in 1 .. Len(below[m]) : below[m][i] \in C!Nodes /\ m < below[m][i]
  BY BelowInText
<1>2. \E f : IsWalk(f, C!Nodes, own, below)
  <2> HIDE DEF own, below
  <2> QED
    BY <1>1, NodeNumbers, WalkExists
<1>3. \A f : IsWalk(f, C!Nodes, own, below) => W(f)
  BY DEF IsWalk
<1>4. C!PreOrder = CHOOSE f : W(f)
  BY DEF C!PreOrder, Own
<1>5. W(C!PreOrder)
  <2> HIDE DEF W, own, below
  <2> QED
    BY <1>2, <1>3, <1>4
<1> PICK f : f = C!PreOrder
  OBVIOUS
<1>6. f = [m \in C!Nodes |-> Own(m) \o C!FlattenSeq([i \in 1 .. Len(C!Below(m)) |-> f[C!Below(m)[i]]])]
  BY <1>5
<1>7. f[n] = Own(n) \o C!FlattenSeq([i \in 1 .. Len(C!Below(n)) |-> f[C!Below(n)[i]]])
  BY <1>6
<1> QED
  BY <1>7

(* The numbered nodes of a tree rise, and are those of its branches.       *)
Numbered(n, s) ==
    /\ Rising(s, C!Nodes)
    /\ \A x \in ItemsOf(s) : /\ x \in C!Nodes /\ C!Highlightable(x)
                             /\ n <= x /\ x <= LastOf(n) /\ (x = n \/ FirstOf(n) <= x)
    /\ C!Highlightable(n) => n \in ItemsOf(s)

LEMMA OwnNumbered ==
    ASSUME TextInv, C!Ok, NEW n \in C!Nodes, NEW b, b = C!Below(n),
           NEW ss, ss = [i \in 1 .. Len(b) |-> C!PreOrder[b[i]]],
           \A i \in 1 .. Len(b) : Numbered(b[i], ss[i])
    PROVE  /\ Numbered(n, Own(n) \o C!FlattenSeq(ss))
           /\ \A i \in 1 .. Len(b) : ItemsOf(ss[i]) \subseteq ItemsOf(Own(n) \o C!FlattenSeq(ss))
<1> DEFINE r == C!FlattenSeq(ss)
           o == Own(n)
<1>1. /\ Len(b) \in Nat
      /\ \A i \in 1 .. Len(b) : /\ b[i] \in C!Nodes /\ b[i] \in Kept /\ b[i] # Whole /\ n < b[i]
                                /\ FirstOf(n) <= b[i] /\ CloseOf(b[i]) <= LastOf(n)
      /\ \A i, j \in 1 .. Len(b) : i < j => CloseOf(b[i]) < b[j]
  BY BelowInText
<1>2. /\ Len(tokens) \in Nat /\ C!Nodes \in SUBSET (0 .. Len(tokens))
      /\ \A m \in C!Nodes : LastOf(m) \in 1 .. Len(tokens) /\ m \in Int
      /\ \A k \in 1 .. Len(tokens) : k \in Int
  BY NodeNumbers
<1>3. \A i \in 1 .. Len(b) : LastOf(b[i]) = CloseOf(b[i])
  BY <1>1 DEF LastOf
<1>4. FirstOf(n) \in 1 .. Len(tokens) /\ FirstOf(n) <= LastOf(n)
  BY SpanOffsets, NodeSpan
<1>5. /\ Len(ss) = Len(b) /\ ss \in Seq(Seq(C!Nodes))
      /\ \A i \in 1 .. Len(ss) : Rising(ss[i], C!Nodes)
  <2>1. \A i \in 1 .. Len(b) : ss[i] \in Seq(C!Nodes) /\ Rising(ss[i], C!Nodes)
    BY DEF Numbered, Rising
  <2> QED
    BY <1>1, <2>1
<1>6. ASSUME NEW i \in 1 .. Len(b), NEW x \in ItemsOf(ss[i])
      PROVE  /\ x \in C!Nodes /\ C!Highlightable(x) /\ x \in Int /\ n < x
             /\ b[i] <= x /\ x <= CloseOf(b[i]) /\ x <= LastOf(n) /\ FirstOf(n) <= x
             /\ b[i] \in Int /\ CloseOf(b[i]) \in Int
  <2>1. x \in C!Nodes /\ C!Highlightable(x) /\ b[i] <= x /\ x <= CloseOf(b[i])
    BY <1>3, <1>6 DEF Numbered
  <2>2. /\ n < b[i] /\ CloseOf(b[i]) <= LastOf(n) /\ FirstOf(n) <= b[i]
        /\ b[i] \in C!Nodes /\ CloseOf(b[i]) \in 1 .. Len(tokens) /\ LastOf(n) \in 1 .. Len(tokens)
    BY <1>1, <1>2, <1>3
  <2>3. x \in Int /\ n \in Int /\ b[i] \in Int /\ CloseOf(b[i]) \in Int /\ LastOf(n) \in Int /\ FirstOf(n) \in Int
    BY <1>2, <1>4, <2>1, <2>2, Zenon
  <2> QED
    BY <2>1, <2>2, <2>3
<1>7. ASSUME NEW i \in 1 .. Len(ss), NEW j \in 1 .. Len(ss), i < j PROVE Precedes(ss[i], ss[j])
  <2>1. CloseOf(b[i]) < b[j]
    BY <1>1, <1>5, <1>7
  <2>2. ASSUME NEW x \in ItemsOf(ss[i]), NEW y \in ItemsOf(ss[j]) PROVE x < y
    <3>1. i \in 1 .. Len(b) /\ j \in 1 .. Len(b)
      BY <1>5
    <3>2. x <= CloseOf(b[i]) /\ b[j] <= y /\ x \in Int /\ y \in Int /\ b[j] \in Int /\ CloseOf(b[i]) \in Int
      BY <1>6, <3>1
    <3> PICK u, v : u = CloseOf(b[i]) /\ v = b[j]
      OBVIOUS
    <3> QED
      BY <2>1, <3>2
  <2> QED
    BY <2>2 DEF Precedes
<1>8. /\ Rising(r, C!Nodes)
      /\ \A x : x \in ItemsOf(r) <=> \E i \in 1 .. Len(ss) : x \in ItemsOf(ss[i])
  BY <1>5, <1>7, FlattenRises
<1>9. /\ Rising(o, C!Nodes)
      /\ \A x : x \in ItemsOf(o) <=> C!Highlightable(n) /\ x = n
  <2>1. CASE C!Highlightable(n)
    <3>1. o = <<n>>
      BY <2>1 DEF Own
    <3> QED
      BY <2>1, <3>1 DEF Rising, ItemsOf
  <2>2. CASE ~C!Highlightable(n)
    <3>1. o = <<>>
      BY <2>2 DEF Own
    <3>2. \A x : x \notin ItemsOf(<<>>)
      BY EmptySeq DEF ItemsOf
    <3> QED
      BY <2>2, <3>1, <3>2, RisingNone
  <2> QED
    BY <2>1, <2>2
<1> HIDE DEF r, o
<1>10. Precedes(o, r)
  BY <1>5, <1>6, <1>8, <1>9 DEF Precedes
<1>11. /\ Rising(o \o r, C!Nodes)
       /\ \A x : x \in ItemsOf(o \o r) <=> x \in ItemsOf(o) \/ x \in ItemsOf(r)
  BY <1>8, <1>9, <1>10, JoinRises
<1>12. ASSUME NEW x \in ItemsOf(o \o r)
       PROVE  /\ x \in C!Nodes /\ C!Highlightable(x)
              /\ n <= x /\ x <= LastOf(n) /\ (x = n \/ FirstOf(n) <= x)
  <2>1. CASE x \in ItemsOf(o)
    <3>1. x = n /\ C!Highlightable(n)
      BY <1>9, <2>1
    <3>2. n <= LastOf(n)
      <4>1. n = Whole \/ n = FirstOf(n)
        BY DEF FirstOf
      <4>2. 0 <= LastOf(n)
        BY <1>2
      <4> QED
        BY <1>4, <4>1, <4>2 DEF Whole
    <3> QED
      BY <1>2, <3>1, <3>2
  <2>2. CASE x \in ItemsOf(r)
    <3>1. PICK i \in 1 .. Len(b) : x \in ItemsOf(ss[i])
      BY <1>5, <1>8, <2>2
    <3> QED
      BY <1>2, <1>6, <3>1
  <2> QED
    BY <1>11, <2>1, <2>2
<1>13. Numbered(n, o \o r)
  BY <1>9, <1>11, <1>12 DEF Numbered
<1>14. \A i \in 1 .. Len(b) : ItemsOf(ss[i]) \subseteq ItemsOf(o \o r)
  BY <1>5, <1>8, <1>11
<1> QED
  BY <1>13, <1>14 DEF r, o

LEMMA AllNumbered ==
    ASSUME TextInv, C!Ok
    PROVE  \A n \in C!Nodes :
              /\ Numbered(n, C!PreOrder[n])
              /\ \A i \in 1 .. Len(C!Below(n)) :
                    ItemsOf(C!PreOrder[C!Below(n)[i]]) \subseteq ItemsOf(C!PreOrder[n])
<1> DEFINE N == Len(tokens)
           Good(n) == /\ Numbered(n, C!PreOrder[n])
                      /\ \A i \in 1 .. Len(C!Below(n)) :
                            ItemsOf(C!PreOrder[C!Below(n)[i]]) \subseteq ItemsOf(C!PreOrder[n])
           M == {m \in Nat : \A n \in C!Nodes : N - m < n => Good(n)}
<1>1. N \in Nat /\ \A n \in C!Nodes : n \in Int /\ 0 <= n /\ n <= N
  BY NodeNumbers
<1> HIDE DEF N
<1>2. /\ \A n \in Int : n <= N => ~(N - 0 < n)
      /\ \A n \in Int : 0 <= n => N - (N + 1) < n
      /\ \A m \in Nat : \A n, k \in Int : N - (m + 1) < n /\ n < k => N - m < k
  BY <1>1
<1>3. 0 \in M
  BY <1>1, <1>2, Zenon
<1>4. ASSUME NEW m \in Nat, m \in M PROVE m + 1 \in M
  <2>1. ASSUME NEW n \in C!Nodes, N - (m + 1) < n PROVE Good(n)
    <3> PICK b : b = C!Below(n)
      OBVIOUS
    <3> PICK ss : ss = [i \in 1 .. Len(b) |-> C!PreOrder[b[i]]]
      OBVIOUS
    <3>1. \A i \in 1 .. Len(b) : b[i] \in C!Nodes /\ n < b[i]
      BY BelowInText
    <3>2. \A i \in 1 .. Len(b) : Numbered(b[i], C!PreOrder[b[i]])
      BY <1>1, <1>2, <1>4, <2>1, <3>1, Zenon
    <3>3. \A i \in 1 .. Len(b) : Numbered(b[i], ss[i])
      BY <3>2
    <3>4. C!PreOrder[n] = Own(n) \o C!FlattenSeq(ss)
      BY PreOrderWalks
    <3>5. /\ Numbered(n, Own(n) \o C!FlattenSeq(ss))
          /\ \A i \in 1 .. Len(b) : ItemsOf(ss[i]) \subseteq ItemsOf(Own(n) \o C!FlattenSeq(ss))
      BY <3>3, OwnNumbered
    <3>6. Numbered(n, C!PreOrder[n]) /\ \A i \in 1 .. Len(b) : ItemsOf(ss[i]) \subseteq ItemsOf(C!PreOrder[n])
      BY <3>4, <3>5
    <3>7. \A i \in 1 .. Len(b) : ItemsOf(C!PreOrder[b[i]]) \subseteq ItemsOf(C!PreOrder[n])
      BY <3>6
    <3> QED
      BY <3>6, <3>7
  <2>2. m + 1 \in Nat
    OBVIOUS
  <2> HIDE DEF Good
  <2> QED
    BY <2>1, <2>2, Zenon
<1> HIDE DEF Good
<1>5. N + 1 \in M
  <2> HIDE DEF M
  <2>1. Nat \subseteq M
    BY <1>3, <1>4, FromZeroOn
  <2> QED
    BY <1>1, <2>1
<1>6. \A n \in C!Nodes : Good(n)
  BY <1>1, <1>2, <1>5, Zenon
<1> QED
  BY <1>6 DEF Good

(* Every node that is highlighted has a number.                            *)
LEMMA AllReached ==
    ASSUME TextInv, C!Ok
    PROVE  \A n \in C!Nodes : ItemsOf(C!PreOrder[n]) \subseteq ItemsOf(C!PreOrder[program.root])
<1> DEFINE Good(n) == ItemsOf(C!PreOrder[n]) \subseteq ItemsOf(C!PreOrder[program.root])
           M == {m \in Nat : \A n \in C!Nodes : n < m => Good(n)}
<1>1. \A n \in C!Nodes : n \in Nat
  BY NodeNumbers
<1>2. 0 \in M
  <2>1. \A n \in Nat : ~(n < 0)
    OBVIOUS
  <2> QED
    BY <1>1, <2>1, Zenon
<1>3. ASSUME NEW m \in Nat, m \in M PROVE m + 1 \in M
  <2>1. ASSUME NEW n \in C!Nodes, n < m + 1 PROVE Good(n)
    <3>1. CASE n = program.root
      BY <3>1
    <3>2. CASE n # program.root
      <4>1. PICK p \in C!Nodes : \E k \in 1 .. Len(C!Below(p)) : C!Below(p)[k] = n
        BY <3>2, ParentOf
      <4>2. PICK k \in 1 .. Len(C!Below(p)) : C!Below(p)[k] = n
        BY <4>1
      <4>3. p < n
        BY <4>2, BelowInText
      <4>4. p < m
        BY <1>1, <2>1, <4>3
      <4>5. Good(p)
        BY <1>3, <4>4
      <4>6. ItemsOf(C!PreOrder[n]) \subseteq ItemsOf(C!PreOrder[p])
        BY <4>2, AllNumbered
      <4> QED
        BY <4>5, <4>6
    <3> QED
      BY <3>1, <3>2
  <2>2. m + 1 \in Nat
    OBVIOUS
  <2> HIDE DEF Good
  <2> QED
    BY <2>1, <2>2, Zenon
<1> HIDE DEF Good
<1>4. Nat \subseteq M
  <2> HIDE DEF M
  <2> QED
    BY <1>2, <1>3, FromZeroOn
<1>5. ASSUME NEW n \in C!Nodes PROVE Good(n)
  <2>1. n + 1 \in Nat /\ n < n + 1
    BY <1>1
  <2>2. n + 1 \in M
    <3> HIDE DEF M
    <3> QED
      BY <1>4, <2>1
  <2> QED
    BY <2>1, <2>2
<1> QED
  BY <1>5 DEF Good

(* Of two nodes, the one that begins first has the smaller number.         *)
LEMMA BeginsFirst ==
    ASSUME TextInv, C!Ok, NEW m \in C!Nodes, NEW n \in C!Nodes, C!Highlightable(m),
           SpanOf(m).from.offset < SpanOf(n).from.offset
    PROVE  m < n
<1>1. Parsed /\ Over /\ complaints = <<>> /\ Whole \notin Kept /\ C!Nodes \subseteq Kept \cup {Whole}
  BY CompiledFacts
<1>2. m \in Nat /\ n \in Nat
  BY NodeNumbers
<1>3. FirstOf(m) < FirstOf(n) /\ FirstOf(m) \in Nat /\ FirstOf(n) \in Nat
  <2>1. /\ From(FirstOf(m)) < From(FirstOf(n))
        /\ FirstOf(m) \in 1 .. Len(tokens) /\ tokens[FirstOf(m)].kind # "End"
        /\ FirstOf(n) \in 1 .. Len(tokens) /\ tokens[FirstOf(n)].kind # "End"
    BY SpanOffsets
  <2> PICK a, z : a = FirstOf(m) /\ z = FirstOf(n)
    OBVIOUS
  <2>2. /\ From(a) \in Nat /\ From(z) \in Nat
        /\ z <= a => From(z) <= From(a)
    BY <1>1, <2>1, TokenOrder
  <2> QED
    BY <2>1, <2>2
<1>4. CASE m # Whole /\ n # Whole
  BY <1>3, <1>4 DEF FirstOf
<1>5. CASE m = Whole
  <2>1. n # Whole
    BY <1>3, <1>5
  <2>2. n \in Kept
    BY <1>1, <2>1
  <2>3. 0 < n
    BY <1>1, <2>2, KeptEnds
  <2> QED
    BY <1>5, <2>3 DEF Whole
<1>6. CASE n = Whole /\ m # Whole
  <2>1. program.root = Whole
    BY <1>6, BelowWhole
  <2>2. m \in ItemsOf(C!PreOrder[m])
    BY AllNumbered DEF Numbered
  <2>3. m \in ItemsOf(C!PreOrder[n])
    BY <1>6, <2>1, <2>2, AllReached
  <2>4. m = n \/ FirstOf(n) <= m
    BY <2>3, AllNumbered DEF Numbered
  <2>5. FirstOf(m) = m
    BY <1>6 DEF FirstOf
  <2> QED
    BY <1>3, <1>6, <2>4, <2>5
<1> QED
  BY <1>4, <1>5, <1>6

LEMMA IdsInOrder == TextInv => IdsInTextOrder
<1> SUFFICES ASSUME TextInv, C!Ok, NEW m \in C!Nodes, NEW n \in C!Nodes,
                    C!Highlightable(m), C!Highlightable(n),
                    SpanOf(m).from.offset < SpanOf(n).from.offset
             PROVE  C!NodeId(m) < C!NodeId(n)
  BY DEF IdsInTextOrder
<1> PICK s : s = C!PreOrder[C!root]
  OBVIOUS
<1>1. program.root \in C!Nodes /\ C!root = program.root /\ m \in Nat /\ n \in Nat /\ m < n
  BY NodeNumbers, BeginsFirst DEF C!root
<1>2. Rising(s, C!Nodes) /\ m \in ItemsOf(s) /\ n \in ItemsOf(s)
  BY <1>1, AllNumbered, AllReached DEF Numbered
<1>3. Len(s) \in Nat
  BY <1>2, LenProperties DEF Rising
<1> DEFINE a == CHOOSE i \in 1 .. Len(s) : s[i] = m
           z == CHOOSE i \in 1 .. Len(s) : s[i] = n
<1>4. a \in 1 .. Len(s) /\ s[a] = m
  BY <1>2 DEF ItemsOf
<1>5. z \in 1 .. Len(s) /\ s[z] = n
  BY <1>2 DEF ItemsOf
<1>6. C!NodeId(m) = a - 1 /\ C!NodeId(n) = z - 1
  BY DEF C!NodeId
<1> HIDE DEF a, z
<1>7. a < z
  <2> SUFFICES ASSUME ~(a < z) PROVE FALSE
    OBVIOUS
  <2>1. a = z \/ z < a
    BY <1>3, <1>4, <1>5
  <2>2. z < a => n < m
    BY <1>2, <1>4, <1>5 DEF Rising
  <2> QED
    BY <1>1, <1>4, <1>5, <2>1, <2>2
<1> QED
  BY <1>3, <1>4, <1>5, <1>6, <1>7

-----------------------------------------------------------------------------
(***************************************************************************)
(* The theorems.                                                           *)
(***************************************************************************)
(* At every point of the loops of lex() and of the recursion of parse()    *)
(* what has been read is in tokens, comments and complaints, and what has  *)
(* been parsed is what the parentheses so far call for; compile() is given *)
(* exactly that, and works on it as CompilerProofs says.                   *)
THEOREM TextInductive == TextSpec => []TextInv
<1>1. TextInit => TextInv
  BY TextBegins
<1>2. TextInv /\ [TextNext]_textVars => TextInv'
  BY TextStep
<1> QED
  BY <1>1, <1>2, PTL DEF TextSpec

(* Whatever the text: no character is lost or counted twice, every token   *)
(* stands where its line and column say, and every number is the one that  *)
(* was written, or is refused.                                             *)
THEOREM TokensAreExact == TextSpec => []TokensExact
<1>1. TextInv => TokensExact
  BY TokensRead DEF TextInv, TokensExact
<1> QED
  BY <1>1, TextInductive, PTL

(* Whatever the text: the tree is the one its parentheses describe, and    *)
(* each fault is reported once, at its place.                              *)
THEOREM TreeIsExact == TextSpec => []TreeExact
<1>1. TextInv => TreeExact
  BY TreeRead, FaultsRead DEF TextInv, TreeExact
<1> QED
  BY <1>1, TextInductive, PTL

(* Whatever the text: what parse() returns is what compile() relies on.    *)
THEOREM SourcesAreLegal == TextSpec => []SourceIsLegal
<1>1. TextInv => SourceIsLegal
  BY SameSourceOK DEF TextInv, SourceIsLegal, CompileInv, CP!IInv, CP!TypeOK
<1> QED
  BY <1>1, TextInductive, PTL

(* Whatever the text: a client that knows nodes by their spans mixes up no *)
(* two of them, operands lie inside their form and apart, and the ids of   *)
(* the nodes count them in the order of the text.                          *)
THEOREM NodesAreFound == TextSpec => []NodesFollowText
<1>1. TextInv => NodesFollowText
  BY SpansTell, IdsInOrder DEF NodesFollowText
<1> QED
  BY <1>1, TextInductive, PTL

(* Whatever the text: a tree that compile() makes of it without an error   *)
(* has the operands and names execute() takes for granted, and all that    *)
(* was written; without a tree there is an error.                          *)
THEOREM TextsCompile == TextSpec => [](C!OutputWellFormed /\ C!NothingLost)
<1> DEFINE Good == C!OutputWellFormed /\ C!NothingLost
<1>1. TextInv => Good
  <2> SUFFICES ASSUME TextInv PROVE Good
    OBVIOUS
  <2>1. CASE compiling = "parsing"
    BY <2>1 DEF C!OutputWellFormed, C!NothingLost, C!Ok
  <2>2. CASE compiling # "parsing"
    <3>1. CompileInv
      BY <2>2 DEF TextInv
    <3>2. CP!OutputWellFormed
      BY <3>1, CompilerFits, CP!OkWellFormed DEF CompileInv
    <3>3. C!OutputWellFormed
      <4>1. C!NodeKinds = CP!NodeKinds /\ C!Colors = CP!Colors /\ \A node : C!ArityOK(node) <=> CP!ArityOK(node)
        BY DEF CP!NodeKinds, C!NodeKinds, CP!Commands, C!Commands, CP!Moves, C!Moves, CP!Turns, C!Turns,
               CP!Sensors, C!Sensors, CP!Literals, C!Literals, CP!Operators, C!Operators,
               CP!Control, C!Control, CP!Colors, C!Colors, CP!ArityOK, C!ArityOK,
               CP!OneOperand, C!OneOperand, CP!Childless, C!Childless
      <4>2. CP!WellFormed(program) => C!WellFormed(program)
        BY <4>1 DEF CP!WellFormed, C!WellFormed
      <4> QED
        BY <3>2, <4>2, SameOk DEF C!OutputWellFormed, CP!OutputWellFormed
    <3>4. CP!NothingLost
      BY <3>1 DEF CompileInv, CP!AllThere, CP!NothingLost, CP!NodesGather, CP!Ok
    <3>5. C!NothingLost
      <4>1. \A e : C!Operands(e) = CP!Operands(e)
        BY DEF C!Operands, CP!Operands, C!Tops, CP!Tops, C!SingleDo, CP!SingleDo, C!IsForm, CP!IsForm,
               C!Op, CP!Op, C!List, CP!List, C!Symbol, CP!Symbol, C!IsList, CP!IsList, C!IsSymbol, CP!IsSymbol
      <4>2. /\ \A n : C!Below(n) = CP!Below(n) /\ (C!IsList(n) <=> CP!IsList(n))
            /\ C!Nodes = CP!Nodes /\ (C!Rooted <=> CP!Rooted)
        BY DEF C!Below, CP!Below, C!Ast, CP!Ast, C!IsList, CP!IsList, C!Nodes, CP!Nodes, C!Rooted, CP!Rooted
      <4> QED
        BY <3>4, <4>1, <4>2, SameOk DEF C!NothingLost, CP!NothingLost
    <3> QED
      BY <3>3, <3>5
  <2> QED
    BY <2>1, <2>2
<1> HIDE DEF Good
<1>2. TextSpec => []Good
  BY <1>1, TextInductive, PTL
<1> QED
  BY <1>2 DEF Good
=============================================================================
