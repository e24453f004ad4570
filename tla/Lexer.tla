------------------------------- MODULE Lexer -------------------------------
(***************************************************************************)
(* lex() of src/lexer.cpp, one iteration of one of its loops per step: a   *)
(* program text becomes tokens and complaints, each with its place.        *)
(***************************************************************************)
EXTENDS Integers, SequencesExt

CONSTANTS
    Texts,     \* the program texts, sequences of characters
    Letters,   \* the letters and other characters of names that occur in them
    MaxInt     \* largest integer literal (2^63 - 1 in the code)

VARIABLES
    text,        \* the program text
    at,          \* the place lex() has read up to
    mode,        \* which loop lex() is in, see Modes
    begun,       \* the place where the current word began
    word,        \* its characters
    tokens,      \* result.tokens
    complaints   \* the spans of result.diagnostics

lexerVars == <<text, at, mode, begun, word, tokens, complaints>>

Modes == {"between", "comment", "word", "lexed"}

Blanks == {" ", "tab", "cr", "nl"}

DigitChars == <<"0", "1", "2", "3", "4", "5", "6", "7", "8", "9">>

Digits == ToSet(DigitChars)

SymbolChars == Letters \cup Digits \cup {"_", "-", "?", "!", "<", ">", "=", "+", "*", "/", "."}

ASSUME LexerAssumption ==
    /\ MaxInt \in Nat
    /\ Letters \cap (Blanks \cup {"(", ")", ";"}) = {}
    /\ \A t \in Texts : Len(t) \in Nat /\ t = [i \in 1 .. Len(t) |-> t[i]]

-----------------------------------------------------------------------------
Place(offset, line, column) == [offset |-> offset, line |-> line, column |-> column]

Start == Place(0, 1, 1)

Span(from, to) == [from |-> from, to |-> to]

AtEnd == at.offset = Len(text)

char == text[at.offset + 1]

Reads(chars) == ~AtEnd /\ char \in chars

(* Mutant: a new line begins where the old one ended.                      *)
AdvancedKeepsColumn ==
    IF char = "nl" THEN Place(at.offset + 1, at.line + 1, at.column)
                   ELSE Place(at.offset + 1, at.line, at.column + 1)

Advanced ==
    IF char = "nl" THEN Place(at.offset + 1, at.line + 1, 1)
                   ELSE Place(at.offset + 1, at.line, at.column + 1)

Digit(c) == (CHOOSE i \in 1 .. 10 : DigitChars[i] = c) - 1

Unsigned(w) == IF w[1] = "-" THEN Tail(w) ELSE w

IsInteger(w) == w # <<>> /\ Unsigned(w) # <<>> /\ ToSet(Unsigned(w)) \subseteq Digits

TooLarge == -1

(* Mutant: the digit about to be added is forgotten in the bound.          *)
MagnitudeLoose(digits) ==
    LET v[i \in 0 .. Len(digits)] ==
            IF i = 0 THEN 0
            ELSE IF v[i - 1] = TooLarge \/ v[i - 1] > MaxInt \div 10 THEN TooLarge
            ELSE v[i - 1] * 10 + Digit(digits[i])
    IN  v[Len(digits)]

(* parse_int: the bound is tested before each multiplication.              *)
Magnitude(digits) ==
    LET v[i \in 0 .. Len(digits)] ==
            IF i = 0 THEN 0
            ELSE IF v[i - 1] = TooLarge \/ v[i - 1] > (MaxInt - Digit(digits[i])) \div 10 THEN TooLarge
            ELSE v[i - 1] * 10 + Digit(digits[i])
    IN  v[Len(digits)]

Token(kind, span, w, integer) == [kind |-> kind, span |-> span, word |-> w, integer |-> integer]

(* The token of a whole word and the complaints it deserves: an integer    *)
(* out of range counts as 0, a name may not begin with a digit.            *)
WordToken ==
    LET span == Span(begun, at)
        size == Magnitude(Unsigned(word))
    IN  IF ~IsInteger(word)
          THEN [token |-> Token("Symbol", span, word, 0),
                wrong |-> IF word[1] \in Digits THEN <<span>> ELSE <<>>]
        ELSE IF size = TooLarge
          THEN [token |-> Token("Integer", span, word, 0), wrong |-> <<span>>]
        ELSE [token |-> Token("Integer", span, word, IF word[1] = "-" THEN -size ELSE size),
              wrong |-> <<>>]

-----------------------------------------------------------------------------
LexerInit ==
    /\ text \in Texts
    /\ at = Start /\ begun = Start
    /\ mode = "between" /\ word = <<>>
    /\ tokens = <<>> /\ complaints = <<>>

SkipBlank ==
    /\ mode = "between" /\ Reads(Blanks)
    /\ at' = Advanced
    /\ UNCHANGED <<text, mode, begun, word, tokens, complaints>>

BeginComment ==
    /\ mode = "between" /\ Reads({";"})
    /\ mode' = "comment"
    /\ UNCHANGED <<text, at, begun, word, tokens, complaints>>

ReadComment ==
    /\ mode = "comment"
    /\ IF AtEnd \/ char = "nl" THEN mode' = "between" /\ UNCHANGED at
                               ELSE at' = Advanced /\ UNCHANGED mode
    /\ UNCHANGED <<text, begun, word, tokens, complaints>>

ReadParenthesis ==
    /\ mode = "between" /\ Reads({"(", ")"})
    /\ at' = Advanced
    /\ tokens' = Append(tokens, Token(IF char = "(" THEN "LParen" ELSE "RParen",
                                      Span(at, Advanced), <<char>>, 0))
    /\ UNCHANGED <<text, mode, begun, word, complaints>>

BeginWord ==
    /\ mode = "between" /\ Reads(SymbolChars)
    /\ mode' = "word" /\ begun' = at /\ word' = <<>>
    /\ UNCHANGED <<text, at, tokens, complaints>>

ReadWord ==
    /\ mode = "word" /\ Reads(SymbolChars)
    /\ word' = Append(word, char)
    /\ at' = Advanced
    /\ UNCHANGED <<text, mode, begun, tokens, complaints>>

EndWord ==
    /\ mode = "word" /\ ~Reads(SymbolChars)
    /\ mode' = "between"
    /\ tokens' = Append(tokens, WordToken.token)
    /\ complaints' = complaints \o WordToken.wrong
    /\ UNCHANGED <<text, at, begun, word>>

SkipUnexpected ==
    /\ mode = "between" /\ ~AtEnd
    /\ char \notin Blanks \cup SymbolChars \cup {"(", ")", ";"}
    /\ at' = Advanced
    /\ complaints' = Append(complaints, Span(at, Advanced))
    /\ UNCHANGED <<text, mode, begun, word, tokens>>

EndText ==
    /\ mode = "between" /\ AtEnd
    /\ mode' = "lexed"
    /\ tokens' = Append(tokens, Token("End", Span(at, at), <<>>, 0))
    /\ UNCHANGED <<text, at, begun, word, complaints>>

LexerNext ==
    \/ SkipBlank \/ BeginComment \/ ReadComment \/ ReadParenthesis
    \/ BeginWord \/ ReadWord \/ EndWord \/ SkipUnexpected \/ EndText
=============================================================================
