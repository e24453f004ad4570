------------------------------- MODULE Parser -------------------------------
(***************************************************************************)
(* parse() of src/parser.cpp: lex() first, then the expressions of the     *)
(* token list, one token per step.  The recursion of parse_expr and        *)
(* parse_list is the variable open: the lists whose closing parenthesis    *)
(* has not been read, outermost first.  An expression is known by the      *)
(* number of its first token.                                              *)
(***************************************************************************)
EXTENDS Lexer

VARIABLES
    pos,     \* the token peek() returns
    open,    \* the lists being parsed
    exprs,   \* result.exprs, the expressions at the outermost level
    nodes,   \* every expression parsed so far
    stage    \* how far parse() is

parserVars == <<pos, open, exprs, nodes, stage>>

vars == <<lexerVars, parserVars>>

peek == tokens[pos]

innermost == open[Len(open)]

Node(kind, span, w, integer, list) ==
    [kind |-> kind, span |-> span, word |-> w, integer |-> integer, list |-> list]

With(e, node) == [x \in DOMAIN nodes \cup {e} |-> IF x = e THEN node ELSE nodes[x]]

(* The expression e is complete: the innermost of the lists around it gets *)
(* it, or else it is at the outermost level.                               *)
Deliver(e, around) ==
    IF around = <<>>
      THEN open' = <<>> /\ exprs' = Append(exprs, e)
      ELSE open' = [around EXCEPT ![Len(around)].list = Append(@, e)] /\ UNCHANGED exprs

-----------------------------------------------------------------------------
Init ==
    /\ LexerInit
    /\ pos = 1 /\ open = <<>> /\ exprs = <<>> /\ nodes = <<>> /\ stage = "lexing"

Lex ==
    /\ LexerNext
    /\ stage' = IF mode' = "lexed" THEN "parsing" ELSE "lexing"
    /\ UNCHANGED <<pos, open, exprs, nodes>>

Parsing(kind) == stage = "parsing" /\ peek.kind = kind

ParseAtom ==
    /\ Parsing("Symbol") \/ Parsing("Integer")
    /\ nodes' = With(pos, Node(peek.kind, peek.span, IF peek.kind = "Symbol" THEN peek.word ELSE <<>>,
                               peek.integer, <<>>))
    /\ Deliver(pos, open)
    /\ pos' = pos + 1
    /\ UNCHANGED <<lexerVars, stage>>

OpenList ==
    /\ Parsing("LParen")
    /\ open' = Append(open, [first |-> pos, list |-> <<>>])
    /\ pos' = pos + 1
    /\ UNCHANGED <<lexerVars, exprs, nodes, stage>>

(* Mutant: a list ends where its last element ends.                        *)
CloseListShort ==
    /\ Parsing("RParen") /\ open # <<>>
    /\ LET span == IF innermost.list = <<>> THEN Span(tokens[innermost.first].span.from, peek.span.to)
                   ELSE Span(tokens[innermost.first].span.from, nodes[Last(innermost.list)].span.to)
       IN  nodes' = With(innermost.first, Node("List", span, <<>>, 0, innermost.list))
    /\ Deliver(innermost.first, Front(open))
    /\ pos' = pos + 1
    /\ UNCHANGED <<lexerVars, stage>>

CloseList ==
    /\ Parsing("RParen") /\ open # <<>>
    /\ LET span == Span(tokens[innermost.first].span.from, peek.span.to)
       IN  nodes' = With(innermost.first, Node("List", span, <<>>, 0, innermost.list))
    /\ Deliver(innermost.first, Front(open))
    /\ pos' = pos + 1
    /\ UNCHANGED <<lexerVars, stage>>

(* Mutant: the parenthesis is looked at, not taken, and nobody complains.  *)
StrayCloseUnread ==
    /\ Parsing("RParen") /\ open = <<>>
    /\ UNCHANGED vars

StrayClose ==
    /\ Parsing("RParen") /\ open = <<>>
    /\ complaints' = Append(complaints, peek.span)
    /\ pos' = pos + 1
    /\ UNCHANGED <<text, at, mode, begun, word, tokens, open, exprs, nodes, stage>>

(* A parenthesis too few: one error, at the innermost list, and every      *)
(* list around it returns false and is dropped.                            *)
Unclosed ==
    /\ Parsing("End") /\ open # <<>>
    /\ complaints' = Append(complaints, tokens[innermost.first].span)
    /\ nodes' = [e \in {x \in DOMAIN nodes : x < open[1].first} |-> nodes[e]]
    /\ open' = <<>>
    /\ UNCHANGED <<text, at, mode, begun, word, tokens, pos, exprs, stage>>

ParseOver ==
    /\ Parsing("End") /\ open = <<>>
    /\ stage' = "over"
    /\ UNCHANGED <<lexerVars, pos, open, exprs, nodes>>

Done == stage = "over" /\ UNCHANGED vars

Parse == ParseAtom \/ OpenList \/ CloseList \/ StrayClose \/ Unclosed \/ ParseOver

Next == Lex \/ Parse \/ Done

Spec == Init /\ [][Next]_vars /\ WF_vars(Lex \/ Parse)

-----------------------------------------------------------------------------
(***************************************************************************)
(* Properties.  Their parts compare what the loops computed with what the  *)
(* whole text or the whole token list says.                                *)
(***************************************************************************)
Over == stage = "over"

Within(i, span) == span.from.offset < i /\ i <= span.to.offset

(* A comment reaches from a semicolon that is in none to the line's end.   *)
Commented(i) ==
    \E j \in 1 .. i : text[j] = ";" /\ \A k \in j .. i : text[k] # "nl"

(* Nothing of the text is lost and nothing is counted twice: a character   *)
(* that is neither blank nor commented is in exactly one token, or is an   *)
(* unexpected one; a token has the characters of its span; two words never *)
(* touch (the loops of lexer.cpp:69-125).                                  *)
TokensCoverText ==
    Over =>
        /\ \A i \in 1 .. Len(text) :
              LET holding == {k \in 1 .. Len(tokens) : Within(i, tokens[k].span)}
                  ignored == text[i] \in Blanks \/ Commented(i)
                  known == text[i] \in SymbolChars \cup {"(", ")"}
              IN  /\ Cardinality(holding) = IF ~ignored /\ known THEN 1 ELSE 0
                  /\ ~ignored /\ ~known => \E k \in 1 .. Len(complaints) : Within(i, complaints[k])
        /\ \A k \in 1 .. Len(tokens) :
              tokens[k].word = SubSeq(text, tokens[k].span.from.offset + 1, tokens[k].span.to.offset)
        /\ \A k \in 1 .. Len(tokens) - 1 :
              /\ tokens[k].span.to.offset <= tokens[k + 1].span.from.offset
              /\ tokens[k].span.to.offset = tokens[k + 1].span.from.offset =>
                     {tokens[k].kind, tokens[k + 1].kind} \cap {"LParen", "RParen", "End"} # {}

PlaceOf(offset) ==
    LET breaks == {i \in 1 .. offset : text[i] = "nl"}
    IN  Place(offset, 1 + Cardinality(breaks),
              IF breaks = {} THEN offset + 1 ELSE offset + 1 - Max(breaks))

(* Lines and columns are those of the text: the line is one more than the  *)
(* line breaks before the place, the column counts from the last of them   *)
(* (advance, lexer.cpp:59-67; highlights are drawn at these places).       *)
PlacesExact ==
    /\ at = PlaceOf(at.offset) /\ begun = PlaceOf(begun.offset)
    /\ \A k \in 1 .. Len(tokens) :
          \A place \in {tokens[k].span.from, tokens[k].span.to} : place = PlaceOf(place.offset)

Decimal(digits) ==
    LET d[i \in 0 .. Len(digits)] == IF i = 0 THEN 0 ELSE 10 * d[i - 1] + Digit(digits[i])
    IN  d[Len(digits)]

Complained(span) == \E k \in 1 .. Len(complaints) : complaints[k] = span

(* An integer literal has its decimal value, or is complained about: never *)
(* a wrapped one, and none that would fit is refused (lexer.cpp:35-48).    *)
IntegersExact ==
    \A k \in 1 .. Len(tokens) :
        tokens[k].kind = "Integer" =>
            LET value == Decimal(Unsigned(tokens[k].word))
            IN  IF value > MaxInt THEN Complained(tokens[k].span)
                ELSE /\ tokens[k].integer = IF tokens[k].word[1] = "-" THEN -value ELSE value
                     /\ ~Complained(tokens[k].span)

(* What the parentheses of the token list say: how many are open before    *)
(* token k when those that close nothing are left out.                     *)
Level ==
    LET l[k \in 1 .. Len(tokens)] ==
            IF k = 1 THEN 0
            ELSE IF tokens[k - 1].kind = "LParen" THEN l[k - 1] + 1
            ELSE IF tokens[k - 1].kind = "RParen" /\ l[k - 1] > 0 THEN l[k - 1] - 1
            ELSE l[k - 1]
    IN  l

Stray == {k \in 1 .. Len(tokens) : tokens[k].kind = "RParen" /\ Level[k] = 0}

Matching(k, level) == {c \in k + 1 .. Len(tokens) : level[c] = level[k] + 1 /\ tokens[c].kind = "RParen"}

NeverClosed(level) == {k \in 1 .. Len(tokens) : tokens[k].kind = "LParen" /\ Matching(k, level) = {}}

(* The outermost list that is never closed and everything behind it.       *)
Abandoned ==
    LET level == Level
        lost == {k \in NeverClosed(level) : level[k] = 0}
    IN  {k \in 1 .. Len(tokens) : \E j \in lost : j <= k}

Kept == {k \in 1 .. Len(tokens) : tokens[k].kind \notin {"RParen", "End"}} \ Abandoned

Inside(k, kept, level) ==
    IF tokens[k].kind # "LParen" THEN {}
    ELSE {c \in k + 1 .. Min(Matching(k, level)) : c \in kept /\ level[c] = level[k] + 1}

InOrder(s, set) == ToSet(s) = set /\ \A i, j \in DOMAIN s : i < j => s[i] < s[j]

(* The tree is the one the parentheses describe: every complete expression *)
(* of the text is there, at its place and with its elements in order, and  *)
(* an error inside one never takes another one with it, before or after    *)
(* (parse_list and the loop of parse, parser.cpp:30-56,89-98).             *)
TreeFollowsTokens ==
    Over => \A kept \in {Kept}, level \in {Level} :
        /\ DOMAIN nodes = kept
        /\ InOrder(exprs, {k \in kept : level[k] = 0})
        /\ \A k \in kept :
              /\ InOrder(nodes[k].list, Inside(k, kept, level))
              /\ nodes[k].span = Span(tokens[k].span.from,
                                      IF tokens[k].kind = "LParen"
                                        THEN tokens[Min(Matching(k, level))].span.to ELSE tokens[k].span.to)

BadWord(t) ==
    \/ t.kind = "Symbol" /\ t.word[1] \in Digits
    \/ t.kind = "Integer" /\ Decimal(Unsigned(t.word)) > MaxInt

(* The text is refused exactly for what is wrong with it, and each of its  *)
(* faults is reported once, a list that is not closed at its innermost     *)
(* open parenthesis (the six push_backs of lexer.cpp and parser.cpp).      *)
FaultsReported ==
    Over =>
        LET unexpected == {i \in 1 .. Len(text) :
                ~Commented(i) /\ text[i] \notin Blanks \cup SymbolChars \cup {"(", ")"}}
            words == {k \in 1 .. Len(tokens) : BadWord(tokens[k])}
            unclosed == NeverClosed(Level)
            last == IF unclosed = {} THEN {} ELSE {Max(unclosed)}
        IN  /\ Len(complaints) = Cardinality(unexpected) + Cardinality(words \cup Stray \cup last)
            /\ \A k \in words \cup Stray \cup last : Complained(tokens[k].span)
            /\ \A i \in unexpected : Complained(Span(PlaceOf(i - 1), PlaceOf(i)))
=============================================================================
