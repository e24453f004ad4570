----------------------------- MODULE PageParser -----------------------------
(***************************************************************************)
(* app/src/parser.js: the page has a parser of its own and draws cards and *)
(* highlights from what it reads, the host runs what lexer.cpp and         *)
(* parser.cpp read.  Both are given the same text here; the host counts    *)
(* bytes, the page characters.                                             *)
(***************************************************************************)
EXTENDS CompileText

(* The bytes of a character begin with its first one.                      *)
Continuation == {"u2"}

Characters(bytes) == SelectSeq(bytes, LAMBDA c : c \notin Continuation)

(* this.source                                                             *)
sourceText == Characters(text)

(* \s of a regular expression, a form feed among them.                     *)
Spaces == Blanks \cup {"ff"}

atEnd(offset) == offset >= Len(sourceText)

At(offset, chars) == ~atEnd(offset) /\ sourceText[offset + 1] \in chars

(* The first offset from this one on with one of the characters.           *)
Upto(offset, chars) == CHOOSE i \in offset .. Len(sourceText) :
    (atEnd(i) \/ At(i, chars)) /\ \A j \in offset .. i - 1 : ~At(j, chars)

Failed == [ok |-> FALSE]

Expr(type, from, to, raw, children) ==
    [ok |-> TRUE, type |-> type, from |-> from, to |-> to, raw |-> raw, children |-> children]

RECURSIVE skipIgnored(_)

skipIgnored(offset) ==
    IF At(offset, Spaces) THEN skipIgnored(offset + 1)
    ELSE IF At(offset, {";"}) THEN skipIgnored(Upto(offset, {"nl"}))
    ELSE offset

(* Mutant: a comment does not end the word in front of it.                 *)
parseAtomOn(start) ==
    LET end == Upto(start, Spaces \cup {"(", ")"})
        raw == SubSeq(sourceText, start + 1, end)
    IN  Expr(IF IsInteger(raw) THEN "Integer" ELSE "Symbol", start, end, raw, <<>>)

parseAtom(start) ==
    LET end == Upto(start, Spaces \cup {"(", ")", ";"})
        raw == SubSeq(sourceText, start + 1, end)
    IN  Expr(IF IsInteger(raw) THEN "Integer" ELSE "Symbol", start, end, raw, <<>>)

RECURSIVE parseExpr(_), parseList(_, _, _)

parseList(start, offset, children) ==
    LET next == skipIgnored(offset)
        child == parseExpr(next)
    IN  IF atEnd(next) THEN Failed
        ELSE IF At(next, {")"}) THEN Expr("List", start, next + 1, <<>>, children)
        ELSE IF child.ok THEN parseList(start, child.to, Append(children, child))
        ELSE Failed

parseExpr(offset) ==
    IF At(offset, {"("}) THEN parseList(offset, offset + 1, <<>>)
    ELSE IF At(offset, {")"}) THEN Failed
    ELSE parseAtom(offset)

RECURSIVE parseProgram(_, _)

(* The loop of parseCardCode, which an error leaves.                       *)
parseProgram(offset, children) ==
    LET next == skipIgnored(offset)
        child == parseExpr(next)
    IN  IF atEnd(next) THEN Expr("Program", 0, Len(sourceText), <<>>, children)
        ELSE IF child.ok THEN parseProgram(child.to, Append(children, child))
        ELSE Failed

parseCardCode == parseProgram(0, <<>>)

-----------------------------------------------------------------------------
(***************************************************************************)
(* Properties.                                                             *)
(***************************************************************************)
CharactersBefore(offset) == Len(Characters(SubSeq(text, 1, offset)))

PageOffset == [offset \in 0 .. Len(text) |-> CharactersBefore(offset)]

RECURSIVE HostExpr(_)

(* The host's tree in the words of the page, with its places counted so.   *)
HostExpr(e) ==
    LET node == nodes[e]
        from == node.span.from.offset
        to == node.span.to.offset
    IN  Expr(node.kind, PageOffset[from], PageOffset[to],
             IF node.kind = "List" THEN <<>> ELSE SubSeq(text, from + 1, to),
             [i \in DOMAIN node.list |-> HostExpr(node.list[i])])

HostExprs == [i \in DOMAIN exprs |-> HostExpr(exprs[i])]

(* Page and host never disagree about the program: what the host reads     *)
(* without a complaint the page reads as the same tree at the same places, *)
(* and the page refuses exactly the texts whose parentheses do not match,  *)
(* so that a text it shows as cards is one the host can only refuse for    *)
(* its words (parser.js:1-61 and parser.cpp:29-99).                        *)
PageAgrees ==
    Over /\ Reading =>
        /\ parseCardCode.ok <=> Stray = {} /\ Abandoned = {}
        /\ complaints = <<>> => parseCardCode.children = HostExprs
=============================================================================
