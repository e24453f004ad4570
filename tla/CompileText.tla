---------------------------- MODULE CompileText ----------------------------
(***************************************************************************)
(* compile() of src/compiler.cpp from the text on: the parser's output is  *)
(* the compiler's input.  What Compiler assumes of its sources is checked  *)
(* here of everything the parser returns, and the places the engine will   *)
(* report are those of the text.                                           *)
(***************************************************************************)
EXTENDS Parser

CONSTANTS
    Spelling(_), \* the name a sequence of characters spells
    Names, RepeatMax, SpeedMax, DurationMax, TurnMax   \* see Ast and Compiler

VARIABLES program, source, compiling, frames, blamed   \* of the compiler

compiler == <<program, source, compiling, frames, blamed>>

C == INSTANCE Compiler WITH stage <- compiling, Sources <- {}

(* A word of a text is a name or a reserved word.                          *)
ASSUME TextAssumption ==
    /\ MaxInt >= 5 /\ {RepeatMax, SpeedMax, DurationMax, TurnMax} \subseteq 0 .. MaxInt
    /\ \A t \in Texts : \A i, j \in 1 .. Len(t) :
          i <= j => Spelling(SubSeq(t, i, j)) \in Names \cup C!Reserved
    /\ Names \cup C!Reserved \cup {"", "do"} \subseteq STRING   \* the provers have to be told

textVars == <<vars, compiler>>

(* Token numbers begin with 1.                                             *)
Whole == 0

(* What compile() takes from the ParseResult, besides the spans.           *)
ParseResult ==
    [exprs |-> exprs, whole |-> Whole, faulty |-> complaints # <<>>,
     nodes |-> [e \in DOMAIN nodes |->
                   [kind |-> nodes[e].kind, integer |-> nodes[e].integer, list |-> nodes[e].list,
                    symbol |-> IF nodes[e].kind = "Symbol" THEN Spelling(nodes[e].word) ELSE ""]]]

Begin(s, stage0) ==
    /\ source' = s /\ compiling' = stage0
    /\ program' = [root |-> s.whole, ast |-> <<>>]
    /\ frames' = <<>> /\ blamed' = {}

TextInit ==
    /\ Init
    /\ source = ParseResult /\ compiling = "parsing"
    /\ program = [root |-> Whole, ast |-> <<>>]
    /\ frames = <<>> /\ blamed = {}

Read == (Lex \/ Parse) /\ UNCHANGED compiler

HandOver ==
    /\ stage = "over" /\ compiling = "parsing"
    /\ Begin(ParseResult, "signatures")
    /\ UNCHANGED vars

Compile == C!Next /\ UNCHANGED vars

TextOver == C!Returned /\ UNCHANGED vars

TextNext == Read \/ HandOver \/ Compile \/ TextOver

TextSpec == TextInit /\ [][TextNext]_textVars /\ WF_textVars(Read \/ HandOver \/ Compile)

(* Mutant: the program ends where its first expression ends.               *)
SpanOfFirst(n) ==
    IF n = Whole THEN Span(nodes[exprs[1]].span.from, nodes[exprs[1]].span.to) ELSE nodes[n].span

(* The span of a node; root_span of compile() for the one around them all. *)
SpanOf(n) ==
    IF n = Whole THEN Span(nodes[exprs[1]].span.from, nodes[Last(exprs)].span.to) ELSE nodes[n].span

-----------------------------------------------------------------------------
(* The compiler touches nothing of the parser: what is so when the parser  *)
(* is done stays so.                                                       *)
Reading == compiling = "parsing"

(* The tokens are those of the text, in content, place and value, however  *)
(* words, comments, line breaks and long numbers meet (lexer.cpp:35-125).  *)
TokensExact == Reading => TokensCoverText /\ PlacesExact /\ IntegersExact

(* Tree and complaints are those the parentheses call for, at every depth  *)
(* of nesting and whatever went wrong before (parser.cpp:21-101).          *)
TreeExact == Reading => TreeFollowsTokens /\ FaultsReported

(* Whatever the text, the expressions the parser returns are a source as   *)
(* Compiler assumes one (its CompilerAssumption; the trust of compile() in *)
(* parse(), compiler.cpp:394-418): identities that exist, lists of         *)
(* complete elements, integers of the width of the literal.                *)
SourceIsLegal == compiling # "parsing" => C!SourceOK(source)

Before(a, b) == a.to.offset <= b.from.offset

Enclosed(a, b) ==
    /\ b.from.offset <= a.from.offset /\ a.to.offset <= b.to.offset
    /\ a # b

(* Every event carries the span of its node, and the editor finds the card *)
(* by the span alone: the nodes of a program all have different spans,     *)
(* operands lie strictly inside their form, in order and apart (span of    *)
(* Node, root_span of compiler.cpp:411-422, state.js:75-85).               *)
SpansTellNodesApart ==
    C!Ok =>
        /\ \A m, n \in C!Nodes : m # n => SpanOf(m) # SpanOf(n)
        /\ \A n \in C!Nodes :
              LET below == C!Below(n)
              IN  /\ \A i \in 1 .. Len(below) : Enclosed(SpanOf(below[i]), SpanOf(n))
                  /\ \A i \in 1 .. Len(below) - 1 : Before(SpanOf(below[i]), SpanOf(below[i + 1]))

(* Node ids count the highlightable nodes in the order in which their text *)
(* begins, so a reader of the events can tell which of two nodes comes     *)
(* first without the text (assign_preorder, compiler.cpp:360-364).         *)
IdsInTextOrder ==
    C!Ok => \A m, n \in C!Nodes :
        /\ C!Highlightable(m) /\ C!Highlightable(n)
        /\ SpanOf(m).from.offset < SpanOf(n).from.offset
        => C!NodeId(m) < C!NodeId(n)

(* What a client can tell from a span is so, and what it can tell from an  *)
(* identity.                                                               *)
NodesFollowText == SpansTellNodesApart /\ IdsInTextOrder

(* compile() answers every text.                                           *)
Compiled == <>(compiling = "over")
=============================================================================
