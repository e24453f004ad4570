----------------------------- MODULE MCCompiler -----------------------------
(***************************************************************************)
(* Instance of Compiler for TLC: every form of the language with up to     *)
(* three simple operands, right or wrong, alone and next to a function,    *)
(* and a few larger programs.                                              *)
(***************************************************************************)
EXTENDS Compiler, SourceTerms

Operand == {I(1), I(9), S("x"), S("red"), L(<<>>), F("f", <<I(1)>>)}

Heads == Forms \cup {"f", "g", "red"}

FewOperands == UNION {[1 .. n -> Operand] : n \in 0 .. 2}

Function == F("define", <<F("f", <<S("x")>>), S("x")>>)

Alone == {<<F(h, ops)>> : h \in Heads, ops \in FewOperands}

Nested == {<<F(h, <<F("do", <<F(k, ops)>>), I(1), S("true")>>), Function>> :
              h \in {"if", "when", "+", "set!"},
              k \in {"define", "f", "drive"}, ops \in FewOperands}

Larger == {
    <<>>,
    <<I(1)>>,
    <<F("do", <<>>)>>,
    <<F("do", <<Function, F("f", <<F("f", <<I(1)>>)>>)>>)>>,
    <<F("do", <<F("do", <<Function>>)>>)>>,
    <<F("f", <<I(1)>>), Function, F("define", <<S("y"), F("f", <<S("y")>>)>>)>>,
    <<Function, Function, F("f", <<I(1)>>)>>,
    <<Function, F("define", <<F("f", <<>>)>>), F("f", <<>>)>>,
    <<F("define", <<F("g", <<S("x"), S("x")>>), F("g", <<S("x"), I(1)>>)>>), F("g", <<I(1), I(1)>>)>>,
    <<F("define", <<F("g", <<S("red")>>), F("beep", <<>>)>>), F("g", <<I(1)>>)>>,
    <<F("define", <<F("g", <<I(1)>>), F("beep", <<>>)>>), F("g", <<I(1)>>)>>,
    <<F("define", <<F("red", <<>>), F("beep", <<>>)>>), F("red", <<>>)>>,
    <<F("define", <<F("stop", <<>>), F("beep", <<>>)>>), F("stop", <<>>)>>,
    <<F("define", <<L(<<>>), F("beep", <<>>)>>)>>,
    <<F("define", <<L(<<I(1)>>), F("beep", <<>>)>>)>>,
    <<F("repeat", <<I(3), F("while", <<F("<", <<F("distance-cm", <<>>), I(2)>>), F("backward", <<I(1), I(2)>>)>>)>>),
      F("if", <<F("and", <<F("line-left", <<>>), S("true")>>), F("light", <<S("blue")>>), F("beep", <<>>)>>)>>,
    <<F("if", <<F("if", <<S("false"), I(1), I(-2)>>), F("if", <<I(1), I(1)>>), F("stop", <<>>)>>)>>,
    <<F("when", <<F("define", <<S("x"), F("red", <<>>)>>), L(<<L(<<>>)>>)>>)>>}

MCSources ==
    {SourceOf(exprs, FALSE) : exprs \in Alone \cup Nested \cup Larger}
        \cup {SourceOf(<<I(1)>>, TRUE), SourceOf(<<>>, TRUE)}

MCNames == Forms \cup {"x", "y", "f", "g"}
=============================================================================
