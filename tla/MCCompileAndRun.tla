-------------------------- MODULE MCCompileAndRun --------------------------
(***************************************************************************)
(* Instance of CompileAndRun and Runner for TLC: every form with a range,  *)
(* with literals in and out of it and with a computed operand, calls in    *)
(* every shape, names that are also operations, and loops whose commands   *)
(* have computed arguments and fail at some point.                         *)
(***************************************************************************)
EXTENDS Runner, SourceTerms

Amount == {I(0), I(2), I(3), I(-1), F("distance-cm", <<>>), F("f", <<I(3)>>), S("x")}

Function == F("define", <<F("f", <<S("x")>>), F("+", <<S("x"), I(1)>>)>>)

One == {<<Function, F(h, <<a>>)>> : h \in {"wait", "turn-left", "turn-right", "repeat", "light"}, a \in Amount}

Two == {<<F(h, <<a, b>>), Function>> : h \in {"drive", "backward"}, a \in Amount, b \in Amount}

Loop == F("while", <<F("button", <<>>), F("drive", <<F("distance-cm", <<>>), F("f", <<I(1)>>)>>)>>)

Branch == F("if", <<F("button", <<>>), F("repeat", <<I(2), F("beep", <<>>), F("wait", <<F("distance-cm", <<>>)>>)>>),
                    F("do", <<F("stop", <<>>), F("/", <<I(1), F("distance-cm", <<>>)>>)>>)>>)

Larger == {
    <<Function, Loop>>, <<Branch>>,
    <<F("do", <<F("f", <<F("f", <<I(1)>>)>>), Function>>)>>,
    <<Function, F("f", <<>>)>>,
    <<Function, F("g", <<>>)>>,
    <<F("define", <<F("f", <<>>), F("f", <<>>)>>), F("f", <<>>)>>,
    <<F("define", <<F("g", <<S("x"), S("x")>>), S("x")>>), F("wait", <<F("g", <<I(1), I(2)>>)>>)>>,
    <<F("define", <<S("beep"), I(1)>>), F("beep", <<>>), F("wait", <<S("beep")>>)>>,
    <<F("define", <<S("f"), I(1)>>), Function, F("wait", <<F("f", <<S("f")>>)>>)>>,
    <<F("define", <<F("g", <<S("f")>>), F("f", <<S("f")>>)>>), Function, F("g", <<I(1)>>)>>,
    <<F("if", <<F("button", <<>>), F("do", <<>>), F("while", <<F("not", <<S("true")>>)>>)>>)>>,
    <<F("set!", <<S("x"), I(1)>>)>>,
    <<F("when", <<F("and", <<S("red"), F("<", <<I(1), I(2)>>)>>), F("light", <<S("red")>>)>>)>>,
    <<Function>>, <<I(1)>>, <<S("x")>>, <<>>}

MCSources ==
    {SourceOf(exprs, FALSE) : exprs \in One \cup Two \cup Larger}
        \cup {SourceOf(<<F("beep", <<>>)>>, TRUE)}

MCNames ==
    {"wait", "turn-left", "turn-right", "repeat", "light", "drive", "backward", "define", "do", "beep",
     "if", "while", "when", "not", "and", "set!", "stop", "+", "/", "<", "distance-cm", "button",
     "x", "f", "g"}

MCSensorValues ==
    [DistanceCm |-> {0, 3}, Button |-> {0, 1}, LineLeft |-> {0}, LineRight |-> {0}]

MCRunLimits == {[maxRepeat |-> 2, maxSteps |-> 7, maxDepth |-> 2],
                [maxRepeat |-> 1, maxSteps |-> 7, maxDepth |-> 2]}
=============================================================================
