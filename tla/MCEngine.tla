------------------------------ MODULE MCEngine ------------------------------
(***************************************************************************)
(* Instances of Engine for TLC: a set of small programs, each written as a *)
(* term, and two sets of execution limits.                                 *)
(***************************************************************************)
EXTENDS Engine

T(k, o, args, children) ==
    [kind |-> k, op |-> o, args |-> args, children |-> children, params |-> <<>>, num |-> 0]

Lit(i) == [T("IntegerLiteral", "", <<>>, <<>>) EXCEPT !.num = i]
True == [T("BooleanLiteral", "true", <<>>, <<>>) EXCEPT !.num = 1]
False == T("BooleanLiteral", "false", <<>>, <<>>)
Red == [T("ColorLiteral", "red", <<>>, <<>>) EXCEPT !.num = 1]
Var(x) == T("VarRef", x, <<>>, <<>>)
Cmd(k, args) == T(k, k, args, <<>>)
Distance == T("DistanceCm", "distance-cm", <<>>, <<>>)
Button == T("Button", "button", <<>>, <<>>)
LineLeft == T("LineLeft", "line-left", <<>>, <<>>)
LineRight == T("LineRight", "line-right", <<>>, <<>>)
Beep == Cmd("Beep", <<>>)
StopNow == Cmd("Stop", <<>>)
Do(body) == T("Do", "do", <<>>, body)
Repeat(count, body) == T("Repeat", "repeat", <<count>>, body)
When(c, body) == T("When", "when", <<c>>, body)
While(c, body) == T("While", "while", <<c>>, body)
If(c, then, else) == T("If", "if", <<c, then, else>>, <<>>)
Def(x, e) == T("DefineVar", x, <<e>>, <<>>)
Set(x, e) == T("SetVar", x, <<e>>, <<>>)
Fun(f, params, body) == [T("DefineFunc", f, <<>>, body) EXCEPT !.params = params]
Use(f, args) == T("Call", f, args, <<>>)
Arith(o, a, b) == T("Arithmetic", o, <<a, b>>, <<>>)
Cmp(o, a, b) == T("Compare", o, <<a, b>>, <<>>)
Bool(o, args) == T("BooleanOp", o, args, <<>>)

Terms == <<
  \* loops, counters and the three kinds of condition
  Repeat(Lit(2), <<Cmd("Drive", <<Lit(1), Lit(2)>>), Cmd("TurnRight", <<Lit(3)>>)>>),
  Do(<<Def("x", Lit(2)),
       While(Cmp(">", Var("x"), Lit(0)),
             <<Cmd("Backward", <<Lit(2), Lit(3)>>), Set("x", Arith("-", Var("x"), Lit(1)))>>)>>),
  Do(<<If(Button, Cmd("Light", <<Red>>), StopNow),
       When(LineLeft, <<Beep, Cmd("TurnLeft", <<Lit(1)>>)>>),
       When(Bool("not", <<LineRight>>), <<Lit(5)>>)>>),
  Repeat(Distance, <<Cmd("Wait", <<Lit(1)>>)>>),
  Repeat(Lit(3), <<Lit(1)>>),
  While(True, <<>>),
  Do(<<Def("x", Do(<<When(Button, <<Lit(2)>>)>>)), Repeat(Var("x"), <<Beep>>)>>),
  \* computed arguments, out of range or of the wrong type
  Cmd("Drive", <<Distance, If(Button, Lit(1), Lit(4))>>),
  Cmd("Wait", <<Arith("/", Lit(6), Distance)>>),
  Cmd("TurnLeft", <<Arith("+", Lit(7), Distance)>>),
  Cmd("Wait", <<Arith("*", Distance, Arith("-", Lit(-7), Distance))>>),
  Def("x", Arith("/", Arith("-", Lit(-7), Lit(1)), Distance)),
  Do(<<Cmd("Light", <<If(Button, Red, Lit(1))>>)>>),
  Cmp("=", If(Button, Red, Lit(1)), If(LineLeft, False, Lit(1))),
  Arith("+", Lit(1), If(Button, True, Lit(2))),
  Do(<<Cmp("<", Lit(1), Lit(2)), Cmp("<=", Lit(2), Lit(2)), Cmp(">=", Lit(1), Lit(2))>>),
  \* short circuit
  When(Bool("and", <<Button, LineLeft, Lit(0)>>), <<Beep>>),
  When(Bool("or", <<Button, LineLeft, Red>>), <<Beep>>),
  \* commands inside operands: what a late cancel can still let through
  Cmd("Drive", <<Do(<<Beep, Lit(1)>>), Lit(2)>>),
  While(Bool("not", <<Beep>>), <<Beep>>),
  If(Bool("and", <<Beep, Button>>), Beep, Cmd("Wait", <<Beep>>)),
  Do(<<Fun("f", <<"x">>, <<Beep>>), Use("f", <<Beep>>), Cmd("Wait", <<Use("f", <<Lit(1)>>)>>)>>),
  \* functions, scopes and recursion
  Do(<<Fun("f", <<"x">>, <<When(Cmp(">", Var("x"), Lit(0)),
                                <<Cmd("Drive", <<Var("x"), Lit(1)>>),
                                  Use("f", <<Arith("-", Var("x"), Lit(1))>>)>>)>>),
       Use("f", <<Lit(2)>>)>>),
  Do(<<Fun("f", <<>>, <<Use("f", <<>>)>>), Use("f", <<>>)>>),
  Do(<<Def("x", Lit(1)),
       Fun("g", <<"y">>, <<Set("y", Lit(2)), Set("x", Var("y")), Def("x", Lit(3)), Var("x")>>),
       Fun("h", <<"y">>, <<Use("g", <<Lit(1)>>), Cmd("Wait", <<Var("y")>>)>>),
       Use("h", <<Lit(3)>>), Cmd("Drive", <<Var("x"), Use("g", <<Use("g", <<Lit(0)>>)>>)>>)>>),
  Do(<<Def("y", Lit(0)),
       Fun("f", <<"x">>, <<Set("y", Var("x"))>>),
       Fun("g", <<"y">>, <<Use("f", <<Lit(1)>>), Cmd("Wait", <<Var("y")>>)>>),
       Use("g", <<Lit(3)>>), Cmd("Wait", <<Var("y")>>)>>),
  Do(<<Fun("f", <<"x", "x">>, <<Var("x")>>), Cmd("Wait", <<Use("f", <<Lit(3), Lit(1)>>)>>)>>),
  Do(<<Fun("f", <<"y">>, <<Arith("/", Lit(1), Var("y"))>>), Use("f", <<Use("f", <<Distance>>)>>)>>),
  Cmd("Wait", <<Var("x")>>),
  Do(<<When(Button, <<Def("x", Lit(1))>>), Set("x", Lit(2))>>),
  Fun("f", <<>>, <<Beep>>),
  Lit(5) >>

-----------------------------------------------------------------------------
(* The nodes of a term are the paths to its subterms; the root is <<>>.    *)
Subterms(t) == t.args \o t.children

MaxHeight == 7

ProgramOf(term) ==
    LET at[path \in Seq(Nat)] ==
            IF path = <<>> THEN term ELSE Subterms(at[Front(path)])[Last(path)]
        level[d \in 1 .. MaxHeight] ==
            IF d = 1 THEN {<<>>}
            ELSE UNION {{Append(path, i) : i \in DOMAIN Subterms(at[path])} : path \in level[d - 1]}
        node(path) ==
            [at[path] EXCEPT
               !.args = [i \in DOMAIN @ |-> Append(path, i)],
               !.children = [i \in DOMAIN @ |-> Append(path, Len(at[path].args) + i)]]
    IN  [root |-> <<>>,
         ast |-> [path \in UNION {level[d] : d \in 1 .. MaxHeight} |-> node(path)]]

MCPrograms == {ProgramOf(Terms[i]) : i \in DOMAIN Terms}

MCNames == {"x", "y"}

MCSensorValues ==
    [DistanceCm |-> {-1, 0, 2}, Button |-> {0, 1}, LineLeft |-> {0, 1}, LineRight |-> {0, 1}]

MCLimits == {[maxRepeat |-> 2, maxSteps |-> 18, maxDepth |-> 3],
             [maxRepeat |-> 0, maxSteps |-> 4, maxDepth |-> 1]}
=============================================================================
