----------------------------- MODULE RunProofs -----------------------------
(***************************************************************************)
(* What holds of a program that is compiled and then executed, whatever    *)
(* its source: the guarantees of the compiler meet the reliance of the     *)
(* engine.                                                                 *)
(***************************************************************************)
EXTENDS Runner, EngineProofs

CP == INSTANCE CompilerProofs

-----------------------------------------------------------------------------
(***************************************************************************)
(* The operands of the forms that check a range are evaluated one by one   *)
(* in their order, so a literal's value arrives where the compiler saw it. *)
(***************************************************************************)
Ranged == {"Repeat", "Wait"} \cup Moves \cup Turns

TookLiterals(f) ==
    /\ Ast[f.node].kind = "IntegerLiteral" => f.stage = "args"
    /\ f.stage = "args" /\ Ast[f.node].kind \in Ranged =>
          \A i \in 1 .. Len(f.vals) :
              Ast[Ast[f.node].args[i]].kind = "IntegerLiteral" =>
                  f.vals[i] = Integer(Ast[Ast[f.node].args[i]].num)

Evaluates(f, n) ==
    f.stage = "args" /\ Ast[f.node].kind \in Ranged => n = Ast[f.node].args[f.pos + 1]

OperandsOK ==
    /\ \A i \in 1 .. Len(stack) :
          /\ TookLiterals(stack[i])
          /\ i < Len(stack) => Evaluates(stack[i], stack[i + 1].node)
    /\ pc \in {"enter", "begin"} /\ stack # <<>> => Evaluates(top, cur)
    /\ pc = "leave" /\ kind = "IntegerLiteral" => ret = Integer(Ast[top.node].num)

(* They depend on the program and on the stack only.                       *)
LEMMA SameOperands ==
    ASSUME program' = program
    PROVE  /\ \A f : TookLiterals(f)' <=> TookLiterals(f)
           /\ \A f, n : Evaluates(f, n)' <=> Evaluates(f, n)
BY SameProgram DEF TookLiterals, Evaluates

LEMMA OperandsStay ==
    ASSUME OperandsOK, UNCHANGED <<program, stack>>,
           pc' \in {"enter", "begin"} /\ stack # <<>> => Evaluates(top, cur'),
           pc' = "leave" /\ kind = "IntegerLiteral" => ret' = Integer(Ast[top.node].num)
    PROVE  OperandsOK'
<1>1. top' = top /\ kind' = kind /\ Ast' = Ast
  BY SameProgram DEF top, kind
<1>2. \A i \in 1 .. Len(stack') :
          /\ TookLiterals(stack'[i])
          /\ i < Len(stack') => Evaluates(stack'[i], stack'[i + 1].node)
  BY DEF OperandsOK
<1>3. pc' \in {"enter", "begin"} /\ stack' # <<>> => Evaluates(top', cur')
  BY <1>1
<1> QED
  BY <1>1, <1>2, <1>3, SameOperands DEF OperandsOK

(* The frame on top goes on: past its operands, or it checks no range.      *)
LEMMA OperandsTop ==
    ASSUME InterpreterOK, OperandsOK, stack # <<>>, program' = program, SameCalls,
           NEW f, TopBecomes(f), f.stage = "args" => kind \notin Ranged,
           pc' \in {"inner", "leave"}, kind # "IntegerLiteral"
    PROVE  OperandsOK'
<1> DEFINE n == Len(stack)
<1>1. /\ Len(stack') = n /\ n \in Nat \ {0} /\ stack \in Seq(Frames)
      /\ \A i \in 1 .. n : stack'[i].node = stack[i].node /\ (i < n => stack'[i] = stack[i])
  BY TopFacts DEF SameCalls, InterpreterOK
<1>2. stack'[n] = f /\ top' = f
  <2>1. n \in DOMAIN stack
    BY <1>1, LenProperties
  <2> QED
    BY <1>1, <2>1 DEF TopBecomes, top
<1>3. f.node = top.node /\ kind' = kind
  BY <1>1, <1>2, SameProgram DEF top, kind
<1>4. TookLiterals(f)
  BY <1>3 DEF TookLiterals, kind
<1>5. \A i \in 1 .. n :
          /\ TookLiterals(stack'[i])
          /\ i < n => Evaluates(stack'[i], stack'[i + 1].node)
  <2> TAKE i \in 1 .. n
  <2>1. TookLiterals(stack'[i])
    <3>1. i = n \/ i < n
      BY <1>1
    <3> QED
      BY <1>1, <1>2, <1>4, <3>1 DEF OperandsOK
  <2>2. ASSUME i < n PROVE Evaluates(stack'[i], stack'[i + 1].node)
    <3>1. i + 1 \in 1 .. n
      BY <1>1, <2>2
    <3> QED
      BY <1>1, <2>2, <3>1 DEF OperandsOK
  <2> QED
    BY <2>1, <2>2
<1> HIDE DEF n
<1> QED
  BY <1>1, <1>3, <1>5, SameOperands DEF OperandsOK

(* The innermost call is over.                                             *)
LEMMA OperandsPop ==
    ASSUME InterpreterOK, OperandsOK, stack # <<>>, program' = program,
           Len(stack') = Len(stack) - 1,
           \A i \in 1 .. Len(stack) - 2 : stack'[i] = stack[i],
           Len(stack) > 1 => /\ stack'[Len(stack) - 1].node = stack[Len(stack) - 1].node
                             /\ TookLiterals(stack'[Len(stack) - 1]),
           pc' \notin {"enter", "begin", "leave"}
    PROVE  OperandsOK'
<1> DEFINE n == Len(stack)
<1>1. n \in Nat \ {0} /\ Len(stack') = n - 1
  BY TopFacts
<1>2. \A i \in 1 .. n - 1 : stack'[i].node = stack[i].node /\ TookLiterals(stack'[i])
  <2> TAKE i \in 1 .. n - 1
  <2>1. i = n - 1 \/ i \in 1 .. n - 2
    BY <1>1
  <2> QED
    BY <1>1, <2>1 DEF OperandsOK
<1>3. \A i \in 1 .. n - 1 : i < n - 1 => Evaluates(stack'[i], stack'[i + 1].node)
  <2> TAKE i \in 1 .. n - 1
  <2> HAVE i < n - 1
  <2>1. i \in 1 .. n - 2 /\ i + 1 \in 1 .. n - 1 /\ i \in 1 .. n /\ i < n
    BY <1>1
  <2> QED
    BY <1>2, <2>1 DEF OperandsOK
<1> HIDE DEF n
<1> QED
  BY <1>1, <1>2, <1>3, SameOperands DEF OperandsOK

LEMMA OperandsBegin ==
    ASSUME IInv, OperandsOK, Begin
    PROVE  OperandsOK'
<1> USE DEF given
<1> DEFINE n == Len(stack)
           f == NewFrame(cur)
<1>1. pc = "begin" /\ pc' = "inner" /\ program' = program /\ InterpreterOK
  BY DEF Begin, IInv
<1>2. f \in Frames /\ f.node = cur
  BY <1>1, NewFrameFacts
<1>3. TookLiterals(f)
  <2>1. f.vals = <<>> /\ (Ast[cur].kind = "IntegerLiteral" => f.stage = "args")
    BY DEF NewFrame
  <2>2. Len(f.vals) = 0
    BY <2>1
  <2> HIDE DEF f
  <2> QED
    BY <1>2, <2>1, <2>2 DEF TookLiterals
<1> HIDE DEF f
<1>4. stack' = Append(stack, f)
  BY DEF Begin, f
<1>5. /\ n \in Nat /\ Len(stack') = n + 1
      /\ \A i \in 1 .. n : stack'[i] = stack[i]
      /\ stack'[n + 1] = f
  BY <1>1, <1>2, <1>4, AppendProperties, LenProperties DEF InterpreterOK
<1>6. n = 0 <=> stack = <<>>
  BY <1>1, EmptySeq DEF InterpreterOK
<1>7. \A i \in 1 .. n + 1 :
          /\ TookLiterals(stack'[i])
          /\ i < n + 1 => Evaluates(stack'[i], stack'[i + 1].node)
  <2> TAKE i \in 1 .. n + 1
  <2>1. CASE i = n + 1
    BY <1>3, <1>5, <2>1
  <2>2. CASE i = n
    <3>1. Evaluates(stack[n], cur) /\ TookLiterals(stack[n])
      BY <1>1, <1>6, <2>2, <1>5 DEF OperandsOK, top
    <3> QED
      BY <1>2, <1>5, <2>2, <3>1
  <2>3. CASE i < n
    <3>1. i \in 1 .. n /\ i + 1 \in 1 .. n
      BY <1>5, <2>3
    <3> QED
      BY <1>5, <2>3, <3>1 DEF OperandsOK
  <2> QED
    BY <1>5, <2>1, <2>2, <2>3
<1>8. Len(stack') = n + 1
  BY <1>5
<1> HIDE DEF n
<1> QED
  BY <1>1, <1>7, <1>8, SameOperands DEF OperandsOK

(* A literal's value reaches the frame that evaluated the literal.         *)
LEMMA TookOne ==
    ASSUME NEW f \in Frames, NEW val \in Values, WellFormed(program), FrameOK(f), TookLiterals(f),
           NEW n, Evaluates(f, n), Ast[n].kind = "IntegerLiteral" => val = Integer(Ast[n].num)
    PROVE  TookLiterals(Deliver(f, val))
<1>1. CASE f.stage = "args" /\ Ast[f.node].kind \in Ranged
  <2> DEFINE v == Append(f.vals, val)
             p == f.pos + 1
  <2>1. f.vals \in Seq(Values) /\ Len(f.vals) = f.pos /\ f.pos \in Nat
    BY <1>1 DEF Frames, FrameOK, Ranged, Moves, Turns
  <2>2. /\ Len(v) = f.pos + 1
        /\ \A i \in 1 .. f.pos : v[i] = f.vals[i]
        /\ v[f.pos + 1] = val
    BY <2>1, AppendProperties
  <2>3. n = Ast[f.node].args[f.pos + 1]
    BY <1>1 DEF Evaluates
  <2>4. \A i \in 1 .. Len(v) :
           Ast[Ast[f.node].args[i]].kind = "IntegerLiteral" =>
               v[i] = Integer(Ast[Ast[f.node].args[i]].num)
    <3> TAKE i \in 1 .. Len(v)
    <3>1. CASE i = f.pos + 1
      BY <2>2, <2>3, <3>1
    <3>2. CASE i # f.pos + 1
      <4>1. i \in 1 .. f.pos
        BY <2>1, <2>2, <3>2
      <4> QED
        BY <1>1, <2>1, <2>2, <4>1 DEF TookLiterals
    <3> QED
      BY <3>1, <3>2
  <2> HIDE DEF v, p
  <2>5. Deliver(f, val) = [f EXCEPT !.pos = p, !.vals = v]
    BY <1>1 DEF Deliver, p, v
  <2>6. Deliver(f, val).node = f.node /\ Deliver(f, val).vals = v /\ Deliver(f, val).stage = "args"
    BY <1>1, <2>5 DEF Frames
  <2> QED
    BY <2>4, <2>6 DEF TookLiterals
<1>2. CASE ~(f.stage = "args" /\ Ast[f.node].kind \in Ranged)
  <2>1. Deliver(f, val).node = f.node /\ Deliver(f, val).stage = f.stage
    <3> DEFINE v == Append(f.vals, val)
               p == f.pos + 1
    <3>1. Deliver(f, val) = [f EXCEPT !.pos = p, !.vals = v] \/ Deliver(f, val) = [f EXCEPT !.pos = p, !.last = val]
      BY DEF Deliver
    <3> HIDE DEF v, p
    <3> QED
      BY <3>1 DEF Frames
  <2> QED
    BY <1>2, <2>1 DEF TookLiterals
<1> QED
  BY <1>1, <1>2

LEMMA OperandsLeave ==
    ASSUME IInv, OperandsOK, Leave
    PROVE  OperandsOK'
<1> USE DEF given
<1> DEFINE n == Len(stack)
           callers == Front(stack)
           g == Deliver(stack[n - 1], ret)
<1>1. pc = "leave" /\ stack # <<>> /\ InterpreterOK /\ program' = program
  BY DEF Leave, IInv, StackOK
<1>2. /\ n \in Nat \ {0} /\ Len(stack') = n - 1
      /\ \A i \in 1 .. n - 2 : stack'[i] = stack[i]
      /\ stack' # <<>> => stack'[n - 1].node = stack[n - 1].node
      /\ pc' \in {"inner", "finish"}
  BY LeavePops
<1>3. ASSUME n > 1 PROVE stack' # <<>> /\ TookLiterals(stack'[n - 1])
  <2>12. /\ callers \in Seq(Frames) /\ Len(callers) = n - 1 /\ (callers = <<>> <=> n = 1)
         /\ \A i \in 1 .. n - 1 : callers[i] = stack[i]
    BY <1>1, FrontProperties DEF InterpreterOK
  <2>1. /\ callers \in Seq(Frames) /\ Len(callers) = n - 1 /\ callers # <<>>
        /\ \A i \in 1 .. n - 1 : callers[i] = stack[i]
    BY <1>2, <1>3, <2>12
  <2>2. n - 1 \in 1 .. n /\ n - 1 \in 1 .. n - 1 /\ n - 1 < n /\ n - 1 + 1 = n
    BY <1>2, <1>3
  <2>3. stack[n - 1] \in Frames
    BY <1>1, <2>2, ElementOfSeq DEF InterpreterOK
  <2>4. FrameOK(stack[n - 1]) /\ Waiting(stack[n - 1])
    BY <2>2 DEF IInv, StackOK, Nested
  <2>5. TookLiterals(stack[n - 1]) /\ Evaluates(stack[n - 1], top.node)
    BY <2>2 DEF OperandsOK, top
  <2>6. Ast[top.node].kind = "IntegerLiteral" => ret = Integer(Ast[top.node].num)
    BY <1>1 DEF OperandsOK, kind
  <2>7. ret \in Values /\ WellFormed(program)
    BY <1>1 DEF InterpreterOK
  <2>8. g \in Frames /\ TookLiterals(g)
    BY <2>3, <2>4, <2>5, <2>6, <2>7, TookOne, DeliverFacts
  <2>9. stack' = [callers EXCEPT ![n - 1] = g]
    BY <2>1, <2>2 DEF Leave
  <2> HIDE DEF g
  <2>10. stack'[n - 1] = g /\ Len(stack') = n - 1 /\ stack' \in Seq(Frames)
    BY <2>1, <2>2, <2>8, <2>9, ExceptSeq
  <2>11. stack' # <<>>
    BY <1>2, <1>3, <2>10, EmptySeq
  <2> QED
    BY <2>8, <2>10, <2>11
<1> HIDE DEF n
<1> QED
  BY <1>1, <1>2, <1>3, OperandsPop DEF n

LEMMA OperandsUnwind ==
    ASSUME IInv, OperandsOK, Unwind
    PROVE  OperandsOK'
<1> USE DEF given
<1>1. pc' \in {"unwind", "finish"} /\ program' = program /\ InterpreterOK
  BY DEF Unwind, IInv
<1>2. CASE stack = <<>>
  BY <1>1, <1>2, OperandsStay DEF Unwind
<1>3. CASE stack # <<>>
  <2> DEFINE n == Len(stack)
  <2>1. stack' = Front(stack)
    BY <1>3 DEF Unwind
  <2>2. n \in Nat \ {0} /\ Len(stack') = n - 1 /\ \A i \in 1 .. n - 1 : stack'[i] = stack[i]
    BY <1>1, <1>3, <2>1, FrontProperties DEF InterpreterOK
  <2>3. n > 1 => n - 1 \in 1 .. n - 1 /\ n - 1 \in 1 .. n
    BY <2>2
  <2>4. \A i \in 1 .. n - 2 : i \in 1 .. n - 1
    BY <2>2
  <2>5. \A i \in 1 .. n : TookLiterals(stack[i])
    BY DEF OperandsOK
  <2> HIDE DEF n
  <2> QED
    BY <1>1, <1>3, <2>2, <2>3, <2>4, <2>5, OperandsPop DEF n
<1> QED
  BY <1>2, <1>3

LEMMA OperandsIdle ==
    ASSUME IInv, OperandsOK,
           \/ Start \/ Poll \/ StepLimit \/ RuntimeError \/ StopRobot \/ Finish \/ EvalOperand \/ Trap
           \/ GiveResult \/ Assign \/ Command \/ Reads \/ ChooseBranch \/ EndIf \/ NextStatement
           \/ RequestCancel \/ UNCHANGED vars
    PROVE  OperandsOK'
<1> USE DEF given, scopes
<1>1. UNCHANGED <<program, stack>>
  BY DEF Start, Poll, StepLimit, RuntimeError, StopRobot, Finish, Fail, EvalOperand, Trap, GiveResult,
         Assign, Command, Reads, ReadSensor, ChooseBranch, EndIf, NextStatement, RequestCancel,
         vars, interpreter
<1>2. CASE Start \/ StepLimit \/ RuntimeError \/ StopRobot \/ Finish \/ Trap
  <2>1. pc' \in {"enter", "begin"} => stack = <<>>
    BY <1>2 DEF Start, StepLimit, RuntimeError, StopRobot, Finish, Fail, Trap, IInv, StackOK
  <2>2. pc' # "leave"
    BY <1>2 DEF Start, StepLimit, RuntimeError, StopRobot, Finish, Fail, Trap
  <2> QED
    BY <1>1, <2>1, <2>2, OperandsStay
<1>3. CASE Poll
  <2>1. pc = "enter" /\ pc' \in {"begin", "unwind"} /\ cur' = cur
    BY <1>3 DEF Poll
  <2> QED
    BY <1>1, <2>1, OperandsStay DEF OperandsOK
<1>4. CASE RequestCancel \/ UNCHANGED vars
  <2>1. UNCHANGED <<pc, cur, ret>>
    BY <1>4 DEF RequestCancel, vars, interpreter
  <2> QED
    BY <1>1, <2>1, OperandsStay DEF OperandsOK
<1>5. CASE EvalOperand \/ ChooseBranch \/ NextStatement
  <2>1. /\ pc' = "enter"
        /\ \/ cur' = Ast[top.node].args[top.pos + 1]
           \/ kind = "If" \/ top.stage = "body"
    BY <1>5 DEF EvalOperand, ChooseBranch, NextStatement, Eval
  <2>2. Evaluates(top, cur')
    BY <2>1 DEF Evaluates, kind, Ranged, Moves, Turns
  <2> QED
    BY <1>1, <2>1, <2>2, OperandsStay
<1>6. CASE GiveResult
  <2>1. pc' = "leave" /\ ret' = Result
    BY <1>6 DEF GiveResult, Return
  <2>2. kind = "IntegerLiteral" => Result = Integer(Ast[top.node].num)
    BY DEF Result
  <2> QED
    BY <1>1, <2>1, <2>2, OperandsStay
<1>7. CASE Assign \/ Command \/ Reads \/ EndIf
  <2>1. pc' = "leave" /\ kind # "IntegerLiteral"
    BY <1>7 DEF Assign, Command, Reads, ReadSensor, EndIf, Return, Commands, Moves, Turns, Sensors
  <2> QED
    BY <1>1, <2>1, OperandsStay
<1> QED
  BY <1>2, <1>3, <1>4, <1>5, <1>6, <1>7

LEMMA OperandsWork ==
    ASSUME IInv, IInv', OperandsOK,
           Accumulate \/ StartBody \/ Iterate \/ Call \/ SkipStatement \/ EndBody
    PROVE  OperandsOK'
<1>1. /\ Inner /\ SameCalls /\ program' = program /\ pc' \in {"inner", "leave"}
  BY InnerActions
<1>2. /\ stack # <<>> /\ InterpreterOK /\ top \in Frames /\ pc = "inner" /\ FrameOK(top) /\ ~Faulty
  BY <1>1, InnerFacts DEF Inner, IInv, StackOK
<1>3. kind # "IntegerLiteral"
  <2>1. Accumulate \/ StartBody \/ Call => kind # "IntegerLiteral"
    BY DEF Accumulate, StartBody, Call
  <2>2. SkipStatement => kind # "IntegerLiteral"
    BY <1>2 DEF SkipStatement, FrameOK, kind
  <2>3. Iterate => kind # "IntegerLiteral"
    BY <1>2 DEF Iterate, FrameOK, kind
  <2>4. EndBody => kind # "IntegerLiteral"
    <3>1. TookLiterals(top)
      BY <1>2, TopFacts DEF OperandsOK, top
    <3> QED
      BY <3>1 DEF EndBody, TookLiterals, kind
  <2> QED
    BY <2>1, <2>2, <2>3, <2>4
<1>4. CASE stack' = stack
  BY <1>1, <1>3, <1>4, OperandsStay
<1>5. ASSUME NEW f, TopBecomes(f), f.stage = "args" => kind \notin Ranged
      PROVE  OperandsOK'
  BY <1>1, <1>2, <1>3, <1>5, OperandsTop
<1>6. CASE Accumulate
  <2> DEFINE v == <<Integer(Apply(op, top.vals[1].v, top.vals[2].v))>>
  <2>1. TopBecomes([top EXCEPT !.vals = v]) /\ kind = "Arithmetic"
    BY <1>6 DEF Accumulate
  <2> QED
    BY <1>5, <2>1 DEF Ranged, Moves, Turns
<1>7. CASE StartBody
  <2> DEFINE st == IF kind = "Repeat" THEN "loop"
                     ELSE IF Truthy(top.vals[1]) THEN "body" ELSE "skip"
             l == IF kind = "Repeat" THEN top.vals[1].v ELSE 0
             f == [top EXCEPT !.stage = st, !.pos = 0, !.left = l]
  <2>1. stack' = stack \/ TopBecomes(f)
    BY <1>7 DEF StartBody
  <2>2. st # "args"
    OBVIOUS
  <2> HIDE DEF st, l
  <2>3. f.stage = st
    BY <1>2 DEF Frames
  <2> HIDE DEF f
  <2> QED
    BY <1>4, <1>5, <2>1, <2>2, <2>3
<1>8. CASE Iterate
  <2> DEFINE l == top.left - 1
             none == <<>>
             f == [top EXCEPT !.stage = "body", !.pos = 0, !.left = l]
             g == [top EXCEPT !.stage = "args", !.pos = 0, !.vals = none]
  <2>1. stack' = stack \/ TopBecomes(f) \/ (kind # "Repeat" /\ TopBecomes(g))
    BY <1>8 DEF Iterate
  <2>2. kind \in {"Repeat", "While"}
    BY <1>2, <1>8 DEF Iterate, FrameOK, kind
  <2> HIDE DEF l, none
  <2>3. f.stage = "body"
    BY <1>2 DEF Frames
  <2> HIDE DEF f, g
  <2> QED
    BY <1>4, <1>5, <2>1, <2>2, <2>3 DEF Ranged, Moves, Turns
<1>9. CASE Call \/ SkipStatement \/ EndBody
  <2> DEFINE p == top.pos + 1
             f == [top EXCEPT !.stage = "body", !.pos = 0]
             g == [top EXCEPT !.pos = p]
             h == [top EXCEPT !.stage = "loop"]
             d == [top EXCEPT !.stage = "done"]
  <2>1. \/ stack' = stack \/ TopBecomes(f) \/ (top.stage = "skip" /\ TopBecomes(g))
        \/ TopBecomes(h) \/ TopBecomes(d)
    BY <1>9 DEF Call, SkipStatement, EndBody
  <2> HIDE DEF p
  <2>2. f.stage = "body" /\ g.stage = top.stage /\ h.stage = "loop" /\ d.stage = "done"
    BY <1>2 DEF Frames
  <2> HIDE DEF f, g, h, d
  <2> QED
    BY <1>4, <1>5, <2>1, <2>2
<1> QED
  BY <1>6, <1>7, <1>8, <1>9

LEMMA OperandsStep ==
    ASSUME IInv, OperandsOK, [Next]_vars
    PROVE  OperandsOK'
<1>1. IInv'
  BY TypeStep
<1>2. Terminated => UNCHANGED vars
  BY DEF Terminated
<1> QED
  BY <1>1, <1>2, AnswersRead, OperandsBegin, OperandsLeave, OperandsUnwind, OperandsIdle, OperandsWork
     DEF Next, EngineStep, Interpret

-----------------------------------------------------------------------------
(***************************************************************************)
(* The inductive invariant: before execute() is called the engine has not  *)
(* begun, afterwards compile() is over and its tree stays what it is.      *)
(***************************************************************************)
CompileInv == CP!IInv /\ CP!AllThere /\ CP!RootPending /\ CP!Faithful

Untouched ==
    /\ pc = "over" /\ ret = None /\ stack = <<>> /\ env = <<EmptyScope>>
    /\ callDepth = 0 /\ steps = 0 /\ ~errored /\ ~cancelled
    /\ out = <<>> /\ ~cancel /\ late = 0

RunInv ==
    /\ CompileInv
    /\ limits \in [maxRepeat : Nat, maxSteps : Nat, maxDepth : Nat]
    /\ errored \in BOOLEAN /\ cancelled \in BOOLEAN /\ cancel \in BOOLEAN
    /\ launched \in BOOLEAN
    /\ IF launched THEN C!Ok /\ IInv /\ OperandsOK /\ AllSendable ELSE Untouched

-----------------------------------------------------------------------------
(***************************************************************************)
(* The compiler of CompileAndRun is the one CompilerProofs is about.       *)
(***************************************************************************)
LEMMA SameSteps ==
    /\ C!CollectSignatures <=> CP!CollectSignatures
    /\ C!CompileAtom <=> CP!CompileAtom
    /\ C!RefuseForm <=> CP!RefuseForm
    /\ C!OpenForm <=> CP!OpenForm
    /\ C!CloseForm <=> CP!CloseForm
    /\ C!Finish <=> CP!Finish
<1> USE DEF C!ToSet, CP!ToSet, C!Front, CP!Front, C!Last, CP!Last, C!Colors, CP!Colors,
            C!Ints, CP!Ints, C!MinInt, CP!MinInt, C!ColorNames, CP!ColorNames,
            C!Reserved, CP!Reserved, C!Comparisons, CP!Comparisons, C!BooleanOps,
            CP!BooleanOps, C!ArithmeticOps, CP!ArithmeticOps, C!SensorForms,
            CP!SensorForms, C!CommandForms, CP!CommandForms, C!ControlForms,
            CP!ControlForms, C!Forms, CP!Forms, C!Builtins, CP!Builtins, C!IsList,
            CP!IsList, C!IsSymbol, CP!IsSymbol, C!IsInteger, CP!IsInteger, C!List,
            CP!List, C!Symbol, CP!Symbol, C!IsForm, CP!IsForm, C!Op, CP!Op, C!Argc,
            CP!Argc, C!Arg, CP!Arg, C!SingleDo, CP!SingleDo, C!Tops, CP!Tops,
            C!TopLevel, CP!TopLevel, C!DefinesFunction, CP!DefinesFunction,
            C!IsSignature, CP!IsSignature, C!Signatures, CP!Signatures, C!FunctionName,
            CP!FunctionName, C!Known, CP!Known, C!First, CP!First, C!Arity, CP!Arity,
            C!Duplicates, CP!Duplicates, C!WrongCount, CP!WrongCount, C!Unknown,
            CP!Unknown, C!BadTarget, CP!BadTarget, C!Accepted, CP!Accepted,
            C!LiteralRange, CP!LiteralRange, C!Questionable, CP!Questionable,
            C!Operands, CP!Operands, C!ArgCount, CP!ArgCount, C!FormKind, CP!FormKind,
            C!NewNode, CP!NewNode, C!ColorNamed, CP!ColorNamed, C!NamedAtom,
            CP!NamedAtom, C!Atom, CP!Atom, C!Params, CP!Params, C!NodeOp, CP!NodeOp,
            C!FormNode, CP!FormNode, C!Frame, CP!Frame, C!active, CP!active, C!More,
            CP!More, C!upcoming, CP!upcoming, C!WithNode, CP!WithNode, C!Received,
            CP!Received, C!Passed, CP!Passed
<1>1. C!CollectSignatures <=> CP!CollectSignatures
  BY DEF C!CollectSignatures, CP!CollectSignatures
<1>2. C!CompileAtom <=> CP!CompileAtom
  BY DEF C!CompileAtom, CP!CompileAtom
<1>3. C!RefuseForm <=> CP!RefuseForm
  BY DEF C!RefuseForm, CP!RefuseForm
<1>4. C!OpenForm <=> CP!OpenForm
  BY DEF C!OpenForm, CP!OpenForm
<1>5. C!CloseForm <=> CP!CloseForm
  BY DEF C!CloseForm, CP!CloseForm
<1>6. C!Finish <=> CP!Finish
  BY DEF C!Finish, CP!Finish
<1> QED
  BY <1>1, <1>2, <1>3, <1>4, <1>5, <1>6

LEMMA OneTree == CP!Nodes = Nodes /\ CP!Ast = Ast /\ CP!root = root
<1>1. CP!Nodes = Nodes
  BY DEF CP!Nodes, Nodes
<1>2. CP!Ast = Ast
  BY DEF CP!Ast, Ast
<1>3. CP!root = root
  BY DEF CP!root, root
<1> QED
  BY <1>1, <1>2, <1>3

LEMMA SameOk == C!Ok <=> CP!Ok
BY DEF C!Ok, C!Rooted, CP!Ok, CP!Rooted

(* What CompilerProofs takes for granted holds of the sources.             *)
LEMMA SourcesOK ==
    /\ \A s \in Sources : CP!SourceOK(s)
    /\ RepeatMax \in 0 .. MaxInt
    /\ Names \subseteq STRING
    /\ {"", "do"} \subseteq STRING
BY RunAssumption DEF C!SourceOK, CP!SourceOK, C!Reserved, CP!Reserved, C!ToSet, CP!ToSet,
                     C!ColorNames, CP!ColorNames

LEMMA CompileBegins == ASSUME RunInit PROVE CompileInv
<1>1. CP!Init
  BY DEF RunInit, C!Init, CP!Init
<1>2. CP!IInv /\ CP!AllThere
  BY <1>1, SourcesOK, BoundsAssumption, CP!CompilerInit, CP!InitAllThere
<1> QED
  BY <1>1, <1>2 DEF CompileInv, CP!Init, CP!RootPending, CP!Faithful, CP!Nodes

LEMMA CompileGoes == ASSUME CompileInv, C!Next PROVE CompileInv'
<1>1. CP!Next
  BY SameSteps DEF C!Next, CP!Next
<1>2. CP!IInv /\ CP!AllThere /\ CP!RootPending /\ CP!Faithful
  BY DEF CompileInv
<1>3. CP!IInv'
  BY <1>1, <1>2, SourcesOK, BoundsAssumption, CP!CompilerStep
<1>4. CP!AllThere'
  BY <1>1, <1>2, SourcesOK, BoundsAssumption, CP!AllThereStep
<1>5. CP!RootPending'
  BY <1>1, <1>2, SourcesOK, BoundsAssumption, CP!RootStep
<1>6. CP!Faithful'
  BY <1>1, <1>2, SourcesOK, BoundsAssumption, CP!FaithfulStep
<1> QED
  BY <1>3, <1>4, <1>5, <1>6 DEF CompileInv

LEMMA CompileStays == ASSUME CompileInv, UNCHANGED <<program, compiler>> PROVE CompileInv'
<1>1. UNCHANGED CP!compilerVars
  BY DEF compiler, CP!compilerVars
<1>2. CP!IInv /\ CP!AllThere /\ CP!RootPending /\ CP!Faithful
  BY DEF CompileInv
<1>3. CP!IInv'
  BY <1>1, <1>2, SourcesOK, BoundsAssumption, CP!CompilerStep
<1>4. CP!AllThere'
  BY <1>1, <1>2, SourcesOK, BoundsAssumption, CP!AllThereStep
<1>5. CP!RootPending'
  BY <1>1, <1>2, SourcesOK, BoundsAssumption, CP!RootStep
<1>6. CP!Faithful'
  BY <1>1, <1>2, SourcesOK, BoundsAssumption, CP!FaithfulStep
<1> QED
  BY <1>3, <1>4, <1>5, <1>6 DEF CompileInv

(* What a tree that compiled without an error is worth to the engine.      *)
LEMMA CompiledFits ==
    ASSUME CompileInv, C!Ok
    PROVE  WellFormed(program) /\ CP!CallsFit /\ CP!LiteralsFit
<1>1. CP!IInv /\ CP!AllThere /\ CP!RootPending /\ CP!Faithful /\ CP!Ok
  BY SameOk DEF CompileInv
<1>2. CP!CallsFit
  BY <1>1, SourcesOK, BoundsAssumption, CP!CallsFitOk
<1>3. CP!LiteralsFit
  BY <1>1, SourcesOK, BoundsAssumption, CP!LiteralsFitOk
<1>4. CP!WellFormed(program)
  BY <1>1, SourcesOK, BoundsAssumption, CP!OkWellFormed DEF CP!OutputWellFormed
<1>5. WellFormed(program)
  <2>1. CP!NodeKinds = NodeKinds /\ CP!Colors = Colors /\ \A node : CP!ArityOK(node) <=> ArityOK(node)
    BY DEF CP!NodeKinds, NodeKinds, CP!Commands, Commands, CP!Moves, Moves, CP!Turns, Turns,
           CP!Sensors, Sensors, CP!Literals, Literals, CP!Operators, Operators, CP!Control, Control,
           CP!Colors, Colors, CP!ArityOK, ArityOK, CP!OneOperand, OneOperand, CP!Childless, Childless
  <2> QED
    BY <1>4, <2>1 DEF CP!WellFormed, WellFormed
<1> QED
  BY <1>2, <1>3, <1>5

-----------------------------------------------------------------------------
(***************************************************************************)
(* The steps of a run.                                                     *)
(***************************************************************************)
LEMMA RunBegins == RunnerInit => RunInv
<1> SUFFICES ASSUME RunInit PROVE RunInv
  BY DEF RunnerInit
<1>1. CompileInv
  BY CompileBegins
<1>2. limits \in [maxRepeat : Nat, maxSteps : Nat, maxDepth : Nat]
  BY RunAssumption DEF RunInit
<1> QED
  BY <1>1, <1>2 DEF RunInit, RunInv, Untouched

LEMMA RunCompiles == ASSUME RunInv, Compile PROVE RunInv'
<1>1. CompileInv'
  BY CompileGoes DEF RunInv, Compile
<1>2. ~launched
  <2>1. stage # "over"
    BY DEF Compile, C!Next, C!CollectSignatures, C!CompileAtom, C!RefuseForm, C!OpenForm,
           C!CloseForm, C!Finish, C!More
  <2> QED
    BY <2>1 DEF RunInv, C!Ok
<1>3. UNCHANGED <<pc, ret, stack, env, callDepth, steps, errored, cancelled, limits, out, cancel,
                  late, launched>>
  BY DEF Compile, scopes, flags
<1> QED
  BY <1>1, <1>2, <1>3 DEF RunInv, Untouched

LEMMA RunLaunches == ASSUME RunInv, Execute PROVE RunInv'
<1>1. /\ C!Ok /\ ~launched /\ launched' /\ pc' = "start" /\ cur' = root /\ ret' = None /\ stack' = <<>>
      /\ env' = <<EmptyScope>> /\ callDepth' = 0 /\ steps' = 0 /\ ~errored' /\ ~cancelled'
      /\ out' = <<>> /\ ~cancel' /\ late' = 0
      /\ UNCHANGED <<program, limits, compiler, errored, cancelled, cancel>>
  BY DEF Execute, RunInv, Untouched, scopes, flags, given
<1>2. CompileInv' /\ C!Ok'
  <2>1. CompileInv'
    BY <1>1, CompileStays DEF RunInv
  <2>2. C!Ok'
    BY <1>1 DEF C!Ok, C!Rooted, compiler
  <2> QED
    BY <2>1, <2>2
<1>3. WellFormed(program)
  BY <1>1, CompiledFits DEF RunInv
<1>4. IInv'
  <2>1. root \in Nodes
    BY <1>3, ProgramFacts
  <2>2. EmptyScope \in Scopes /\ None \in Values
    BY ValueFacts DEF EmptyScope, Scopes, Slots
  <2>3. env' \in Seq(Scopes) /\ env' # <<>> /\ Len(env') = 1 /\ stack' \in Seq(Frames')
    BY <1>1, <2>2
  <2>4. InterpreterOK'
    BY <1>1, <1>3, <2>1, <2>2, <2>3 DEF InterpreterOK, PCs, RunInv, Nodes
  <2>5. Nested'
    BY <1>1, <2>3, NestedEmpty
  <2>6. StackOK'
    BY <1>1, <2>5 DEF StackOK
  <2> QED
    BY <2>4, <2>6 DEF IInv
<1>5. OperandsOK' /\ AllSendable'
  <2>1. \A i \in 1 .. Len(<<>>) : FALSE
    OBVIOUS
  <2> QED
    BY <1>1, <2>1 DEF OperandsOK, AllSendable
<1> QED
  BY <1>1, <1>2, <1>4, <1>5 DEF RunInv

LEMMA RunExecutes == ASSUME RunInv, Run PROVE RunInv'
<1>1. EngineStep /\ UNCHANGED <<compiler, launched>>
  BY DEF Run
<1>2. UNCHANGED <<program, limits, cancel>>
  BY <1>1 DEF EngineStep, Interpret, HostAnswers, Start, Poll, Begin, StepLimit, RuntimeError, Fail,
              Leave, Unwind, StopRobot, Finish, EvalOperand, Accumulate, Trap, GiveResult, Assign,
              Command, ReadSensor, ChooseBranch, EndIf, StartBody, Iterate, Call, NextStatement,
              SkipStatement, EndBody, given
<1>3. pc # "over"
  BY <1>1 DEF EngineStep, Interpret, HostAnswers, Start, Poll, Begin, StepLimit, RuntimeError,
              Leave, Unwind, StopRobot, Finish, EvalOperand, Accumulate, Trap, GiveResult, Assign,
              Command, ChooseBranch, EndIf, StartBody, Iterate, Call, NextStatement,
              SkipStatement, EndBody, Inner
<1>4. launched /\ C!Ok /\ IInv /\ OperandsOK /\ AllSendable
  BY <1>3 DEF RunInv, Untouched
<1>5. IInv' /\ OperandsOK' /\ AllSendable'
  BY <1>1, <1>4, TypeStep, OperandsStep, SentStep DEF Next
<1>6. CompileInv'
  BY <1>1, <1>2, CompileStays DEF RunInv
<1>7. C!Ok'
  BY <1>1, <1>2, <1>4 DEF C!Ok, C!Rooted, compiler
<1>8. InterpreterOK'
  BY <1>5 DEF IInv
<1> QED
  BY <1>1, <1>2, <1>4, <1>5, <1>6, <1>7, <1>8 DEF RunInv, InterpreterOK

LEMMA RunRests == ASSUME RunInv, UNCHANGED runVars PROVE RunInv'
<1>1. UNCHANGED <<vars, compiler, launched>>
  BY DEF runVars
<1>2. UNCHANGED <<program, pc, cur, ret, stack, env, callDepth, steps, errored, cancelled, limits, out,
                  cancel, late, compiler, launched>>
  BY <1>1 DEF vars, interpreter
<1>3. CompileInv'
  BY <1>2, CompileStays DEF RunInv
<1>4. launched => C!Ok' /\ IInv' /\ OperandsOK' /\ AllSendable'
  BY <1>1, <1>2, TypeStep, OperandsStep, SentStep DEF RunInv, C!Ok, C!Rooted, compiler
<1> QED
  BY <1>2, <1>3, <1>4 DEF RunInv, Untouched

-----------------------------------------------------------------------------
(***************************************************************************)
(* The theorems.                                                           *)
(***************************************************************************)
(* At every point of compiling and running a file the compiler's invariant *)
(* holds, and once execute() is called the engine's does, on a tree that   *)
(* compiled without an error.                                              *)
THEOREM RunInductive == RunnerSpec => []RunInv
<1>1. RunnerInit => RunInv
  BY RunBegins
<1>2. RunInv /\ [RunnerNext]_runnerVars => RunInv'
  <2> SUFFICES ASSUME RunInv, [RunnerNext]_runnerVars PROVE RunInv'
    OBVIOUS
  <2>1. Compile \/ Execute \/ Run \/ UNCHANGED runVars
    BY DEF RunnerNext, CannotOpen, CompilationFailed, Main, Interpreting, Exit, RunnerOver, runnerVars
  <2> QED
    BY <2>1, RunCompiles, RunLaunches, RunExecutes, RunRests
<1> QED
  BY <1>1, <1>2, PTL DEF RunnerSpec

(* Whatever the source: one with an error moves nothing, it does not even  *)
(* start (engine.cpp:390-393).                                             *)
THEOREM NoErrorStarts == RunnerSpec => []ErrorsDoNotStart
<1>1. RunInv => ErrorsDoNotStart
  BY DEF RunInv, Untouched, ErrorsDoNotStart, C!Ok
<1> QED
  BY <1>1, RunInductive, PTL

(* Whatever the source, its literals and what is computed from them: the   *)
(* robot is never told to exceed its bounds (engine.cpp:215-255).          *)
THEOREM SafeFromSource == RunnerSpec => []CommandsSafe
<1>1. RunInv => CommandsSafe
  <2>1. AllSendable => CommandsSafe
    BY DEF AllSendable, Sendable, CommandsSafe
  <2>2. Untouched => CommandsSafe
    BY DEF Untouched, CommandsSafe
  <2> QED
    BY <2>1, <2>2 DEF RunInv
<1> QED
  BY <1>1, RunInductive, PTL

(* While eval_inner works, the tree is one that compiled without an error. *)
LEMMA WorkingFits ==
    ASSUME RunInv, pc = "inner"
    PROVE  /\ IInv /\ OperandsOK /\ InterpreterOK /\ stack # <<>>
           /\ WellFormed(program) /\ CP!CallsFit /\ CP!LiteralsFit
           /\ top.node \in Nodes
<1>1. CompileInv /\ C!Ok /\ IInv /\ OperandsOK
  BY DEF RunInv, Untouched
<1>2. InterpreterOK /\ stack # <<>>
  BY <1>1 DEF IInv, StackOK
<1> QED
  BY <1>1, <1>2, CompiledFits, TopFacts

(* Whatever the source: a call in a program that compiled is to a function *)
(* with as many parameters as it has arguments (engine.cpp:79-83,101-103). *)
THEOREM CallsSucceed == RunnerSpec => []CallsNeverFail
<1>1. RunInv => CallsNeverFail
  <2> SUFFICES ASSUME RunInv, pc = "inner", kind = "Call"
               PROVE  /\ Defined(op)
                      /\ Len(Ast[top.node].args) = Len(Parameters(FunctionNamed(op)))
    BY DEF CallsNeverFail
  <2>1. CP!CallsFit /\ top.node \in Nodes /\ Ast[top.node].kind = "Call" /\ op = Ast[top.node].op
    BY WorkingFits DEF kind, op
  <2>2. Functions = {f \in CP!FunctionNodes : Ast[f].kind = "DefineFunc"}
    <3>1. CP!FunctionNodes = {root} \cup ToSet(Ast[root].children)
      BY OneTree DEF CP!FunctionNodes, ToSet, CP!ToSet
    <3> QED
      BY <3>1 DEF Functions
  <2>3. /\ \E f \in Functions : Ast[f].op = op
        /\ \A f \in Functions : Ast[f].op = op => Len(Ast[f].params) = Len(Ast[top.node].args)
    <3>1. /\ \E f \in CP!FunctionNodes : CP!Callable(top.node, f)
          /\ \A f \in CP!FunctionNodes :
                CP!Callable(top.node, f) => Len(Ast[f].params) = Len(Ast[top.node].args)
      BY <2>1, OneTree DEF CP!CallsFit
    <3>2. \A f : CP!Callable(top.node, f) <=> Ast[f].kind = "DefineFunc" /\ Ast[f].op = op
      BY <2>1, OneTree DEF CP!Callable
    <3> QED
      BY <2>2, <3>1, <3>2
  <2>4. FunctionNamed(op) \in Functions /\ Ast[FunctionNamed(op)].op = op
    BY <2>3 DEF FunctionNamed
  <2> QED
    BY <2>3, <2>4 DEF Defined, Parameters
<1> QED
  BY <1>1, RunInductive, PTL

(* Whatever the source: under limits that allow what the compiler allows,  *)
(* a literal that compiled is in range when it is used (compiler.cpp:      *)
(* 164-170,250-254; engine.cpp:134-247).                                   *)
THEOREM LiteralsSucceed == RunnerSpec => []LiteralsNeverFail
<1>1. RunInv => LiteralsNeverFail
  <2> DEFINE n    == Ast[top.node]
             a(i) == Ast[n.args[i]]
  <2> SUFFICES ASSUME RunInv, pc = "inner", RangeFault, limits.maxRepeat >= RepeatMax,
                      \A i \in 1 .. Operands : a(i).kind = "IntegerLiteral"
               PROVE  FALSE
    BY DEF LiteralsNeverFail
  <2>1. /\ IInv /\ OperandsOK /\ InterpreterOK /\ stack # <<>>
        /\ WellFormed(program) /\ CP!LiteralsFit /\ top.node \in Nodes
    BY WorkingFits
  <2>2. kind \in Ranged /\ kind = n.kind /\ OperandsDone
    BY DEF RangeFault, Ranged, kind
  <2>3. Len(stack) \in 1 .. Len(stack) /\ top \in Frames
    BY <2>1, TopFacts
  <2>4. top.stage = "args" /\ top.pos >= Operands
    BY <2>2 DEF OperandsDone, Decided, Ranged, Moves, Turns
  <2>5. FrameOK(top) /\ TookLiterals(top)
    BY <2>1, <2>3 DEF IInv, StackOK, Nested, OperandsOK, top
  <2>6. Len(top.vals) = top.pos
    BY <2>2, <2>4, <2>5 DEF FrameOK, Ranged, Moves, Turns
  <2>7. /\ Operands >= 1 /\ Operands <= Len(n.args) /\ Operands \in Nat /\ Len(n.args) \in Nat
        /\ kind \in Moves => Operands = 2
    <3>1. ArityOK(n) /\ n.args \in Seq(Nodes)
      BY <2>1, TopFacts, ProgramFacts
    <3>2. /\ kind \in {"Repeat", "Wait"} \cup Turns => Len(n.args) = 1
          /\ kind \in Moves => Len(n.args) = 2
      BY <2>2, <3>1 DEF ArityOK, OneOperand
    <3>3. Operands = Len(n.args)
      BY <2>2, <3>2 DEF Operands, Ranged, Moves, Turns
    <3>4. (Len(n.args) = 1 /\ kind \notin Moves) \/ Len(n.args) = 2
      BY <2>2, <3>2 DEF Ranged, Moves, Turns
    <3> HIDE DEF n
    <3> QED
      BY <3>2, <3>3, <3>4
  <2>8. \A i \in 1 .. Operands : top.vals[i] = Integer(a(i).num)
    <3>1. top.pos \in Nat
      BY <2>3 DEF Frames
    <3>2. \A i \in 1 .. Operands : i \in 1 .. Len(top.vals)
      BY <2>4, <2>6, <2>7, <3>1
    <3> QED
      BY <2>2, <2>4, <2>5, <3>2 DEF TookLiterals
  <2>9. \A i \in 1 .. Operands : top.vals[i].v = a(i).num
    <3>1. \A num : Integer(num).v = num
      BY DEF Integer
    <3> HIDE DEF a
    <3> QED
      BY <2>8, <3>1
  <2>10. \A i \in 1 .. Operands :
            /\ kind = "Repeat" => a(i).num \in 0 .. RepeatMax
            /\ kind \in Moves => a(i).num \in 0 .. (IF i = 1 THEN SpeedMax ELSE DurationMax)
            /\ kind \in Turns => a(i).num \in 0 .. TurnMax
            /\ kind = "Wait" => a(i).num \in 0 .. DurationMax
    <3>1. \A i \in 1 .. Operands : i \in 1 .. Len(n.args)
      BY <2>7
    <3>2. CP!Moves = Moves /\ CP!Turns = Turns
      BY DEF CP!Moves, CP!Turns, Moves, Turns
    <3>3. \A m \in Nodes : \A i \in 1 .. Len(Ast[m].args) :
             Ast[Ast[m].args[i]].kind = "IntegerLiteral" =>
                 /\ Ast[m].kind = "Repeat" => Ast[Ast[m].args[i]].num \in 0 .. RepeatMax
                 /\ Ast[m].kind \in Moves =>
                       Ast[Ast[m].args[i]].num \in 0 .. (IF i = 1 THEN SpeedMax ELSE DurationMax)
                 /\ Ast[m].kind \in Turns => Ast[Ast[m].args[i]].num \in 0 .. TurnMax
                 /\ Ast[m].kind = "Wait" => Ast[Ast[m].args[i]].num \in 0 .. DurationMax
      BY <2>1, <3>2, OneTree DEF CP!LiteralsFit
    <3> QED
      BY <2>1, <2>2, <3>1, <3>3
  <2>11. /\ kind = "Repeat" => top.vals[1].v \in 0 .. RepeatMax
         /\ kind \in Moves => top.vals[1].v \in 0 .. SpeedMax /\ top.vals[2].v \in 0 .. DurationMax
         /\ kind \in Turns => top.vals[1].v \in 0 .. TurnMax
         /\ kind = "Wait" => top.vals[1].v \in 0 .. DurationMax
    <3>1. 1 \in 1 .. Operands /\ (kind \in Moves => 2 \in 1 .. Operands)
      BY <2>7
    <3> HIDE DEF a
    <3>2. top.vals[1].v = a(1).num /\ (kind \in Moves => top.vals[2].v = a(2).num)
      BY <2>9, <3>1
    <3> QED
      BY <2>10, <3>1, <3>2
  <2>12. 0 .. RepeatMax \subseteq 0 .. limits.maxRepeat
    <3>1. limits.maxRepeat \in Nat
      BY DEF RunInv
    <3>2. RepeatMax \in Nat
      <4>1. RepeatMax \in 0 .. MaxInt
        BY RunAssumption
      <4> QED
        BY <4>1, BoundsAssumption
    <3> QED
      BY <3>1, <3>2
  <2> QED
    BY <2>11, <2>12 DEF RangeFault
<1> QED
  BY <1>1, RunInductive, PTL

-----------------------------------------------------------------------------
(***************************************************************************)
(* Counting the lines that start and end nodes.                            *)
(***************************************************************************)
Counted(p, type, j, i) == {k \in j .. i - 1 : p[k].type = type}

Change(m) == IF m.type = "nodeStart" THEN 1 ELSE IF m.type = "nodeDone" THEN -1 ELSE 0

LEMMA OneMoreCounted ==
    ASSUME NEW A, IsFiniteSet(A), NEW n, n \notin A
    PROVE  /\ Cardinality(A) \in Nat /\ Cardinality(A \cup {n}) = Cardinality(A) + 1
           /\ \A k \in A : Cardinality(A) >= 1
<1>1. Cardinality(A) \in Nat /\ Cardinality(A \cup {n}) = Cardinality(A) + 1
  BY FS_CardinalityType, FS_AddElement
<1>2. \A k \in A : Cardinality(A) # 0
  BY FS_EmptySet
<1> QED
  BY <1>1, <1>2

LEMMA CountNext ==
    ASSUME NEW p, NEW type, NEW j \in Int, NEW i \in Int, j <= i
    PROVE  /\ Cardinality(Counted(p, type, j, i)) \in Nat
           /\ Cardinality(Counted(p, type, j, i + 1))
                 = Cardinality(Counted(p, type, j, i)) + (IF p[i].type = type THEN 1 ELSE 0)
<1> DEFINE A == Counted(p, type, j, i)
<1>1. IsFiniteSet(A) /\ i \notin A
  <2>1. i - 1 \in Int
    OBVIOUS
  <2>2. A \subseteq j .. i - 1 /\ IsFiniteSet(j .. i - 1)
    BY <2>1, FS_Interval DEF Counted
  <2>3. IsFiniteSet(A)
    BY <2>2, FS_Subset
  <2>4. i \notin j .. i - 1
    OBVIOUS
  <2> HIDE DEF A
  <2> QED
    BY <2>2, <2>3, <2>4
<1>2. Counted(p, type, j, i + 1) = IF p[i].type = type THEN A \cup {i} ELSE A
  <2>1. \A k : k \in j .. i + 1 - 1 <=> k \in j .. i - 1 \/ k = i
    OBVIOUS
  <2> QED
    BY <2>1 DEF Counted
<1> HIDE DEF A
<1>3. Cardinality(A) \in Nat /\ Cardinality(A \cup {i}) = Cardinality(A) + 1
  BY <1>1, OneMoreCounted
<1>4. CASE p[i].type = type
  BY <1>2, <1>3, <1>4 DEF A
<1>5. CASE p[i].type # type
  BY <1>2, <1>3, <1>5 DEF A
<1> QED
  BY <1>4, <1>5

LEMMA DepthCounts ==
    ASSUME NEW p, NEW j, NEW i
    PROVE  Depth(p, j, i) = Cardinality(Counted(p, "nodeStart", j, i)) - Cardinality(Counted(p, "nodeDone", j, i))
BY DEF Depth, Counted

LEMMA DepthNext ==
    ASSUME NEW p, NEW j \in Int, NEW i \in Int, j <= i
    PROVE  Depth(p, j, i) \in Int /\ Depth(p, j, i + 1) = Depth(p, j, i) + Change(p[i])
<1> DEFINE s == Cardinality(Counted(p, "nodeStart", j, i))
           d == Cardinality(Counted(p, "nodeDone", j, i))
<1>1. /\ s \in Nat
      /\ Cardinality(Counted(p, "nodeStart", j, i + 1)) = s + (IF p[i].type = "nodeStart" THEN 1 ELSE 0)
  BY CountNext
<1>2. /\ d \in Nat
      /\ Cardinality(Counted(p, "nodeDone", j, i + 1)) = d + (IF p[i].type = "nodeDone" THEN 1 ELSE 0)
  BY CountNext
<1>3. Depth(p, j, i) = s - d
  BY DepthCounts
<1> HIDE DEF s, d
<1>4. Depth(p, j, i + 1) = s + (IF p[i].type = "nodeStart" THEN 1 ELSE 0) - (d + (IF p[i].type = "nodeDone" THEN 1 ELSE 0))
  BY <1>1, <1>2, DepthCounts
<1>5. Change(p[i]) = (IF p[i].type = "nodeStart" THEN 1 ELSE 0) - (IF p[i].type = "nodeDone" THEN 1 ELSE 0)
  BY DEF Change
<1> QED
  BY <1>1, <1>2, <1>3, <1>4, <1>5

(* Lines that agree count the same.                                        *)
LEMMA DepthSame ==
    ASSUME NEW p, NEW q, NEW n \in Nat, \A k \in 1 .. n : q[k] = p[k],
           NEW j \in Nat \ {0}, NEW i \in Int, i <= n + 1
    PROVE  Depth(q, j, i) = Depth(p, j, i)
<1>1. \A k \in j .. i - 1 : q[k] = p[k]
  OBVIOUS
<1> QED
  BY <1>1 DEF Depth

(* A further line.                                                         *)
LEMMA DepthAppend ==
    ASSUME NEW p, \E S : p \in Seq(S), NEW m
    PROVE  LET q    == Append(p, m)
               last == Len(p) + 1
           IN  /\ \A j \in 1 .. last : /\ Depth(p, j, last) \in Int
                                       /\ Depth(q, j, last + 1) = Depth(p, j, last) + Change(m)
               /\ Depth(p, last, last) = 0 /\ Depth(q, last + 1, last + 1) = 0
               /\ \A j, i \in 1 .. last : Depth(q, j, i) = Depth(p, j, i)
<1> DEFINE q    == Append(p, m)
           last == Len(p) + 1
<1>1. /\ Len(p) \in Nat /\ q[last] = m
      /\ \A k \in 1 .. Len(p) : q[k] = p[k]
  BY AnySeq
<1> HIDE DEF q
<1>2. \A j, i \in 1 .. last : Depth(q, j, i) = Depth(p, j, i)
  BY <1>1, DepthSame
<1>3. ASSUME NEW j \in 1 .. last
      PROVE  Depth(p, j, last) \in Int /\ Depth(q, j, last + 1) = Depth(p, j, last) + Change(m)
  <2>1. j \in Int /\ last \in Int /\ j <= last /\ last \in 1 .. last
    BY <1>1
  <2>2. Depth(p, j, last) \in Int /\ Depth(q, j, last + 1) = Depth(q, j, last) + Change(q[last])
    BY <2>1, DepthNext
  <2> QED
    BY <1>1, <1>2, <2>1, <2>2
<1>4. ASSUME NEW s, NEW i \in Int PROVE Depth(s, i, i) = 0
  <2>1. i .. i - 1 = {}
    OBVIOUS
  <2>2. \A type : Counted(s, type, i, i) = {}
    BY <2>1 DEF Counted
  <2>3. Cardinality({}) = 0 /\ 0 - 0 = 0
    BY FS_EmptySet
  <2>4. Depth(s, i, i) = Cardinality({}) - Cardinality({})
    BY <2>2, DepthCounts
  <2> QED
    BY <2>3, <2>4
<1>5. last \in Int /\ last + 1 \in Int
  BY <1>1
<1> HIDE DEF last
<1>6. Depth(p, last, last) = 0 /\ Depth(q, last + 1, last + 1) = 0
  BY <1>4, <1>5
<1> QED
  BY <1>2, <1>3, <1>6 DEF q, last

-----------------------------------------------------------------------------
(***************************************************************************)
(* The open nodes, seen in the lines printed so far.                       *)
(***************************************************************************)
(* How many of the open nodes from the k-th one on are reported.           *)
Marked(o, k) == Cardinality({i \in k .. Len(o) : Highlightable(o[i])})

(* The line from which on as many nodes are open, and from no later line.  *)
StartedAt(p, o, k, j) ==
    /\ p[j].type = "nodeStart" /\ p[j].node = o[k]
    /\ Depth(p, j, Len(p) + 1) = Marked(o, k)
    /\ \A i \in j + 1 .. Len(p) + 1 : Depth(p, i, Len(p) + 1) < Marked(o, k)

(* Every open node that is reported has its line.                          *)
Nest(p, o) ==
    \A k \in 1 .. Len(o) : Highlightable(o[k]) => \E j \in 1 .. Len(p) : StartedAt(p, o, k, j)

LEMMA MarkedNext ==
    ASSUME NEW o, Len(o) \in Nat, NEW r, Len(r) = Len(o) + 1, \A k \in 1 .. Len(o) : r[k] = o[k],
           NEW k \in 1 .. Len(r)
    PROVE  /\ Marked(o, k) \in Nat
           /\ Marked(r, k) = Marked(o, k) + (IF Highlightable(r[Len(r)]) THEN 1 ELSE 0)
           /\ k = Len(r) => Marked(o, k) = 0
           /\ k <= Len(o) /\ Highlightable(o[k]) => Marked(o, k) >= 1
<1> DEFINE n == Len(o)
           A == {i \in k .. n : Highlightable(o[i])}
           B == {i \in k .. n + 1 : Highlightable(r[i])}
<1>1. n \in Nat /\ Len(r) = n + 1 /\ k \in Int /\ k <= n + 1 /\ k >= 1
  OBVIOUS
<1>2. Marked(o, k) = Cardinality(A) /\ Marked(r, k) = Cardinality(B)
  BY DEF Marked
<1>3. IsFiniteSet(A) /\ n + 1 \notin A
  <2>1. A \subseteq k .. n /\ n \in Int /\ n + 1 \notin k .. n
    BY <1>1
  <2> HIDE DEF A, n
  <2>2. IsFiniteSet(k .. n)
    BY <2>1, FS_Interval
  <2> QED
    BY <2>1, <2>2, FS_Subset
<1>4. B = IF Highlightable(r[n + 1]) THEN A \cup {n + 1} ELSE A
  <2>1. \A i : i \in k .. n + 1 <=> i \in k .. n \/ i = n + 1
    BY <1>1
  <2>2. \A i \in k .. n : r[i] = o[i]
    BY <1>1
  <2> HIDE DEF n
  <2> QED
    BY <2>1, <2>2
<1>5. k = n + 1 => A = {}
  BY <1>1
<1>6. k <= n /\ Highlightable(o[k]) => k \in A
  BY <1>1
<1> HIDE DEF A, B, n
<1>7. /\ Cardinality(A) \in Nat /\ Cardinality(A \cup {n + 1}) = Cardinality(A) + 1
      /\ \A i \in A : Cardinality(A) >= 1
  BY <1>3, OneMoreCounted
<1>8. Cardinality({}) = 0
  BY FS_EmptySet
<1>9. Cardinality(B) = Cardinality(A) + (IF Highlightable(r[n + 1]) THEN 1 ELSE 0)
  <2>1. CASE Highlightable(r[n + 1])
    BY <1>4, <1>7, <2>1
  <2>2. CASE ~Highlightable(r[n + 1])
    BY <1>4, <1>7, <2>2
  <2> QED
    BY <2>1, <2>2
<1>10. Len(r) = n + 1 /\ Len(o) = n
  BY DEF n
<1> QED
  BY <1>2, <1>5, <1>6, <1>7, <1>8, <1>9, <1>10

(* A further line: every node that is open then was open before and counts *)
(* with the line, or it is the one that the line starts.                   *)
LEMMA NestStep ==
    ASSUME NEW p, \E S : p \in Seq(S), NEW m, NEW o, NEW r, Nest(p, o),
           \A k \in 1 .. Len(r) : Highlightable(r[k]) =>
               \/ /\ k \in 1 .. Len(o) /\ r[k] = o[k] /\ Marked(o, k) \in Nat
                  /\ Marked(r, k) = Marked(o, k) + Change(m) /\ Marked(r, k) >= 1
               \/ m.type = "nodeStart" /\ m.node = r[k] /\ Marked(r, k) = 1
    PROVE  Nest(Append(p, m), r)
<1> DEFINE q    == Append(p, m)
           last == Len(p) + 1
<1>1. /\ Len(p) \in Nat /\ Len(q) = last /\ q[last] = m /\ \A i \in 1 .. Len(p) : q[i] = p[i]
  <2>1. \E S : q \in Seq(S)
    BY AnySeq
  <2>2. DOMAIN q = 1 .. last /\ DOMAIN q = 1 .. Len(q) /\ Len(q) \in Nat /\ Len(p) \in Nat
    BY <2>1, AnySeq
  <2> HIDE DEF q
  <2>3. Len(q) = last
    BY <2>2
  <2> QED
    BY <2>3, AnySeq DEF q
<1>2. /\ \A j \in 1 .. last : /\ Depth(p, j, last) \in Int
                              /\ Depth(q, j, last + 1) = Depth(p, j, last) + Change(m)
      /\ Depth(p, last, last) = 0 /\ Depth(q, last + 1, last + 1) = 0
  BY DepthAppend
<1>3. Change(m) \in Int
  BY DEF Change
<1> HIDE DEF q
<1> SUFFICES ASSUME NEW k \in 1 .. Len(r), Highlightable(r[k])
             PROVE  \E j \in 1 .. Len(q) : StartedAt(q, r, k, j)
  BY DEF Nest, q
<1>4. CASE /\ k \in 1 .. Len(o) /\ r[k] = o[k] /\ Marked(o, k) \in Nat
           /\ Marked(r, k) = Marked(o, k) + Change(m) /\ Marked(r, k) >= 1
  <2>1. PICK j \in 1 .. Len(p) : StartedAt(p, o, k, j)
    BY <1>4 DEF Nest
  <2>2. j \in 1 .. last /\ j \in 1 .. Len(q) /\ q[j] = p[j]
    BY <1>1
  <2>3. q[j].type = "nodeStart" /\ q[j].node = r[k]
    BY <1>4, <2>1, <2>2 DEF StartedAt
  <2>4. Depth(q, j, last + 1) = Marked(r, k)
    <3>1. Depth(p, j, last) = Marked(o, k)
      BY <2>1 DEF StartedAt
    <3> QED
      BY <1>2, <1>4, <2>2, <3>1
  <2>5. ASSUME NEW i \in j + 1 .. last + 1 PROVE Depth(q, i, last + 1) < Marked(r, k)
    <3>1. CASE i = last + 1
      BY <1>2, <1>3, <1>4, <3>1
    <3>2. CASE i # last + 1
      <4>1. i \in j + 1 .. last /\ i \in 1 .. last
        BY <1>1, <3>2
      <4>2. Depth(p, i, last) < Marked(o, k)
        BY <2>1, <4>1 DEF StartedAt
      <4> HIDE DEF last
      <4> QED
        BY <1>2, <1>3, <1>4, <4>1, <4>2
    <3> QED
      BY <3>1, <3>2
  <2> HIDE DEF last
  <2> QED
    BY <1>1, <2>2, <2>3, <2>4, <2>5 DEF StartedAt
<1>5. CASE m.type = "nodeStart" /\ m.node = r[k] /\ Marked(r, k) = 1
  <2>1. last \in 1 .. last /\ Change(m) = 1
    BY <1>1, <1>5 DEF Change
  <2>2. Depth(q, last, last + 1) = 1
    BY <1>2, <2>1
  <2>3. ASSUME NEW i \in last + 1 .. last + 1 PROVE Depth(q, i, last + 1) < 1
    <3>1. i = last + 1
      BY <1>1
    <3> QED
      BY <1>2, <3>1
  <2> HIDE DEF last
  <2> QED
    BY <1>1, <1>5, <2>1, <2>2, <2>3 DEF StartedAt
<1> QED
  BY <1>4, <1>5

(* No line: every node that is open then counts as it did.                 *)
LEMMA NestStay ==
    ASSUME NEW p, NEW o, NEW r, Nest(p, o),
           \A k \in 1 .. Len(r) : Highlightable(r[k]) =>
               k \in 1 .. Len(o) /\ r[k] = o[k] /\ Marked(r, k) = Marked(o, k)
    PROVE  Nest(p, r)
BY DEF Nest, StartedAt

-----------------------------------------------------------------------------
(***************************************************************************)
(* Lines under their issuer.                                               *)
(***************************************************************************)
LEMMA UnderPrefix ==
    ASSUME NEW p, \E S : p \in Seq(S), NEW m, UnderIssuer(p),
           NEW i \in 1 .. Len(p), IsCommand(p[i]), ~Emergency(Append(p, m), i)
    PROVE  LET q == Append(p, m)
           IN  \E j \in 1 .. i - 1 :
                  /\ q[j].type = "nodeStart" /\ Depth(q, j, i) = 1
                  /\ \A k \in j + 1 .. i - 1 : Depth(q, k, i) < 1
                  /\ Ast[q[j].node].kind = q[i].command
<1> DEFINE q == Append(p, m)
<1>1. /\ Len(p) \in Nat /\ DOMAIN p = 1 .. Len(p) /\ DOMAIN q = 1 .. Len(p) + 1
      /\ \A k \in 1 .. Len(p) : q[k] = p[k]
  BY AnySeq
<1>2. \A j, k \in 1 .. Len(p) + 1 : Depth(q, j, k) = Depth(p, j, k)
  BY DepthAppend
<1>3. ~Emergency(p, i)
  <2>1. Len(q) = Len(p) + 1
    <3>1. \E S : q \in Seq(S)
      BY AnySeq
    <3>2. DOMAIN q = 1 .. Len(q) /\ Len(q) \in Nat
      BY <3>1, AnySeq
    <3> HIDE DEF q
    <3> QED
      BY <1>1, <3>2
  <2>2. i < Len(p) => i + 1 \in 1 .. Len(p)
    BY <1>1
  <2> HIDE DEF q
  <2> QED
    BY <1>1, <2>1, <2>2 DEF Emergency, q
<1> HIDE DEF q
<1>4. PICK j \in 1 .. i - 1 :
         /\ p[j].type = "nodeStart" /\ Depth(p, j, i) = 1
         /\ \A k \in j + 1 .. i - 1 : Depth(p, k, i) < 1
         /\ Ast[p[j].node].kind = p[i].command
  BY <1>1, <1>3 DEF UnderIssuer
<1>5. q[j] = p[j] /\ q[i] = p[i] /\ Depth(q, j, i) = 1
  <2>1. j \in 1 .. Len(p) /\ j \in 1 .. Len(p) + 1 /\ i \in 1 .. Len(p) + 1
    BY <1>1
  <2> QED
    BY <1>1, <1>2, <1>4, <2>1
<1>6. ASSUME NEW k \in j + 1 .. i - 1 PROVE Depth(q, k, i) < 1
  <2>1. k \in 1 .. Len(p) + 1 /\ i \in 1 .. Len(p) + 1
    BY <1>1
  <2> QED
    BY <1>2, <1>4, <2>1
<1>7. /\ q[j].type = "nodeStart" /\ Depth(q, j, i) = 1
      /\ \A k \in j + 1 .. i - 1 : Depth(q, k, i) < 1
      /\ Ast[q[j].node].kind = q[i].command
  BY <1>4, <1>5, <1>6
<1> QED
  BY <1>7 DEF q

(* A line that is no command, or one of the innermost open node, or the    *)
(* stop together with the line that follows it.                            *)
LEMMA UnderOther ==
    ASSUME NEW p, \E S : p \in Seq(S), NEW m, UnderIssuer(p), ~IsCommand(m)
    PROVE  UnderIssuer(Append(p, m))
<1> DEFINE q == Append(p, m)
<1>1. /\ Len(p) \in Nat /\ DOMAIN q = 1 .. Len(p) + 1 /\ q[Len(p) + 1] = m
      /\ \A k \in 1 .. Len(p) : q[k] = p[k]
  BY AnySeq
<1>2. ASSUME NEW i \in DOMAIN q, IsCommand(q[i]), ~Emergency(q, i)
      PROVE  \E j \in 1 .. i - 1 :
                  /\ q[j].type = "nodeStart" /\ Depth(q, j, i) = 1
                  /\ \A k \in j + 1 .. i - 1 : Depth(q, k, i) < 1
                  /\ Ast[q[j].node].kind = q[i].command
  <2>1. i \in 1 .. Len(p)
    BY <1>1, <1>2
  <2>2. IsCommand(p[i])
    BY <1>1, <1>2, <2>1
  <2> QED
    BY <1>2, <2>1, <2>2, UnderPrefix
<1> HIDE DEF q
<1> QED
  BY <1>2 DEF UnderIssuer, q

LEMMA UnderCommand ==
    ASSUME NEW p, \E S : p \in Seq(S), NEW m, UnderIssuer(p),
           NEW o, Len(o) \in Nat \ {0}, Nest(p, o), Highlightable(o[Len(o)]),
           Ast[o[Len(o)]].kind = m.command
    PROVE  UnderIssuer(Append(p, m))
<1> DEFINE q    == Append(p, m)
           last == Len(p) + 1
           n    == Len(o)
<1>1. /\ Len(p) \in Nat /\ DOMAIN q = 1 .. last /\ q[last] = m
      /\ \A k \in 1 .. Len(p) : q[k] = p[k]
  BY AnySeq
<1>0. ASSUME NEW i \in 1 .. Len(p), IsCommand(q[i]), ~Emergency(q, i)
      PROVE  \E l \in 1 .. i - 1 :
                  /\ q[l].type = "nodeStart" /\ Depth(q, l, i) = 1
                  /\ \A k \in l + 1 .. i - 1 : Depth(q, k, i) < 1
                  /\ Ast[q[l].node].kind = q[i].command
  <2>1. IsCommand(p[i])
    BY <1>0, <1>1
  <2> QED
    BY <1>0, <2>1, UnderPrefix
<1>2. \A j, i \in 1 .. last : Depth(q, j, i) = Depth(p, j, i)
  BY DepthAppend
<1>3. Marked(o, n) = 1
  <2>1. {i \in n .. n : Highlightable(o[i])} = {} \cup {n}
    OBVIOUS
  <2>2. IsFiniteSet({}) /\ Cardinality({}) = 0 /\ n \notin {}
    BY FS_EmptySet
  <2>3. Cardinality({} \cup {n}) = Cardinality({}) + 1
    BY <2>2, OneMoreCounted
  <2>4. Marked(o, n) = Cardinality({} \cup {n})
    BY <2>1 DEF Marked
  <2> QED
    BY <2>2, <2>3, <2>4
<1>4. PICK j \in 1 .. Len(p) : StartedAt(p, o, n, j)
  BY DEF Nest
<1> HIDE DEF q
<1>5. /\ q[j].type = "nodeStart" /\ Depth(q, j, last) = 1
      /\ \A k \in j + 1 .. last - 1 : Depth(q, k, last) < 1
      /\ Ast[q[j].node].kind = q[last].command
  <2>1. j \in 1 .. last /\ last \in 1 .. last /\ \A k \in j + 1 .. last - 1 : k \in 1 .. last /\ k \in j + 1 .. last
    BY <1>1
  <2>2. Depth(p, j, last) = 1 /\ \A k \in j + 1 .. last : Depth(p, k, last) < 1
    BY <1>3, <1>4 DEF StartedAt
  <2>3. q[j].type = "nodeStart" /\ q[j].node = o[n]
    BY <1>1, <1>4 DEF StartedAt
  <2> HIDE DEF last
  <2> QED
    BY <1>1, <1>2, <2>1, <2>2, <2>3
<1>6. ASSUME NEW i \in DOMAIN q, IsCommand(q[i]), ~Emergency(q, i)
      PROVE  \E l \in 1 .. i - 1 :
                  /\ q[l].type = "nodeStart" /\ Depth(q, l, i) = 1
                  /\ \A k \in l + 1 .. i - 1 : Depth(q, k, i) < 1
                  /\ Ast[q[l].node].kind = q[i].command
  <2>1. CASE i = last
    <3>1. j \in 1 .. i - 1
      BY <1>1, <2>1
    <3> QED
      BY <1>5, <2>1, <3>1
  <2>2. CASE i # last
    <3>1. i \in 1 .. Len(p)
      BY <1>1, <2>2
    <3> QED
      BY <1>0, <1>6, <3>1
  <2> QED
    BY <2>1, <2>2
<1> QED
  BY <1>6 DEF UnderIssuer, q

LEMMA UnderEmergency ==
    ASSUME NEW p, \E S : p \in Seq(S), NEW c, NEW m, UnderIssuer(p), m.type = "programError"
    PROVE  UnderIssuer(Append(Append(p, c), m))
<1> DEFINE q == Append(p, c)
           r == Append(q, m)
           n == Len(p)
<1>1. /\ n \in Nat /\ DOMAIN q = 1 .. n + 1 /\ DOMAIN p = 1 .. n
      /\ \A k \in 1 .. n : q[k] = p[k]
  BY AnySeq
<1>2. \E S : q \in Seq(S)
  BY AnySeq
<1> HIDE DEF q
<1>3. Len(q) = n + 1
  <2>1. DOMAIN q = 1 .. Len(q) /\ Len(q) \in Nat
    BY <1>2, AnySeq
  <2> QED
    BY <1>1, <2>1
<1>4. /\ DOMAIN r = 1 .. n + 2 /\ r[n + 2] = m /\ \E S : r \in Seq(S)
      /\ \A k \in 1 .. n + 1 : r[k] = q[k]
  <2>1. /\ DOMAIN r = 1 .. Len(q) + 1 /\ r[Len(q) + 1] = m /\ \E S : r \in Seq(S)
        /\ \A k \in 1 .. Len(q) : r[k] = q[k]
    BY <1>2, AnySeq
  <2>2. n + 1 + 1 = n + 2
    BY <1>1
  <2> HIDE DEF r, n
  <2> QED
    BY <1>3, <2>1, <2>2
<1> HIDE DEF r
<1>5. Len(r) = n + 2
  <2>1. DOMAIN r = 1 .. Len(r) /\ Len(r) \in Nat
    BY <1>4, AnySeq
  <2> QED
    BY <1>1, <1>4, <2>1
<1>6. ASSUME NEW i \in DOMAIN r, IsCommand(r[i]), ~Emergency(r, i)
      PROVE  \E j \in 1 .. i - 1 :
                  /\ r[j].type = "nodeStart" /\ Depth(r, j, i) = 1
                  /\ \A k \in j + 1 .. i - 1 : Depth(r, k, i) < 1
                  /\ Ast[r[j].node].kind = r[i].command
  <2>1. i \in 1 .. n
    <3>1. i # n + 2
      BY <1>4, <1>6 DEF IsCommand
    <3>2. i # n + 1
      <4>1. ASSUME i = n + 1 PROVE Emergency(r, i)
        <5>1. n + 1 < n + 2 /\ n + 1 + 1 = n + 2
          BY <1>1
        <5> QED
          BY <1>4, <1>5, <4>1, <5>1 DEF Emergency
      <4> QED
        BY <1>6, <4>1
    <3> QED
      BY <1>1, <1>4, <3>1, <3>2
  <2>2. \A k \in 1 .. n : r[k] = p[k]
    <3>1. \A k \in 1 .. n : k \in 1 .. n + 1
      BY <1>1
    <3> QED
      BY <1>1, <1>4, <3>1
  <2>3. IsCommand(p[i])
    BY <1>6, <2>1, <2>2
  <2>4. ~Emergency(p, i)
    <3>1. i < n => i + 1 \in 1 .. n /\ i < n + 2
      BY <1>1, <2>1
    <3> QED
      BY <1>5, <1>6, <2>2, <3>1 DEF Emergency
  <2>5. PICK j \in 1 .. i - 1 :
         /\ p[j].type = "nodeStart" /\ Depth(p, j, i) = 1
         /\ \A k \in j + 1 .. i - 1 : Depth(p, k, i) < 1
         /\ Ast[p[j].node].kind = p[i].command
    BY <1>1, <2>1, <2>3, <2>4 DEF UnderIssuer
  <2>6. \A k \in 1 .. n : Depth(r, k, i) = Depth(p, k, i)
    <3>1. i \in Int /\ i <= n + 1 /\ n \in Nat /\ \A k \in 1 .. n : k \in Nat \ {0}
      BY <1>1, <2>1
    <3> HIDE DEF n
    <3>2. ASSUME NEW k \in Nat \ {0} PROVE Depth(r, k, i) = Depth(p, k, i)
      <4>1. \A l \in k .. i - 1 : r[l] = p[l]
        BY <2>2, <3>1
      <4> QED
        BY <4>1 DEF Depth
    <3> QED
      BY <3>1, <3>2
  <2>7. j \in 1 .. n /\ \A k \in j + 1 .. i - 1 : k \in 1 .. n
    BY <1>1, <2>1
  <2> QED
    BY <2>1, <2>2, <2>5, <2>6, <2>7
<1> QED
  BY <1>6 DEF UnderIssuer, r, q

-----------------------------------------------------------------------------
(***************************************************************************)
(* What a step of the engine does to the open nodes, by what it reports.   *)
(***************************************************************************)
Elsewhere == {"programStart", "programDone", "programError", "nodeSkipped", "sensorRead", "robotCommand"}

Reported(m, o, r) ==
    \/ m.type = "nodeStart" /\ Highlightable(m.node) /\ r = Append(o, m.node)
    \/ m.type = "nodeDone" /\ o # <<>> /\ Highlightable(o[Len(o)]) /\ r = SubSeq(o, 1, Len(o) - 1)
    \/ m.type \in Elsewhere /\ r = o
    \/ m.type = "nodeError" /\ r = <<>>

Unreported(o, r) ==
    \/ r = o \/ r = <<>>
    \/ \E n : ~Highlightable(n) /\ r = Append(o, n)
    \/ o # <<>> /\ ~Highlightable(o[Len(o)]) /\ r = SubSeq(o, 1, Len(o) - 1)

LEMMA Seen ==
    ASSUME IInv, StreamInv, EngineStep
    PROVE  \/ out' = out /\ Unreported(Open, Open')
           \/ \E m : out' = Append(out, m) /\ Reported(m, Open, Open')
<1>1. Stream!Next \/ UNCHANGED <<program, out, Phase, Open>>
  <2>1. Interpret \/ Reads
    BY AnswersRead DEF EngineStep
  <2> QED
    BY <2>1, FollowWork DEF Follows
<1>2. CASE UNCHANGED <<program, out, Phase, Open>>
  BY <1>2 DEF Unreported
<1>3. ASSUME NEW n, Stream!Enter(n)
      PROVE  \/ out' = out /\ Unreported(Open, Open')
             \/ \E m : out' = Append(out, m) /\ Reported(m, Open, Open')
  <2> DEFINE m == [type |-> "nodeStart", node |-> n, id |-> Stream!IdOf(n)]
  <2>1. /\ Open' = Append(Open, n)
        /\ out' = IF Highlightable(n) THEN Append(out, m) ELSE out
    BY <1>3, SameTree DEF Stream!Enter, Stream!Event
  <2>2. m.type = "nodeStart" /\ m.node = n
    OBVIOUS
  <2> HIDE DEF m
  <2> QED
    BY <2>1, <2>2 DEF Reported, Unreported
<1>4. CASE Stream!Leave
  <2> DEFINE m == [type |-> "nodeDone", node |-> Stream!innermost, id |-> Stream!IdOf(Stream!innermost)]
  <2>1. /\ Open # <<>> /\ Open' = SubSeq(Open, 1, Len(Open) - 1)
        /\ out' = IF Highlightable(Open[Len(Open)]) THEN Append(out, m) ELSE out
    BY <1>4, SameTree DEF Stream!Leave, Stream!Event, Stream!innermost
  <2>2. m.type = "nodeDone"
    OBVIOUS
  <2> HIDE DEF m
  <2> QED
    BY <2>1, <2>2 DEF Reported, Unreported
<1>5. CASE Stream!Fail
  <2>1. Open' = <<>> /\ (out' = out \/ \E n : out' = Append(out, [type |-> "nodeError", node |-> n, id |-> Stream!IdOf(n)]))
    BY <1>5 DEF Stream!Fail, Stream!Event
  <2>2. \A n : [type |-> "nodeError", node |-> n, id |-> Stream!IdOf(n)].type = "nodeError"
    OBVIOUS
  <2> QED
    BY <2>1, <2>2 DEF Reported, Unreported
<1>6. CASE Stream!Start \/ Stream!Move \/ Stream!Stop \/ Stream!End \/ Stream!Vanish
             \/ (\E n : Stream!Skip(n)) \/ (\E v : Stream!Sense(v))
  <2>1. Open' = Open
    BY <1>6 DEF Stream!Start, Stream!Move, Stream!Stop, Stream!End, Stream!Vanish, Stream!Skip, Stream!Sense
  <2>2. out' = out \/ \E m : out' = Append(out, m) /\ m.type \in Elsewhere
    <3>1. CASE Stream!Start \/ Stream!End \/ Stream!Vanish
      <4>1. \/ out' = out \/ out' = Append(out, [type |-> "programStart"])
            \/ out' = Append(out, [type |-> "programError"]) \/ out' = Append(out, [type |-> "programDone"])
        BY <3>1 DEF Stream!Start, Stream!End, Stream!Vanish
      <4>2. \A t : [type |-> t].type = t
        OBVIOUS
      <4>3. PICK t \in Elsewhere : out' = out \/ out' = Append(out, [type |-> t])
        BY <4>1 DEF Elsewhere
      <4> QED
        BY <4>2, <4>3
    <3>2. CASE Stream!Move \/ Stream!Stop
      <4>1. \A k, a : [type |-> "robotCommand", command |-> k, args |-> a].type = "robotCommand"
        OBVIOUS
      <4>2. PICK k, a : out' = Append(out, [type |-> "robotCommand", command |-> k, args |-> a])
        BY <3>2 DEF Stream!Move, Stream!Stop
      <4> QED
        BY <4>1, <4>2 DEF Elsewhere
    <3>3. CASE \E n : Stream!Skip(n)
      BY <3>3 DEF Stream!Skip, Stream!Event, Elsewhere
    <3>4. CASE \E v : Stream!Sense(v)
      BY <3>4 DEF Stream!Sense, Elsewhere
    <3> QED
      BY <1>6, <3>1, <3>2, <3>3, <3>4
  <2> QED
    BY <2>1, <2>2 DEF Reported, Unreported
<1> QED
  BY <1>1, <1>2, <1>3, <1>4, <1>5, <1>6 DEF Stream!Next

(* Where a command comes from, and what follows it.                        *)
FromNode(m) == pc = "inner" /\ pc' = "leave" /\ stack' = stack /\ kind \in Commands /\ m.command = kind

LEMMA Told ==
    ASSUME EngineStep
    PROVE  \/ out' = out
           \/ \E m : /\ out' = Append(out, m)
                     /\ IsCommand(m) => FromNode(m) \/ (pc = "finish" /\ pc' = "report")
<1>1. CASE Command
  <2> DEFINE m == RobotCommand(kind, top.vals)
  <2>1. out' = Append(out, m) /\ pc = "inner" /\ pc' = "leave" /\ stack' = stack /\ kind \in Commands
    BY <1>1 DEF Command, Emit, Inner, Return
  <2>2. m.command = kind
    BY DEF RobotCommand
  <2> HIDE DEF m
  <2> QED
    BY <2>1, <2>2 DEF FromNode
<1>2. CASE StopRobot
  BY <1>2 DEF StopRobot, Emit
<1>3. CASE Start \/ Finish
  BY <1>3 DEF Start, Finish, Emit, ProgramEvent, IsCommand
<1>4. CASE Begin \/ StepLimit \/ RuntimeError \/ Leave \/ ChooseBranch \/ SkipStatement
  <2>1. PICK t \in {"nodeStart", "nodeDone", "nodeError", "nodeSkipped"} :
            out' = out \/ \E n : out' = Append(out, NodeEvent(t, n))
    <3>1. CASE Begin \/ Leave
      BY <3>1 DEF Begin, Leave, Emit
    <3>2. CASE StepLimit \/ RuntimeError
      BY <3>2 DEF StepLimit, RuntimeError, Fail, Emit
    <3>3. CASE ChooseBranch
      BY <3>3 DEF ChooseBranch, Emit
    <3>4. CASE SkipStatement
      BY <3>4 DEF SkipStatement, Emit
    <3> QED
      BY <1>4, <3>1, <3>2, <3>3, <3>4
  <2>2. \A n : ~IsCommand(NodeEvent(t, n))
    BY DEF NodeEvent, IsCommand
  <2> QED
    BY <2>1, <2>2
<1>5. CASE HostAnswers
  <2>1. \E k, v : out' = Append(out, SensorRead(k, v))
    BY <1>5 DEF HostAnswers, ReadSensor, Emit
  <2>2. \A k, v : ~IsCommand(SensorRead(k, v))
    BY DEF SensorRead, IsCommand
  <2> QED
    BY <2>1, <2>2
<1>6. CASE Poll \/ Unwind \/ EvalOperand \/ Accumulate \/ Trap \/ GiveResult \/ Assign \/ EndIf
             \/ StartBody \/ Iterate \/ Call \/ NextStatement \/ EndBody
  BY <1>6 DEF Poll, Unwind, EvalOperand, Accumulate, Trap, GiveResult, Assign, EndIf, StartBody,
              Iterate, Call, NextStatement, EndBody
<1> QED
  BY <1>1, <1>2, <1>3, <1>4, <1>5, <1>6 DEF EngineStep, Interpret

(* A command is followed by the end of its node, or of the program.        *)
LEMMA ToldOff ==
    ASSUME EngineStep, (pc = "leave" /\ Highlightable(top.node)) \/ pc = "report"
    PROVE  \E m : /\ out' = Append(out, m)
                  /\ m.type = IF pc = "report" THEN "programError" ELSE "nodeDone"
<1>1. Leave \/ Finish
  BY DEF EngineStep, Interpret, HostAnswers, Start, Poll, Begin, StepLimit, RuntimeError,
         Unwind, StopRobot, EvalOperand, Accumulate, Trap, GiveResult, Assign,
         Command, ChooseBranch, EndIf, StartBody, Iterate, Call, NextStatement,
         SkipStatement, EndBody, Inner
<1>2. CASE Leave
  BY <1>2 DEF Leave, NodeEvent
<1>3. CASE Finish
  BY <1>3 DEF Finish, Emit, ProgramEvent
<1> QED
  BY <1>1, <1>2, <1>3

-----------------------------------------------------------------------------
(***************************************************************************)
(* The lines keep up with the open nodes.                                  *)
(***************************************************************************)
LEMMA MarkedOne ==
    ASSUME NEW o, Len(o) \in Nat, NEW k \in 1 .. Len(o), Highlightable(o[k])
    PROVE  Marked(o, k) \in Nat /\ Marked(o, k) >= 1
<1> DEFINE n == Len(o)
           A == {i \in k .. n : Highlightable(o[i])}
<1>1. IsFiniteSet(A) /\ k \in A
  <2>1. A \subseteq k .. n /\ k \in Int /\ n \in Int /\ k \in k .. n
    OBVIOUS
  <2> HIDE DEF n
  <2>2. IsFiniteSet(k .. n)
    BY <2>1, FS_Interval
  <2> QED
    BY <2>1, <2>2, FS_Subset
<1>2. Marked(o, k) = Cardinality(A)
  BY DEF Marked
<1> HIDE DEF A, n
<1>3. Cardinality(A) \in Nat /\ Cardinality(A) # 0
  BY <1>1, FS_CardinalityType, FS_EmptySet
<1> QED
  BY <1>2, <1>3

(* One node more than before.                                              *)
LEMMA Pushed ==
    ASSUME NEW o, \E S : o \in Seq(S), NEW n
    PROVE  LET r == Append(o, n)
           IN  /\ Len(o) \in Nat /\ Len(r) = Len(o) + 1 /\ r[Len(r)] = n
               /\ \A k \in 1 .. Len(o) : r[k] = o[k]
<1> DEFINE r == Append(o, n)
<1>1. /\ \E S : r \in Seq(S)
      /\ Len(o) \in Nat /\ DOMAIN r = 1 .. Len(o) + 1
      /\ \A k \in 1 .. Len(o) : r[k] = o[k]
      /\ r[Len(o) + 1] = n
  BY AnySeq
<1> HIDE DEF r
<1>2. DOMAIN r = 1 .. Len(r) /\ Len(r) \in Nat
  BY <1>1, AnySeq
<1>3. Len(r) = Len(o) + 1
  BY <1>1, <1>2
<1>4. /\ Len(o) \in Nat /\ Len(r) = Len(o) + 1 /\ r[Len(r)] = n
      /\ \A k \in 1 .. Len(o) : r[k] = o[k]
  BY <1>1, <1>3
<1> QED
  BY <1>4 DEF r

(* One node less.                                                          *)
LEMMA Popped ==
    ASSUME NEW o, \E S : o \in Seq(S), o # <<>>
    PROVE  LET r == SubSeq(o, 1, Len(o) - 1)
           IN  /\ Len(r) \in Nat /\ Len(o) = Len(r) + 1
               /\ \A k \in 1 .. Len(r) : o[k] = r[k]
<1>1. PICK S : o \in Seq(S)
  OBVIOUS
<1> DEFINE r == Front(o)
<1>2. /\ Len(o) \in Nat \ {0} /\ Len(r) = Len(o) - 1
      /\ \A k \in 1 .. Len(o) - 1 : r[k] = o[k]
  BY <1>1, FrontProperties
<1>3. r = SubSeq(o, 1, Len(o) - 1)
  BY DEF Front
<1> HIDE DEF r
<1>4. /\ Len(r) \in Nat /\ Len(o) = Len(r) + 1
      /\ \A k \in 1 .. Len(r) : o[k] = r[k]
  BY <1>2
<1> QED
  BY <1>3, <1>4

LEMMA NestMessage ==
    ASSUME NEW p, \E S : p \in Seq(S), NEW o, \E S : o \in Seq(S), Nest(p, o),
           NEW m, NEW r, Reported(m, o, r)
    PROVE  Nest(Append(p, m), r)
<1> DEFINE Fits(k) ==
               \/ /\ k \in 1 .. Len(o) /\ r[k] = o[k] /\ Marked(o, k) \in Nat
                  /\ Marked(r, k) = Marked(o, k) + Change(m) /\ Marked(r, k) >= 1
               \/ m.type = "nodeStart" /\ m.node = r[k] /\ Marked(r, k) = 1
<1>1. ASSUME NEW k \in 1 .. Len(r), Highlightable(r[k])
      PROVE  Fits(k)
  <2>1. CASE m.type = "nodeStart" /\ Highlightable(m.node) /\ r = Append(o, m.node)
    <3>1. /\ Len(o) \in Nat /\ Len(r) = Len(o) + 1 /\ r[Len(r)] = m.node
          /\ \A i \in 1 .. Len(o) : r[i] = o[i]
      BY <2>1, Pushed
    <3>2. /\ Marked(o, k) \in Nat
          /\ Marked(r, k) = Marked(o, k) + 1
          /\ k = Len(r) => Marked(o, k) = 0
      BY <2>1, <3>1, MarkedNext
    <3>3. CASE k = Len(r)
      BY <2>1, <3>1, <3>2, <3>3
    <3>4. CASE k # Len(r)
      <4>1. k \in 1 .. Len(o) /\ Change(m) = 1
        BY <2>1, <3>1, <3>4 DEF Change
      <4>2. Marked(r, k) >= 1
        BY <3>2
      <4> QED
        BY <3>1, <3>2, <4>1, <4>2
    <3> QED
      BY <3>3, <3>4
  <2>2. CASE m.type = "nodeDone" /\ o # <<>> /\ Highlightable(o[Len(o)]) /\ r = SubSeq(o, 1, Len(o) - 1)
    <3>1. /\ Len(r) \in Nat /\ Len(o) = Len(r) + 1
          /\ \A i \in 1 .. Len(r) : o[i] = r[i]
      BY <2>2, Popped
    <3>2. k \in 1 .. Len(o) /\ k <= Len(r) /\ Change(m) = -1
      BY <2>2, <3>1 DEF Change
    <3>3. /\ Marked(r, k) \in Nat
          /\ Marked(o, k) = Marked(r, k) + 1
          /\ Marked(r, k) >= 1
      BY <1>1, <2>2, <3>1, <3>2, MarkedNext
    <3>4. Marked(o, k) \in Nat /\ Marked(r, k) = Marked(o, k) + (-1)
      BY <3>3
    <3> QED
      BY <3>1, <3>2, <3>3, <3>4
  <2>3. CASE m.type \in Elsewhere /\ r = o
    <3>1. Change(m) = 0
      BY <2>3 DEF Elsewhere, Change
    <3>2. Len(o) \in Nat
      BY AnySeq
    <3>3. Marked(o, k) \in Nat /\ Marked(o, k) >= 1
      BY <1>1, <2>3, <3>2, MarkedOne
    <3>4. Marked(o, k) = Marked(o, k) + 0
      BY <3>3
    <3> QED
      BY <2>3, <3>1, <3>3, <3>4
  <2>4. CASE r = <<>>
    <3>1. 1 .. Len(r) = {}
      BY <2>4
    <3> QED
      BY <3>1
  <2> QED
    BY <2>1, <2>2, <2>3, <2>4 DEF Reported
<1> QED
  BY <1>1, NestStep

LEMMA NestUnreported ==
    ASSUME NEW p, NEW o, \E S : o \in Seq(S), Nest(p, o), NEW r, Unreported(o, r)
    PROVE  Nest(p, r)
<1>1. ASSUME NEW k \in 1 .. Len(r), Highlightable(r[k])
      PROVE  k \in 1 .. Len(o) /\ r[k] = o[k] /\ Marked(r, k) = Marked(o, k)
  <2>1. ASSUME NEW n, ~Highlightable(n), r = Append(o, n)
        PROVE  k \in 1 .. Len(o) /\ r[k] = o[k] /\ Marked(r, k) = Marked(o, k)
    <3>1. /\ Len(o) \in Nat /\ Len(r) = Len(o) + 1 /\ r[Len(r)] = n
          /\ \A i \in 1 .. Len(o) : r[i] = o[i]
      BY <2>1, Pushed
    <3>2. k # Len(r) /\ k \in 1 .. Len(o)
      BY <1>1, <2>1, <3>1
    <3>3. Marked(o, k) \in Nat /\ Marked(r, k) = Marked(o, k) + 0
      BY <2>1, <3>1, MarkedNext
    <3> QED
      BY <3>1, <3>2, <3>3
  <2>2. CASE o # <<>> /\ ~Highlightable(o[Len(o)]) /\ r = SubSeq(o, 1, Len(o) - 1)
    <3>1. /\ Len(r) \in Nat /\ Len(o) = Len(r) + 1
          /\ \A i \in 1 .. Len(r) : o[i] = r[i]
      BY <2>2, Popped
    <3>2. k \in 1 .. Len(o)
      BY <3>1
    <3>3. Marked(r, k) \in Nat /\ Marked(o, k) = Marked(r, k) + 0
      BY <2>2, <3>1, <3>2, MarkedNext
    <3> QED
      BY <3>1, <3>2, <3>3
  <2>3. CASE r = <<>>
    <3>1. 1 .. Len(r) = {}
      BY <2>3
    <3> QED
      BY <3>1
  <2> QED
    BY <2>1, <2>2, <2>3 DEF Unreported
<1> QED
  BY <1>1, NestStay

(* The commands that were not printed: none, or the last one.              *)
LEMMA NoneLeft ==
    ASSUME \E S : printed \in Seq(S), \E S : commands \in Seq(S), emitted = Len(commands)
    PROVE  Flushed = printed
<1>1. PICK S : printed \in Seq(S)
  OBVIOUS
<1>2. PICK R : commands \in Seq(R)
  OBVIOUS
<1> DEFINE n == Len(commands)
           t == SubSeq(commands, n + 1, n)
<1>3. n \in Nat
  BY <1>2, LenProperties
<1>4. t = <<>>
  <2>1. t = [i \in 1 .. 0 |-> commands[n + 1 + i - 1]]
    <3> HIDE DEF n
    <3>1. n - (n + 1) + 1 = 0
      BY <1>3
    <3> QED
      BY <1>2, <1>3, <3>1
  <2> QED
    BY <2>1
<1> HIDE DEF t
<1>5. printed \o <<>> = printed
  BY <1>1
<1> QED
  BY <1>4, <1>5 DEF Flushed, t

LEMMA OneLeft ==
    ASSUME \E S : printed \in Seq(S), \E S : commands \in Seq(S), emitted \in Nat,
           emitted + 1 = Len(commands)
    PROVE  Flushed = Append(printed, commands[Len(commands)])
<1>1. PICK S : printed \in Seq(S)
  OBVIOUS
<1>2. PICK R : commands \in Seq(R)
  OBVIOUS
<1> DEFINE n == Len(commands)
           c == commands[n]
           t == SubSeq(commands, n, n)
<1>3. n \in Nat \ {0} /\ c \in R
  <2>1. n \in Nat \ {0}
    BY <1>2, LenProperties
  <2> QED
    BY <1>2, <2>1, ElementOfSeq
<1>4. /\ t \in Seq(R) /\ Len(t) = 1 /\ t[1] = c
  <2>1. /\ t \in Seq(R) /\ Len(t) = (IF n <= n THEN n - n + 1 ELSE 0)
        /\ \A i \in 1 .. n - n + 1 : t[i] = commands[n + i - 1]
    <3>1. n \in Int /\ \A i \in n .. n : commands[i] \in R
      BY <1>3
    <3> HIDE DEF n
    <3> QED
      BY <3>1, SubSeqProperties
  <2>2. n - n + 1 = 1 /\ n + 1 - 1 = n /\ n <= n /\ 1 \in 1 .. 1
    BY <1>3
  <2> HIDE DEF t, n
  <2>3. t[1] = commands[n + 1 - 1]
    BY <2>1, <2>2
  <2> QED
    BY <2>1, <2>2, <2>3
<1> HIDE DEF t, c
<1>5. t = <<c>>
  BY <1>4
<1>6. printed \o <<c>> = Append(printed, c)
  <2>1. printed \in Seq(S \cup R) /\ c \in S \cup R
    BY <1>1, <1>3, WiderSeq
  <2> QED
    BY <2>1
<1>7. emitted + 1 = n
  OBVIOUS
<1>8. Flushed = printed \o t
  BY <1>7 DEF Flushed, t
<1> QED
  BY <1>5, <1>6, <1>8 DEF c, n

-----------------------------------------------------------------------------
(***************************************************************************)
(* The inductive invariant: the innermost open node is the issuer of the   *)
(* command that was not printed yet, and the next event will print it.     *)
(***************************************************************************)
latest == commands[Len(commands)]

Issued ==
    \/ emitted = Len(commands)
    \/ /\ emitted + 1 = Len(commands) /\ IsCommand(latest)
       /\ \/ pc = "report"
          \/ pc = "leave" /\ kind \in Commands /\ kind = latest.command

PrintInv ==
    /\ \E S : printed \in Seq(S)
    /\ \E S : commands \in Seq(S)
    /\ emitted \in Nat /\ Issued
    /\ Nest(printed, Open) /\ UnderIssuer(printed)
    /\ IF launched THEN StreamInv ELSE printed = <<>> /\ commands = <<>>

(* The lines are read with the program, which does not change.             *)
LEMMA SameReading ==
    ASSUME program' = program
    PROVE  /\ \A p, o : Nest(p, o)' <=> Nest(p, o)
           /\ \A p : UnderIssuer(p)' <=> UnderIssuer(p)
<1>1. Ast' = Ast /\ \A n : Highlightable(n)' <=> Highlightable(n)
  BY SameProgram DEF Highlightable
<1>2. \A p, j, i : Depth(p, j, i)' = Depth(p, j, i)
  BY DEF Depth
<1>3. \A o, k : Marked(o, k)' = Marked(o, k)
  BY <1>1 DEF Marked
<1>4. \A p, o, k, j : StartedAt(p, o, k, j)' <=> StartedAt(p, o, k, j)
  BY <1>2, <1>3 DEF StartedAt
<1>5. \A p, o : Nest(p, o)' <=> Nest(p, o)
  BY <1>1, <1>4 DEF Nest
<1>6. \A p, i : Emergency(p, i)' <=> Emergency(p, i)
  BY DEF Emergency
<1>7. \A p : UnderIssuer(p)' <=> UnderIssuer(p)
  BY <1>1, <1>2, <1>6 DEF UnderIssuer
<1> QED
  BY <1>5, <1>7

(* Nothing is open and nothing is printed before the program starts.       *)
Nothing == printed = <<>> /\ commands = <<>> /\ emitted = 0 /\ stack = <<>>

LEMMA PrintNothing ==
    /\ Nothing /\ (launched => StreamInv) => PrintInv
    /\ Nothing' /\ (launched => StreamInv)' => PrintInv'
<1>1. <<>> \in Seq({}) /\ Len(<<>>) = 0 /\ 1 .. 0 = {} /\ DOMAIN <<>> = {} /\ 0 \in Nat
  OBVIOUS
<1>2. (stack = <<>> => Open = <<>>) /\ (stack' = <<>> => Open' = <<>>)
  <2>1. [i \in 1 .. Len(<<>>) |-> <<>>[i].node] = <<>>
    OBVIOUS
  <2> QED
    BY <2>1 DEF Open
<1>3. Nest(<<>>, <<>>) /\ UnderIssuer(<<>>) /\ Nest(<<>>, <<>>)' /\ UnderIssuer(<<>>)'
  BY <1>1 DEF Nest, UnderIssuer
<1> QED
  BY <1>1, <1>2, <1>3 DEF PrintInv, Issued, Nothing

(* What an event prints.                                                   *)
LEMMA PrintEvent ==
    ASSUME IInv, PrintInv, launched, EngineStep, program' = program, launched',
           NEW m, out' = Append(out, m), \E S : out \in Seq(S), StreamInv',
           Reported(m, Open, Open'), OnEvent(m),
           commands' = IF IsCommand(m) THEN Append(commands, m) ELSE commands,
           IsCommand(m) => FromNode(m) \/ (pc = "finish" /\ pc' = "report")
    PROVE  PrintInv'
<1> DEFINE flushing == {"programDone", "programError", "nodeDone"}
<1>1. StreamInv /\ InterpreterOK
  BY DEF PrintInv, IInv
<1>2. \E S : Open \in Seq(S)
  <2>1. CASE ~errored /\ ~cancelled
    BY <1>1, <2>1, OpenFacts
  <2>2. CASE errored \/ cancelled
    <3>1. <<>> \in Seq({})
      OBVIOUS
    <3> QED
      BY <2>2, <3>1 DEF Open
  <2> QED
    BY <2>1, <2>2
<1>3. \A x : Append(out, x) = Append(out, m) => x = m
  BY AnySeq
<1>4. CASE emitted = Len(commands) /\ m.type \in flushing
  <2>1. printed' = Append(printed, m) /\ emitted' = Len(commands) /\ commands' = commands
    BY <1>4, NoneLeft DEF PrintInv, OnEvent, Prints, IsCommand
  <2>2. (\E S : printed' \in Seq(S)) /\ (\E S : commands' \in Seq(S)) /\ emitted' \in Nat /\ Issued'
    BY <1>4, <2>1, AnySeq DEF PrintInv, Issued
  <2>3. Nest(printed', Open') /\ UnderIssuer(printed')
    <3>1. ~IsCommand(m)
      BY <1>4 DEF IsCommand
    <3> QED
      BY <1>2, <2>1, <3>1, NestMessage, UnderOther DEF PrintInv
  <2> QED
    BY <2>2, <2>3, SameReading DEF PrintInv
<1>5. CASE emitted = Len(commands) /\ m.type \notin flushing
  <2>1. /\ printed' = IF m.type \in Shown THEN Append(printed, m) ELSE printed
        /\ emitted' = emitted
    BY <1>5 DEF OnEvent, Prints
  <2>2. \E S : printed' \in Seq(S)
    BY <2>1, AnySeq DEF PrintInv
  <2>3. (\E S : commands' \in Seq(S)) /\ Issued'
    <3>1. CASE ~IsCommand(m)
      BY <1>5, <2>1, <3>1 DEF PrintInv, Issued
    <3>2. CASE IsCommand(m)
      <4>1. /\ \E S : commands' \in Seq(S)
            /\ Len(commands) \in Nat /\ Len(commands') = Len(commands) + 1
            /\ commands'[Len(commands')] = m
        BY <3>2, AnySeq, Pushed DEF PrintInv
      <4>2. pc' = "report" \/ (pc' = "leave" /\ kind' \in Commands /\ kind' = m.command)
        <5>1. FromNode(m) => kind' = kind
          BY SameProgram DEF FromNode, kind, top
        <5> QED
          BY <3>2, <5>1 DEF FromNode
      <4> QED
        BY <1>5, <2>1, <3>2, <4>1, <4>2 DEF Issued, latest
    <3> QED
      BY <3>1, <3>2
  <2>4. Nest(printed', Open') /\ UnderIssuer(printed')
    <3>1. CASE m.type \in Shown
      <4>1. ~IsCommand(m)
        BY <3>1 DEF Shown, IsCommand
      <4> QED
        BY <1>2, <2>1, <3>1, <4>1, NestMessage, UnderOther DEF PrintInv
    <3>2. CASE m.type \notin Shown
      <4>1. Open' = Open
        BY <3>2 DEF Reported, Shown
      <4> QED
        BY <2>1, <3>2, <4>1 DEF PrintInv
    <3> QED
      BY <3>1, <3>2
  <2> QED
    BY <2>1, <2>2, <2>3, <2>4, SameReading DEF PrintInv
<1>6. CASE emitted # Len(commands)
  <2>1. /\ emitted \in Nat /\ emitted + 1 = Len(commands) /\ IsCommand(latest)
        /\ \/ pc = "report"
           \/ pc = "leave" /\ kind \in Commands /\ kind = latest.command
    BY <1>6 DEF PrintInv, Issued
  <2>2. m.type = IF pc = "report" THEN "programError" ELSE "nodeDone"
    <3>1. pc = "leave" => Highlightable(top.node)
      BY <2>1 DEF kind, Highlightable, HighlightableKinds
    <3> QED
      BY <1>3, <2>1, <3>1, ToldOff
  <2>3. Flushed = Append(printed, latest)
    BY <2>1, OneLeft DEF PrintInv, latest
  <2>4. m.type \in flushing /\ ~IsCommand(m)
    BY <2>2 DEF IsCommand
  <2>5. printed' = Append(Append(printed, latest), m) /\ emitted' = Len(commands) /\ commands' = commands
    BY <2>3, <2>4 DEF OnEvent, Prints
  <2>6. \E S : Append(printed, latest) \in Seq(S)
    BY AnySeq DEF PrintInv
  <2>7. (\E S : printed' \in Seq(S)) /\ (\E S : commands' \in Seq(S)) /\ emitted' \in Nat /\ Issued'
    BY <2>1, <2>5, <2>6, AnySeq DEF PrintInv, Issued
  <2>8. Nest(printed', Open')
    <3>1. Reported(latest, Open, Open)
      BY <2>1 DEF Reported, IsCommand, Elsewhere
    <3>2. Nest(Append(printed, latest), Open)
      BY <1>2, <3>1, NestMessage DEF PrintInv
    <3> QED
      BY <1>2, <2>5, <2>6, <3>2, NestMessage
  <2>9. UnderIssuer(printed')
    <3>1. CASE pc = "report"
      BY <2>2, <2>5, <3>1, UnderEmergency DEF PrintInv
    <3>2. CASE pc = "leave"
      <4>1. /\ Open # <<>> /\ Open[Len(Open)] = top.node
        BY <1>1, <3>2, Running DEF Stream!innermost
      <4>2. Len(Open) \in Nat \ {0}
        BY <1>2, <4>1, EmptySeq
      <4>3. Highlightable(top.node) /\ Ast[top.node].kind = latest.command
        BY <2>1, <3>2 DEF kind, Highlightable, HighlightableKinds
      <4>4. UnderIssuer(Append(printed, latest))
        BY <4>1, <4>2, <4>3, UnderCommand DEF PrintInv
      <4> QED
        BY <2>4, <2>5, <2>6, <4>4, UnderOther
    <3> QED
      BY <2>1, <3>1, <3>2
  <2> QED
    BY <2>7, <2>8, <2>9, SameReading DEF PrintInv
<1> QED
  BY <1>4, <1>5, <1>6

(* The engine takes a step.                                                *)
LEMMA PrintInterpreting ==
    ASSUME RunInv, PrintInv, Interpreting
    PROVE  PrintInv'
<1>1. EngineStep /\ Run /\ launched' = launched
  BY DEF Interpreting, Run
<1>2. UNCHANGED <<program, limits, cancel>>
  BY <1>1 DEF EngineStep, Interpret, HostAnswers, Start, Poll, Begin, StepLimit, RuntimeError, Fail,
              Leave, Unwind, StopRobot, Finish, EvalOperand, Accumulate, Trap, GiveResult, Assign,
              Command, ReadSensor, ChooseBranch, EndIf, StartBody, Iterate, Call, NextStatement,
              SkipStatement, EndBody, given
<1>3. launched /\ IInv /\ out \in Seq(Messages)
  <2>1. pc # "over"
    BY <1>1 DEF EngineStep, Interpret, HostAnswers, Start, Poll, Begin, StepLimit, RuntimeError,
                Leave, Unwind, StopRobot, Finish, EvalOperand, Accumulate, Trap, GiveResult, Assign,
                Command, ChooseBranch, EndIf, StartBody, Iterate, Call, NextStatement,
                SkipStatement, EndBody, Inner
  <2> QED
    BY <2>1 DEF RunInv, Untouched, AllSendable
<1>4. StreamInv /\ StreamInv' /\ launched'
  BY <1>1, <1>3, StreamStep DEF PrintInv, Next
<1>5. \A m : /\ Append(out, m) # out
             /\ Last(Append(out, m)) = m
             /\ \A x : Append(out, x) = Append(out, m) => x = m
  <2> TAKE m
  <2>1. Last(Append(out, m)) = m /\ Append(out, m) # out
    <3> DEFINE r == Append(out, m)
    <3>1. Len(r) = Len(out) + 1 /\ Len(out) \in Nat /\ r[Len(r)] = m
      BY <1>3, Pushed
    <3> HIDE DEF r
    <3>2. Len(r) # Len(out) /\ Last(r) = m
      BY <3>1 DEF Last
    <3> QED
      BY <3>2 DEF r
  <2>2. \A x : Append(out, x) = Append(out, m) => x = m
    BY <1>3, AnySeq
  <2> QED
    BY <2>1, <2>2
<1>6. CASE out' = out
  <2>1. UNCHANGED output
    BY <1>6 DEF Interpreting
  <2>2. Unreported(Open, Open')
    BY <1>1, <1>3, <1>4, <1>5, <1>6, Seen
  <2>3. \E S : Open \in Seq(S)
    <3>1. <<>> \in Seq({})
      OBVIOUS
    <3> QED
      BY <1>3, <3>1, OpenFacts DEF Open, IInv
  <2>4. emitted = Len(commands)
    <3>1. pc = "leave" /\ kind \in Commands => Highlightable(top.node)
      BY DEF kind, Highlightable, HighlightableKinds
    <3>2. \A m : out' # Append(out, m)
      BY <1>5, <1>6
    <3> QED
      BY <1>1, <3>1, <3>2, ToldOff DEF PrintInv, Issued
  <2>5. Nest(printed', Open') /\ UnderIssuer(printed')
    BY <2>1, <2>2, <2>3, NestUnreported DEF PrintInv, output
  <2> QED
    BY <1>2, <1>4, <2>1, <2>4, <2>5, SameReading DEF PrintInv, Issued, output
<1>7. CASE out' # out
  <2>1. PICK m : out' = Append(out, m) /\ Reported(m, Open, Open')
    BY <1>1, <1>3, <1>4, <1>7, Seen
  <2>2. IsCommand(m) => FromNode(m) \/ (pc = "finish" /\ pc' = "report")
    BY <1>1, <1>5, <1>7, <2>1, Told
  <2>3. OnEvent(m) /\ commands' = IF IsCommand(m) THEN Append(commands, m) ELSE commands
    BY <1>5, <1>7, <2>1 DEF Interpreting
  <2> QED
    BY <1>1, <1>2, <1>3, <1>4, <2>1, <2>2, <2>3, PrintEvent
<1> QED
  BY <1>6, <1>7

(* Compiling prints nothing and opens nothing.                             *)
LEMMA PrintBefore ==
    ASSUME RunInv, PrintInv, Compile \/ Execute, UNCHANGED output
    PROVE  PrintInv'
<1>1. ~launched /\ stack' = <<>>
  <2>1. CASE Compile
    <3>1. stage # "over"
      BY <2>1 DEF Compile, C!Next, C!CollectSignatures, C!CompileAtom, C!RefuseForm, C!OpenForm,
             C!CloseForm, C!Finish, C!More
    <3> QED
      BY <2>1, <3>1 DEF RunInv, C!Ok, Untouched, Compile
  <2>2. CASE Execute
    BY <2>2 DEF Execute, RunInv, Untouched
  <2> QED
    BY <2>1, <2>2
<1>2. printed = <<>> /\ commands = <<>> /\ emitted = 0
  <2>1. Len(<<>>) = 0 /\ \A n \in Nat : n + 1 # 0
    OBVIOUS
  <2> QED
    BY <1>1, <2>1 DEF PrintInv, Issued
<1>3. launched' => StreamInv'
  <2>1. CASE Compile
    BY <1>1, <2>1 DEF Compile
  <2>2. CASE Execute
    <3>1. /\ pc' = "start" /\ cur' = root /\ program' = program
          /\ ~errored' /\ ~cancelled'
      BY <1>1, <2>2 DEF Execute, RunInv, Untouched, flags, given
    <3>2. OnPath'
      <4>1. \A i \in 1 .. Len(<<>>) : FALSE
        OBVIOUS
      <4> QED
        BY <1>1, <3>1, <4>1, SameProgram DEF OnPath
    <3> QED
      BY <3>1, <3>2 DEF StreamInv, FlagsOK
  <2> QED
    BY <2>1, <2>2
<1> QED
  BY <1>1, <1>2, <1>3, PrintNothing DEF Nothing, output

LEMMA PrintRests ==
    ASSUME PrintInv, UNCHANGED <<runVars, output>>
    PROVE  PrintInv'
<1>1. UNCHANGED <<program, pc, cur, stack, errored, cancelled, launched, commands, emitted, printed>>
  BY DEF runVars, vars, interpreter, output
<1>2. Open' = Open /\ kind' = kind /\ latest' = latest
  BY <1>1, SameProgram DEF Open, kind, top, latest
<1>3. launched => StreamInv'
  <2>1. UNCHANGED vars
    BY DEF runVars
  <2> QED
    BY <2>1, FollowOthers DEF PrintInv
<1> QED
  BY <1>1, <1>2, <1>3, SameReading DEF PrintInv, Issued

(* "the ROBOT line for each command appears under the node that issued it" *)
(* (cardcode_run.cpp:13-14): it does, in every program, under all limits   *)
(* and for every answer of the sensors.                                    *)
THEOREM UnderTheirIssuer == RunnerSpec => []PrintedUnderIssuer
<1>1. RunnerInit => PrintInv
  <2> SUFFICES ASSUME RunnerInit PROVE PrintInv
    OBVIOUS
  <2> QED
    BY PrintNothing DEF Nothing, RunnerInit, RunInit
<1>2. RunInv /\ PrintInv /\ [RunnerNext]_runnerVars => PrintInv'
  <2> SUFFICES ASSUME RunInv, PrintInv, [RunnerNext]_runnerVars PROVE PrintInv'
    OBVIOUS
  <2>1. \/ Interpreting
        \/ (Compile \/ Execute) /\ UNCHANGED output
        \/ UNCHANGED <<runVars, output>>
    BY DEF RunnerNext, CannotOpen, CompilationFailed, Main, Interpreting, Exit, RunnerOver, runnerVars
  <2> QED
    BY <2>1, PrintInterpreting, PrintBefore, PrintRests
<1>3. PrintInv => PrintedUnderIssuer
  BY DEF PrintInv, PrintedUnderIssuer
<1> QED
  BY <1>1, <1>2, <1>3, RunInductive, PTL DEF RunnerSpec
=============================================================================
