---------------------------- MODULE EngineProofs ----------------------------
(***************************************************************************)
(* What holds of the interpreter for every program, every set of limits,   *)
(* every sensor reading, every moment of a cancel and every width of the   *)
(* integers: it keeps its types and the bounds of its commands, obeys a    *)
(* cancel, implements RunStream, leaves the scopes of callers alone, and   *)
(* needs no more stack than the tree and the calls account for.            *)
(***************************************************************************)
EXTENDS Engine, SequenceFacts, TLAPS

(* A sensor read, whatever the host may answer.                            *)
Reads == \E v \in Ints : ReadSensor(v)

-----------------------------------------------------------------------------
(***************************************************************************)
(* Numbers.                                                                *)
(***************************************************************************)
(* Wrapping confines a result to the width of the type.                    *)
LEMMA WrapInts == \A x \in Int : Wrap(x) \in Ints
<1>1. MaxInt \in Nat
  BY BoundsAssumption
<1> TAKE x \in Int
<1> DEFINE w == 2 * (MaxInt + 1)
<1>2. w \in Int /\ w > 0
  BY <1>1
<1>3. (x + MaxInt + 1) % w \in 0 .. w - 1
  BY <1>1, <1>2
<1> QED
  BY <1>1, <1>3 DEF Wrap, Ints, MinInt

(* Division by anything but zero gives an integer.                         *)
LEMMA QuotientInt ==
    \A x, y \in Int : y # 0 => Quotient(x, y) \in Int
<1> TAKE x \in Int, y \in Int
<1> HAVE y # 0
<1>1. AbsVal(x) \in Int /\ AbsVal(y) \in Int /\ AbsVal(y) > 0
  BY DEF AbsVal
<1>2. AbsVal(x) \div AbsVal(y) \in Int
  BY <1>1
<1> QED
  BY <1>2 DEF Quotient

(* Arithmetic on values of the type gives values of the type.              *)
LEMMA ApplyInts ==
    ASSUME NEW o, NEW x \in Ints, NEW y \in Ints, o = "/" => y # 0,
           o \in {"+", "-", "*", "/"}
    PROVE  Apply(o, x, y) \in Ints
<1>1. x \in Int /\ y \in Int
  BY BoundsAssumption DEF Ints, MinInt
<1>2. x + y \in Int /\ x - y \in Int /\ x * y \in Int
  BY <1>1
<1>3. CASE o = "/"
  BY <1>1, <1>3, WrapInts, QuotientInt DEF Apply
<1>4. CASE o # "/"
  BY <1>2, <1>4, WrapInts DEF Apply
<1> QED
  BY <1>3, <1>4

(* What the constructors of struct Value return is a value.                *)
LEMMA ValueFacts ==
    /\ None \in Values
    /\ \A b \in BOOLEAN : Boolean(b) \in Values
    /\ \A i \in Ints : Integer(i) \in Values
    /\ \A c \in Colors : Color(c) \in Values
    /\ Unbound \notin Values
    /\ \A val \in Values :
          /\ val.v \in Ints
          /\ val.kind = "Integer" => val = Integer(val.v)
          /\ val.kind = "Color" => val.v \in Colors /\ val = Color(val.v)
<1>1. 0 \in Ints /\ 1 \in Ints /\ Colors \subseteq Ints
  BY BoundsAssumption DEF Ints, MinInt, Colors
<1>2. \A b \in BOOLEAN : Boolean(b) \in {Boolean(TRUE), Boolean(FALSE)}
  OBVIOUS
<1>3. \A i \in Ints : Integer(i) \in Values
  BY DEF Values
<1>4. \A c \in Colors : Color(c) \in Values
  BY DEF Values
<1>5. ASSUME NEW val \in Values
      PROVE  /\ val.v \in Ints /\ val # Unbound
             /\ val.kind = "Integer" => val = Integer(val.v)
             /\ val.kind = "Color" => val.v \in Colors /\ val = Color(val.v)
  BY <1>1 DEF Values, None, Boolean, Integer, Color, Unbound
<1> QED
  BY <1>2, <1>3, <1>4, <1>5 DEF Values

-----------------------------------------------------------------------------
(***************************************************************************)
(* The program and the frame on top.                                       *)
(***************************************************************************)
(* What the compiler guarantees, node by node.                             *)
LEMMA ProgramFacts ==
    ASSUME WellFormed(program)
    PROVE  /\ root \in Nodes
           /\ \A n \in Nodes :
                 /\ Ast[n].kind \in NodeKinds
                 /\ Ast[n].args \in Seq(Nodes)
                 /\ Ast[n].children \in Seq(Nodes)
                 /\ Ast[n].params \in Seq(Names)
                 /\ Ast[n].num \in Ints
                 /\ ArityOK(Ast[n])
                 /\ Ast[n].kind \in {"DefineVar", "SetVar", "VarRef"} => Ast[n].op \in Names
                 /\ Ast[n].kind = "ColorLiteral" => Ast[n].num \in Colors
<1>1. -MaxInt .. MaxInt \subseteq Ints
  BY BoundsAssumption DEF Ints, MinInt
<1> QED
  BY <1>1 DEF WellFormed, root, Ast, Nodes

LEMMA FunctionFacts ==
    ASSUME WellFormed(program)
    PROVE  /\ Functions \subseteq Nodes
           /\ \A name : Defined(name) => FunctionNamed(name) \in Nodes
<1>1. root \in Nodes /\ Ast[root].children \in Seq(Nodes)
  BY ProgramFacts
<1>2. \A i \in DOMAIN Ast[root].children : Ast[root].children[i] \in Nodes
  BY <1>1, ElementOfSeq, LenProperties
<1>3. Functions \subseteq Nodes
  BY <1>1, <1>2 DEF Functions, ToSet
<1> QED
  BY <1>3 DEF Defined, FunctionNamed

LEMMA BodyFacts ==
    ASSUME WellFormed(program), NEW n \in Nodes,
           Ast[n].kind = "Call" => Defined(Ast[n].op)
    PROVE  Body(n) \in Seq(Nodes)
BY ProgramFacts, FunctionFacts DEF Body

LEMMA TopFacts ==
    ASSUME InterpreterOK, stack # <<>>
    PROVE  /\ Len(stack) \in Nat \ {0}
           /\ top \in Frames
           /\ top.node \in Nodes
           /\ kind \in NodeKinds
           /\ ArityOK(Ast[top.node])
<1>1. stack \in Seq(Frames)
  BY DEF InterpreterOK
<1>2. Len(stack) \in Nat \ {0}
  BY <1>1, EmptySeq
<1>3. top \in Frames
  BY <1>1, <1>2, ElementOfSeq DEF top
<1>4. top.node \in Nodes
  BY <1>3 DEF Frames
<1> QED
  BY <1>2, <1>3, <1>4, ProgramFacts DEF InterpreterOK, kind

(* Nothing derived from the program changes while the program does not.    *)
LEMMA SameProgram ==
    ASSUME program' = program
    PROVE  /\ root' = root /\ Ast' = Ast /\ Nodes' = Nodes
           /\ Frames' = Frames /\ Messages' = Messages
           /\ \A f : FrameOK(f)' <=> FrameOK(f)
           /\ \A f : Waiting(f)' <=> Waiting(f)
           /\ \A f : Calling(f)' <=> Calling(f)
           /\ \A f : ScopeUnder(f)' = ScopeUnder(f)
BY DEF root, Ast, Nodes, Frames, Messages, IdOf, FirstNumbered, Highlightable, FrameOK, Waiting, Calling, ScopeUnder

LEMMA BindingsScope ==
    ASSUME WellFormed(program), NEW n \in Nodes, NEW vals \in Seq(Values)
    PROVE  Bindings(n, vals) \in Scopes
<1>1. \A i \in DOMAIN vals : vals[i] \in Values
  BY ElementOfSeq, LenProperties
<1> QED
  BY <1>1, ValueFacts DEF Bindings, Scopes, Slots

-----------------------------------------------------------------------------
(***************************************************************************)
(* The four things a step does to the stack.                               *)
(***************************************************************************)
LEMMA NestedSame ==
    ASSUME Nested, program' = program,
           stack' = stack, Len(env') = Len(env), callDepth' = callDepth
    PROVE  Nested'
<1>1. top' = top
  BY DEF top
<1> QED
  BY <1>1, SameProgram DEF Nested

LEMMA NestedTop ==
    ASSUME InterpreterOK, Nested, stack # <<>>, program' = program,
           NEW f \in Frames, FrameOK(f), f.scope = top.scope,
           stack' = [stack EXCEPT ![Len(stack)] = f],
           Len(env') = ScopeUnder(f), callDepth' = Len(env') - 1
    PROVE  Nested' /\ top' = f /\ stack' # <<>> /\ stack' \in Seq(Frames)
<1> DEFINE n == Len(stack)
<1>1. n \in Nat \ {0} /\ stack \in Seq(Frames)
  BY TopFacts DEF InterpreterOK
<1>2. /\ stack' \in Seq(Frames) /\ Len(stack') = n
      /\ \A i \in 1 .. n : stack'[i] = IF i = n THEN f ELSE stack[i]
  BY <1>1, ExceptSeq
<1>3. top' = f
  BY <1>1, <1>2 DEF top
<1>4. stack' # <<>>
  BY <1>1, <1>2, EmptySeq
<1>5. stack'[1].scope = 1
  BY <1>1, <1>2 DEF Nested, top
<1>6. /\ top = stack[n]
      /\ \A i \in 1 .. n :
            /\ FrameOK(stack[i])
            /\ stack[i].scope >= 1
            /\ i < n => /\ Waiting(stack[i])
                        /\ stack[i + 1].scope = ScopeUnder(stack[i])
  BY DEF Nested, top
<1> HIDE DEF n
<1>7. \A i \in 1 .. n : stack'[i].scope = stack[i].scope
  BY <1>2, <1>6
<1>8. \A i \in 1 .. n :
          /\ FrameOK(stack'[i])
          /\ stack'[i].scope >= 1
          /\ i < n => /\ Waiting(stack'[i])
                      /\ stack'[i + 1].scope = ScopeUnder(stack'[i])
  <2> TAKE i \in 1 .. n
  <2>1. FrameOK(stack'[i]) /\ stack'[i].scope >= 1
    BY <1>2, <1>6, <1>7
  <2>2. ASSUME i < n
        PROVE  /\ Waiting(stack'[i])
               /\ stack'[i + 1].scope = ScopeUnder(stack'[i])
    <3>1. i + 1 \in 1 .. n /\ stack'[i] = stack[i]
      BY <1>1, <1>2, <2>2
    <3> QED
      BY <1>6, <1>7, <2>2, <3>1
  <2> QED
    BY <2>1, <2>2
<1>9. Nested'
  BY <1>2, <1>3, <1>4, <1>5, <1>8, SameProgram DEF Nested
<1> QED
  BY <1>2, <1>3, <1>4, <1>9

(* The nesting after a step, frame by frame.                               *)
LEMMA NestedNext ==
    ASSUME program' = program, NEW f, NEW n, stack' # <<>>, Len(stack') = n, top' = f,
           stack'[1].scope = 1,
           \A i \in 1 .. n :
              /\ FrameOK(stack'[i])
              /\ stack'[i].scope >= 1
              /\ i < n => /\ Waiting(stack'[i])
                          /\ stack'[i + 1].scope = ScopeUnder(stack'[i]),
           Len(env') = ScopeUnder(f), callDepth' = Len(env') - 1
    PROVE  Nested'
BY SameProgram DEF Nested

LEMMA NestedPush ==
    ASSUME InterpreterOK, Nested, program' = program,
           stack # <<>> => Waiting(top),
           stack' = Append(stack, NewFrame(cur)), UNCHANGED scopes
    PROVE  Nested' /\ stack' # <<>> /\ stack' \in Seq(Frames)
<1> DEFINE n == Len(stack)
           f == NewFrame(cur)
<1>1. n \in Nat /\ stack \in Seq(Frames) /\ Len(env) \in Nat
  BY LenProperties DEF InterpreterOK
<1>2. f \in Frames /\ f.scope = Len(env) /\ f.pos = 0 /\ f.vals = <<>> /\ f.node = cur
  BY <1>1, ValueFacts, EmptySeq DEF NewFrame, Frames, Stages, InterpreterOK
<1>3. /\ f.stage = "body" => Ast[cur].kind = "Do"
      /\ f.stage = "loop" => Ast[cur].kind = "While"
      /\ f.stage # "skip"
  BY DEF NewFrame
<1>4. FrameOK(f) /\ ScopeUnder(f) = Len(env)
  <2>1. Len(Ast[cur].args) \in Nat
    BY ProgramFacts, LenProperties DEF InterpreterOK
  <2> QED
    BY <1>2, <1>3, <2>1, EmptySeq DEF FrameOK, ScopeUnder, Calling
<1> HIDE DEF f
<1>5. /\ stack' \in Seq(Frames) /\ Len(stack') = n + 1
      /\ \A i \in 1 .. n : stack'[i] = stack[i]
      /\ stack'[n + 1] = f
  BY <1>1, <1>2, AppendProperties DEF f
<1>6. stack' # <<>> /\ top' = f
  BY <1>1, <1>5, EmptySeq DEF top
<1>7. CASE stack = <<>>
  <2>1. Len(env) = 1 /\ n = 0
    BY <1>7, EmptySeq DEF Nested
  <2> QED
    BY <1>1, <1>2, <1>4, <1>5, <1>6, <2>1, SameProgram DEF Nested, scopes
<1>8. CASE stack # <<>>
  <2>1. n > 0 /\ Waiting(stack[n]) /\ f.scope = ScopeUnder(stack[n])
    BY <1>1, <1>2, <1>8, EmptySeq DEF Nested, top
  <2>2. \A i \in 1 .. n + 1 :
           /\ FrameOK(stack'[i])
           /\ stack'[i].scope >= 1
           /\ i < n + 1 => /\ Waiting(stack'[i])
                           /\ stack'[i + 1].scope = ScopeUnder(stack'[i])
    <3> TAKE i \in 1 .. n + 1
    <3>1. CASE i = n + 1
      <4>1. stack[n].scope >= 1 /\ ScopeUnder(stack[n]) \in {stack[n].scope, stack[n].scope + 1}
        BY <1>1, <2>1 DEF Nested, ScopeUnder
      <4>2. stack[n].scope \in Nat
        BY <1>8, TopFacts DEF Frames, top
      <4> QED
        BY <1>1, <1>4, <1>5, <2>1, <3>1, <4>1, <4>2
    <3>2. CASE i = n
      <4>1. FrameOK(stack[n]) /\ stack[n].scope >= 1
        BY <1>1, <2>1 DEF Nested
      <4>2. stack'[i] = stack[n] /\ stack'[i + 1] = f
        BY <1>1, <1>5, <2>1, <3>2
      <4> QED
        BY <2>1, <4>1, <4>2
    <3>3. CASE i < n
      BY <1>1, <1>5, <3>3 DEF Nested
    <3> QED
      BY <1>1, <3>1, <3>2, <3>3
  <2>3. stack'[1].scope = 1
    BY <1>1, <1>5, <1>8, <2>1 DEF Nested
  <2>4. Len(env') = ScopeUnder(f) /\ callDepth' = Len(env') - 1
    BY <1>4 DEF Nested, scopes
  <2>5. Len(stack') = n + 1
    BY <1>5
  <2> HIDE DEF n
  <2>6. Nested'
    BY <1>6, <2>2, <2>3, <2>4, <2>5, NestedNext
  <2> QED
    BY <1>5, <1>6, <2>6
<1> QED
  BY <1>5, <1>6, <1>7, <1>8

LEMMA NestedEmpty ==
    ASSUME stack' = <<>>, Len(env') = 1, callDepth' = Len(env') - 1
    PROVE  Nested'
<1>1. \A i \in 1 .. Len(<<>>) : FALSE
  OBVIOUS
<1> QED
  BY <1>1 DEF Nested

LEMMA NestedPop ==
    ASSUME InterpreterOK, Nested, stack # <<>>, program' = program,
           NEW f,
           stack' \in Seq(Frames), Len(stack') = Len(stack) - 1,
           \A i \in 1 .. Len(stack) - 2 : stack'[i] = stack[i],
           stack' # <<>> =>
              /\ stack'[Len(stack')] = f /\ FrameOK(f)
              /\ f.scope = stack[Len(stack')].scope
              /\ ScopeUnder(f) = ScopeUnder(stack[Len(stack')]),
           Len(env') = (IF Calling(top) THEN Len(env) - 1 ELSE Len(env)),
           callDepth' = Len(env') - 1
    PROVE  Nested'
<1> DEFINE n == Len(stack)
<1>1. n \in Nat \ {0} /\ stack \in Seq(Frames) /\ top \in Frames
  BY TopFacts DEF InterpreterOK
<1>2. Len(stack') = n - 1 /\ (stack' = <<>> <=> n = 1)
  BY <1>1, EmptySeq
<1>3. /\ top = stack[n]
      /\ stack[1].scope = 1
      /\ \A i \in 1 .. n :
            /\ FrameOK(stack[i])
            /\ stack[i].scope >= 1
            /\ i < n => /\ Waiting(stack[i])
                        /\ stack[i + 1].scope = ScopeUnder(stack[i])
      /\ Len(env) = ScopeUnder(top)
  BY DEF Nested, top
<1>4. top' = stack'[Len(stack')]
  BY DEF top
<1> HIDE DEF n
<1>5. Len(env') = top.scope
  <2>1. top.scope \in Nat
    BY <1>1 DEF Frames
  <2> QED
    BY <1>3, <2>1 DEF ScopeUnder
<1>6. CASE n = 1
  <2>1. stack' = <<>> /\ Len(env') = 1
    BY <1>2, <1>3, <1>5, <1>6
  <2> QED
    BY <2>1, NestedEmpty
<1>7. CASE n # 1
  <2>1. n - 1 \in 1 .. n /\ n - 1 < n /\ n - 1 + 1 = n /\ stack' # <<>>
    BY <1>1, <1>2, <1>7
  <2>2. /\ top' = f /\ stack'[n - 1] = f /\ FrameOK(f)
        /\ f.scope = stack[n - 1].scope
        /\ top.scope = ScopeUnder(f)
    BY <1>2, <1>3, <1>4, <2>1
  <2>3. \A i \in 1 .. n - 2 : stack'[i] = stack[i]
    BY DEF n
  <2>4. \A i \in 1 .. n - 1 :
          /\ FrameOK(stack'[i])
          /\ stack'[i].scope >= 1
          /\ i < n - 1 => /\ Waiting(stack'[i])
                          /\ stack'[i + 1].scope = ScopeUnder(stack'[i])
    <3> TAKE i \in 1 .. n - 1
    <3>1. i \in 1 .. n /\ i < n
      BY <1>1
    <3>2. CASE i = n - 1
      BY <1>1, <1>3, <2>2, <3>1, <3>2
    <3>3. CASE i # n - 1
      <4>1. i \in 1 .. n - 2 /\ i + 1 \in 1 .. n - 1
        BY <1>1, <3>3
      <4>2. stack'[i + 1].scope = stack[i + 1].scope
        BY <1>1, <2>2, <2>3, <4>1
      <4> QED
        BY <1>3, <2>3, <3>1, <4>1, <4>2
    <3> QED
      BY <3>2, <3>3
  <2>5. stack'[1].scope = 1
    <3>1. CASE n - 1 = 1
      BY <1>3, <2>2, <3>1
    <3>2. CASE n - 1 # 1
      <4>1. 1 \in 1 .. n - 2
        BY <1>1, <1>7, <3>2
      <4> QED
        BY <1>3, <2>3, <4>1
    <3> QED
      BY <3>1, <3>2
  <2> QED
    BY <1>2, <1>5, <2>1, <2>2, <2>4, <2>5, SameProgram DEF Nested
<1> QED
  BY <1>6, <1>7

-----------------------------------------------------------------------------
(***************************************************************************)
(* IInv holds initially and every step preserves it.                       *)
(***************************************************************************)
(* A step that leaves the stack and the number of scopes alone.            *)
LEMMA StackKept ==
    ASSUME StackOK, program' = program, stack' = stack,
           Len(env') = Len(env), callDepth' = callDepth, pc' # "start",
           pc' \in {"inner", "leave"} => stack # <<>>,
           pc' = "leave" => ~Calling(top),
           pc' \in {"enter", "begin"} /\ stack # <<>> => Waiting(top)
    PROVE  StackOK'
<1>1. top' = top
  BY DEF top
<1>2. Nested'
  BY NestedSame DEF StackOK
<1> QED
  BY <1>1, <1>2, SameProgram DEF StackOK

LEMMA TypeInit == Init => IInv
<1> SUFFICES ASSUME Init PROVE IInv
  OBVIOUS
<1>1. WellFormed(program) /\ root \in Nodes
  BY ProgramFacts, EngineAssumption DEF Init
<1>2. EmptyScope \in Scopes
  BY DEF EmptyScope, Scopes, Slots
<1>3. <<>> \in Seq(Frames) /\ <<EmptyScope>> \in Seq(Scopes)
  BY <1>2
<1>4. InterpreterOK
  BY <1>1, <1>3, ValueFacts, EngineAssumption DEF Init, InterpreterOK, PCs
<1>5. Nested
  <2>1. \A i \in 1 .. Len(<<>>) : FALSE
    OBVIOUS
  <2> QED
    BY <2>1 DEF Init, Nested
<1> QED
  BY <1>4, <1>5 DEF Init, IInv, StackOK

LEMMA TypeOutside ==
    ASSUME IInv, Start \/ Poll \/ StepLimit \/ RuntimeError \/ StopRobot \/ Finish
    PROVE  IInv'
<1> USE DEF scopes, flags, given
<1>1. InterpreterOK /\ StackOK
  BY DEF IInv
<1>2. CASE Start
  <2>1. InterpreterOK'
    BY <1>1, <1>2, SameProgram DEF Start, InterpreterOK, PCs
  <2>2. StackOK'
    BY <1>1, <1>2, StackKept DEF Start, StackOK
  <2> QED
    BY <2>1, <2>2 DEF IInv
<1>3. CASE Poll
  <2>1. InterpreterOK'
    BY <1>1, <1>3, SameProgram DEF Poll, InterpreterOK, PCs
  <2>2. StackOK'
    BY <1>1, <1>3, StackKept DEF Poll, StackOK
  <2> QED
    BY <2>1, <2>2 DEF IInv
<1>4. CASE StepLimit \/ RuntimeError
  <2>1. PICK n \in Nodes : Fail(n)
    BY <1>1, <1>4, TopFacts DEF StepLimit, RuntimeError, InterpreterOK, StackOK
  <2>2. InterpreterOK'
    BY <1>1, <2>1, SameProgram DEF Fail, InterpreterOK, PCs
  <2>3. StackOK'
    BY <1>1, <2>1, StackKept DEF Fail
  <2> QED
    BY <2>2, <2>3 DEF IInv
<1>5. CASE StopRobot \/ Finish
  <2>1. InterpreterOK'
    BY <1>1, <1>5, SameProgram DEF StopRobot, Finish, InterpreterOK, PCs
  <2>2. StackOK'
    BY <1>1, <1>5, StackKept DEF StopRobot, Finish
  <2> QED
    BY <2>1, <2>2 DEF IInv
<1> QED
  BY <1>2, <1>3, <1>4, <1>5

(* Another thread raises or lowers the flag, while the interpreter waits.  *)
LEMMA TypeCancel ==
    ASSUME IInv, UNCHANGED interpreter, cancel' \in BOOLEAN
    PROVE  IInv'
<1>1. InterpreterOK /\ StackOK
  BY DEF IInv
<1>2. InterpreterOK'
  BY <1>1, SameProgram DEF interpreter, InterpreterOK
<1>3. top' = top /\ Nested'
  BY <1>1, NestedSame DEF interpreter, top, StackOK
<1>4. StackOK'
  BY <1>1, <1>3, SameProgram DEF interpreter, StackOK
<1> QED
  BY <1>2, <1>4 DEF IInv

LEMMA TypeBegin == ASSUME IInv, Begin PROVE IInv'
<1> USE DEF scopes, flags, given
<1>1. InterpreterOK /\ StackOK /\ program' = program
  BY DEF IInv, Begin
<1>2. Nested' /\ stack' # <<>> /\ stack' \in Seq(Frames)
  BY <1>1, NestedPush DEF Begin, StackOK
<1>3. steps' \in Nat
  BY <1>1 DEF Begin, InterpreterOK
<1>4. InterpreterOK'
  BY <1>1, <1>2, <1>3, SameProgram DEF Begin, InterpreterOK, PCs
<1>5. StackOK'
  BY <1>2 DEF Begin, StackOK
<1> QED
  BY <1>4, <1>5 DEF IInv

(* A frame that takes over the value of the call it waited for.            *)
LEMMA DeliverFacts ==
    ASSUME NEW f \in Frames, NEW val \in Values, WellFormed(program),
           FrameOK(f), Waiting(f)
    PROVE  /\ Deliver(f, val) \in Frames
           /\ Deliver(f, val).scope = f.scope
           /\ FrameOK(Deliver(f, val))
           /\ ScopeUnder(Deliver(f, val)) = ScopeUnder(f)
<1> DEFINE g == Deliver(f, val)
<1>1. f.node \in Nodes /\ f.pos \in Nat /\ f.vals \in Seq(Values)
  BY DEF Frames
<1>2. Len(Ast[f.node].args) \in Nat
  BY <1>1, ProgramFacts, LenProperties
<1>3. CASE f.stage = "args"
  <2> DEFINE v == Append(f.vals, val)
             p == f.pos + 1
  <2>1. v \in Seq(Values) /\ Len(v) = Len(f.vals) + 1 /\ Len(f.vals) \in Nat /\ p \in Nat
    BY <1>1, AppendProperties, LenProperties
  <2>2. v # <<>>
    BY <2>1, EmptySeq
  <2> HIDE DEF v, p
  <2>3. g = [f EXCEPT !.pos = p, !.vals = v]
    BY <1>3 DEF Deliver, p, v
  <2> HIDE DEF g
  <2>4. g \in Frames
    BY <2>1, <2>3 DEF Frames
  <2>5. g.node = f.node /\ g.scope = f.scope /\ g.stage = "args" /\ g.pos = p /\ g.vals = v
    BY <1>3, <2>3 DEF Frames
  <2>6. FrameOK(g)
    BY <1>1, <1>2, <1>3, <2>1, <2>2, <2>5 DEF FrameOK, Waiting, p
  <2> QED
    BY <1>3, <2>4, <2>5, <2>6 DEF ScopeUnder, Calling, g
<1>4. CASE f.stage # "args"
  <2> DEFINE p == f.pos + 1
  <2>1. p \in Nat
    BY <1>1
  <2> HIDE DEF p
  <2>2. g = [f EXCEPT !.pos = p, !.last = val]
    BY <1>4 DEF Deliver, p
  <2> HIDE DEF g
  <2>3. g \in Frames
    BY <2>1, <2>2 DEF Frames
  <2>4. g.node = f.node /\ g.scope = f.scope /\ g.stage = f.stage
    BY <2>2 DEF Frames
  <2> QED
    BY <1>4, <2>3, <2>4 DEF FrameOK, ScopeUnder, Calling, g
<1> QED
  BY <1>3, <1>4

LEMMA TypeLeave == ASSUME IInv, Leave PROVE IInv'
<1> USE DEF scopes, flags, given
<1> DEFINE callers == Front(stack)
           n == Len(stack)
           f == Deliver(stack[n - 1], ret)
<1>1. /\ InterpreterOK /\ StackOK /\ program' = program /\ stack # <<>> /\ ~Calling(top)
      /\ WellFormed(program) /\ ret \in Values /\ stack \in Seq(Frames) /\ pc' # "start"
  BY DEF IInv, Leave, StackOK, InterpreterOK
<1>2. /\ callers \in Seq(Frames) /\ n \in Nat \ {0} /\ Len(callers) = n - 1
      /\ \A i \in 1 .. n - 1 : callers[i] = stack[i]
      /\ callers = <<>> <=> n = 1
  BY <1>1, FrontProperties
<1>4. /\ Len(env') = (IF Calling(top) THEN Len(env) - 1 ELSE Len(env))
      /\ callDepth' = Len(env') - 1
  BY <1>1 DEF Leave, StackOK, Nested
<1>5. Nested' /\ stack' \in Seq(Frames) /\ (pc' = "inner" => stack' # <<>>) /\ pc' \in {"inner", "finish"}
  <2>1. CASE n = 1
    <3>1. stack' = <<>> /\ pc' = "finish"
      BY <1>2, <2>1 DEF Leave
    <3>2. Len(env) = 1
      <4>1. top.scope = 1
        BY <1>1, <2>1 DEF StackOK, Nested, top
      <4> QED
        BY <1>1, <4>1 DEF StackOK, Nested, ScopeUnder
    <3> QED
      BY <1>1, <1>4, <3>1, <3>2, NestedEmpty
  <2>2. CASE n # 1
    <3>1. /\ stack' = [callers EXCEPT ![n - 1] = Deliver(@, ret)] /\ pc' = "inner"
          /\ callers[n - 1] = stack[n - 1]
      BY <1>2, <2>2 DEF Leave
    <3>2. n - 1 \in 1 .. n /\ n - 1 < n /\ n - 1 \in 1 .. Len(callers)
      BY <1>2, <2>2
    <3>3. stack[n - 1] \in Frames /\ FrameOK(stack[n - 1]) /\ Waiting(stack[n - 1])
      BY <1>1, <3>2, ElementOfSeq DEF StackOK, Nested
    <3>4. /\ f \in Frames /\ f.scope = stack[n - 1].scope /\ FrameOK(f)
          /\ ScopeUnder(f) = ScopeUnder(stack[n - 1])
      BY <1>1, <3>3, DeliverFacts
    <3>5. stack' = [callers EXCEPT ![n - 1] = f]
      BY <3>1
    <3> HIDE DEF f, callers
    <3>6. /\ stack' \in Seq(Frames) /\ Len(stack') = n - 1
          /\ \A i \in 1 .. n - 1 : stack'[i] = IF i = n - 1 THEN f ELSE callers[i]
      BY <1>2, <3>2, <3>4, <3>5, ExceptSeq
    <3>7. stack'[n - 1] = f /\ \A i \in 1 .. n - 2 : stack'[i] = stack[i]
      BY <1>2, <3>2, <3>6
    <3>8. stack' # <<>>
      BY <1>2, <2>2, <3>6, EmptySeq
    <3>9. Nested'
      BY <1>1, <1>4, <3>4, <3>6, <3>7, NestedPop DEF StackOK
    <3> QED
      BY <3>1, <3>6, <3>8, <3>9
  <2> QED
    BY <2>1, <2>2
<1>6. InterpreterOK'
  BY <1>1, <1>5, SameProgram DEF Leave, InterpreterOK, PCs
<1>7. StackOK'
  BY <1>5 DEF StackOK
<1> QED
  BY <1>6, <1>7 DEF IInv

(* Leaving the scope of a function body leaves at least the global scope.  *)
LEMMA ScopeLeft ==
    ASSUME IInv, stack # <<>>, Calling(top), env' = Front(env), callDepth' = callDepth - 1
    PROVE  /\ env' \in Seq(Scopes) /\ env' # <<>>
           /\ Len(env') = Len(env) - 1
           /\ callDepth' \in Nat /\ callDepth' = Len(env') - 1
<1>1. /\ InterpreterOK /\ env \in Seq(Scopes) /\ env # <<>>
      /\ callDepth = Len(env) - 1 /\ Len(env) = ScopeUnder(top)
  BY DEF IInv, InterpreterOK, StackOK, Nested
<1>2. Len(stack) \in 1 .. Len(stack) /\ top.scope \in Nat
  BY <1>1, TopFacts DEF Frames
<1>3. top.scope >= 1
  BY <1>2 DEF IInv, StackOK, Nested, top
<1>4. Len(env) >= 2 /\ Len(env) \in Nat
  BY <1>1, <1>2, <1>3 DEF ScopeUnder
<1>5. env' \in Seq(Scopes) /\ Len(env') = Len(env) - 1 /\ (env' = <<>> <=> Len(env) = 1)
  BY <1>1, FrontProperties
<1> QED
  BY <1>1, <1>4, <1>5

LEMMA TypeUnwind == ASSUME IInv, Unwind PROVE IInv'
<1> USE DEF scopes, flags, given
<1>1. /\ InterpreterOK /\ StackOK /\ program' = program /\ Nested
      /\ stack \in Seq(Frames) /\ pc' \in {"unwind", "finish"}
  BY DEF IInv, Unwind, StackOK, InterpreterOK
<1>2. CASE stack = <<>>
  <2>1. InterpreterOK'
    BY <1>1, <1>2, SameProgram DEF Unwind, InterpreterOK, PCs
  <2>2. StackOK'
    BY <1>1, <1>2, StackKept DEF Unwind
  <2> QED
    BY <2>1, <2>2 DEF IInv
<1>3. CASE stack # <<>>
  <2> DEFINE n == Len(stack)
  <2>1. /\ stack' = Front(stack)
        /\ IF Calling(top) THEN env' = Front(env) /\ callDepth' = callDepth - 1
                           ELSE env' = env /\ callDepth' = callDepth
    BY <1>3 DEF Unwind, Calling, kind
  <2>2. /\ stack' \in Seq(Frames) /\ n \in Nat \ {0} /\ Len(stack') = n - 1
        /\ \A i \in 1 .. n - 1 : stack'[i] = stack[i]
        /\ stack' = <<>> <=> n = 1
    BY <1>1, <1>3, <2>1, FrontProperties
  <2>3. /\ env' \in Seq(Scopes) /\ env' # <<>> /\ callDepth' \in Nat
        /\ Len(env') = (IF Calling(top) THEN Len(env) - 1 ELSE Len(env))
        /\ callDepth' = Len(env') - 1
    <3>1. CASE Calling(top)
      BY <1>3, <2>1, <3>1, ScopeLeft
    <3>2. CASE ~Calling(top)
      BY <1>1, <2>1, <3>2 DEF InterpreterOK, Nested
    <3> QED
      BY <3>1, <3>2
  <2>4. Nested'
    <3>1. \A i \in 1 .. n - 2 : stack'[i] = stack[i]
      BY <2>2
    <3>2. stack' # <<>> => /\ stack'[n - 1] = stack[n - 1]
                           /\ FrameOK(stack[n - 1])
      <4> HAVE stack' # <<>>
      <4>1. n - 1 \in 1 .. n - 1 /\ n - 1 \in 1 .. n
        BY <2>2
      <4> QED
        BY <1>1, <2>2, <4>1 DEF Nested
    <3> QED
      BY <1>1, <1>3, <2>2, <2>3, <3>1, <3>2, NestedPop
  <2>5. InterpreterOK'
    BY <1>1, <1>3, <2>2, <2>3, SameProgram DEF Unwind, InterpreterOK
  <2>6. StackOK'
    BY <1>1, <2>4 DEF StackOK
  <2> QED
    BY <2>5, <2>6 DEF IInv
<1> QED
  BY <1>2, <1>3

LEMMA ArityFacts ==
    ASSUME IInv, stack # <<>>
    PROVE  LET args == Len(Ast[top.node].args)
           IN  /\ kind \in OneOperand => args = 1
               /\ kind \in Moves \cup {"Compare"} => args = 2
               /\ kind = "If" => args = 3
               /\ kind = "Arithmetic" => args >= 2 /\ op \in {"+", "-", "*", "/"}
               /\ kind = "BooleanOp" => args >= 1
<1>1. ArityOK(Ast[top.node])
  BY TopFacts DEF IInv
<1>2. InterpreterOK
  BY DEF IInv
<1>3. Len(Ast[top.node].args) \in Nat
  BY <1>2, TopFacts, ProgramFacts, LenProperties DEF InterpreterOK
<1> DEFINE n == Ast[top.node]
           count == Len(n.args)
<1>4. /\ n.kind \in OneOperand => count = 1
      /\ n.kind \in Moves \cup {"Compare"} => count = 2
      /\ n.kind = "If" => count = 3
      /\ n.kind = "Arithmetic" => count >= 2 /\ n.op \in {"+", "-", "*", "/"}
      /\ n.kind = "BooleanOp" => IF n.op = "not" THEN count = 1 ELSE count >= 2
  BY <1>1 DEF ArityOK
<1>5. count \in Nat
  BY <1>3
<1>6. kind = n.kind /\ op = n.op
  BY DEF kind, op
<1> HIDE DEF n
<1>7. n.kind = "BooleanOp" => count >= 1
  <2> HIDE DEF count
  <2> QED
    BY <1>4, <1>5
<1> QED
  BY <1>4, <1>6, <1>7 DEF n

(* What is known of the frame on top when no call of fail() is due.        *)
LEMMA InnerFacts ==
    ASSUME IInv, stack # <<>>, ~Faulty
    PROVE  /\ InterpreterOK /\ StackOK /\ Nested
           /\ WellFormed(program)
           /\ top \in Frames /\ top.node \in Nodes /\ top.pos \in Nat
           /\ top.vals \in Seq(Values) /\ Len(top.vals) \in Nat
           /\ \A i \in 1 .. Len(top.vals) : top.vals[i] \in Values /\ top.vals[i].v \in Ints
           /\ kind \in NodeKinds /\ ArityOK(Ast[top.node])
           /\ Ast[top.node].args \in Seq(Nodes)
           /\ Len(Ast[top.node].args) \in Nat
           /\ Operands \in Nat /\ Operands <= Len(Ast[top.node].args)
           /\ FrameOK(top)
           /\ Len(env) = ScopeUnder(top)
           /\ top.scope \in 1 .. Len(env)
           /\ kind = "Call" => Defined(op)
           /\ Body(top.node) \in Seq(Nodes)
<1>1. InterpreterOK /\ StackOK /\ Nested /\ WellFormed(program)
  BY DEF IInv, InterpreterOK, StackOK
<1>2. /\ Len(stack) \in 1 .. Len(stack)
      /\ top \in Frames /\ top.node \in Nodes /\ kind \in NodeKinds /\ ArityOK(Ast[top.node])
  BY <1>1, TopFacts
<1>3. /\ top.pos \in Nat /\ top.vals \in Seq(Values)
      /\ top.scope \in Nat
  BY <1>2 DEF Frames
<1>4. Len(top.vals) \in Nat /\ \A i \in 1 .. Len(top.vals) : top.vals[i] \in Values
  BY <1>3, LenProperties, ElementOfSeq
<1>5. \A i \in 1 .. Len(top.vals) : top.vals[i].v \in Ints
  BY <1>4, ValueFacts
<1>6. Ast[top.node].args \in Seq(Nodes) /\ Len(Ast[top.node].args) \in Nat
  BY <1>1, <1>2, ProgramFacts, LenProperties
<1>7. Operands \in Nat /\ Operands <= Len(Ast[top.node].args)
  <2>1. CASE kind \in {"Repeat", "When", "If", "While"}
    <3>1. Len(Ast[top.node].args) >= 1
      <4>1. CASE kind = "If"
        BY <4>1, ArityFacts
      <4>2. CASE kind # "If"
        <5>1. kind \in OneOperand
          BY <2>1, <4>2 DEF OneOperand
        <5>2. Len(Ast[top.node].args) = 1
          BY <5>1, ArityFacts
        <5> QED
          BY <5>2
      <4> QED
        BY <4>1, <4>2
    <3>2. Operands = 1
      BY <2>1 DEF Operands
    <3> QED
      BY <1>6, <3>1, <3>2
  <2>2. CASE kind \notin {"Repeat", "When", "If", "While"}
    BY <1>6, <2>2 DEF Operands
  <2> QED
    BY <2>1, <2>2
<1>8. FrameOK(top) /\ Len(env) = ScopeUnder(top) /\ top.scope >= 1
  BY <1>1, <1>2 DEF Nested, top
<1>9. top.scope \in 1 .. Len(env)
  BY <1>3, <1>8 DEF ScopeUnder
<1>10. kind = "Call" => Defined(op)
  BY DEF Faulty, NameFault
<1>11. Body(top.node) \in Seq(Nodes)
  BY <1>1, <1>2, <1>10, BodyFacts DEF kind, op
<1> QED
  BY <1>1, <1>2, <1>3, <1>4, <1>5, <1>6, <1>7, <1>8, <1>9, <1>10, <1>11

LEMMA DoneFacts ==
    ASSUME IInv, stack # <<>>, ~Faulty, OperandsDone
    PROVE  /\ top.stage = "args" /\ ~Calling(top)
           /\ kind \notin {"Arithmetic", "BooleanOp"} =>
                 Len(top.vals) = top.pos /\ top.pos >= Operands
<1>1. top.stage = "args"
  BY DEF OperandsDone
<1>2. kind # "Arithmetic" => Len(top.vals) = top.pos
  BY <1>1, InnerFacts DEF FrameOK, kind
<1> QED
  BY <1>1, <1>2 DEF OperandsDone, Decided, Calling

(* The three ways a step of eval_inner ends: it returns a value, it        *)
(* evaluates a subtree, or it goes on with its frame changed.              *)
LEMMA TypeReturn ==
    ASSUME IInv, Inner, program' = program, ~Calling(top),
           NEW v \in Values, Return(v),
           UNCHANGED <<cur, stack, callDepth, steps, flags, limits, cancel>>,
           env' \in Seq(Scopes), Len(env') = Len(env),
           late' \in Nat
    PROVE  IInv'
<1>1. InterpreterOK /\ StackOK /\ stack # <<>>
  BY DEF IInv, Inner, StackOK
<1>2. env' # <<>>
  BY <1>1, EmptySeq DEF InterpreterOK
<1>3. InterpreterOK'
  BY <1>1, <1>2, SameProgram DEF InterpreterOK, Return, flags, PCs
<1>4. StackOK'
  BY <1>1, StackKept DEF Return
<1> QED
  BY <1>3, <1>4 DEF IInv

LEMMA TypeEval ==
    ASSUME IInv, Inner, Waiting(top), NEW n \in Nodes, Eval(n),
           UNCHANGED <<ret, stack, scopes, steps, flags, given, late>>
    PROVE  IInv'
<1> USE DEF scopes, flags, given
<1>1. InterpreterOK /\ StackOK
  BY DEF IInv
<1>2. InterpreterOK'
  BY <1>1, SameProgram DEF InterpreterOK, Eval, PCs
<1>3. StackOK'
  BY <1>1, StackKept DEF Eval
<1> QED
  BY <1>2, <1>3 DEF IInv

LEMMA TypeTop ==
    ASSUME IInv, Inner, program' = program,
           NEW f \in Frames, TopBecomes(f), FrameOK(f), f.scope = top.scope,
           pc' \in {"inner", "leave"}, pc' = "leave" => ~Calling(f),
           ret' \in Values, steps' \in Nat,
           UNCHANGED <<cur, flags, limits, cancel, late>>,
           env' \in Seq(Scopes), env' # <<>>, Len(env') = ScopeUnder(f),
           callDepth' \in Nat, callDepth' = Len(env') - 1
    PROVE  IInv'
<1>1. InterpreterOK /\ StackOK /\ Nested /\ stack # <<>>
  BY DEF IInv, Inner, StackOK
<1>2. Nested' /\ top' = f /\ stack' # <<>> /\ stack' \in Seq(Frames)
  BY <1>1, NestedTop DEF TopBecomes
<1>3. InterpreterOK'
  BY <1>1, <1>2, SameProgram DEF InterpreterOK, flags, PCs
<1>4. StackOK'
  BY <1>2, SameProgram DEF StackOK
<1> QED
  BY <1>3, <1>4 DEF IInv

(* Literals, operators and variable references.                            *)
LEMMA ResultValues ==
    ASSUME IInv, stack # <<>>, ~Faulty, OperandsDone,
           kind \in Literals \cup Operators \cup {"VarRef", "DefineFunc"},
           kind = "Arithmetic" => Len(top.vals) = 1
    PROVE  Result \in Values
<1>1. CASE kind = "IntegerLiteral"
  <2>1. Ast[top.node].num \in Ints
    BY InnerFacts, ProgramFacts
  <2> QED
    BY <1>1, <2>1, ValueFacts DEF Result
<1>2. CASE kind = "ColorLiteral"
  <2>1. Ast[top.node].num \in Colors
    BY <1>2, InnerFacts, ProgramFacts DEF kind
  <2> QED
    BY <1>2, <2>1, ValueFacts DEF Result
<1>3. CASE kind = "VarRef"
  <2>1. Lookup(op) # Unbound
    BY <1>3 DEF Faulty, NameFault
  <2>2. op \in Names
    BY <1>3, InnerFacts, ProgramFacts DEF kind, op
  <2>3. env[top.scope] \in Scopes /\ env[1] \in Scopes
    <3>1. env \in Seq(Scopes) /\ top.scope \in 1 .. Len(env) /\ 1 \in 1 .. Len(env)
      BY InnerFacts DEF InterpreterOK
    <3> QED
      BY <3>1, ElementOfSeq
  <2>4. Lookup(op) \in Slots
    BY <2>2, <2>3 DEF Lookup, Local, Scopes
  <2> QED
    BY <1>3, <2>1, <2>4 DEF Result, Slots
<1>4. CASE kind = "Arithmetic"
  BY <1>4, InnerFacts DEF Result
<1>5. CASE kind \in {"BooleanLiteral", "Compare", "BooleanOp"}
  <2>1. \A b : Boolean(b) \in Values
    <3> TAKE b
    <3>1. Boolean(b) = Boolean(TRUE) \/ Boolean(b) = Boolean(FALSE)
      BY DEF Boolean
    <3> QED
      BY <3>1, ValueFacts
  <2> QED
    BY <1>5, <2>1 DEF Result
<1>6. CASE kind = "DefineFunc"
  BY <1>6, ValueFacts DEF Result
<1> QED
  BY <1>1, <1>2, <1>3, <1>4, <1>5, <1>6 DEF Literals, Operators

LEMMA TypeOperands ==
    ASSUME IInv, EvalOperand \/ Accumulate \/ Trap \/ GiveResult
    PROVE  IInv'
<1> USE DEF scopes, flags, given
<1>1. IInv /\ Inner /\ stack # <<>> /\ ~Faulty /\ program' = program
  BY DEF EvalOperand, Accumulate, Trap, GiveResult, Inner, IInv, StackOK
<1>2. /\ env' = env /\ env \in Seq(Scopes) /\ env # <<>> /\ callDepth' = callDepth
      /\ callDepth = Len(env) - 1 /\ callDepth \in Nat /\ steps' \in Nat /\ late' \in Nat
  BY <1>1, SameProgram
     DEF EvalOperand, Accumulate, Trap, GiveResult, IInv, InterpreterOK, StackOK, Nested
<1>3. CASE EvalOperand
  <2>1. top.stage = "args" /\ top.pos < Operands
    BY <1>1, <1>3, InnerFacts DEF EvalOperand, OperandsDone
  <2>2. Waiting(top) /\ top.pos + 1 \in 1 .. Len(Ast[top.node].args)
    BY <1>1, <2>1, InnerFacts DEF Waiting
  <2>3. Ast[top.node].args[top.pos + 1] \in Nodes
    BY <1>1, <2>2, InnerFacts, ElementOfSeq
  <2>4. Eval(Ast[top.node].args[top.pos + 1])
    BY <1>3 DEF EvalOperand
  <2> QED
    BY <1>1, <1>2, <1>3, <2>2, <2>3, <2>4, TypeEval DEF EvalOperand
<1>4. CASE Accumulate
  <2> DEFINE r == Apply(op, top.vals[1].v, top.vals[2].v)
             v == <<Integer(r)>>
             f == [top EXCEPT !.vals = v]
  <2>1. kind = "Arithmetic" /\ top.stage = "args" /\ Len(top.vals) = 2
    BY <1>4 DEF Accumulate
  <2>2. top.vals[1].v \in Ints /\ top.vals[2].v \in Ints /\ top.vals # <<>>
    BY <1>1, <2>1, InnerFacts, EmptySeq
  <2>3. op = "/" => top.vals[2].v # 0
    BY <1>1, <2>1 DEF Faulty, OperandFault
  <2>4. r \in Ints
    BY <1>1, <2>1, <2>2, <2>3, ArityFacts, ApplyInts
  <2>5. v \in Seq(Values) /\ v # <<>>
    BY <2>4, ValueFacts
  <2>6. TopBecomes(f)
    BY <1>4 DEF Accumulate
  <2> HIDE DEF v
  <2>7. /\ f \in Frames /\ f.node = top.node /\ f.scope = top.scope
        /\ f.stage = "args" /\ f.pos = top.pos /\ f.vals = v
    <3>1. top \in Frames
      BY <1>1, InnerFacts
    <3> QED
      <4>1. f \in Frames
        BY <2>5, <3>1 DEF Frames
      <4> QED
        BY <2>1, <3>1, <4>1 DEF Frames
  <2> HIDE DEF f
  <2>8. FrameOK(f)
    BY <1>1, <2>1, <2>5, <2>7, InnerFacts DEF FrameOK, kind
  <2>9. Len(env') = ScopeUnder(f)
    BY <1>1, <1>2, <2>1, <2>7, InnerFacts DEF ScopeUnder, Calling
  <2>10. pc' = "inner" /\ ret' \in Values
    BY <1>1, <1>4 DEF Accumulate, Inner, IInv, InterpreterOK
  <2> QED
    BY <1>1, <1>2, <1>4, <2>6, <2>7, <2>8, <2>9, <2>10, TypeTop DEF Accumulate
<1>5. CASE Trap
  <2>1. InterpreterOK'
    BY <1>1, <1>2, <1>5, SameProgram DEF Trap, IInv, InterpreterOK, PCs
  <2>2. StackOK'
    BY <1>1, <1>5, StackKept DEF Trap, IInv
  <2> QED
    BY <2>1, <2>2 DEF IInv
<1>6. CASE GiveResult
  <2>1. ~Calling(top)
    BY <1>1, <1>6, DoneFacts DEF GiveResult
  <2>2. Result \in Values /\ Return(Result)
    BY <1>1, <1>6, ResultValues DEF GiveResult
  <2> QED
    BY <1>1, <1>2, <1>6, <2>1, <2>2, TypeReturn DEF GiveResult
<1> QED
  BY <1>3, <1>4, <1>5, <1>6

LEMMA TypeEffects ==
    ASSUME IInv, Assign \/ Command \/ EndIf \/ Reads
    PROVE  IInv'
<1> USE DEF scopes, flags, given
<1>1. IInv /\ Inner /\ stack # <<>> /\ ~Faulty /\ program' = program
  BY DEF Assign, Command, EndIf, Reads, ReadSensor, Inner, IInv, StackOK
<1>2. /\ env \in Seq(Scopes) /\ late \in Nat /\ InterpreterOK
  BY <1>1, SameProgram DEF IInv, InterpreterOK
<1>3. CASE Assign
  <2> DEFINE i == IF kind = "DefineVar" \/ Local(op) # Unbound THEN top.scope ELSE 1
             v == top.vals[1]
             s == [env[i] EXCEPT ![op] = v]
  <2>1. kind \in {"DefineVar", "SetVar"} /\ OperandsDone /\ Return(v) /\ late' = late
    BY <1>3 DEF Assign
  <2>2. Operands = 1
    <3>1. kind \in OneOperand /\ kind \notin {"Repeat", "When", "If", "While"}
      BY <2>1 DEF OneOperand
    <3> QED
      BY <1>1, <3>1, ArityFacts DEF Operands
  <2>3. ~Calling(top) /\ 1 \in 1 .. Len(top.vals)
    BY <1>1, <2>1, <2>2, DoneFacts, InnerFacts
  <2>4. v \in Values
    BY <1>1, <2>3, InnerFacts
  <2>5. i \in 1 .. Len(env) /\ op \in Names
    BY <1>1, <2>1, InnerFacts, ProgramFacts DEF kind, op
  <2>6. env' = [env EXCEPT ![i] = s]
    BY <1>3 DEF Assign
  <2> HIDE DEF i, v
  <2>7. s \in Scopes
    BY <1>2, <2>4, <2>5, ElementOfSeq DEF Scopes, Slots
  <2> HIDE DEF s
  <2>8. env' \in Seq(Scopes) /\ Len(env') = Len(env)
    BY <1>2, <2>5, <2>6, <2>7, ExceptSeq
  <2> QED
    BY <1>1, <1>2, <1>3, <2>1, <2>3, <2>4, <2>8, TypeReturn DEF Assign
<1>4. CASE Command
  <2>1. ~Calling(top) /\ kind \in Commands /\ top.vals \in Seq(Values)
    BY <1>1, <1>4, DoneFacts, InnerFacts DEF Command
  <2>2. late' \in Nat
    BY <1>2, <1>4 DEF Command
  <2> QED
    BY <1>1, <1>2, <1>4, <2>1, <2>2, ValueFacts, TypeReturn DEF Command
<1>5. CASE EndIf
  <2>1. kind = "If" /\ top.stage = "args" /\ top.pos = 2
    BY <1>5 DEF EndIf
  <2>2. ~Calling(top) /\ Len(top.vals) = 2
    BY <1>1, <2>1, InnerFacts DEF Calling, FrameOK, kind
  <2>3. top.vals[2] \in Values /\ Return(top.vals[2])
    BY <1>1, <1>5, <2>2, InnerFacts DEF EndIf
  <2> QED
    BY <1>1, <1>2, <1>5, <2>2, <2>3, TypeReturn DEF EndIf
<1>6. CASE Reads
  <2>1. PICK v \in Ints : ReadSensor(v)
    BY <1>6 DEF Reads
  <2>2. ~Calling(top)
    BY <2>1 DEF ReadSensor, Sensors, Calling, kind
  <2>3. PICK w \in Values : Return(w)
    <3>1. Integer(v) \in Values /\ Boolean(v = 1) \in Values
      BY ValueFacts
    <3> QED
      BY <2>1, <3>1 DEF ReadSensor
  <2> QED
    BY <1>1, <1>2, <2>1, <2>2, <2>3, TypeReturn DEF ReadSensor
<1> QED
  BY <1>3, <1>4, <1>5, <1>6

LEMMA TypeBranches ==
    ASSUME IInv, ChooseBranch \/ NextStatement
    PROVE  IInv'
<1> USE DEF scopes, flags, given
<1>1. IInv /\ Inner /\ stack # <<>> /\ ~Faulty /\ program' = program
  BY DEF ChooseBranch, NextStatement, Inner, IInv, StackOK
<1>2. InterpreterOK
  BY DEF IInv
<1>3. CASE ChooseBranch
  <2> DEFINE args == Ast[top.node].args
             taken == IF Truthy(top.vals[1]) THEN 2 ELSE 3
  <2>1. kind = "If" /\ top.stage = "args" /\ top.pos = 1
    BY <1>3 DEF ChooseBranch
  <2>2. args \in Seq(Nodes) /\ Len(args) = 3
    BY <1>1, <2>1, InnerFacts, ArityFacts
  <2>3. taken \in 1 .. 3
    OBVIOUS
  <2>4. Eval(args[taken])
    BY <1>3 DEF ChooseBranch
  <2>5. Waiting(top)
    BY <2>1, <2>2 DEF Waiting
  <2> HIDE DEF args, taken
  <2>6. args[taken] \in Nodes
    BY <2>2, <2>3, ElementOfSeq
  <2> QED
    BY <1>1, <1>3, <2>4, <2>5, <2>6, TypeEval DEF ChooseBranch
<1>4. CASE NextStatement
  <2> DEFINE body == Body(top.node)
  <2>1. top.stage = "body" /\ top.pos < Len(body) /\ Eval(body[top.pos + 1])
    BY <1>4 DEF NextStatement
  <2>2. body \in Seq(Nodes) /\ top.pos \in Nat
    BY <1>1, InnerFacts
  <2> HIDE DEF body
  <2>3. body[top.pos + 1] \in Nodes
    BY <2>1, <2>2, ElementOfSeq, LenProperties
  <2>4. Waiting(top)
    BY <2>1 DEF Waiting
  <2> QED
    BY <1>1, <1>2, <1>4, <2>1, <2>3, <2>4, TypeEval DEF NextStatement
<1> QED
  BY <1>3, <1>4

(* What TypeTop needs beyond the new frame when no scope is entered.       *)
LEMMA Around ==
    ASSUME IInv, stack # <<>>, program' = program,
           UNCHANGED <<env, callDepth>>, ~Calling(top),
           NEW f, f.scope = top.scope, ~Calling(f)
    PROVE  /\ env' \in Seq(Scopes) /\ env' # <<>> /\ Len(env') = ScopeUnder(f)
           /\ callDepth' \in Nat /\ callDepth' = Len(env') - 1
           /\ steps \in Nat /\ ret \in Values /\ limits \in [maxRepeat : Nat, maxSteps : Nat, maxDepth : Nat]
BY SameProgram DEF IInv, InterpreterOK, StackOK, Nested, ScopeUnder

LEMMA TypeLoops ==
    ASSUME IInv, StartBody \/ Iterate
    PROVE  IInv'
<1> USE DEF scopes, flags, given
<1>1. IInv /\ Inner /\ stack # <<>> /\ ~Faulty /\ program' = program /\ pc = "inner"
  BY DEF StartBody, Iterate, Inner, IInv, StackOK
<1>2. top \in Frames /\ top.node \in Nodes /\ top.vals \in Seq(Values) /\ top.left \in Nat
  BY <1>1, InnerFacts DEF Frames
<1>3. CASE StartBody
  <2> DEFINE st == IF kind = "Repeat" THEN "loop"
                     ELSE IF Truthy(top.vals[1]) THEN "body" ELSE "skip"
             l == IF kind = "Repeat" THEN top.vals[1].v ELSE 0
             first == 0
             f == [top EXCEPT !.stage = st, !.pos = first, !.left = l]
  <2>1. kind \in {"When", "While", "Repeat"} /\ OperandsDone
    BY <1>3 DEF StartBody
  <2>2. ~Calling(top) /\ kind # "Call"
    BY <2>1 DEF Calling, kind
  <2>3. CASE kind = "While" /\ ~Truthy(top.vals[1])
    <3>1. Return(None) /\ UNCHANGED stack
      BY <1>3, <2>3 DEF StartBody
    <3>2. env' \in Seq(Scopes) /\ late' \in Nat
      BY <1>1, <1>3, SameProgram DEF StartBody, IInv, InterpreterOK
    <3> QED
      BY <1>1, <1>3, <2>2, <3>1, <3>2, ValueFacts, TypeReturn DEF StartBody
  <2>4. CASE ~(kind = "While" /\ ~Truthy(top.vals[1]))
    <3>1. TopBecomes(f) /\ UNCHANGED <<pc, ret>>
      BY <1>3, <2>4 DEF StartBody
    <3>2. l \in Nat
      <4>1. CASE kind = "Repeat"
        <5>1. top.vals[1].v \in 0 .. limits.maxRepeat
          BY <1>1, <2>1, <4>1 DEF Faulty, RangeFault
        <5>2. limits.maxRepeat \in Nat
          BY <1>1 DEF IInv, InterpreterOK
        <5> QED
          BY <4>1, <5>1, <5>2
      <4>2. CASE kind # "Repeat"
        BY <4>2
      <4> QED
        BY <4>1, <4>2
    <3>3. first \in Nat /\ st \in Stages /\ st # "args" /\ (st = "skip" => kind = "When")
          /\ (st = "loop" => kind = "Repeat")
      BY <2>1, <2>4 DEF Stages
    <3> HIDE DEF st, l, first
    <3>4. f \in Frames /\ f.node = top.node /\ f.scope = top.scope /\ f.stage = st
      <4>1. f \in Frames
        BY <1>2, <3>2, <3>3 DEF Frames
      <4> QED
        BY <1>2, <4>1 DEF Frames
    <3> HIDE DEF f
    <3>5. FrameOK(f) /\ ~Calling(f)
      BY <2>1, <3>3, <3>4 DEF FrameOK, Calling, kind
    <3> QED
      BY <1>1, <1>3, <2>2, <3>1, <3>4, <3>5, Around, TypeTop DEF StartBody
  <2> QED
    BY <2>3, <2>4
<1>4. CASE Iterate
  <2>1. top.stage = "loop" /\ ~Calling(top)
    BY <1>4 DEF Iterate, Calling
  <2>2. CASE kind = "Repeat" /\ top.left = 0
    <3>1. Return(None) /\ UNCHANGED <<stack, steps>>
      BY <1>4, <2>2 DEF Iterate
    <3>2. env' \in Seq(Scopes) /\ late' \in Nat
      BY <1>1, <1>4, SameProgram DEF Iterate, IInv, InterpreterOK
    <3> QED
      BY <1>1, <1>4, <2>1, <3>1, <3>2, ValueFacts, TypeReturn DEF Iterate
  <2>3. CASE ~(kind = "Repeat" /\ top.left = 0)
    <3> DEFINE l == top.left - 1
               first == 0
               none == <<>>
               body == "body"
               args == "args"
               g == [top EXCEPT !.stage = body, !.pos = first, !.left = l]
               h == [top EXCEPT !.stage = args, !.pos = first, !.vals = none]
               f == IF kind = "Repeat" THEN g ELSE h
    <3>1. TopBecomes(f) /\ UNCHANGED <<pc, ret>> /\ steps' = steps + (IF kind = "While" THEN 1 ELSE 0)
      BY <1>4, <2>3 DEF Iterate
    <3>2. f \in Frames /\ f.node = top.node /\ f.scope = top.scope /\ FrameOK(f) /\ ~Calling(f)
      <4>1. CASE kind = "Repeat"
        <5>1. l \in Nat /\ body \in Stages /\ first \in Nat
          BY <1>2, <2>3, <4>1 DEF Stages
        <5> HIDE DEF l, first, body
        <5>2. g \in Frames
          BY <1>2, <5>1 DEF Frames
        <5>3. g.node = top.node /\ g.scope = top.scope /\ g.stage = body
          BY <1>2 DEF Frames
        <5> HIDE DEF g
        <5>4. FrameOK(g) /\ ~Calling(g)
          BY <4>1, <5>3 DEF FrameOK, Calling, kind, body
        <5> QED
          BY <4>1, <5>2, <5>3, <5>4
      <4>2. CASE kind # "Repeat"
        <5>1. args \in Stages /\ none \in Seq(Values) /\ first \in Nat
          BY DEF Stages
        <5> HIDE DEF args, none, first
        <5>2. h \in Frames
          BY <1>2, <5>1 DEF Frames
        <5>3. /\ h.node = top.node /\ h.scope = top.scope /\ h.stage = args
              /\ h.pos = first /\ h.vals = none
          BY <1>2 DEF Frames
        <5> HIDE DEF h
        <5>4. Len(none) = 0 /\ first = 0 /\ args = "args"
          BY EmptySeq DEF none, first, args
        <5>5. FrameOK(h) /\ ~Calling(h)
          BY <1>1, <5>3, <5>4, InnerFacts DEF FrameOK, Calling
        <5> QED
          BY <4>2, <5>2, <5>3, <5>5
      <4> QED
        BY <4>1, <4>2
    <3> HIDE DEF f
    <3>3. steps' \in Nat
      BY <1>1, <3>1 DEF IInv, InterpreterOK
    <3> QED
      BY <1>1, <1>4, <2>1, <3>1, <3>2, <3>3, Around, TypeTop DEF Iterate
  <2> QED
    BY <2>2, <2>3
<1> QED
  BY <1>3, <1>4

LEMMA TypeCall == ASSUME IInv, Call PROVE IInv'
<1> USE DEF scopes, flags, given
<1>1. /\ Inner /\ stack # <<>> /\ ~Faulty /\ program' = program /\ pc' = "inner"
      /\ kind = "Call" /\ OperandsDone /\ InterpreterOK
  BY DEF Call, Inner, IInv, StackOK
<1> DEFINE st == "body"
           first == 0
           f == [top EXCEPT !.stage = st, !.pos = first]
           scope == Bindings(FunctionNamed(op), top.vals)
<1>2. TopBecomes(f) /\ env' = Append(env, scope) /\ callDepth' = callDepth + 1
  BY DEF Call
<1>3. st \in Stages /\ first \in Nat
  BY DEF Stages
<1>4. scope \in Scopes
  BY <1>1, InnerFacts, FunctionFacts, BindingsScope
<1> HIDE DEF st, first, scope
<1>5. top \in Frames /\ ~Calling(top)
  BY <1>1, InnerFacts, DoneFacts
<1>6. f \in Frames
  BY <1>3, <1>5 DEF Frames
<1>7. f.node = top.node /\ f.scope = top.scope /\ f.stage = "body"
  BY <1>5 DEF Frames, st
<1> HIDE DEF f
<1>8. FrameOK(f) /\ Calling(f)
  BY <1>1, <1>7 DEF FrameOK, Calling, kind
<1>9. /\ env \in Seq(Scopes) /\ Len(env) \in Nat /\ callDepth \in Nat /\ callDepth = Len(env) - 1
      /\ Len(env) = top.scope
  BY <1>1, <1>5, InnerFacts, LenProperties DEF InterpreterOK, Nested, ScopeUnder
<1>10. env' \in Seq(Scopes) /\ Len(env') = Len(env) + 1
  BY <1>2, <1>4, <1>9, AppendProperties
<1>11. env' # <<>>
  BY <1>9, <1>10, EmptySeq
<1>12. Len(env') = ScopeUnder(f) /\ callDepth' \in Nat /\ callDepth' = Len(env') - 1
  BY <1>2, <1>7, <1>8, <1>9, <1>10 DEF ScopeUnder
<1>13. ret' \in Values /\ steps' \in Nat
  BY <1>1, SameProgram DEF Call, InterpreterOK
<1> QED
  BY <1>1, <1>2, <1>6, <1>7, <1>8, <1>10, <1>11, <1>12, <1>13, TypeTop DEF Call

LEMMA TypeBodies ==
    ASSUME IInv, SkipStatement \/ EndBody
    PROVE  IInv'
<1> USE DEF scopes, flags, given
<1>1. /\ Inner /\ stack # <<>> /\ ~Faulty /\ program' = program /\ pc = "inner" /\ InterpreterOK
  BY DEF SkipStatement, EndBody, Inner, IInv, StackOK, InterpreterOK
<1>2. top \in Frames /\ top.node \in Nodes /\ top.pos \in Nat
  BY <1>1, InnerFacts
<1>3. CASE SkipStatement
  <2> DEFINE p == top.pos + 1
             f == [top EXCEPT !.pos = p]
             body == Body(top.node)
  <2>1. /\ top.stage = "skip" /\ top.pos < Len(body)
        /\ TopBecomes(f)
    BY <1>3 DEF SkipStatement
  <2>2. body \in Seq(Nodes) /\ FrameOK(top)
    BY <1>1, InnerFacts
  <2> HIDE DEF body
  <2>3. p \in Nat
    BY <1>2
  <2> HIDE DEF p
  <2>5. f \in Frames
    BY <1>2, <2>3 DEF Frames
  <2>6. f.node = top.node /\ f.scope = top.scope /\ f.stage = "skip"
    BY <1>2, <2>1 DEF Frames
  <2> HIDE DEF f
  <2>7. FrameOK(f) /\ ~Calling(f) /\ ~Calling(top)
    BY <2>1, <2>2, <2>6 DEF FrameOK, Calling
  <2> QED
    BY <1>1, <1>3, <2>1, <2>5, <2>6, <2>7, Around, TypeTop DEF SkipStatement
<1>4. CASE EndBody /\ kind \in {"Repeat", "While"}
  <2> DEFINE st == "loop"
             f == [top EXCEPT !.stage = st]
  <2>1. TopBecomes(f) /\ UNCHANGED <<pc, ret, env, callDepth>>
    BY <1>4 DEF EndBody
  <2>2. st \in Stages
    BY DEF Stages
  <2> HIDE DEF st
  <2>3. f \in Frames
    BY <1>2, <2>2 DEF Frames
  <2>4. f.node = top.node /\ f.scope = top.scope /\ f.stage = "loop"
    BY <1>2 DEF Frames, st
  <2> HIDE DEF f
  <2>5. FrameOK(f) /\ ~Calling(f) /\ ~Calling(top)
    BY <1>4, <2>4 DEF FrameOK, Calling, kind
  <2> QED
    BY <1>1, <1>4, <2>1, <2>3, <2>4, <2>5, Around, TypeTop DEF EndBody
<1>5. CASE EndBody /\ kind = "Call"
  <2> DEFINE st == "done"
             f == [top EXCEPT !.stage = st]
  <2>1. /\ TopBecomes(f) /\ Return(top.last) /\ env' = Front(env) /\ callDepth' = callDepth - 1
        /\ top.stage \in {"body", "skip"}
    BY <1>5 DEF EndBody
  <2>2. Calling(top)
    BY <1>1, <1>5, <2>1, InnerFacts DEF FrameOK, Calling, kind
  <2>3. st \in Stages /\ top.last \in Values
    BY <1>2 DEF Frames, Stages
  <2> HIDE DEF st
  <2>4. f \in Frames
    BY <1>2, <2>3 DEF Frames
  <2>5. f.node = top.node /\ f.scope = top.scope /\ f.stage = "done"
    BY <1>2 DEF Frames, st
  <2> HIDE DEF f
  <2>6. FrameOK(f) /\ ~Calling(f)
    BY <2>5 DEF FrameOK, Calling
  <2>7. /\ env' \in Seq(Scopes) /\ env' # <<>> /\ Len(env') = Len(env) - 1
        /\ callDepth' \in Nat /\ callDepth' = Len(env') - 1
    BY <1>1, <2>1, <2>2, ScopeLeft
  <2>8. Len(env') = ScopeUnder(f)
    <3>1. Len(env) = top.scope + 1 /\ top.scope \in Nat
      BY <1>1, <2>2, InnerFacts DEF ScopeUnder, Frames
    <3> QED
      BY <2>5, <2>6, <2>7, <3>1 DEF ScopeUnder
  <2>9. pc' = "leave" /\ ret' \in Values /\ steps' \in Nat
    BY <1>1, <1>5, <2>1, <2>3 DEF EndBody, Return, InterpreterOK
  <2> QED
    BY <1>1, <1>5, <2>1, <2>4, <2>5, <2>6, <2>7, <2>8, <2>9, TypeTop DEF EndBody
<1>6. CASE EndBody /\ kind \notin {"Repeat", "While", "Call"}
  <2>1. Return(top.last) /\ UNCHANGED <<env, callDepth, stack>>
    BY <1>6 DEF EndBody
  <2>2. top.last \in Values /\ ~Calling(top)
    BY <1>2, <1>6 DEF Frames, Calling, kind
  <2>3. env' \in Seq(Scopes) /\ late' \in Nat
    BY <1>1, <1>6, <2>1 DEF EndBody, InterpreterOK
  <2> QED
    BY <1>1, <1>6, <2>1, <2>2, <2>3, TypeReturn DEF EndBody
<1> QED
  BY <1>3, <1>4, <1>5, <1>6

(* The interpreter keeps the inductive invariant, whoever runs it.         *)
LEMMA TypeWork == ASSUME IInv, Interpret \/ Reads PROVE IInv'
BY TypeOutside, TypeBegin, TypeLeave, TypeUnwind, TypeOperands, TypeEffects,
   TypeBranches, TypeLoops, TypeCall, TypeBodies
   DEF Interpret

LEMMA AnswersRead == HostAnswers => Reads
BY EngineAssumption DEF HostAnswers, Reads

LEMMA TypeStep == IInv /\ [Next]_vars => IInv'
<1> SUFFICES ASSUME IInv, [Next]_vars PROVE IInv'
  OBVIOUS
<1>1. CASE EngineStep
  BY <1>1, AnswersRead, TypeWork DEF EngineStep
<1>2. CASE RequestCancel \/ Terminated \/ UNCHANGED vars
  <2>1. UNCHANGED interpreter /\ cancel' \in BOOLEAN
    BY <1>2 DEF RequestCancel, Terminated, vars, IInv, InterpreterOK
  <2> QED
    BY <2>1, TypeCancel
<1> QED
  BY <1>1, <1>2 DEF Next

(* The inductive invariant: besides the shapes, active calls nest and      *)
(* there is one variable scope per function body being run.                *)
THEOREM Inductive == Spec => []IInv
BY TypeInit, TypeStep, PTL DEF Spec

-----------------------------------------------------------------------------
(***************************************************************************)
(* The safety bounds of the robot's commands.                              *)
(***************************************************************************)
LEMMA SafeArgumentsFacts ==
    /\ \A k \in Moves : \A s \in 0 .. SpeedMax, d \in 0 .. DurationMax :
          <<Integer(s), Integer(d)>> \in Stream!SafeArguments(k)
    /\ \A k \in Turns : \A d \in 0 .. TurnMax : <<Integer(d)>> \in Stream!SafeArguments(k)
    /\ \A d \in 0 .. DurationMax : <<Integer(d)>> \in Stream!SafeArguments("Wait")
    /\ \A c \in Colors : <<Color(c)>> \in Stream!SafeArguments("Light")
    /\ \A k \in {"Stop", "Beep"} : <<>> \in Stream!SafeArguments(k)
BY DEF Stream!SafeArguments, Stream!Moves, Stream!Turns, Stream!Integer, Stream!Color,
       Stream!Colors, Moves, Turns, Integer, Color, Colors

(* A command that gets past its checks is inside the bounds.               *)
LEMMA SafeCommand ==
    ASSUME IInv, Command
    PROVE  top.vals \in Stream!SafeArguments(kind)
<1> DEFINE s == top.vals[1]
           d == top.vals[2]
<1>1. /\ Inner /\ stack # <<>> /\ ~Faulty /\ kind \in Commands /\ OperandsDone
      /\ top.stage = "args"
  BY DEF Command, Inner, IInv, StackOK, OperandsDone
<1>2. Len(top.vals) = Len(Ast[top.node].args) /\ top.vals \in Seq(Values)
  <2>1. kind \notin {"Arithmetic", "BooleanOp"} /\ Operands = Len(Ast[top.node].args)
    BY <1>1 DEF Operands, Commands, Moves, Turns
  <2>2. Len(top.vals) = top.pos /\ top.pos >= Operands
    BY <1>1, <2>1, DoneFacts
  <2>3. top.pos <= Len(Ast[top.node].args)
    BY <1>1, InnerFacts DEF FrameOK
  <2> QED
    BY <1>1, <2>1, <2>2, <2>3, InnerFacts
<1>3. DOMAIN top.vals = 1 .. Len(top.vals) /\ \A i \in 1 .. Len(top.vals) : top.vals[i] \in Values
  BY <1>1, <1>2, InnerFacts, LenProperties
<1>5. CASE kind \in Moves
  <2>1. Len(top.vals) = 2
    BY <1>1, <1>2, <1>5, ArityFacts
  <2>2. s.kind = "Integer" /\ d.kind = "Integer"
    BY <1>1, <1>3, <1>5, <2>1 DEF Faulty, OperandFault, AllOperands
  <2>3. s.v \in 0 .. SpeedMax /\ d.v \in 0 .. DurationMax
    BY <1>1, <1>5 DEF Faulty, RangeFault
  <2>4. s = Integer(s.v) /\ d = Integer(d.v)
    BY <1>3, <2>1, <2>2, ValueFacts
  <2>5. top.vals = <<s, d>>
    BY <1>2, <2>1
  <2> HIDE DEF s, d
  <2>6. top.vals = <<Integer(s.v), Integer(d.v)>>
    BY <2>4, <2>5
  <2> QED
    BY <1>5, <2>3, <2>6, SafeArgumentsFacts
<1>6. CASE kind \in Turns \cup {"Wait"}
  <2>1. Len(top.vals) = 1
    BY <1>1, <1>2, <1>6, ArityFacts DEF OneOperand
  <2>2. s.kind = "Integer"
    BY <1>1, <1>3, <1>6, <2>1 DEF Faulty, OperandFault, AllOperands
  <2>3. (kind \in Turns => s.v \in 0 .. TurnMax) /\ (kind = "Wait" => s.v \in 0 .. DurationMax)
    BY <1>1 DEF Faulty, RangeFault
  <2>4. s = Integer(s.v)
    BY <1>3, <2>1, <2>2, ValueFacts
  <2>5. top.vals = <<s>>
    BY <1>2, <2>1
  <2> HIDE DEF s
  <2>6. top.vals = <<Integer(s.v)>>
    BY <2>4, <2>5
  <2> QED
    BY <1>6, <2>3, <2>6, SafeArgumentsFacts
<1>7. CASE kind = "Light"
  <2>1. Len(top.vals) = 1
    BY <1>1, <1>2, <1>7, ArityFacts DEF OneOperand
  <2>2. s.kind = "Color"
    BY <1>1, <1>3, <1>7, <2>1 DEF Faulty, OperandFault, AllOperands
  <2>3. s.v \in Colors /\ s = Color(s.v)
    BY <1>3, <2>1, <2>2, ValueFacts
  <2>4. top.vals = <<s>>
    BY <1>2, <2>1
  <2> HIDE DEF s
  <2>5. top.vals = <<Color(s.v)>>
    BY <2>3, <2>4
  <2> QED
    BY <1>7, <2>3, <2>5, SafeArgumentsFacts
<1>8. CASE kind \in {"Stop", "Beep"}
  <2>1. Len(Ast[top.node].args) = 0
    BY <1>1, <1>8, InnerFacts DEF ArityOK, Childless, kind
  <2>2. top.vals = <<>>
    BY <1>2, <2>1, EmptySeq
  <2> QED
    BY <1>8, <2>2, SafeArgumentsFacts
<1> QED
  BY <1>1, <1>5, <1>6, <1>7, <1>8 DEF Commands

LEMMA MessageFacts ==
    /\ \A t \in {"programStart", "programDone", "programError"} : ProgramEvent(t) \in Messages
    /\ \A t \in NodeEvents, n \in Nodes : NodeEvent(t, n) \in Messages
    /\ \A k \in Commands, args \in Seq(Values) : RobotCommand(k, args) \in Messages
    /\ \A k \in Sensors, v \in Ints : SensorRead(k, v) \in Messages
BY DEF ProgramEvent, NodeEvent, RobotCommand, SensorRead, Messages

(* A message a run may send: its arguments are inside the bounds.          *)
Sendable(m) ==
    m \in Messages /\ (m.type = "robotCommand" => m.args \in Stream!SafeArguments(m.command))

LEMMA SendableFacts ==
    /\ \A t \in {"programStart", "programDone", "programError"} : Sendable(ProgramEvent(t))
    /\ \A t \in NodeEvents, n \in Nodes : Sendable(NodeEvent(t, n))
    /\ \A k \in Sensors, v \in Ints : Sendable(SensorRead(k, v))
    /\ Sendable(RobotCommand("Stop", <<>>))
<1>1. /\ \A t \in {"programStart", "programDone", "programError"} : ProgramEvent(t).type # "robotCommand"
      /\ \A t \in NodeEvents, n \in Nodes : NodeEvent(t, n).type # "robotCommand"
      /\ \A k \in Sensors, v \in Ints : SensorRead(k, v).type # "robotCommand"
  BY DEF ProgramEvent, NodeEvent, NodeEvents, SensorRead
<1>2. "Stop" \in Commands /\ <<>> \in Seq(Values)
  BY DEF Commands
<1>3. LET m == RobotCommand("Stop", <<>>) IN m.args = <<>> /\ m.command = "Stop"
  BY DEF RobotCommand
<1> QED
  BY <1>1, <1>2, <1>3, MessageFacts, SafeArgumentsFacts DEF Sendable

(* A step of the interpreter sends nothing or one such message.            *)
LEMMA Emits ==
    ASSUME IInv, Interpret \/ Reads
    PROVE  out' = out \/ \E m : Sendable(m) /\ out' = Append(out, m)
<1>1. InterpreterOK /\ StackOK
  BY DEF IInv
<1>2. CASE Start \/ Finish \/ StopRobot
  BY <1>2, SendableFacts DEF Start, Finish, StopRobot, Emit
<1>3. CASE Begin \/ StepLimit \/ RuntimeError \/ Leave
  <2>1. PICK n \in Nodes, t \in {"nodeStart", "nodeDone", "nodeError"} :
            out' = out \/ out' = Append(out, NodeEvent(t, n))
    BY <1>1, <1>3, TopFacts DEF InterpreterOK, StackOK, Begin, StepLimit, RuntimeError, Fail, Leave, Emit
  <2> QED
    BY <2>1, SendableFacts DEF NodeEvents
<1>4. CASE Command
  <2>1. Inner /\ kind \in Commands /\ out' = Append(out, RobotCommand(kind, top.vals))
    BY <1>4 DEF Command, Emit
  <2>2. top.vals \in Seq(Values)
    BY <1>1, <2>1, InnerFacts DEF Inner, StackOK
  <2>3. LET m == RobotCommand(kind, top.vals) IN m.args = top.vals /\ m.command = kind
    BY DEF RobotCommand
  <2>4. Sendable(RobotCommand(kind, top.vals))
    BY <1>4, <2>1, <2>2, <2>3, MessageFacts, SafeCommand DEF Sendable
  <2> QED
    BY <2>1, <2>4
<1>5. CASE Reads
  BY <1>5, SendableFacts DEF Reads, ReadSensor, Emit
<1>6. CASE ChooseBranch \/ SkipStatement
  <2>1. Inner /\ stack # <<>> /\ ~Faulty
    BY <1>1, <1>6 DEF ChooseBranch, SkipStatement, Inner, StackOK
  <2>2. PICK n \in Nodes : out' = Append(out, NodeEvent("nodeSkipped", n))
    <3>1. CASE ChooseBranch
      <4>1. kind = "If" /\ 2 \in 1 .. Len(Ast[top.node].args) /\ 3 \in 1 .. Len(Ast[top.node].args)
        BY <2>1, <3>1, ArityFacts DEF ChooseBranch
      <4>2. Ast[top.node].args[2] \in Nodes /\ Ast[top.node].args[3] \in Nodes
        BY <2>1, <4>1, InnerFacts, ElementOfSeq
      <4> QED
        BY <3>1, <4>2 DEF ChooseBranch, Emit
    <3>2. CASE SkipStatement
      <4> DEFINE i == top.pos + 1
      <4>1. i \in 1 .. Len(Body(top.node)) /\ Body(top.node) \in Seq(Nodes)
        BY <2>1, <3>2, InnerFacts, LenProperties DEF SkipStatement
      <4>2. Body(top.node)[i] \in Nodes
        BY <4>1, ElementOfSeq
      <4> QED
        BY <3>2, <4>2 DEF SkipStatement, Emit
    <3> QED
      BY <1>6, <3>1, <3>2
  <2> QED
    BY <2>2, SendableFacts DEF NodeEvents
<1>7. CASE Poll \/ Unwind \/ EvalOperand \/ Accumulate \/ Trap \/ GiveResult \/ Assign \/ EndIf
             \/ StartBody \/ Iterate \/ Call \/ NextStatement \/ EndBody
  BY <1>7 DEF Poll, Unwind, EvalOperand, Accumulate, Trap, GiveResult, Assign, EndIf, StartBody,
              Iterate, Call, NextStatement, EndBody
<1> QED
  BY <1>2, <1>3, <1>4, <1>5, <1>6, <1>7 DEF Interpret

(* Everything sent was such a message.                                     *)
AllSendable == out \in Seq(Messages) /\ \A i \in DOMAIN out : Sendable(out[i])

LEMMA SentStep ==
    ASSUME IInv, AllSendable, [Next]_vars
    PROVE  AllSendable'
<1>1. /\ out \in Seq(Messages) /\ DOMAIN out = 1 .. Len(out) /\ Len(out) \in Nat
      /\ \A i \in 1 .. Len(out) : Sendable(out[i])
  BY LenProperties DEF AllSendable
<1>2. Messages' = Messages /\ \A m : Sendable(m)' <=> Sendable(m)
  <2>1. program' = program
    BY DEF Next, EngineStep, Interpret, HostAnswers, Start, Poll, Begin, StepLimit, RuntimeError, Fail,
           Leave, Unwind, StopRobot, Finish, EvalOperand, Accumulate, Trap, GiveResult, Assign,
           Command, ReadSensor, ChooseBranch, EndIf, StartBody, Iterate, Call, NextStatement,
           SkipStatement, EndBody, RequestCancel, Terminated, vars, interpreter, given
  <2> QED
    BY <2>1, SameProgram DEF Sendable
<1>3. CASE out' = out
  BY <1>1, <1>2, <1>3 DEF AllSendable
<1>4. ASSUME NEW m, Sendable(m), out' = Append(out, m)
      PROVE  AllSendable'
  <2>1. m \in Messages
    BY <1>4 DEF Sendable
  <2>2. /\ out' \in Seq(Messages) /\ DOMAIN out' = 1 .. Len(out) + 1
        /\ \A i \in 1 .. Len(out) : out'[i] = out[i]
        /\ out'[Len(out) + 1] = m
    BY <1>1, <1>4, <2>1, AppendProperties, LenProperties
  <2>3. \A i \in DOMAIN out' : Sendable(out'[i])
    BY <1>1, <1>4, <2>2
  <2> QED
    BY <1>2, <2>2, <2>3 DEF AllSendable
<1>5. out' = out \/ \E m : Sendable(m) /\ out' = Append(out, m)
  BY AnswersRead, Emits DEF Next, EngineStep, RequestCancel, Terminated, vars
<1> QED
  BY <1>3, <1>4, <1>5

LEMMA Sent == Spec => []AllSendable
<1>1. Init => AllSendable
  BY DEF Init, AllSendable
<1>2. IInv /\ AllSendable /\ [Next]_vars => AllSendable'
  BY SentStep
<1> QED
  BY <1>1, <1>2, Inductive, PTL DEF Spec

(* Whatever the program, the limits and the sensors, every variable keeps  *)
(* its shape: no value leaves std::int64_t (the kind of a value and its    *)
(* width are engine.cpp:307-314's), every scope binds names to values, the *)
(* scope stack never loses the global scope (engine.cpp:12-28).            *)
THEOREM TypeCorrect == Spec => []TypeOK
<1>1. IInv /\ AllSendable => TypeOK
  BY DEF IInv, TypeOK, AllSendable
<1> QED
  BY <1>1, Inductive, Sent, PTL

(* Whatever is computed, from literals, variables, arguments or sensors,   *)
(* with whatever overflow: the robot is never told to exceed its bounds    *)
(* (engine.cpp:215-255).                                                   *)
THEOREM SafeCommands == Spec => []CommandsSafe
<1>1. AllSendable => CommandsSafe
  BY DEF AllSendable, Sendable, CommandsSafe
<1> QED
  BY <1>1, Sent, PTL

-----------------------------------------------------------------------------
(***************************************************************************)
(* Commands after the cancel flag went up.                                 *)
(***************************************************************************)
(* When eval_inner goes on in the top frame, what may be under way after a *)
(* late command rules out every command, integer, sensor and operator.     *)
LEMMA SoftFacts ==
    ASSUME IInv, Inner, SoftTop, OperandsDone
    PROVE  /\ kind \notin Commands \cup Sensors \cup Literals \cup {"VarRef", "DefineFunc"}
           /\ kind \notin {"Compare", "Arithmetic", "Repeat"}
           /\ top.vals # <<>> => Soft(Last(top.vals))
<1> DEFINE n == Len(top.vals)
<1>1. stack # <<>> /\ ~Faulty /\ top.stage = "args" /\ n \in Nat
  BY InnerFacts DEF Inner, IInv, StackOK, OperandsDone
<1>2. CASE top.vals = <<>>
  <2>1. kind = "While"
    BY <1>1, <1>2 DEF SoftTop
  <2> QED
    BY <1>2, <2>1 DEF Commands, Moves, Turns, Sensors, Literals
<1>3. CASE top.vals # <<>>
  <2>1. n \in DOMAIN top.vals /\ Last(top.vals) = top.vals[n] /\ n > 0
    BY <1>1, <1>3, InnerFacts, LenProperties, EmptySeq DEF Last
  <2>2. top.vals[n].kind \notin {"Integer", "Color"} /\ Soft(Last(top.vals))
    BY <1>1, <1>3, <2>1 DEF SoftTop, Soft
  <2>3. kind \notin Moves \cup Turns \cup {"Wait", "Repeat", "Arithmetic", "Compare", "Light"}
    BY <1>1, <2>1, <2>2 DEF Faulty, OperandFault, AllOperands
  <2>4. kind \notin Childless
    <3> SUFFICES ASSUME kind \in Childless PROVE FALSE
      OBVIOUS
    <3>1. Len(Ast[top.node].args) = 0
      BY <1>1, InnerFacts DEF ArityOK, kind
    <3>2. kind # "Arithmetic"
      BY <2>3
    <3>3. n = top.pos /\ top.pos <= Len(Ast[top.node].args)
      BY <1>1, <3>2, InnerFacts DEF FrameOK, kind
    <3> QED
      BY <2>1, <3>1, <3>3
  <2> QED
    BY <2>2, <2>3, <2>4 DEF Childless, Commands
<1> QED
  BY <1>2, <1>3

LEMMA NewTop ==
    ASSUME InterpreterOK, stack # <<>>, NEW f \in Frames, TopBecomes(f)
    PROVE  /\ top' = f /\ Len(stack') = Len(stack)
           /\ \A i \in 1 .. Len(stack) : stack'[i] = IF i = Len(stack) THEN f ELSE stack[i]
<1>1. stack \in Seq(Frames) /\ Len(stack) \in Nat \ {0}
  BY TopFacts DEF InterpreterOK
<1> QED
  BY <1>1, ExceptSeq DEF TopBecomes, top

LEMMA LateInit == Init => LateOK /\ NoneBeforeBody
<1>1. \A i \in 1 .. Len(<<>>) : FALSE
  OBVIOUS
<1> QED
  BY <1>1 DEF Init, LateOK, NoneBeforeBody

(* A frame that has not begun its body has no latest statement.            *)
Fresh(f) == f.stage = "args" /\ Ast[f.node].kind \in {"When", "Call"} => f.last = None

LEMMA FreshSame ==
    ASSUME NoneBeforeBody, UNCHANGED <<program, stack>>
    PROVE  NoneBeforeBody'
BY SameProgram DEF NoneBeforeBody

LEMMA FreshTop ==
    ASSUME InterpreterOK, NoneBeforeBody, program' = program, stack # <<>>,
           NEW f \in Frames, TopBecomes(f), Fresh(f)
    PROVE  NoneBeforeBody'
BY SameProgram, NewTop DEF NoneBeforeBody, Fresh

LEMMA LateOutside ==
    ASSUME IInv, LateOK, NoneBeforeBody,
           \/ Start \/ Poll \/ StepLimit \/ RuntimeError \/ StopRobot \/ Finish
           \/ EvalOperand \/ Trap \/ ChooseBranch \/ NextStatement
    PROVE  LateOK' /\ NoneBeforeBody'
<1> USE DEF given
<1>1. UNCHANGED <<program, stack, late, cancel>>
  BY DEF Start, Poll, StepLimit, RuntimeError, StopRobot, Finish, Fail, EvalOperand, Trap,
         ChooseBranch, NextStatement
<1>2. CASE Start \/ (Poll /\ ~cancel)
  <2>1. ~(late > 0)
    BY <1>2 DEF Start, LateOK
  <2> QED
    BY <1>1, <2>1, FreshSame DEF LateOK
<1>3. CASE ~(Start \/ (Poll /\ ~cancel))
  <2>1. pc' \in {"unwind", "report", "over", "enter", "trapped"}
    BY <1>3 DEF Start, Poll, StepLimit, RuntimeError, StopRobot, Finish, Fail, EvalOperand, Trap,
                ChooseBranch, NextStatement, Eval
  <2> QED
    BY <1>1, <2>1, FreshSame DEF LateOK
<1> QED
  BY <1>2, <1>3

LEMMA LateIdle ==
    ASSUME IInv, LateOK, NoneBeforeBody, RequestCancel \/ UNCHANGED vars
    PROVE  LateOK' /\ NoneBeforeBody'
<1>1. UNCHANGED interpreter /\ (cancel => cancel')
  BY DEF RequestCancel, vars
<1>2. UNCHANGED <<program, stack, late, pc, ret>>
  BY <1>1 DEF interpreter
<1>3. SoftTop' <=> SoftTop
  BY <1>2, SameProgram DEF SoftTop, top, kind
<1> QED
  BY <1>1, <1>2, <1>3, FreshSame DEF LateOK

(* The value of a call reaches the frame below, soft if it was.            *)
LEMMA LateLeave ==
    ASSUME IInv, LateOK, NoneBeforeBody, Leave
    PROVE  LateOK' /\ NoneBeforeBody'
<1> USE DEF given
<1> DEFINE n == Len(stack)
           callers == Front(stack)
           f == Deliver(stack[n - 1], ret)
<1>1. /\ stack # <<>> /\ stack \in Seq(Frames) /\ UNCHANGED <<program, late, cancel>> /\ InterpreterOK
      /\ pc = "leave" /\ ret \in Values
  BY DEF Leave, IInv, StackOK, InterpreterOK
<1>2. /\ n \in Nat \ {0} /\ Len(callers) = n - 1 /\ callers \in Seq(Frames)
      /\ \A i \in 1 .. n - 1 : callers[i] = stack[i]
      /\ callers = <<>> <=> n = 1
  BY <1>1, FrontProperties
<1>3. CASE n = 1
  <2>1. stack' = <<>> /\ pc' = "finish"
    BY <1>2, <1>3 DEF Leave
  <2>2. \A i \in 1 .. Len(<<>>) : FALSE
    OBVIOUS
  <2> QED
    BY <1>1, <2>1, <2>2 DEF LateOK, NoneBeforeBody
<1>4. CASE n # 1
  <2>1. /\ stack' = [callers EXCEPT ![n - 1] = Deliver(@, ret)] /\ pc' = "inner"
        /\ callers[n - 1] = stack[n - 1] /\ n - 1 \in 1 .. Len(callers) /\ n - 1 \in 1 .. n
    BY <1>2, <1>4 DEF Leave
  <2>2. stack' = [callers EXCEPT ![n - 1] = f]
    BY <2>1
  <2>3. stack[n - 1] \in Frames /\ FrameOK(stack[n - 1]) /\ Waiting(stack[n - 1])
    <3>1. n - 1 < n
      BY <1>2
    <3> QED
      BY <1>1, <2>1, <3>1, ElementOfSeq DEF IInv, StackOK, Nested
  <2>4. f \in Frames
    BY <1>1, <2>3, DeliverFacts DEF InterpreterOK
  <2>5. /\ f.node = stack[n - 1].node /\ f.stage = stack[n - 1].stage
        /\ f.stage = "args" => f.last = stack[n - 1].last /\ f.vals # <<>> /\ Last(f.vals) = ret
        /\ f.stage # "args" => f.last = ret
    <3> DEFINE g == stack[n - 1]
               v == Append(g.vals, ret)
               p == g.pos + 1
    <3>1. g \in Frames /\ g.vals \in Seq(Values)
      BY <2>3 DEF Frames
    <3>2. Len(v) = Len(g.vals) + 1 /\ Len(g.vals) \in Nat /\ v[Len(v)] = ret /\ v \in Seq(Values)
      BY <1>1, <3>1, AppendProperties, LenProperties
    <3> HIDE DEF v
    <3>3. v # <<>> /\ Last(v) = ret
      BY <3>2, EmptySeq DEF Last
    <3>4. f = IF g.stage = "args" THEN [g EXCEPT !.pos = p, !.vals = v]
                                  ELSE [g EXCEPT !.pos = p, !.last = ret]
      BY DEF Deliver, v
    <3> HIDE DEF f, g, p
    <3>5. CASE g.stage = "args"
      BY <3>1, <3>3, <3>4, <3>5 DEF Frames, g
    <3>6. CASE g.stage # "args"
      BY <3>1, <3>4, <3>6 DEF Frames, g
    <3> QED
      BY <3>5, <3>6
  <2> HIDE DEF f, callers
  <2>6. /\ stack' \in Seq(Frames) /\ Len(stack') = n - 1
        /\ \A i \in 1 .. n - 1 : stack'[i] = IF i = n - 1 THEN f ELSE callers[i]
    BY <1>2, <2>1, <2>2, <2>4, ExceptSeq
  <2>7. top' = f
    BY <1>2, <2>1, <2>6 DEF top
  <2>8. NoneBeforeBody'
    <3>1. \A i \in 1 .. n - 1 : i \in 1 .. n /\ (i # n - 1 => stack'[i] = stack[i])
      BY <1>2, <2>6
    <3> QED
      BY <1>1, <2>1, <2>5, <2>6, <3>1, SameProgram DEF NoneBeforeBody
  <2>9. late > 0 => SoftTop'
    <3> HAVE late > 0
    <3>1. Soft(ret)
      BY <1>1 DEF LateOK
    <3> QED
      BY <2>5, <2>7, <3>1 DEF SoftTop
  <2> QED
    BY <1>1, <2>1, <2>8, <2>9 DEF LateOK
<1> QED
  BY <1>3, <1>4

(* Frames come and go.                                                     *)
LEMMA LateFrames ==
    ASSUME IInv, LateOK, NoneBeforeBody, Begin \/ Unwind
    PROVE  LateOK' /\ NoneBeforeBody'
<1> USE DEF given
<1>1. UNCHANGED <<program, late, cancel>> /\ InterpreterOK /\ stack \in Seq(Frames)
  BY DEF Begin, Unwind, IInv, InterpreterOK
<1>2. CASE Begin
  <2>1. ~(late > 0)
    BY <1>2 DEF Begin, LateOK
  <2>2. NewFrame(cur).last = None
    BY DEF NewFrame
  <2>3. /\ Len(stack') = Len(stack) + 1 /\ Len(stack) \in Nat
        /\ \A i \in 1 .. Len(stack) : stack'[i] = stack[i]
        /\ stack'[Len(stack) + 1] = NewFrame(cur)
    BY <1>1, <1>2, LenProperties DEF Begin
  <2>4. NoneBeforeBody'
    BY <1>1, <2>2, <2>3, SameProgram DEF NoneBeforeBody
  <2> QED
    BY <1>1, <2>1, <2>4 DEF LateOK
<1>3. CASE Unwind
  <2>1. LateOK'
    BY <1>1, <1>3 DEF Unwind, LateOK
  <2>2. CASE stack = <<>>
    BY <1>1, <1>3, <2>1, <2>2, FreshSame DEF Unwind
  <2>3. CASE stack # <<>>
    <3>1. /\ Len(stack') = Len(stack) - 1 /\ Len(stack) \in Nat
          /\ \A i \in 1 .. Len(stack) - 1 : stack'[i] = stack[i]
      BY <1>1, <1>3, <2>3, FrontProperties DEF Unwind
    <3>2. NoneBeforeBody'
      BY <1>1, <3>1, SameProgram DEF NoneBeforeBody
    <3> QED
      BY <2>1, <3>2
  <2> QED
    BY <2>2, <2>3
<1> QED
  BY <1>2, <1>3

(* What is returned after a late command is soft.                          *)
LEMMA LateReturns ==
    ASSUME IInv, LateOK, NoneBeforeBody,
           GiveResult \/ Assign \/ Command \/ HostAnswers \/ EndIf
    PROVE  LateOK' /\ NoneBeforeBody'
<1> USE DEF given
<1>1. /\ Inner /\ pc = "inner" /\ pc' = "leave" /\ UNCHANGED <<program, stack, cancel>>
      /\ late \in Nat /\ stack # <<>>
  BY DEF GiveResult, Assign, Command, HostAnswers, ReadSensor, EndIf, Inner, Return, IInv,
         InterpreterOK, StackOK
<1>2. NoneBeforeBody'
  BY <1>1, FreshSame
<1>3. late > 0 => SoftTop /\ late = 1 /\ cancel
  BY <1>1 DEF LateOK
<1>4. CASE Command
  <2>1. ~(late > 0)
    BY <1>1, <1>3, <1>4, SoftFacts DEF Command
  <2>2. ret' = None /\ late' = (IF cancel THEN 1 ELSE 0)
    BY <1>1, <1>4, <2>1 DEF Command, Return
  <2> QED
    BY <1>1, <1>2, <2>2 DEF LateOK, Soft, None
<1>5. CASE HostAnswers
  <2>1. late' = late /\ kind \in Sensors /\ OperandsDone
    BY <1>5 DEF HostAnswers, ReadSensor
  <2>2. ~(late > 0)
    BY <1>1, <1>3, <2>1, SoftFacts
  <2> QED
    BY <1>2, <2>1, <2>2 DEF LateOK
<1>6. CASE GiveResult
  <2>1. late' = late /\ ret' = Result /\ OperandsDone
        /\ kind \in Literals \cup Operators \cup {"VarRef", "DefineFunc"}
    BY <1>6 DEF GiveResult, Return
  <2>2. late > 0 => kind = "BooleanOp"
    BY <1>1, <1>3, <2>1, SoftFacts DEF Operators
  <2>3. kind = "BooleanOp" => Soft(Result)
    BY DEF Result, Boolean, Soft
  <2> QED
    BY <1>1, <1>2, <1>3, <2>1, <2>2, <2>3 DEF LateOK
<1>7. CASE Assign \/ EndIf
  <2>1. late' = late /\ top.stage = "args"
    BY <1>7 DEF Assign, EndIf, OperandsDone
  <2>2. Len(top.vals) >= 1 /\ ret' = Last(top.vals)
    <3>1. CASE Assign
      <4>1. kind \in {"DefineVar", "SetVar"} /\ OperandsDone /\ ret' = top.vals[1]
        BY <3>1 DEF Assign, Return
      <4>2. Len(Ast[top.node].args) = 1
        BY <1>1, <4>1, ArityFacts DEF OneOperand
      <4>3. Operands = 1
        BY <4>1, <4>2 DEF Operands
      <4>4. Len(top.vals) = 1
        BY <1>1, <2>1, <4>1, <4>2, <4>3, DoneFacts, InnerFacts DEF Inner, FrameOK
      <4> QED
        BY <4>1, <4>4 DEF Last
    <3>2. CASE EndIf
      <4>1. kind = "If" /\ top.pos = 2 /\ ret' = top.vals[2]
        BY <3>2 DEF EndIf, Return
      <4>2. Len(top.vals) = 2
        BY <1>1, <2>1, <4>1, InnerFacts DEF Inner, FrameOK, kind
      <4> QED
        BY <4>1, <4>2 DEF Last
    <3> QED
      BY <1>7, <3>1, <3>2
  <2>3. top.vals # <<>>
    BY <2>2, EmptySeq
  <2>4. late > 0 => Soft(ret')
    BY <1>3, <2>1, <2>2, <2>3 DEF SoftTop
  <2> QED
    BY <1>1, <1>2, <1>3, <2>1, <2>4 DEF LateOK, Soft
<1> QED
  BY <1>4, <1>5, <1>6, <1>7

(* The frame on top goes on: f is what becomes of it.                      *)
LEMMA LateTop ==
    ASSUME IInv, LateOK, NoneBeforeBody, Inner, UNCHANGED <<program, late, cancel>>,
           NEW f \in Frames, TopBecomes(f), Fresh(f), pc' \in {"inner", "leave"},
           late > 0 /\ pc' = "leave" => Soft(ret'),
           late > 0 /\ pc' = "inner" =>
              /\ f.stage = "args" => IF f.vals = <<>> THEN Ast[f.node].kind = "While"
                                                     ELSE Soft(Last(f.vals))
              /\ f.stage \in {"body", "skip"} /\ Ast[f.node].kind \notin {"Repeat", "While"}
                    => Soft(f.last)
    PROVE  LateOK' /\ NoneBeforeBody'
<1>1. stack # <<>> /\ InterpreterOK
  BY DEF Inner, IInv, StackOK
<1>2. top' = f
  BY <1>1, NewTop
<1>3. NoneBeforeBody'
  BY <1>1, FreshTop
<1>4. late > 0 /\ pc' = "inner" => SoftTop'
  BY <1>2, SameProgram DEF SoftTop, kind
<1> QED
  BY <1>3, <1>4 DEF LateOK, Inner

LEMMA LateLoops ==
    ASSUME IInv, LateOK, NoneBeforeBody, Accumulate \/ StartBody \/ Iterate
    PROVE  LateOK' /\ NoneBeforeBody'
<1> USE DEF given
<1>1. /\ Inner /\ pc = "inner" /\ UNCHANGED <<program, late, cancel>> /\ stack # <<>> /\ ~Faulty
      /\ InterpreterOK
  BY DEF Accumulate, StartBody, Iterate, Inner, IInv, StackOK
<1>2. late > 0 => SoftTop
  BY <1>1 DEF LateOK
<1>3. top \in Frames /\ top.left \in Nat /\ Len(stack) \in 1 .. Len(stack)
  BY <1>1, TopFacts DEF Frames
<1>4. Fresh(top)
  BY <1>3 DEF NoneBeforeBody, Fresh, top
<1>5. CASE Accumulate
  <2>1. kind = "Arithmetic" /\ top.stage = "args" /\ Len(top.vals) = 2 /\ pc' = "inner"
    BY <1>1, <1>5 DEF Accumulate
  <2>2. ~(late > 0)
    <3> SUFFICES ASSUME late > 0 PROVE FALSE
      OBVIOUS
    <3>1. top.vals # <<>> /\ DOMAIN top.vals = 1 .. 2
      BY <1>1, <2>1, InnerFacts, EmptySeq, LenProperties
    <3>2. Last(top.vals).kind \in {"None", "Boolean"}
      BY <1>2, <2>1, <3>1 DEF SoftTop, Soft
    <3>3. top.vals[2].kind = "Integer"
      BY <1>1, <2>1, <3>1 DEF Faulty, OperandFault, AllOperands
    <3> QED
      BY <2>1, <3>2, <3>3 DEF Last
  <2> DEFINE v == <<Integer(Apply(op, top.vals[1].v, top.vals[2].v))>>
             f == [top EXCEPT !.vals = v]
  <2>3. TopBecomes(f)
    BY <1>5 DEF Accumulate
  <2>4. v \in Seq(Values)
    <3>1. top.vals[1].v \in Ints /\ top.vals[2].v \in Ints
      BY <1>1, <2>1, InnerFacts
    <3>2. op = "/" => top.vals[2].v # 0
      BY <1>1, <2>1 DEF Faulty, OperandFault
    <3>3. op \in {"+", "-", "*", "/"}
      BY <1>1, <2>1, ArityFacts
    <3>4. Apply(op, top.vals[1].v, top.vals[2].v) \in Ints
      BY <3>1, <3>2, <3>3, ApplyInts
    <3> QED
      BY <3>4, ValueFacts
  <2> HIDE DEF v
  <2>5. f \in Frames
    BY <1>3, <2>4 DEF Frames
  <2>6. f.node = top.node
    BY <1>3 DEF Frames
  <2> HIDE DEF f
  <2>7. Fresh(f)
    BY <2>1, <2>6 DEF Fresh, kind
  <2> QED
    BY <1>1, <2>1, <2>2, <2>3, <2>5, <2>7, LateTop
<1>6. CASE StartBody
  <2>1. kind \in {"When", "While", "Repeat"} /\ OperandsDone /\ top.stage = "args"
    BY <1>6 DEF StartBody, OperandsDone
  <2>2. late > 0 => kind # "Repeat"
    BY <1>1, <1>2, <2>1, SoftFacts
  <2>3. CASE kind = "While" /\ ~Truthy(top.vals[1])
    <3>1. ret' = None /\ pc' = "leave" /\ UNCHANGED stack
      BY <1>6, <2>3 DEF StartBody, Return
    <3> QED
      BY <1>1, <3>1, FreshSame DEF LateOK, Soft, None
  <2>4. CASE ~(kind = "While" /\ ~Truthy(top.vals[1]))
    <3> DEFINE st == IF kind = "Repeat" THEN "loop"
                       ELSE IF Truthy(top.vals[1]) THEN "body" ELSE "skip"
               l == IF kind = "Repeat" THEN top.vals[1].v ELSE 0
               first == 0
               f == [top EXCEPT !.stage = st, !.pos = first, !.left = l]
    <3>1. TopBecomes(f) /\ UNCHANGED pc
      BY <1>6, <2>4 DEF StartBody
    <3>2. l \in Nat
      <4>1. CASE kind = "Repeat"
        <5>1. top.vals[1].v \in 0 .. limits.maxRepeat /\ limits.maxRepeat \in Nat
          BY <1>1, <2>1, <4>1 DEF Faulty, RangeFault, InterpreterOK
        <5> QED
          BY <4>1, <5>1
      <4>2. CASE kind # "Repeat"
        BY <4>2
      <4> QED
        BY <4>1, <4>2
    <3>3. first \in Nat /\ st \in {"loop", "body", "skip"} /\ st \in Stages
      BY DEF Stages
    <3> HIDE DEF st, l, first
    <3>4. f \in Frames
      BY <1>3, <3>2, <3>3 DEF Frames
    <3>5. f.node = top.node /\ f.last = top.last /\ f.stage = st
      BY <1>3 DEF Frames
    <3> HIDE DEF f
    <3>6. Fresh(f)
      BY <3>3, <3>5 DEF Fresh
    <3>7. kind = "When" => Soft(f.last)
      BY <1>4, <2>1, <3>5 DEF Fresh, Soft, None, kind
    <3>8. Ast[f.node].kind = kind
      BY <3>5 DEF kind
    <3> QED
      BY <1>1, <2>1, <2>2, <3>1, <3>3, <3>4, <3>5, <3>6, <3>7, <3>8, LateTop
  <2> QED
    BY <2>3, <2>4
<1>7. CASE Iterate
  <2>1. top.stage = "loop" /\ kind \in {"Repeat", "While"}
    BY <1>1, <1>7, InnerFacts DEF Iterate, FrameOK, kind
  <2>2. CASE kind = "Repeat" /\ top.left = 0
    <3>1. ret' = None /\ pc' = "leave" /\ UNCHANGED stack
      BY <1>7, <2>2 DEF Iterate, Return
    <3> QED
      BY <1>1, <3>1, FreshSame DEF LateOK, Soft, None
  <2>3. CASE ~(kind = "Repeat" /\ top.left = 0)
    <3> DEFINE l == top.left - 1
               first == 0
               none == <<>>
               body == "body"
               args == "args"
               g == [top EXCEPT !.stage = body, !.pos = first, !.left = l]
               h == [top EXCEPT !.stage = args, !.pos = first, !.vals = none]
               f == IF kind = "Repeat" THEN g ELSE h
    <3>1. TopBecomes(f) /\ UNCHANGED <<pc, ret>>
      BY <1>7, <2>3 DEF Iterate
    <3>2. /\ f \in Frames /\ f.node = top.node /\ f.stage = (IF kind = "Repeat" THEN "body" ELSE "args")
          /\ kind # "Repeat" => f.vals = <<>>
      <4>1. CASE kind = "Repeat"
        <5>1. l \in Nat /\ body \in Stages /\ first \in Nat
          BY <1>3, <2>3, <4>1 DEF Stages
        <5> HIDE DEF l, first, body
        <5>2. g \in Frames
          BY <1>3, <5>1 DEF Frames
        <5>3. g.node = top.node /\ g.stage = body
          BY <1>3 DEF Frames
        <5> HIDE DEF g
        <5> QED
          BY <4>1, <5>2, <5>3 DEF body
      <4>2. CASE kind # "Repeat"
        <5>1. args \in Stages /\ none \in Seq(Values) /\ first \in Nat
          BY DEF Stages
        <5> HIDE DEF args, none, first
        <5>2. h \in Frames
          BY <1>3, <5>1 DEF Frames
        <5>3. h.node = top.node /\ h.stage = args /\ h.vals = none
          BY <1>3 DEF Frames
        <5> HIDE DEF h
        <5> QED
          BY <4>2, <5>2, <5>3 DEF args, none
      <4> QED
        BY <4>1, <4>2
    <3> HIDE DEF f
    <3>3. Ast[f.node].kind = kind
      BY <3>2 DEF kind
    <3>4. Fresh(f)
      BY <2>1, <3>3 DEF Fresh
    <3> QED
      BY <1>1, <2>1, <3>1, <3>2, <3>3, <3>4, LateTop
  <2> QED
    BY <2>2, <2>3
<1> QED
  BY <1>5, <1>6, <1>7

LEMMA LateBodies ==
    ASSUME IInv, LateOK, NoneBeforeBody, Call \/ SkipStatement \/ EndBody
    PROVE  LateOK' /\ NoneBeforeBody'
<1> USE DEF given
<1>1. /\ Inner /\ pc = "inner" /\ UNCHANGED <<program, late, cancel>> /\ stack # <<>> /\ ~Faulty
      /\ InterpreterOK
  BY DEF Call, SkipStatement, EndBody, Inner, IInv, StackOK
<1>2. late > 0 => SoftTop
  BY <1>1 DEF LateOK
<1>3. top \in Frames /\ top.pos \in Nat /\ Len(stack) \in 1 .. Len(stack)
  BY <1>1, TopFacts DEF Frames
<1>4. Fresh(top)
  BY <1>3 DEF NoneBeforeBody, Fresh, top
<1>5. CASE Call
  <2> DEFINE st == "body"
             first == 0
             f == [top EXCEPT !.stage = st, !.pos = first]
  <2>1. TopBecomes(f) /\ UNCHANGED pc /\ kind = "Call" /\ top.stage = "args"
    BY <1>5 DEF Call, OperandsDone
  <2>2. st \in Stages /\ first \in Nat
    BY DEF Stages
  <2> HIDE DEF st, first
  <2>3. f \in Frames
    BY <1>3, <2>2 DEF Frames
  <2>4. f.node = top.node /\ f.last = top.last /\ f.stage = st
    BY <1>3 DEF Frames
  <2> HIDE DEF f
  <2>5. Fresh(f) /\ f.stage = "body"
    BY <2>4 DEF Fresh, st
  <2>6. Soft(f.last)
    BY <1>4, <2>1, <2>4 DEF Fresh, Soft, None, kind
  <2> QED
    BY <1>1, <2>1, <2>3, <2>5, <2>6, LateTop
<1>6. CASE SkipStatement
  <2> DEFINE p == top.pos + 1
             f == [top EXCEPT !.pos = p]
  <2>1. TopBecomes(f) /\ UNCHANGED pc /\ top.stage = "skip"
    BY <1>6 DEF SkipStatement
  <2>2. p \in Nat
    BY <1>3
  <2> HIDE DEF p
  <2>3. f \in Frames
    BY <1>3, <2>2 DEF Frames
  <2>4. f.node = top.node /\ f.last = top.last /\ f.stage = "skip"
    BY <1>3, <2>1 DEF Frames
  <2> HIDE DEF f
  <2>5. Fresh(f) /\ Ast[f.node].kind = kind
    BY <2>4 DEF Fresh, kind
  <2>6. late > 0 /\ kind \notin {"Repeat", "While"} => Soft(f.last)
    BY <1>2, <2>1, <2>4 DEF SoftTop
  <2> QED
    BY <1>1, <2>1, <2>3, <2>4, <2>5, <2>6, LateTop
<1>7. CASE EndBody
  <2>1. top.stage \in {"body", "skip"}
    BY <1>7 DEF EndBody
  <2>2. late > 0 /\ kind \notin {"Repeat", "While"} => Soft(top.last)
    BY <1>2, <2>1 DEF SoftTop
  <2>3. CASE kind \in {"Repeat", "While", "Call"}
    <3> DEFINE st == IF kind = "Call" THEN "done" ELSE "loop"
               f == [top EXCEPT !.stage = st]
    <3>1. /\ TopBecomes(f) /\ pc' \in {"inner", "leave"}
          /\ pc' = "leave" => kind = "Call" /\ ret' = top.last
      BY <1>1, <1>7, <2>3 DEF EndBody, Return
    <3>2. st \in Stages /\ st \in {"done", "loop"}
      BY DEF Stages
    <3> HIDE DEF st
    <3>3. f \in Frames
      BY <1>3, <3>2 DEF Frames
    <3>4. f.stage = st
      BY <1>3 DEF Frames
    <3> HIDE DEF f
    <3>5. Fresh(f)
      BY <3>2, <3>4 DEF Fresh
    <3>6. late > 0 /\ pc' = "leave" => Soft(ret')
      BY <2>2, <3>1
    <3> QED
      BY <1>1, <3>1, <3>2, <3>3, <3>4, <3>5, <3>6, LateTop
  <2>4. CASE kind \notin {"Repeat", "While", "Call"}
    <3>1. ret' = top.last /\ pc' = "leave" /\ UNCHANGED stack
      BY <1>7, <2>4 DEF EndBody, Return
    <3>2. late > 0 => Soft(ret')
      BY <2>2, <2>4, <3>1
    <3> QED
      BY <1>1, <3>1, <3>2, FreshSame DEF LateOK
  <2> QED
    BY <2>3, <2>4
<1> QED
  BY <1>5, <1>6, <1>7

(* Once the cancel flag is up the robot gets at most one more command      *)
(* before the emergency stop (engine.cpp:329), for every program: the node *)
(* entered next reads the flag, and until then only None and booleans      *)
(* travel up the tree, with which every other command fails its checks.    *)
THEOREM LateCommands == Spec => []LateCommandBound
<1> DEFINE LInv == LateOK /\ NoneBeforeBody
<1>1. Init => LInv
  BY LateInit
<1>2. IInv /\ LInv /\ [Next]_vars => LInv'
  <2> SUFFICES ASSUME IInv, LateOK, NoneBeforeBody, [Next]_vars PROVE LateOK' /\ NoneBeforeBody'
    OBVIOUS
  <2>1. Terminated => UNCHANGED vars
    BY DEF Terminated
  <2> QED
    BY <2>1, LateOutside, LateIdle, LateLeave, LateFrames, LateReturns, LateLoops, LateBodies
       DEF Next, EngineStep, Interpret
<1>3. IInv /\ LInv => LateCommandBound
  BY DEF IInv, InterpreterOK, LateOK, LateCommandBound
<1> QED
  BY <1>1, <1>2, <1>3, Inductive, PTL DEF Spec

-----------------------------------------------------------------------------
(***************************************************************************)
(* The inductive invariant behind the refinement.                          *)
(***************************************************************************)
(* The statements a node runs: a call runs those of its function.          *)
Statements(n) ==
    UNION {ToSet(Ast[p].children) :
              p \in IF Ast[n].kind = "Call" THEN {m \in Functions : Ast[m].op = Ast[n].op} ELSE {n}}

(* The nodes a frame may have evaluated at its stage.                      *)
Below(f) == IF f.stage = "args" THEN ToSet(Ast[f.node].args) ELSE Statements(f.node)

(* The active calls are a path down the program, and so is the next one.   *)
OnPath ==
    /\ stack # <<>> => stack[1].node = root
    /\ \A i \in 1 .. Len(stack) :
          i < Len(stack) => stack[i + 1].node \in Below(stack[i])
    /\ pc \in {"start", "enter", "begin"} =>
          IF stack = <<>> THEN cur = root ELSE cur \in Below(top)

(* The flags tell how a run ends.                                          *)
FlagsOK ==
    /\ pc \in {"start", "enter", "begin", "inner", "leave"} => ~errored /\ ~cancelled
    /\ pc \in {"unwind", "report"} => errored \/ cancelled
    /\ pc \in {"finish", "report", "over"} => stack = <<>>

StreamInv == OnPath /\ FlagsOK
-----------------------------------------------------------------------------
(***************************************************************************)
(* The abstract run seen from the interpreter's state.                     *)
(***************************************************************************)
(* The stream reads the program as the interpreter does.                   *)
LEMMA SameTree ==
    /\ Stream!root = root /\ Stream!Ast = Ast
    /\ \A n : Stream!Highlightable(n) <=> Highlightable(n)
    /\ Stream!Commands = Commands /\ Stream!Sensors = Sensors /\ Stream!Ints = Ints
BY DEF Stream!root, root, Stream!Ast, Ast, Stream!Highlightable, Highlightable,
       Stream!HighlightableKinds, HighlightableKinds, Stream!Control, Control,
       Stream!Commands, Commands, Stream!Moves, Moves, Stream!Turns, Turns,
       Stream!Sensors, Sensors, Stream!Ints, Ints, Stream!MinInt, MinInt

(* ... and numbers its nodes alike, so that its events are the same.       *)
LEMMA SameEvents ==
    \A type, n : Stream!Event(type, n) = NodeEvent(type, n)
<1>1. Stream!FirstNumbered = FirstNumbered
  BY DEF Stream!FirstNumbered, FirstNumbered, Stream!Nodes, Nodes, Stream!Ast, Ast,
         Stream!Highlightable, Highlightable, Stream!HighlightableKinds, HighlightableKinds,
         Stream!Control, Control, Stream!Commands, Commands, Stream!Moves, Moves,
         Stream!Turns, Turns, Stream!Sensors, Sensors
<1> QED
  BY <1>1, SameTree DEF Stream!Event, NodeEvent, Stream!IdOf, IdOf

(* What a frame may evaluate may be entered under its node.               *)
LEMMA BelowUnder ==
    ASSUME NEW f, NEW n \in Below(f)
    PROVE  n \in Stream!Under(f.node)
<1> DEFINE callee == {g \in {root} \cup {Ast[root].children[i] : i \in DOMAIN Ast[root].children} :
                         Ast[g].kind = "DefineFunc" /\ Ast[g].op = Ast[f.node].op}
           parents == IF Ast[f.node].kind = "Call" THEN callee ELSE {f.node}
<1>1. callee = {m \in Functions : Ast[m].op = Ast[f.node].op}
  BY DEF Functions, ToSet
<1>2. Stream!Under(f.node) =
          {Ast[f.node].args[i] : i \in DOMAIN Ast[f.node].args}
              \cup UNION {{Ast[p].children[i] : i \in DOMAIN Ast[p].children} : p \in parents}
  BY SameTree DEF Stream!Under
<1>3. Statements(f.node) = UNION {ToSet(Ast[p].children) : p \in parents}
  BY <1>1 DEF Statements
<1> HIDE DEF callee, parents
<1>4. \A p \in parents : ToSet(Ast[p].children) = {Ast[p].children[i] : i \in DOMAIN Ast[p].children}
  BY DEF ToSet
<1>5. CASE f.stage = "args"
  BY <1>2, <1>5 DEF Below, ToSet
<1>6. CASE f.stage # "args"
  <2>1. PICK p \in parents : n \in ToSet(Ast[p].children)
    BY <1>3, <1>6 DEF Below
  <2> QED
    BY <1>2, <1>4, <2>1
<1> QED
  BY <1>5, <1>6

(* The open nodes are those of the active calls, while nothing failed.     *)
LEMMA OpenFacts ==
    ASSUME InterpreterOK, ~errored, ~cancelled
    PROVE  /\ Open = [i \in 1 .. Len(stack) |-> stack[i].node]
           /\ Open \in Seq(Nodes) /\ Len(Open) = Len(stack)
           /\ Open = <<>> <=> stack = <<>>
           /\ stack # <<>> => Stream!innermost = top.node
<1>1. stack \in Seq(Frames) /\ Len(stack) \in Nat
  BY LenProperties DEF InterpreterOK
<1>2. \A i \in 1 .. Len(stack) : stack[i].node \in Nodes
  <2>1. \A i \in 1 .. Len(stack) : stack[i] \in Frames
    BY <1>1, ElementOfSeq
  <2>2. \A f \in Frames : f.node \in Nodes
    BY DEF Frames
  <2> QED
    BY <2>1, <2>2
<1>3. Open = [i \in 1 .. Len(stack) |-> stack[i].node]
  BY DEF Open
<1>4. Open \in Seq(Nodes) /\ Len(Open) = Len(stack)
  BY <1>1, <1>2, <1>3
<1>5. Open = <<>> <=> stack = <<>>
  BY <1>1, <1>4, EmptySeq
<1>6. stack # <<>> => Stream!innermost = top.node
  <2>1. SUFFICES ASSUME stack # <<>> PROVE Open[Len(Open)] = top.node
    BY DEF Stream!innermost
  <2>2. Len(stack) \in 1 .. Len(stack)
    BY <1>1, <2>1, EmptySeq
  <2> QED
    BY <1>3, <1>4, <2>2 DEF top
<1> QED
  BY <1>3, <1>4, <1>5, <1>6

(* How far the run is, by the place in the code.                           *)
PhaseTable ==
    /\ pc = "start" => Phase = "called"
    /\ pc = "trapped" => Phase = "gone"
    /\ pc = "over" => Phase = "over"
    /\ pc = "report" => Phase = "stopped"
    /\ pc \in {"enter", "begin", "inner", "leave", "unwind", "finish"} /\ (errored \/ cancelled)
          => Phase = "failed"
    /\ pc \in {"enter", "begin"} /\ ~errored /\ ~cancelled
          => Phase = IF stack = <<>> THEN "ready" ELSE "running"
    /\ pc \in {"inner", "leave", "finish"} /\ ~errored /\ ~cancelled => Phase = "running"

LEMMA PhaseFacts == PhaseTable /\ PhaseTable'
BY DEF PhaseTable, Phase

-----------------------------------------------------------------------------
(***************************************************************************)
(* Steps of eval_inner.  The nodes of the active calls stay what they are. *)
(***************************************************************************)
SameCalls ==
    /\ stack' # <<>> /\ Len(stack') = Len(stack)
    /\ \A i \in 1 .. Len(stack) :
          /\ stack'[i].node = stack[i].node /\ stack'[i].scope = stack[i].scope
          /\ stack'[i].stage = "done" => stack[i].stage = "done" \/ pc' = "leave"
          /\ i < Len(stack) => stack'[i] = stack[i]

KeepsTop(f) ==
    /\ f.node = top.node /\ f.scope = top.scope
    /\ f.stage = "done" => top.stage = "done" \/ pc' = "leave"

LEMMA TopKeepsNode ==
    ASSUME IInv, IInv', stack # <<>>, NEW f, KeepsTop(f), TopBecomes(f)
    PROVE  SameCalls
<1>1. stack \in Seq(Frames) /\ stack' \in Seq(Frames') /\ Len(stack) \in Nat \ {0}
  BY TopFacts DEF IInv, InterpreterOK
<1>2. stack' = [stack EXCEPT ![Len(stack)] = f]
  BY DEF TopBecomes
<1>3. /\ DOMAIN stack' = 1 .. Len(stack)
      /\ \A i \in 1 .. Len(stack) : stack'[i] = IF i = Len(stack) THEN f ELSE stack[i]
  <2> DEFINE n == Len(stack)
  <2>1. DOMAIN stack = 1 .. n
    BY <1>1, LenProperties
  <2> HIDE DEF n
  <2> QED
    BY <1>2, <2>1 DEF n
<1>4. Len(stack') = Len(stack)
  BY <1>1, <1>3, LenProperties
<1>5. stack' # <<>>
  BY <1>1, <1>4, EmptySeq
<1>6. \A i \in 1 .. Len(stack) :
          /\ stack'[i].node = stack[i].node /\ stack'[i].scope = stack[i].scope
          /\ stack'[i].stage = "done" => stack[i].stage = "done" \/ pc' = "leave"
  <2> TAKE i \in 1 .. Len(stack)
  <2>1. CASE i = Len(stack)
    <3>1. stack'[i] = f /\ stack[i] = top
      BY <1>3, <2>1 DEF top
    <3> QED
      BY <3>1 DEF KeepsTop
  <2>2. CASE i # Len(stack)
    BY <1>3, <2>2
  <2> QED
    BY <2>1, <2>2
<1>7. \A i \in 1 .. Len(stack) : i < Len(stack) => stack'[i] = stack[i]
  BY <1>1, <1>3
<1> QED
  BY <1>4, <1>5, <1>6, <1>7 DEF SameCalls

LEMMA InnerActions ==
    ASSUME IInv, IInv', Accumulate \/ GiveResult \/ Assign \/ Command \/ Reads \/ EndIf \/ StartBody
                     \/ Iterate \/ Call \/ SkipStatement \/ EndBody
    PROVE  /\ Inner /\ SameCalls
           /\ UNCHANGED <<program, errored, cancelled>>
           /\ pc' \in {"inner", "leave"}
<1>1. Inner /\ stack # <<>> /\ top \in Frames /\ stack \in Seq(Frames) /\ pc = "inner"
  <2>1. Inner
    BY DEF Accumulate, GiveResult, Assign, Command, Reads, ReadSensor, EndIf, StartBody, Iterate,
           Call, SkipStatement, EndBody
  <2> QED
    BY <2>1, TopFacts DEF Inner, IInv, InterpreterOK, StackOK
<1>2. UNCHANGED <<program, errored, cancelled>> /\ pc' \in {"inner", "leave"}
  BY <1>1 DEF Accumulate, GiveResult, Assign, Command, Reads, ReadSensor, EndIf, StartBody, Iterate,
           Call, SkipStatement, EndBody, flags, given, Return
<1>3. SameCalls
  <2>1. CASE stack' = stack
    BY <1>1, <2>1 DEF SameCalls
  <2>2. CASE \E f : KeepsTop(f) /\ TopBecomes(f)
    BY <1>1, <2>2, TopKeepsNode
  <2>3. CASE GiveResult \/ Assign \/ Command \/ Reads \/ EndIf
    BY <2>1, <2>3 DEF GiveResult, Assign, Command, Reads, ReadSensor, EndIf
  <2>4. CASE Accumulate
    <3> DEFINE v == <<Integer(Apply(op, top.vals[1].v, top.vals[2].v))>>
    <3>1. TopBecomes([top EXCEPT !.vals = v])
      BY <2>4 DEF Accumulate
    <3> HIDE DEF v
    <3>2. KeepsTop([top EXCEPT !.vals = v])
      BY <1>1 DEF Frames, KeepsTop
    <3> QED
      BY <2>2, <3>1, <3>2
  <2>5. CASE StartBody
    <3> DEFINE st == IF kind = "Repeat" THEN "loop"
                       ELSE IF Truthy(top.vals[1]) THEN "body" ELSE "skip"
               l == IF kind = "Repeat" THEN top.vals[1].v ELSE 0
    <3>1. stack' = stack \/ TopBecomes([top EXCEPT !.stage = st, !.pos = 0, !.left = l])
      BY <2>5 DEF StartBody
    <3>3. st # "done"
      OBVIOUS
    <3> HIDE DEF st, l
    <3>2. KeepsTop([top EXCEPT !.stage = st, !.pos = 0, !.left = l])
      BY <1>1, <3>3 DEF Frames, KeepsTop
    <3> QED
      BY <2>1, <2>2, <3>1, <3>2
  <2>6. CASE Iterate
    <3> DEFINE l == top.left - 1
    <3>1. \/ stack' = stack
          \/ TopBecomes([top EXCEPT !.stage = "body", !.pos = 0, !.left = l])
          \/ TopBecomes([top EXCEPT !.stage = "args", !.pos = 0, !.vals = <<>>])
      BY <2>6 DEF Iterate
    <3> HIDE DEF l
    <3>2. /\ KeepsTop([top EXCEPT !.stage = "body", !.pos = 0, !.left = l])
          /\ KeepsTop([top EXCEPT !.stage = "args", !.pos = 0, !.vals = <<>>])
      BY <1>1 DEF Frames, KeepsTop
    <3> QED
      BY <2>1, <2>2, <3>1, <3>2
  <2>7. CASE Call \/ SkipStatement \/ EndBody
    <3> DEFINE p == top.pos + 1
    <3>1. \/ stack' = stack
          \/ TopBecomes([top EXCEPT !.stage = "body", !.pos = 0])
          \/ TopBecomes([top EXCEPT !.pos = p])
          \/ TopBecomes([top EXCEPT !.stage = "loop"])
          \/ TopBecomes([top EXCEPT !.stage = "done"]) /\ pc' = "leave"
      BY <2>7 DEF Call, SkipStatement, EndBody, Return
    <3> HIDE DEF p
    <3>2. /\ KeepsTop([top EXCEPT !.stage = "body", !.pos = 0])
          /\ KeepsTop([top EXCEPT !.pos = p])
          /\ KeepsTop([top EXCEPT !.stage = "loop"])
          /\ pc' = "leave" => KeepsTop([top EXCEPT !.stage = "done"])
      BY <1>1 DEF Frames, KeepsTop
    <3> QED
      BY <2>1, <2>2, <3>1, <3>2
  <2> QED
    BY <2>3, <2>4, <2>5, <2>6, <2>7
<1> QED
  BY <1>1, <1>2, <1>3
(* Nothing the invariant reads of the program changes with a step.         *)
LEMMA SameBelow ==
    ASSUME program' = program
    PROVE  /\ Functions' = Functions
           /\ \A n : Statements(n)' = Statements(n)
           /\ \A f : Below(f)' = Below(f)
BY SameProgram DEF Functions, Statements, Below

(* Such a step is one the stream does not see, and keeps its invariant.    *)
LEMMA PathSame ==
    ASSUME IInv, OnPath, SameCalls, program' = program, stack # <<>>,
           pc' \in {"start", "enter", "begin"} => stack' = stack /\ cur' \in Below(top)
    PROVE  OnPath'
<1>1. /\ stack[1].node = root /\ Len(stack) \in Nat \ {0}
      /\ \A i \in 1 .. Len(stack) : i < Len(stack) => stack[i + 1].node \in Below(stack[i])
  BY TopFacts DEF OnPath, IInv
<1>2. /\ stack' # <<>> /\ Len(stack') = Len(stack)
      /\ \A i \in 1 .. Len(stack) : stack'[i].node = stack[i].node
      /\ \A i \in 1 .. Len(stack) : i < Len(stack) => stack'[i] = stack[i]
  BY DEF SameCalls
<1>3. stack'[1].node = root
  BY <1>1, <1>2
<1>4. \A i \in 1 .. Len(stack) : i < Len(stack) => stack'[i + 1].node \in Below(stack'[i])
  <2> TAKE i \in 1 .. Len(stack)
  <2> HAVE i < Len(stack)
  <2>1. i + 1 \in 1 .. Len(stack)
    BY <1>1
  <2> QED
    BY <1>1, <1>2, <2>1
<1>5. pc' \in {"start", "enter", "begin"} => cur' \in Below(top')
  BY DEF top
<1> QED
  BY <1>2, <1>3, <1>4, <1>5, SameProgram, SameBelow DEF OnPath

LEMMA SameCallsSame ==
    ASSUME stack' = stack, stack # <<>>
    PROVE  SameCalls
BY DEF SameCalls

(* What the stream sees of a run in the middle of eval_inner.              *)
LEMMA Running ==
    ASSUME IInv, StreamInv, pc \in {"inner", "leave"}
    PROVE  /\ Phase = "running" /\ Open # <<>> /\ Stream!innermost = top.node
           /\ ~errored /\ ~cancelled /\ stack # <<>>
<1>1. ~errored /\ ~cancelled /\ stack # <<>> /\ InterpreterOK
  BY DEF StreamInv, FlagsOK, IInv, StackOK
<1> QED
  BY <1>1, OpenFacts DEF Phase

LEMMA OpenSame ==
    ASSUME IInv, SameCalls, UNCHANGED <<errored, cancelled>>
    PROVE  Open' = Open
<1>1. /\ Len(stack') = Len(stack)
      /\ \A i \in 1 .. Len(stack) : stack'[i].node = stack[i].node
  BY DEF SameCalls
<1>2. [i \in 1 .. Len(stack') |-> stack'[i].node] = [i \in 1 .. Len(stack) |-> stack[i].node]
  BY <1>1
<1> QED
  BY <1>2 DEF Open

(* eval_inner between two calls of eval, and on its way into one.          *)
LEMMA InsideStep ==
    ASSUME IInv, IInv', StreamInv, Inner, SameCalls,
           UNCHANGED <<program, errored, cancelled>>,
           \/ pc' \in {"inner", "leave"}
           \/ pc' = "enter" /\ stack' = stack /\ cur' \in Below(top)
    PROVE  /\ StreamInv'
           /\ Phase = "running" /\ Phase' = "running"
           /\ Open # <<>> /\ Open' = Open
           /\ Stream!innermost = top.node
<1>1. /\ Phase = "running" /\ Open # <<>> /\ Stream!innermost = top.node
      /\ ~errored /\ ~cancelled /\ stack # <<>> /\ stack' # <<>>
  BY Running DEF Inner, SameCalls
<1>2. OnPath'
  BY <1>1, PathSame DEF StreamInv
<1>3. FlagsOK'
  BY <1>1 DEF FlagsOK
<1>4. Phase' = "running"
  BY <1>1 DEF Phase
<1>5. Open' = Open
  BY OpenSame
<1> QED
  BY <1>1, <1>2, <1>3, <1>4, <1>5 DEF StreamInv
-----------------------------------------------------------------------------
(***************************************************************************)
(* Step by step: what the interpreter does is a step of the stream, or     *)
(* nothing the stream can see.                                             *)
(***************************************************************************)
Follows == Stream!Next \/ UNCHANGED <<program, out, Phase, Open>>

(* Nodes that may be entered, skipped or blamed next.                      *)
LEMMA NextNode ==
    ASSUME IInv, StreamInv, pc \in {"enter", "begin"}
    PROVE  /\ ~errored /\ ~cancelled
           /\ Open = <<>> <=> stack = <<>>
           /\ IF stack = <<>>
                THEN cur = root /\ Phase = "ready"
                ELSE cur \in Stream!Under(Stream!innermost) /\ Phase = "running"
<1>1. InterpreterOK /\ ~errored /\ ~cancelled
  BY DEF IInv, StreamInv, FlagsOK
<1>2. stack # <<>> => cur \in Stream!Under(Stream!innermost)
  BY <1>1, OpenFacts, BelowUnder DEF StreamInv, OnPath
<1> QED
  BY <1>1, <1>2, OpenFacts DEF StreamInv, OnPath, Phase

LEMMA FollowStart ==
    ASSUME IInv, StreamInv, Start
    PROVE  StreamInv' /\ Follows
<1> USE DEF flags, given, scopes
<1>1. /\ stack = <<>> /\ ~errored /\ ~cancelled /\ cur = root /\ pc = "start" /\ pc' = "enter"
      /\ UNCHANGED <<program, stack, cur, errored, cancelled>>
      /\ out' = Append(out, [type |-> "programStart"])
  BY DEF Start, IInv, StackOK, StreamInv, FlagsOK, OnPath, Emit, ProgramEvent
<1>2. Phase = "called" /\ Phase' = "ready" /\ Open' = Open
  BY <1>1 DEF Phase, Open
<1>3. Stream!Start
  BY <1>1, <1>2 DEF Stream!Start
<1>4. StreamInv'
  <2>1. \A i \in 1 .. Len(<<>>) : FALSE
    OBVIOUS
  <2> QED
    BY <1>1, <2>1, SameProgram DEF StreamInv, OnPath, FlagsOK
<1> QED
  BY <1>3, <1>4 DEF Follows, Stream!Next

(* Where nothing but the place in the code, the flags or cur changes.      *)
LEMMA PathStays ==
    ASSUME OnPath, UNCHANGED <<program, stack>>,
           pc' \in {"start", "enter", "begin"} => UNCHANGED cur /\ pc \in {"start", "enter", "begin"}
    PROVE  OnPath'
<1>1. top' = top
  BY DEF top
<1> QED
  BY <1>1, SameProgram, SameBelow DEF OnPath

(* The flag is up, an operand is wrong or a limit is reached.              *)
LEMMA FollowFail ==
    ASSUME IInv, StreamInv, (Poll /\ cancel) \/ StepLimit \/ RuntimeError
    PROVE  StreamInv' /\ Follows
<1> USE DEF flags, given, scopes
<1>1. /\ pc \in {"enter", "begin", "inner"} /\ pc' = "unwind" /\ (errored' \/ cancelled')
      /\ UNCHANGED <<program, stack, cur>>
  BY DEF Poll, StepLimit, RuntimeError, Fail, Inner
<1>2. StreamInv'
  <2>1. OnPath'
    BY <1>1, PathStays DEF StreamInv
  <2> QED
    BY <1>1, <2>1 DEF StreamInv, FlagsOK
<1>3. Phase' = "failed" /\ Open' = <<>>
  BY <1>1 DEF Phase, Open
<1>4. Phase \in {"ready", "running"}
  BY <1>1, NextNode, Running
<1>5. CASE Poll /\ cancel
  <2>1. out' = out
    BY <1>5 DEF Poll
  <2> QED
    BY <1>1, <1>2, <1>3, <1>4, <2>1 DEF Follows, Stream!Next, Stream!Fail
<1>6. CASE StepLimit
  <2>1. pc = "begin" /\ out' = Append(out, Stream!Event("nodeError", cur))
    BY <1>6, SameEvents DEF StepLimit, Fail, Emit
  <2>2. cur \in IF Open = <<>> THEN {Stream!root} ELSE {Stream!innermost} \cup Stream!Under(Stream!innermost)
    BY <2>1, NextNode, SameTree
  <2> QED
    BY <1>1, <1>2, <1>3, <1>4, <2>1, <2>2 DEF Follows, Stream!Next, Stream!Fail
<1>7. CASE RuntimeError
  <2>1. pc = "inner" /\ out' = Append(out, Stream!Event("nodeError", top.node))
    BY <1>7, SameEvents DEF RuntimeError, Fail, Emit
  <2>2. top.node \in IF Open = <<>> THEN {Stream!root} ELSE {Stream!innermost} \cup Stream!Under(Stream!innermost)
    BY <2>1, Running
  <2> QED
    BY <1>1, <1>2, <1>3, <1>4, <2>1, <2>2 DEF Follows, Stream!Next, Stream!Fail
<1> QED
  BY <1>5, <1>6, <1>7

LEMMA FollowPoll ==
    ASSUME IInv, StreamInv, Poll, ~cancel
    PROVE  StreamInv' /\ Follows
<1> USE DEF flags, given, scopes
<1>1. /\ pc = "enter" /\ pc' = "begin" /\ ~errored /\ ~cancelled /\ ~errored' /\ ~cancelled'
      /\ UNCHANGED <<program, stack, cur, out>>
  BY NextNode DEF Poll
<1>2. StreamInv'
  <2>1. OnPath'
    BY <1>1, PathStays DEF StreamInv
  <2> QED
    BY <1>1, <2>1 DEF StreamInv, FlagsOK
<1>3. Phase' = Phase /\ Open' = Open
  BY <1>1 DEF Phase, Open
<1> QED
  BY <1>1, <1>2, <1>3 DEF Follows

(* The end of execute().                                                   *)
LEMMA FollowEnd ==
    ASSUME IInv, StreamInv, StopRobot \/ Finish
    PROVE  StreamInv' /\ Follows
<1> USE DEF flags, given, scopes
<1>1. /\ pc \in {"finish", "report"} /\ pc' \in {"report", "over"} /\ stack = <<>>
      /\ UNCHANGED <<program, stack, cur, errored, cancelled>>
  BY DEF StopRobot, Finish, StreamInv, FlagsOK
<1>2. OnPath' /\ Open' = Open /\ Open = <<>>
  <2>1. [i \in 1 .. Len(<<>>) |-> <<>>[i].node] = <<>>
    OBVIOUS
  <2> QED
    BY <1>1, <2>1, PathStays DEF StreamInv, Open
<1>3. CASE StopRobot
  <2>1. /\ errored \/ cancelled
        /\ pc = "finish" /\ pc' = "report"
        /\ out' = Append(out, [type |-> "robotCommand", command |-> "Stop", args |-> <<>>])
    BY <1>3 DEF StopRobot, Emit, RobotCommand
  <2>2. Phase = "failed" /\ Phase' = "stopped"
    BY <1>1, <2>1 DEF Phase
  <2>3. FlagsOK'
    BY <1>1, <2>1 DEF FlagsOK
  <2>4. Stream!Stop
    BY <1>1, <1>2, <2>1, <2>2 DEF Stream!Stop
  <2> QED
    BY <1>2, <2>3, <2>4 DEF StreamInv, Follows, Stream!Next
<1>4. CASE Finish
  <2>1. /\ pc' = "over"
        /\ \/ pc = "report" /\ out' = Append(out, [type |-> "programError"])
           \/ pc = "finish" /\ ~cancelled /\ ~errored /\ out' = Append(out, [type |-> "programDone"])
    BY <1>4 DEF Finish, Emit, ProgramEvent
  <2>2. Phase' = "over"
    BY <2>1 DEF Phase
  <2>3. FlagsOK'
    BY <1>1, <2>1 DEF FlagsOK
  <2>4. \/ Phase = "stopped" /\ out' = Append(out, [type |-> "programError"])
        \/ Phase = "running" /\ out' = Append(out, [type |-> "programDone"])
    BY <1>1, <2>1 DEF Phase
  <2>5. Stream!End
    BY <1>1, <1>2, <2>2, <2>4 DEF Stream!End
  <2> QED
    BY <1>2, <2>3, <2>5 DEF StreamInv, Follows, Stream!Next
<1> QED
  BY <1>3, <1>4
(* A node is entered.                                                      *)
LEMMA NewFrameFacts ==
    ASSUME InterpreterOK
    PROVE  NewFrame(cur) \in Frames /\ NewFrame(cur).node = cur
<1>1. Len(env) \in Nat
  BY LenProperties DEF InterpreterOK
<1> QED
  BY <1>1, ValueFacts DEF NewFrame, Frames, Stages, InterpreterOK

LEMMA FollowBegin ==
    ASSUME IInv, IInv', StreamInv, Begin
    PROVE  StreamInv' /\ Follows
<1> USE DEF flags, given, scopes
<1> DEFINE n == Len(stack)
           f == NewFrame(cur)
<1>1. /\ pc = "begin" /\ pc' = "inner" /\ ~errored /\ ~cancelled /\ ~errored' /\ ~cancelled'
      /\ UNCHANGED <<program, cur>> /\ InterpreterOK /\ InterpreterOK'
  BY NextNode DEF Begin, IInv
<1>2. f \in Frames /\ f.node = cur /\ cur \in Nodes
  BY <1>1, NewFrameFacts DEF InterpreterOK
<1> HIDE DEF f
<1>3. stack' = Append(stack, f)
  BY DEF Begin, f
<1>4. /\ n \in Nat /\ Len(stack') = n + 1
      /\ \A i \in 1 .. n : stack'[i] = stack[i]
      /\ stack'[n + 1] = f
  BY <1>1, <1>2, <1>3, AppendProperties, LenProperties DEF InterpreterOK
<1>5. n = 0 <=> stack = <<>>
  BY <1>1, EmptySeq DEF InterpreterOK
<1>6. Open' = Append(Open, cur)
  <2>1. Open = [i \in 1 .. n |-> stack[i].node] /\ Open \in Seq(Nodes) /\ Len(Open) = n
    BY <1>1, OpenFacts
  <2>2. Open' = [i \in 1 .. n + 1 |-> stack'[i].node]
    BY <1>1, <1>4 DEF Open
  <2>3. /\ Append(Open, cur) \in Seq(Nodes) /\ Len(Append(Open, cur)) = n + 1
        /\ \A i \in 1 .. n : Append(Open, cur)[i] = Open[i]
        /\ Append(Open, cur)[n + 1] = cur
    BY <1>2, <2>1, AppendProperties
  <2> DEFINE a == Append(Open, cur)
  <2>4. DOMAIN a = 1 .. n + 1 /\ a = [i \in 1 .. n + 1 |-> a[i]]
    BY <2>3, LenProperties
  <2>5. \A i \in 1 .. n + 1 : stack'[i].node = a[i]
    BY <1>2, <1>4, <2>1, <2>3
  <2> HIDE DEF a, n
  <2>6. Open' = a
    BY <2>2, <2>4, <2>5
  <2> QED
    BY <2>6 DEF a
<1>7. Stream!Enter(cur) /\ cur \in {Stream!root} \cup (IF Open = <<>> THEN {} ELSE Stream!Under(Stream!innermost))
  <2>1. Phase' = "running"
    BY <1>1, PhaseFacts DEF PhaseTable
  <2>2. \/ Phase = "ready" /\ cur = Stream!root
        \/ Phase = "running" /\ Open # <<>> /\ cur \in Stream!Under(Stream!innermost)
    BY <1>1, NextNode, SameTree
  <2>3. out' = IF Stream!Highlightable(cur) THEN Append(out, Stream!Event("nodeStart", cur)) ELSE out
    BY SameTree, SameEvents DEF Begin, Emit
  <2> QED
    BY <1>1, <1>6, <2>1, <2>2, <2>3 DEF Stream!Enter
<1>8. OnPath'
  <2>1. stack' # <<>>
    BY <1>3
  <2>2. stack'[1].node = root
    BY <1>2, <1>4, <1>5, <1>1 DEF StreamInv, OnPath
  <2>3. \A i \in 1 .. n + 1 : i < n + 1 => stack'[i + 1].node \in Below(stack'[i])
    <3> TAKE i \in 1 .. n + 1
    <3> HAVE i < n + 1
    <3>1. CASE i < n
      <4>1. i \in 1 .. n /\ i + 1 \in 1 .. n
        BY <1>4, <3>1
      <4>2. stack[i + 1].node \in Below(stack[i])
        BY <3>1, <4>1 DEF StreamInv, OnPath
      <4> QED
        BY <1>4, <4>1, <4>2
    <3>2. CASE i = n
      <4>1. stack # <<>> /\ n \in 1 .. n
        BY <1>4, <1>5, <3>2
      <4>2. cur \in Below(stack[n])
        BY <1>1, <4>1 DEF StreamInv, OnPath, top
      <4> QED
        BY <1>2, <1>4, <3>2, <4>1, <4>2
    <3> QED
      BY <1>4, <3>1, <3>2
  <2>4. Len(stack') = n + 1
    BY <1>4
  <2> HIDE DEF n
  <2> QED
    BY <1>1, <2>1, <2>2, <2>3, <2>4, SameProgram, SameBelow DEF OnPath
<1>9. FlagsOK'
  BY <1>1 DEF FlagsOK
<1> QED
  BY <1>7, <1>8, <1>9 DEF StreamInv, Follows, Stream!Next
(* The innermost call returns; its caller may take over a value.           *)
LEMMA PathPop ==
    ASSUME IInv, IInv', OnPath, stack # <<>>, program' = program,
           Len(stack') = Len(stack) - 1,
           \A i \in 1 .. Len(stack) - 2 : stack'[i] = stack[i],
           stack' # <<>> => stack'[Len(stack) - 1].node = stack[Len(stack) - 1].node,
           pc' \notin {"start", "enter", "begin"}
    PROVE  OnPath'
<1> DEFINE n == Len(stack)
<1>1. /\ n \in Nat \ {0} /\ Len(stack') = n - 1
      /\ stack[1].node = root
      /\ \A i \in 1 .. n : i < n => stack[i + 1].node \in Below(stack[i])
  BY TopFacts DEF IInv, OnPath
<1>2. stack' # <<>> <=> n - 1 > 0
  BY <1>1, EmptySeq DEF IInv, InterpreterOK
<1>3. \A i \in 1 .. n - 1 : stack'[i].node = stack[i].node
  <2> TAKE i \in 1 .. n - 1
  <2>1. i = n - 1 \/ i \in 1 .. n - 2
    BY <1>1
  <2> QED
    BY <1>1, <1>2, <2>1
<1>4. \A i \in 1 .. n - 1 : i < n - 1 => stack'[i + 1].node \in Below(stack'[i])
  <2> TAKE i \in 1 .. n - 1
  <2> HAVE i < n - 1
  <2>1. i \in 1 .. n - 2 /\ i + 1 \in 1 .. n - 1 /\ i \in 1 .. n /\ i < n
    BY <1>1
  <2>2. stack'[i] = stack[i] /\ stack'[i + 1].node = stack[i + 1].node
    BY <1>3, <2>1
  <2> QED
    BY <1>1, <2>1, <2>2
<1>5. stack' # <<>> => stack'[1].node = root
  BY <1>1, <1>2, <1>3
<1> HIDE DEF n
<1> QED
  BY <1>1, <1>4, <1>5, SameProgram, SameBelow DEF OnPath

KeepsFrame(g, f) == g.node = f.node /\ g.scope = f.scope /\ g.stage = f.stage

(* The caller of a call that returns stays where it is in the program.     *)
LEMMA LeavePops ==
    ASSUME IInv, Leave
    PROVE  LET n == Len(stack)
           IN  /\ n \in Nat \ {0} /\ Len(stack') = n - 1
               /\ \A i \in 1 .. n - 2 : stack'[i] = stack[i]
               /\ stack' # <<>> => /\ stack'[n - 1].node = stack[n - 1].node
                                   /\ stack'[n - 1].scope = stack[n - 1].scope
                                   /\ stack'[n - 1].stage = stack[n - 1].stage
               /\ pc' \in {"inner", "finish"} /\ (pc' = "finish" => stack' = <<>>)
<1> DEFINE n == Len(stack)
           callers == Front(stack)
           g == Deliver(callers[Len(callers)], ret)
<1>1. pc = "leave" /\ stack # <<>> /\ InterpreterOK
  BY DEF Leave, IInv, StackOK
<1>2. /\ callers \in Seq(Frames) /\ n \in Nat \ {0} /\ Len(callers) = n - 1
      /\ \A i \in 1 .. n - 1 : callers[i] = stack[i]
      /\ callers = <<>> <=> n = 1
  BY <1>1, FrontProperties DEF InterpreterOK
<1>3. /\ Len(stack') = n - 1
      /\ \A i \in 1 .. n - 2 : stack'[i] = stack[i]
      /\ stack' # <<>> => /\ stack'[n - 1].node = stack[n - 1].node
                          /\ stack'[n - 1].scope = stack[n - 1].scope
                          /\ stack'[n - 1].stage = stack[n - 1].stage
      /\ pc' \in {"inner", "finish"} /\ (pc' = "finish" => stack' = <<>>)
  <2>1. CASE n = 1
    <3>1. stack' = <<>> /\ pc' = "finish"
      BY <1>2, <2>1 DEF Leave
    <3> QED
      BY <1>2, <2>1, <3>1, EmptySeq
  <2>2. CASE n # 1
    <3>1. callers # <<>> /\ stack' = [callers EXCEPT ![n - 1] = g] /\ pc' = "inner" /\ callers[n - 1] = stack[n - 1]
      BY <1>2, <2>2 DEF Leave
    <3>2. n - 1 \in 1 .. n /\ n - 1 < n /\ stack[n - 1] \in Frames
      <4>1. stack \in Seq(Frames)
        BY DEF IInv, InterpreterOK
      <4>2. n - 1 \in 1 .. n /\ n - 1 < n
        BY <1>2, <2>2
      <4> QED
        BY <4>1, <4>2, ElementOfSeq
    <3>3. g \in Frames /\ KeepsFrame(g, stack[n - 1])
      <4>1. FrameOK(stack[n - 1]) /\ Waiting(stack[n - 1])
        BY <3>2 DEF IInv, StackOK, Nested
      <4>2. g = Deliver(stack[n - 1], ret)
        BY <1>2, <3>1
      <4>3. Deliver(stack[n - 1], ret) \in Frames
        BY <1>1, <3>2, <4>1, DeliverFacts DEF InterpreterOK
      <4>4. KeepsFrame(Deliver(stack[n - 1], ret), stack[n - 1])
        <5> DEFINE f == stack[n - 1]
                   v == Append(f.vals, ret)
                   p == f.pos + 1
        <5>1. Deliver(f, ret) = [f EXCEPT !.pos = p, !.vals = v] \/ Deliver(f, ret) = [f EXCEPT !.pos = p, !.last = ret]
          BY DEF Deliver
        <5> HIDE DEF f, v, p
        <5>2. KeepsFrame([f EXCEPT !.pos = p, !.vals = v], f) /\ KeepsFrame([f EXCEPT !.pos = p, !.last = ret], f)
          BY <3>2 DEF Frames, KeepsFrame, f
        <5> QED
          BY <5>1, <5>2 DEF f
      <4> QED
        BY <4>2, <4>3, <4>4
    <3> HIDE DEF g
    <3>4. /\ Len(stack') = n - 1
          /\ \A i \in 1 .. n - 1 : stack'[i] = IF i = n - 1 THEN g ELSE callers[i]
      BY <1>2, <2>2, <3>1, <3>3, ExceptSeq
    <3> QED
      BY <1>2, <2>2, <3>1, <3>2, <3>3, <3>4 DEF KeepsFrame
  <2> QED
    BY <2>1, <2>2
<1> QED
  BY <1>2, <1>3

LEMMA FollowLeave ==
    ASSUME IInv, IInv', StreamInv, Leave
    PROVE  StreamInv' /\ Follows
<1> USE DEF flags, given, scopes
<1> DEFINE n == Len(stack)
<1>1. /\ pc = "leave" /\ ~errored /\ ~cancelled /\ ~errored' /\ ~cancelled' /\ stack # <<>>
      /\ Phase = "running" /\ Open # <<>> /\ Stream!innermost = top.node
      /\ UNCHANGED program /\ InterpreterOK /\ InterpreterOK'
  BY Running DEF Leave, IInv
<1>2. n \in Nat \ {0}
  BY LeavePops
<1>3. /\ Len(stack') = n - 1
      /\ \A i \in 1 .. n - 2 : stack'[i] = stack[i]
      /\ stack' # <<>> => stack'[n - 1].node = stack[n - 1].node
      /\ pc' \in {"inner", "finish"} /\ (pc' = "finish" => stack' = <<>>)
  BY LeavePops
<1>4. OnPath'
  BY <1>1, <1>3, PathPop DEF StreamInv
<1>5. FlagsOK'
  BY <1>1, <1>3 DEF FlagsOK
<1>6. Phase' = "running"
  BY <1>1, <1>3, PhaseFacts DEF PhaseTable
<1>7. Open' = SubSeq(Open, 1, Len(Open) - 1)
  <2>1. Open = [i \in 1 .. n |-> stack[i].node] /\ Open \in Seq(Nodes) /\ Len(Open) = n
    BY <1>1, OpenFacts
  <2> DEFINE f == Front(Open)
  <2>2. /\ f \in Seq(Nodes) /\ Len(f) = n - 1
        /\ \A i \in 1 .. n - 1 : f[i] = Open[i]
    BY <1>1, <2>1, FrontProperties
  <2>3. Open' = [i \in 1 .. n - 1 |-> stack'[i].node]
    BY <1>1, <1>3 DEF Open
  <2>4. \A i \in 1 .. n - 1 : stack'[i].node = f[i]
    <3> TAKE i \in 1 .. n - 1
    <3>1. i = n - 1 \/ i \in 1 .. n - 2
      BY <1>2
    <3>2. stack' # <<>>
      BY <1>1, <1>2, <1>3, EmptySeq DEF InterpreterOK
    <3>3. stack'[i].node = stack[i].node
      BY <1>3, <3>1, <3>2
    <3>4. f[i] = Open[i] /\ i \in 1 .. n
      BY <1>2, <2>2
    <3>5. Open[i] = stack[i].node
      BY <2>1, <3>4
    <3> QED
      BY <3>3, <3>4, <3>5
  <2>5. f = [i \in 1 .. n - 1 |-> f[i]]
    BY <2>2, LenProperties
  <2>6. f = SubSeq(Open, 1, Len(Open) - 1)
    BY DEF Front
  <2> HIDE DEF f, n
  <2> QED
    BY <2>3, <2>4, <2>5, <2>6
<1>8. Stream!Leave
  <2>1. out' = IF Stream!Highlightable(Stream!innermost)
                 THEN Append(out, Stream!Event("nodeDone", Stream!innermost)) ELSE out
    BY <1>1, SameTree, SameEvents DEF Leave
  <2> QED
    BY <1>1, <1>6, <1>7, <2>1 DEF Stream!Leave
<1> QED
  BY <1>4, <1>5, <1>8 DEF StreamInv, Follows, Stream!Next

LEMMA FollowUnwind ==
    ASSUME IInv, IInv', StreamInv, Unwind
    PROVE  StreamInv' /\ Follows
<1> USE DEF flags, given, scopes
<1>1. /\ pc = "unwind" /\ (errored \/ cancelled)
      /\ UNCHANGED <<program, errored, cancelled, out>> /\ InterpreterOK
  BY DEF Unwind, StreamInv, FlagsOK, IInv
<1>2. Phase = "failed" /\ Open = <<>> /\ Open' = <<>>
  BY <1>1, PhaseFacts DEF PhaseTable, Open
<1>3. CASE stack = <<>>
  <2>1. pc' = "finish" /\ stack' = stack
    BY <1>3 DEF Unwind
  <2>2. Phase' = "failed"
    BY <1>1, <2>1, PhaseFacts DEF PhaseTable
  <2>3. OnPath'
    BY <1>1, <2>1, PathStays DEF StreamInv
  <2>4. FlagsOK'
    BY <1>1, <1>3, <2>1 DEF FlagsOK
  <2> QED
    BY <1>1, <1>2, <2>2, <2>3, <2>4 DEF StreamInv, Follows
<1>4. CASE stack # <<>>
  <2>1. pc' = pc /\ stack' = Front(stack)
    BY <1>4 DEF Unwind
  <2>2. /\ Len(stack) \in Nat \ {0} /\ Len(stack') = Len(stack) - 1
        /\ \A i \in 1 .. Len(stack) - 1 : stack'[i] = stack[i]
        /\ stack' # <<>> => Len(stack) # 1
    BY <1>1, <1>4, <2>1, FrontProperties DEF InterpreterOK
  <2>3. /\ \A i \in 1 .. Len(stack) - 2 : stack'[i] = stack[i]
        /\ stack' # <<>> => stack'[Len(stack) - 1].node = stack[Len(stack) - 1].node
    <3>1. \A i \in 1 .. Len(stack) - 2 : i \in 1 .. Len(stack) - 1
      BY <2>2
    <3>2. stack' # <<>> => Len(stack) - 1 \in 1 .. Len(stack) - 1
      BY <2>2
    <3> QED
      BY <2>2, <3>1, <3>2
  <2>4. OnPath'
    BY <1>1, <1>4, <2>1, <2>2, <2>3, PathPop DEF StreamInv
  <2>5. FlagsOK'
    BY <1>1, <2>1 DEF FlagsOK
  <2>6. Phase' = "failed"
    BY <1>1, <2>1, PhaseFacts DEF PhaseTable
  <2> QED
    BY <1>1, <1>2, <2>4, <2>5, <2>6 DEF StreamInv, Follows
<1> QED
  BY <1>3, <1>4

-----------------------------------------------------------------------------
(***************************************************************************)
(* The steps of eval_inner.                                                *)
(***************************************************************************)
(* The operand or statement evaluated next is below the top frame.         *)
LEMMA OperandBelow ==
    ASSUME IInv, Inner, stack # <<>>, top.stage = "args",
           NEW i \in 1 .. Len(Ast[top.node].args)
    PROVE  Ast[top.node].args[i] \in Below(top)
<1>1. i \in DOMAIN Ast[top.node].args
  BY InnerFacts, LenProperties DEF Inner
<1> QED
  BY <1>1 DEF Below, ToSet

LEMMA StatementBelow ==
    ASSUME IInv, Inner, stack # <<>>, top.stage # "args",
           NEW i \in 1 .. Len(Body(top.node))
    PROVE  Body(top.node)[i] \in Below(top)
<1>1. i \in DOMAIN Body(top.node) /\ (kind = "Call" => Defined(op))
  BY InnerFacts, LenProperties DEF Inner
<1>2. PICK p \in IF kind = "Call" THEN {m \in Functions : Ast[m].op = op} ELSE {top.node} :
          Body(top.node) = Ast[p].children
  BY <1>1 DEF Body, kind, op, Defined, FunctionNamed
<1>3. Body(top.node)[i] \in ToSet(Ast[p].children)
  BY <1>1, <1>2 DEF ToSet
<1>4. Body(top.node)[i] \in Statements(top.node)
  BY <1>2, <1>3 DEF Statements, kind, op
<1> QED
  BY <1>4 DEF Below

(* What happens inside one call and sends nothing is not seen.             *)
LEMMA FollowSilent ==
    ASSUME IInv, IInv', StreamInv,
           Accumulate \/ GiveResult \/ Assign \/ EndIf \/ StartBody \/ Iterate \/ Call \/ EndBody
    PROVE  StreamInv' /\ Follows
<1>1. /\ Inner /\ SameCalls /\ UNCHANGED <<program, errored, cancelled>> /\ pc' \in {"inner", "leave"}
  BY InnerActions
<1>2. out' = out
  BY DEF Accumulate, GiveResult, Assign, EndIf, StartBody, Iterate, Call, EndBody
<1> QED
  BY <1>1, <1>2, InsideStep DEF Follows

(* A command or a sensor reading comes from the innermost node.            *)
LEMMA FollowEffects ==
    ASSUME IInv, IInv', StreamInv, Command \/ Reads
    PROVE  StreamInv' /\ Follows
<1>1. /\ Inner /\ SameCalls /\ UNCHANGED <<program, errored, cancelled>> /\ pc' \in {"inner", "leave"}
  BY InnerActions
<1>2. /\ StreamInv' /\ Phase = "running" /\ Phase' = "running" /\ Open # <<>> /\ Open' = Open
      /\ Stream!innermost = top.node
  BY <1>1, InsideStep
<1>3. CASE Command
  <2>1. kind \in Commands /\ out' = Append(out, [type |-> "robotCommand", command |-> kind, args |-> top.vals])
    BY <1>3 DEF Command, Emit, RobotCommand
  <2>2. top.vals \in Stream!SafeArguments(kind)
    BY <1>3, SafeCommand
  <2>3. Stream!Move
    BY <1>1, <1>2, <2>1, <2>2, SameTree DEF Stream!Move, kind
  <2> QED
    BY <1>2, <2>3 DEF Follows, Stream!Next
<1>4. CASE Reads
  <2>1. PICK v \in Ints : ReadSensor(v)
    BY <1>4 DEF Reads
  <2>2. kind \in Sensors /\ out' = Append(out, [type |-> "sensorRead", sensor |-> kind, value |-> v])
    BY <2>1 DEF ReadSensor, Emit, SensorRead
  <2>3. Stream!Sense(v)
    BY <1>1, <1>2, <2>2, SameTree DEF Stream!Sense, kind
  <2> QED
    BY <1>2, <2>3, SameTree DEF Follows, Stream!Next
<1> QED
  BY <1>3, <1>4

(* A statement or a branch reported as skipped is one of the innermost     *)
(* node's.                                                                 *)
LEMMA FollowSkip ==
    ASSUME IInv, IInv', StreamInv, SkipStatement \/ ChooseBranch
    PROVE  StreamInv' /\ Follows
<1>1. Inner /\ ~Faulty /\ stack # <<>>
  BY DEF SkipStatement, ChooseBranch, Inner, IInv, StackOK
<1>2. PICK n \in Below(top) :
          /\ kind \in {"If", "When"}
          /\ out' = Append(out, Stream!Event("nodeSkipped", n))
          /\ SameCalls /\ UNCHANGED <<program, errored, cancelled>>
          /\ \/ pc' \in {"inner", "leave"}
             \/ pc' = "enter" /\ stack' = stack /\ cur' \in Below(top)
  <2>1. CASE SkipStatement
    <3> DEFINE i == top.pos + 1
               n == Body(top.node)[i]
    <3>1. top.stage = "skip" /\ out' = Append(out, NodeEvent("nodeSkipped", n)) /\ i \in 1 .. Len(Body(top.node))
      BY <1>1, <2>1, InnerFacts, LenProperties DEF SkipStatement, Emit
    <3>2. kind = "When"
      BY <1>1, <3>1, InnerFacts DEF FrameOK, kind
    <3>3. n \in Below(top)
      BY <1>1, <3>1, StatementBelow
    <3>4. SameCalls /\ UNCHANGED <<program, errored, cancelled>> /\ pc' \in {"inner", "leave"}
      BY <2>1, InnerActions
    <3> HIDE DEF n
    <3> QED
      BY <3>1, <3>2, <3>3, <3>4, SameEvents
  <2>2. CASE ChooseBranch
    <3>1. kind = "If" /\ top.stage = "args"
      BY <2>2 DEF ChooseBranch
    <3>2. 2 \in 1 .. Len(Ast[top.node].args) /\ 3 \in 1 .. Len(Ast[top.node].args)
      <4>1. Len(Ast[top.node].args) = 3
        BY <1>1, <3>1, ArityFacts
      <4> QED
        BY <4>1
    <3>3. Ast[top.node].args[2] \in Below(top) /\ Ast[top.node].args[3] \in Below(top)
      BY <1>1, <3>1, <3>2, OperandBelow
    <3>4. /\ stack' = stack /\ pc' = "enter" /\ UNCHANGED <<program, errored, cancelled>>
          /\ \E n, m \in Below(top) : out' = Append(out, NodeEvent("nodeSkipped", n)) /\ cur' = m
      BY <2>2, <3>3 DEF ChooseBranch, Emit, Eval, flags, given
    <3>5. SameCalls
      BY <1>1, <3>4, SameCallsSame
    <3> QED
      BY <3>1, <3>4, <3>5, SameEvents
  <2> QED
    BY <2>1, <2>2
<1>3. /\ StreamInv' /\ Phase = "running" /\ Phase' = "running" /\ Open # <<>> /\ Open' = Open
      /\ Stream!innermost = top.node
  BY <1>1, <1>2, InsideStep
<1>4. n \in Stream!Under(Stream!innermost)
  BY <1>3, BelowUnder
<1>5. Stream!Skip(n)
  BY <1>2, <1>3, <1>4, SameTree DEF Stream!Skip, kind
<1> QED
  BY <1>3, <1>4, <1>5 DEF Follows, Stream!Next

(* Evaluation goes down to an operand or a statement.                      *)
LEMMA FollowEval ==
    ASSUME IInv, IInv', StreamInv, EvalOperand \/ NextStatement
    PROVE  StreamInv' /\ Follows
<1>1. /\ Inner /\ ~Faulty /\ stack # <<>> /\ stack' = stack /\ pc' = "enter"
      /\ UNCHANGED <<program, errored, cancelled, out>>
  BY DEF EvalOperand, NextStatement, Inner, Eval, IInv, StackOK, flags, given
<1>2. cur' \in Below(top)
  <2> DEFINE i == top.pos + 1
  <2>1. CASE EvalOperand
    <3>1. top.stage = "args" /\ cur' = Ast[top.node].args[i] /\ ~(top.pos >= Operands)
      BY <2>1 DEF EvalOperand, Eval, OperandsDone
    <3>2. i \in 1 .. Len(Ast[top.node].args)
      BY <1>1, <3>1, InnerFacts
    <3> QED
      BY <1>1, <3>1, <3>2, OperandBelow
  <2>2. CASE NextStatement
    <3>1. top.stage = "body" /\ cur' = Body(top.node)[i] /\ top.pos < Len(Body(top.node))
      BY <2>2 DEF NextStatement, Eval
    <3>2. i \in 1 .. Len(Body(top.node))
      BY <1>1, <3>1, InnerFacts, LenProperties
    <3> QED
      BY <1>1, <3>1, <3>2, StatementBelow
  <2> QED
    BY <2>1, <2>2
<1>3. SameCalls
  BY <1>1, SameCallsSame
<1> QED
  BY <1>1, <1>2, <1>3, InsideStep DEF Follows

(* The process is lost in a division.                                      *)
LEMMA FollowTrap ==
    ASSUME IInv, StreamInv, Trap
    PROVE  StreamInv' /\ Follows
<1>1. /\ pc = "inner" /\ pc' = "trapped" /\ kind = "Arithmetic"
      /\ UNCHANGED <<program, stack, cur, errored, cancelled, out>>
  BY DEF Trap, Inner, flags, given
<1>2. Phase = "running" /\ Open # <<>> /\ Stream!innermost = top.node
  BY <1>1, Running
<1>3. Phase' = "gone" /\ Open' = Open
  BY <1>1 DEF Phase, Open
<1>4. Stream!Vanish
  BY <1>1, <1>2, <1>3, SameTree DEF Stream!Vanish, kind
<1>5. StreamInv'
  <2>1. OnPath'
    BY <1>1, PathStays DEF StreamInv
  <2> QED
    BY <1>1, <2>1 DEF StreamInv, FlagsOK
<1> QED
  BY <1>4, <1>5 DEF Follows, Stream!Next

-----------------------------------------------------------------------------
LEMMA FollowWork ==
    ASSUME IInv, StreamInv, Interpret \/ Reads
    PROVE  StreamInv' /\ Follows
<1>1. IInv'
  BY TypeWork
<1>2. CASE Start \/ Poll \/ Begin \/ StepLimit \/ RuntimeError \/ Leave \/ Unwind \/ StopRobot \/ Finish
  BY <1>1, <1>2, FollowStart, FollowFail, FollowPoll, FollowBegin, FollowLeave, FollowUnwind, FollowEnd
<1>3. CASE EvalOperand \/ Accumulate \/ Trap \/ GiveResult \/ Assign \/ Command \/ ChooseBranch \/ EndIf
             \/ StartBody \/ Iterate \/ Call \/ NextStatement \/ SkipStatement \/ EndBody \/ Reads
  BY <1>1, <1>3, FollowSilent, FollowEffects, FollowSkip, FollowEval, FollowTrap
<1> QED
  BY <1>2, <1>3 DEF Interpret

LEMMA FollowOthers ==
    ASSUME StreamInv, RequestCancel \/ UNCHANGED vars
    PROVE  StreamInv' /\ UNCHANGED <<program, out, Phase, Open>>
<1>1. UNCHANGED <<program, pc, cur, stack, errored, cancelled, out>>
  BY DEF RequestCancel, vars, interpreter
<1>2. OnPath'
  BY <1>1, PathStays DEF StreamInv
<1>3. Phase' = Phase /\ Open' = Open
  BY <1>1 DEF Phase, Open
<1> QED
  BY <1>1, <1>2, <1>3 DEF StreamInv, FlagsOK

LEMMA StreamInit == Init => StreamInv /\ Stream!Init
<1> SUFFICES ASSUME Init PROVE StreamInv /\ Stream!Init
  OBVIOUS
<1>1. pc = "start" /\ stack = <<>> /\ ~errored /\ ~cancelled /\ cur = root /\ out = <<>>
  BY DEF Init
<1>2. OnPath
  <2>1. \A i \in 1 .. Len(<<>>) : FALSE
    OBVIOUS
  <2> QED
    BY <1>1, <2>1 DEF OnPath
<1>3. Open = <<>>
  <2>1. [i \in 1 .. Len(<<>>) |-> <<>>[i].node] = <<>>
    OBVIOUS
  <2> QED
    BY <1>1, <2>1 DEF Open
<1> QED
  BY <1>1, <1>2, <1>3 DEF StreamInv, FlagsOK, Stream!Init, Phase

LEMMA StreamStep ==
    IInv /\ StreamInv /\ [Next]_vars => StreamInv' /\ [Stream!Next]_(Stream!vars)
<1> SUFFICES ASSUME IInv, StreamInv, [Next]_vars
             PROVE  StreamInv' /\ (Stream!Next \/ UNCHANGED Stream!vars)
  OBVIOUS
<1>1. Interpret \/ Reads \/ RequestCancel \/ UNCHANGED vars
  BY AnswersRead DEF Next, EngineStep, Terminated
<1> QED
  BY <1>1, FollowWork, FollowOthers DEF Follows, Stream!vars

(* Whatever the program, the limits, the sensors and the moment of a       *)
(* cancel: execute() sends the messages of a properly nested run that ends *)
(* in exactly one way (engine.cpp:76-391).                                 *)
THEOREM StreamImplemented == Spec => ImplementsStream
BY StreamInit, StreamStep, Inductive, PTL DEF Spec, ImplementsStream, Stream!Spec

-----------------------------------------------------------------------------
(***************************************************************************)
(* Scopes.                                                                 *)
(***************************************************************************)
(* A step adds or removes the last scope, or binds in it or globally.      *)
LEMMA ScopesStep ==
    ASSUME IInv, [Next]_vars
    PROVE  CallersUntouched
<1> USE DEF scopes, flags, given
<1>1. env \in Seq(Scopes) /\ env # <<>> /\ Len(env) \in Nat \ {0} /\ InterpreterOK
  BY EmptySeq DEF IInv, InterpreterOK
<1>2. CASE env' = env
  BY <1>1, <1>2 DEF CallersUntouched
<1>3. CASE env' = Front(env)
  BY <1>1, <1>3, FrontProperties DEF CallersUntouched
<1>4. CASE Call
  <2>1. Inner /\ ~Faulty /\ stack # <<>> /\ kind = "Call"
    BY <1>4 DEF Call, Inner, IInv, StackOK
  <2>2. FunctionNamed(op) \in Nodes
    BY <1>1, <2>1, InnerFacts, FunctionFacts
  <2>3. Bindings(FunctionNamed(op), top.vals) \in Scopes
    BY <1>1, <2>1, <2>2, InnerFacts, BindingsScope
  <2> DEFINE b == Bindings(FunctionNamed(op), top.vals)
  <2>4. env' = Append(env, b) /\ b \in Scopes
    BY <1>4, <2>3 DEF Call
  <2> HIDE DEF b
  <2> QED
    BY <1>1, <2>4, AppendProperties DEF CallersUntouched
<1>5. CASE Assign
  <2>1. Inner /\ ~Faulty /\ stack # <<>> /\ kind # "Call"
    BY <1>5 DEF Assign, Inner, IInv, StackOK
  <2>2. top.scope = Len(env)
    BY <2>1, InnerFacts DEF ScopeUnder, Calling, kind
  <2>3. PICK i \in {1, Len(env)} : env' = [env EXCEPT ![i][op] = top.vals[1]]
    BY <1>5, <2>2 DEF Assign
  <2> DEFINE b == [env[i] EXCEPT ![op] = top.vals[1]]
             n == Len(env)
  <2>4. env' = [env EXCEPT ![i] = b]
    BY <2>3
  <2>5. DOMAIN env = 1 .. n /\ n \in Nat \ {0}
    BY <1>1, LenProperties
  <2>6. DOMAIN env' = 1 .. n /\ \A j \in 1 .. n : j # i => env'[j] = env[j]
    <3> HIDE DEF b, n
    <3> QED
      BY <2>4, <2>5
  <2>7. env' \in Seq(Scopes') /\ n = Len(env)
    BY TypeStep, <1>5 DEF IInv, InterpreterOK, Next, EngineStep, Interpret
  <2> HIDE DEF b, n
  <2>8. Len(env') = n
    <3>1. DOMAIN env' = 1 .. Len(env') /\ Len(env') \in Nat
      BY <2>7, LenProperties
    <3> QED
      BY <2>5, <2>6, <3>1
  <2>9. \A j \in 2 .. n - 1 : j <= n /\ env'[j] = env[j]
    BY <2>3, <2>5, <2>6, <2>7
  <2> QED
    BY <2>7, <2>8, <2>9 DEF CallersUntouched
<1> QED
  BY <1>2, <1>3, <1>4, <1>5
     DEF Next, EngineStep, Interpret, HostAnswers, Start, Poll, Begin, StepLimit, RuntimeError, Fail,
         Leave, Unwind, StopRobot, Finish, EvalOperand, Accumulate, Trap, GiveResult,
         Command, ReadSensor, ChooseBranch, EndIf, StartBody, Iterate, NextStatement,
         SkipStatement, EndBody, RequestCancel, Terminated, vars, interpreter

(* A call never touches the scopes of its callers (engine.cpp:12-28).      *)
THEOREM ScopesIsolated == Spec => ScopeIsolation
<1>1. IInv /\ [Next]_vars => [CallersUntouched]_vars
  BY ScopesStep
<1> QED
  BY <1>1, Inductive, PTL DEF Spec, ScopeIsolation

-----------------------------------------------------------------------------
(***************************************************************************)
(* The depth of the native stack.                                          *)
(***************************************************************************)
Height(n) == HeightIn(program)[n]

(* Going down costs height, and only a call gives the program's back.      *)
ShortPath ==
    \A i \in 1 .. Len(stack) :
        i - 1 + Height(stack[i].node) <= stack[i].scope * Height(root)

(* A call whose body is done evaluates nothing more.                       *)
Unfinished ==
    \A i \in 1 .. Len(stack) : stack[i].stage = "done" => i = Len(stack) /\ pc = "leave"

DepthInv ==
    program \in Programs /\ ShortPath /\ Unfinished /\ callDepth <= limits.maxDepth

LEMMA HeightFacts ==
    ASSUME InterpreterOK, program \in Programs
    PROVE  /\ root \in Nodes
           /\ \A n \in Nodes : Height(n) \in Nat \ {0}
           /\ \A n \in Nodes : \A m \in ToSet(Ast[n].args) \cup ToSet(Ast[n].children) :
                 m \in Nodes /\ Height(m) < Height(n)
           /\ \A f \in Functions : f \in Nodes /\ Height(f) <= Height(root)
<1>1. program \in Programs /\ root \in Nodes
  BY ProgramFacts DEF InterpreterOK
<1>2. \A n \in Nodes : Height(n) \in Nat \ {0}
  BY <1>1, TreeAssumption DEF Height, Nodes
<1>3. \A n \in Nodes : \A m \in ToSet(Ast[n].args) \cup ToSet(Ast[n].children) :
          m \in Nodes /\ Height(m) < Height(n)
  <2> TAKE n \in Nodes
  <2>1. Owned(program, n) = ToSet(Ast[n].args) \cup ToSet(Ast[n].children)
    BY DEF Owned, Ast
  <2>2. \A m \in Owned(program, n) : Height(m) < Height(n)
    BY <1>1, TreeAssumption DEF Height, Nodes
  <2>3. Ast[n].args \in Seq(Nodes) /\ Ast[n].children \in Seq(Nodes)
    BY ProgramFacts DEF InterpreterOK
  <2>4. \A s \in Seq(Nodes) : ToSet(s) \subseteq Nodes
    BY ElementOfSeq, LenProperties DEF ToSet
  <2> QED
    BY <2>1, <2>2, <2>3, <2>4
<1>4. \A f \in Functions : f \in Nodes /\ Height(f) <= Height(root)
  BY <1>1, <1>2, <1>3 DEF Functions
<1> QED
  BY <1>1, <1>2, <1>3, <1>4

LEMMA BelowHeight ==
    ASSUME InterpreterOK, program \in Programs, NEW f \in Frames, NEW m \in Below(f),
           Ast[f.node].kind = "Call" => f.stage \in {"args", "body"}
    PROVE  /\ m \in Nodes
           /\ IF Calling(f) THEN Height(m) < Height(root) ELSE Height(m) < Height(f.node)
<1>1. f.node \in Nodes
  BY DEF Frames
<1>2. CASE f.stage = "args"
  BY <1>1, <1>2, HeightFacts DEF Below, Calling
<1>3. CASE f.stage # "args"
  <2>1. PICK p \in IF Ast[f.node].kind = "Call" THEN {g \in Functions : Ast[g].op = Ast[f.node].op}
                                                ELSE {f.node} :
            m \in ToSet(Ast[p].children)
    BY <1>3 DEF Below, Statements
  <2>2. CASE Ast[f.node].kind = "Call"
    <3>1. p \in Functions /\ Calling(f)
      BY <1>3, <2>1, <2>2 DEF Calling
    <3>2. /\ p \in Nodes /\ Height(p) <= Height(root) /\ Height(p) \in Nat /\ Height(root) \in Nat
          /\ m \in Nodes /\ Height(m) < Height(p) /\ Height(m) \in Nat
      BY <2>1, <3>1, HeightFacts
    <3> QED
      BY <3>1, <3>2
  <2>3. CASE Ast[f.node].kind # "Call"
    BY <1>1, <2>1, <2>3, HeightFacts DEF Calling
  <2> QED
    BY <2>2, <2>3
<1> QED
  BY <1>2, <1>3

(* The frames a step leaves on the stack.                                  *)
Kept ==
    /\ Len(stack') <= Len(stack)
    /\ \A i \in 1 .. Len(stack') :
          /\ stack'[i].node = stack[i].node /\ stack'[i].scope = stack[i].scope
          /\ stack'[i].stage = "done" => stack[i].stage = "done" \/ pc' = "leave"
          /\ i < Len(stack') => stack'[i].stage = stack[i].stage

LEMMA KeptSame == ASSUME IInv, stack' = stack PROVE Kept
<1>1. Len(stack) \in Nat
  BY LenProperties DEF IInv, InterpreterOK
<1> QED
  BY <1>1 DEF Kept

LEMMA KeptCalls ==
    ASSUME IInv, IInv', Interpret \/ Reads, ~Begin
    PROVE  Kept
<1>1. Len(stack) \in Nat
  BY LenProperties DEF IInv, InterpreterOK
<1>2. CASE Leave
  <2> DEFINE n == Len(stack)
  <2>1. /\ n \in Nat \ {0} /\ Len(stack') = n - 1
        /\ \A i \in 1 .. n - 2 : stack'[i] = stack[i]
        /\ stack' # <<>> => KeepsFrame(stack'[n - 1], stack[n - 1])
    BY <1>2, LeavePops DEF KeepsFrame
  <2>2. stack' = <<>> => n = 1
    BY <2>1, EmptySeq
  <2>3. \A i \in 1 .. n - 1 : KeepsFrame(stack'[i], stack[i])
    <3> TAKE i \in 1 .. n - 1
    <3>1. CASE i = n - 1
      BY <2>1, <2>2, <3>1
    <3>2. CASE i # n - 1
      BY <2>1, <3>2 DEF KeepsFrame
    <3> QED
      BY <3>1, <3>2
  <2> QED
    BY <2>1, <2>3 DEF Kept, KeepsFrame
<1>3. CASE Unwind
  <2>1. stack' = stack \/ (stack # <<>> /\ stack' = Front(stack))
    BY <1>3 DEF Unwind
  <2>2. CASE stack # <<>> /\ stack' = Front(stack)
    <3>1. stack \in Seq(Frames)
      BY DEF IInv, InterpreterOK
    <3>2. Len(stack') = Len(stack) - 1 /\ \A i \in 1 .. Len(stack) - 1 : stack'[i] = stack[i]
      BY <2>2, <3>1, FrontProperties
    <3> QED
      BY <1>1, <3>2 DEF Kept
  <2> QED
    BY <2>1, <2>2, KeptSame
<1>4. CASE Accumulate \/ GiveResult \/ Assign \/ Command \/ Reads \/ EndIf \/ StartBody
             \/ Iterate \/ Call \/ SkipStatement \/ EndBody
  <2>1. SameCalls
    BY <1>4, InnerActions
  <2> QED
    BY <1>1, <2>1 DEF SameCalls, Kept
<1>5. CASE stack' = stack
  BY <1>5, KeptSame
<1> QED
  BY <1>2, <1>3, <1>4, <1>5
     DEF Interpret, Start, Poll, StepLimit, RuntimeError, Fail, StopRobot, Finish,
         EvalOperand, Trap, ChooseBranch, NextStatement

LEMMA DepthKept ==
    ASSUME IInv, IInv', DepthInv, Kept, program' = program,
           (\E i \in 1 .. Len(stack) : stack[i].stage = "done") =>
               Len(stack') < Len(stack) \/ pc' = "leave"
    PROVE  ShortPath' /\ Unfinished'
<1>1. /\ Len(stack) \in Nat /\ Len(stack') \in Nat /\ Len(stack') <= Len(stack)
      /\ root' = root /\ \A n : Height(n)' = Height(n)
  BY LenProperties, SameProgram DEF IInv, InterpreterOK, Kept, Height
<1>2. \A i \in 1 .. Len(stack') : i \in 1 .. Len(stack)
  BY <1>1
<1>3. ShortPath'
  <2>1. \A i \in 1 .. Len(stack') :
            /\ stack'[i].node = stack[i].node /\ stack'[i].scope = stack[i].scope
            /\ i - 1 + Height(stack[i].node) <= stack[i].scope * Height(root)
    BY <1>2 DEF Kept, DepthInv, ShortPath
  <2> QED
    BY <1>1, <2>1 DEF ShortPath
<1>4. Unfinished'
  <2> SUFFICES ASSUME NEW i \in 1 .. Len(stack'), stack'[i].stage = "done"
               PROVE  i = Len(stack') /\ pc' = "leave"
    BY DEF Unfinished
  <2>1. stack[i].stage = "done" => i = Len(stack)
    BY <1>2 DEF DepthInv, Unfinished
  <2>2. CASE stack[i].stage = "done"
    <3>1. i = Len(stack) /\ Len(stack') = Len(stack)
      BY <1>1, <2>1, <2>2
    <3> QED
      BY <1>1, <1>2, <2>2, <3>1
  <2>3. CASE stack[i].stage # "done"
    BY <1>1, <2>3 DEF Kept
  <2> QED
    BY <2>2, <2>3
<1> QED
  BY <1>3, <1>4

LEMMA DepthBegin ==
    ASSUME IInv, IInv', StreamInv, DepthInv, Begin
    PROVE  ShortPath' /\ Unfinished'
<1> DEFINE n == Len(stack)
           f == NewFrame(cur)
           h == Height(root)
<1>1. /\ InterpreterOK /\ pc = "begin" /\ stack' = Append(stack, f) /\ program' = program
      /\ stack \in Seq(Frames) /\ n \in Nat /\ Len(env) \in Nat /\ cur \in Nodes
      /\ program \in Programs
  BY LenProperties DEF Begin, IInv, InterpreterOK, given, DepthInv
<1>2. f \in Frames /\ f.node = cur /\ f.scope = Len(env) /\ f.stage # "done"
  BY <1>1, NewFrameFacts DEF NewFrame
<1>3. h \in Nat \ {0} /\ Height(cur) \in Nat \ {0}
  BY <1>1, HeightFacts
<1>4. n + Height(cur) <= Len(env) * h
  <2>1. CASE stack = <<>>
    <3>1. n = 0 /\ Len(env) = 1 /\ cur = root
      BY <1>1, <2>1, EmptySeq DEF IInv, StackOK, Nested, StreamInv, OnPath
    <3> QED
      BY <1>3, <3>1
  <2>2. CASE stack # <<>>
    <3> DEFINE t == Height(top.node)
               d == top.scope
               c == Height(cur)
    <3>1. /\ n \in Nat \ {0} /\ top \in Frames /\ t \in Nat \ {0} /\ d \in Nat
      BY <1>1, <2>2, TopFacts, HeightFacts DEF Frames
    <3>2. n - 1 + t <= d * h
      BY <3>1 DEF DepthInv, ShortPath, top
    <3>3. cur \in Below(top) /\ Len(env) = (IF Calling(top) THEN d + 1 ELSE d)
      BY <1>1, <2>2 DEF StreamInv, OnPath, IInv, StackOK, Nested, ScopeUnder
    <3>4. Ast[top.node].kind = "Call" => top.stage \in {"args", "body"}
      <4>1. top.stage # "done"
        BY <1>1, <3>1 DEF DepthInv, Unfinished, top
      <4>2. FrameOK(top)
        BY <3>1 DEF IInv, StackOK, Nested, top
      <4>3. top.stage \in Stages
        BY <3>1 DEF Frames
      <4> QED
        BY <4>1, <4>2, <4>3 DEF FrameOK, Stages
    <3>5. IF Calling(top) THEN c < h ELSE c < t
      BY <1>1, <3>1, <3>3, <3>4, BelowHeight
    <3> HIDE DEF t, d, c, h, n
    <3>6. c \in Nat \ {0}
      BY <1>3 DEF c
    <3>7. (d + 1) * h = d * h + h /\ d * h \in Nat
      BY <1>3, <3>1
    <3>8. n + c <= Len(env) * h
      <4>1. CASE Calling(top)
        <5>1. Len(env) * h = d * h + h /\ c < h
          BY <3>3, <3>5, <3>7, <4>1
        <5> DEFINE e == d * h
        <5> HIDE DEF e
        <5>2. n - 1 + t <= e /\ e \in Nat
          BY <3>2, <3>7 DEF e
        <5>3. n + c <= e + h
          BY <1>3, <3>1, <3>6, <5>1, <5>2
        <5> QED
          BY <5>1, <5>3 DEF e
      <4>2. CASE ~Calling(top)
        <5>1. Len(env) * h = d * h /\ c < t
          BY <3>3, <3>5, <4>2
        <5> DEFINE e == d * h
        <5> HIDE DEF e
        <5>2. n - 1 + t <= e /\ e \in Nat
          BY <3>2, <3>7 DEF e
        <5>3. n + c <= e
          BY <3>1, <3>6, <5>1, <5>2
        <5> QED
          BY <5>1, <5>3 DEF e
      <4> QED
        BY <4>1, <4>2
    <3> QED
      BY <3>8 DEF c
  <2> QED
    BY <2>1, <2>2
<1> HIDE DEF f
<1>5. /\ Len(stack') = n + 1
      /\ \A i \in 1 .. n : stack'[i] = stack[i]
      /\ stack'[n + 1] = f
  BY <1>1, <1>2, AppendProperties
<1>6. ShortPath'
  <2>1. root' = root /\ \A m : Height(m)' = Height(m)
    BY <1>1, SameProgram DEF Height
  <2>2. \A i \in 1 .. n + 1 : i - 1 + Height(stack'[i].node) <= stack'[i].scope * h
    <3> TAKE i \in 1 .. n + 1
    <3>1. CASE i = n + 1
      BY <1>1, <1>2, <1>4, <1>5, <3>1
    <3>2. CASE i # n + 1
      BY <1>1, <1>5, <3>2 DEF DepthInv, ShortPath
    <3> QED
      BY <3>1, <3>2
  <2> QED
    BY <1>5, <2>1, <2>2 DEF ShortPath
<1>7. Unfinished'
  <2>1. \A i \in 1 .. n : stack[i].stage # "done"
    BY <1>1 DEF DepthInv, Unfinished
  <2> QED
    BY <1>1, <1>2, <1>5, <2>1 DEF Unfinished
<1> QED
  BY <1>6, <1>7

LEMMA DepthWork ==
    ASSUME IInv, StreamInv, DepthInv, Interpret \/ Reads
    PROVE  DepthInv'
<1> USE DEF scopes, flags, given
<1>1. IInv' /\ InterpreterOK
  BY TypeWork DEF IInv
<1>2. program' = program /\ limits' = limits
  BY DEF Interpret, Start, Poll, Begin, StepLimit, RuntimeError, Fail, Leave, Unwind, StopRobot, Finish,
         EvalOperand, Accumulate, Trap, GiveResult, Assign, Command, Reads, ReadSensor, ChooseBranch,
         EndIf, StartBody, Iterate, Call, NextStatement, SkipStatement, EndBody
<1>3. ShortPath' /\ Unfinished'
  <2>1. CASE Begin
    BY <1>1, <2>1, DepthBegin
  <2>2. CASE ~Begin
    <3>1. Kept
      BY <1>1, <2>2, KeptCalls
    <3>2. ASSUME NEW i \in 1 .. Len(stack), stack[i].stage = "done"
          PROVE  Len(stack') < Len(stack)
      <4>1. pc = "leave"
        BY <3>2 DEF DepthInv, Unfinished
      <4>2. Leave
        BY <4>1 DEF Interpret, Start, Poll, Begin, StepLimit, RuntimeError, Unwind, StopRobot, Finish,
                    EvalOperand, Accumulate, Trap, GiveResult, Assign, Command, Reads, ReadSensor,
                    ChooseBranch, EndIf, StartBody, Iterate, Call, NextStatement, SkipStatement,
                    EndBody, Inner
      <4>3. Len(stack) \in Nat /\ Len(stack') = Len(stack) - 1
        BY <4>2, LeavePops
      <4> QED
        BY <4>3
    <3> QED
      BY <1>1, <1>2, <3>1, <3>2, DepthKept
  <2> QED
    BY <2>1, <2>2
<1>4. callDepth' <= limits'.maxDepth
  <2>1. callDepth \in Nat /\ limits.maxDepth \in Nat /\ callDepth <= limits.maxDepth
    BY <1>1 DEF InterpreterOK, DepthInv
  <2>2. CASE Call
    <3>1. ~(callDepth >= limits.maxDepth) /\ callDepth' = callDepth + 1
      BY <2>2 DEF Call, Inner, Faulty, LimitFault
    <3> QED
      BY <1>2, <2>1, <3>1
  <2>3. CASE callDepth' = callDepth \/ callDepth' = callDepth - 1
    BY <1>2, <2>1, <2>3
  <2> QED
    BY <2>2, <2>3
       DEF Interpret, Start, Poll, Begin, StepLimit, RuntimeError, Fail, Leave, Unwind, StopRobot, Finish,
           EvalOperand, Accumulate, Trap, GiveResult, Assign, Command, Reads, ReadSensor, ChooseBranch,
           EndIf, StartBody, Iterate, NextStatement, SkipStatement, EndBody
<1> QED
  BY <1>2, <1>3, <1>4 DEF DepthInv

LEMMA DepthStep == IInv /\ StreamInv /\ DepthInv /\ [Next]_vars => DepthInv'
<1> SUFFICES ASSUME IInv, StreamInv, DepthInv, [Next]_vars PROVE DepthInv'
  OBVIOUS
<1>1. CASE RequestCancel \/ UNCHANGED vars
  <2>1. UNCHANGED <<program, limits, pc, stack, callDepth>>
    BY <1>1 DEF RequestCancel, vars, interpreter
  <2>2. root' = root /\ \A n : Height(n)' = Height(n)
    BY <2>1, SameProgram DEF Height
  <2> QED
    BY <2>1, <2>2 DEF DepthInv, ShortPath, Unfinished
<1> QED
  BY <1>1, AnswersRead, DepthWork DEF Next, EngineStep, Terminated

LEMMA DepthInit == Init => DepthInv
<1> SUFFICES ASSUME Init PROVE DepthInv
  OBVIOUS
<1>1. /\ stack = <<>> /\ callDepth = 0 /\ program \in Programs
      /\ limits \in [maxRepeat : Nat, maxSteps : Nat, maxDepth : Nat]
  BY EngineAssumption DEF Init
<1>2. limits.maxDepth \in Nat
  BY <1>1
<1>3. \A i \in 1 .. Len(<<>>) : FALSE
  OBVIOUS
<1> QED
  BY <1>1, <1>2, <1>3 DEF DepthInv, ShortPath, Unfinished

LEMMA DepthBounds ==
    ASSUME IInv, DepthInv
    PROVE  StackBound
<1> DEFINE heights == {HeightIn(program)[n] : n \in Functions \cup {root}}
           h == Height(root)
<1>1. /\ InterpreterOK /\ callDepth <= limits.maxDepth /\ callDepth \in Nat
      /\ program \in Programs /\ Len(stack) \in Nat /\ Len(env) = callDepth + 1
      /\ Len(env) = IF stack = <<>> THEN 1 ELSE ScopeUnder(top)
  BY LenProperties DEF IInv, InterpreterOK, StackOK, Nested, DepthInv
<1>2. h \in Nat \ {0} /\ h \in heights /\ \A x \in heights : x \in Nat /\ x <= h
  BY <1>1, HeightFacts DEF Height
<1>3. Max(heights) = h
  BY <1>2 DEF Max
<1>4. Len(stack) <= (callDepth + 1) * h
  <2>1. CASE stack = <<>>
    <3>1. Len(stack) = 0 /\ (callDepth + 1) * h \in Nat
      BY <1>1, <1>2, <2>1, EmptySeq DEF InterpreterOK
    <3> QED
      BY <3>1
  <2>2. CASE stack # <<>>
    <3> DEFINE t == Height(top.node)
               n == Len(stack)
               d == top.scope
    <3>1. n \in Nat \ {0} /\ t \in Nat \ {0} /\ d \in Nat
      BY <1>1, <2>2, TopFacts, HeightFacts DEF Frames
    <3>2. n - 1 + t <= d * h
      BY <3>1 DEF DepthInv, ShortPath, top
    <3>3. callDepth + 1 = d \/ callDepth + 1 = d + 1
      BY <1>1, <2>2 DEF ScopeUnder
    <3> HIDE DEF t, d, h, n
    <3>4. d * h \in Nat /\ (d + 1) * h = d * h + h
      BY <1>2, <3>1
    <3>5. n <= d * h
      BY <3>1, <3>2, <3>4
    <3>6. n <= (callDepth + 1) * h
      BY <1>2, <3>1, <3>3, <3>4, <3>5
    <3> QED
      BY <3>6 DEF n
  <2> QED
    BY <2>1, <2>2
<1> HIDE DEF heights, h
<1> QED
  BY <1>1, <1>3, <1>4 DEF StackBound, heights

(* On every way in and out of a call the depth counted is that of the      *)
(* calls, within its limit, and eval recurses at most once per level of    *)
(* the program's tree and call (engine.cpp:94-111,169-171).                *)
THEOREM StackBounded == Spec => []StackBound
BY StreamInit, StreamStep, DepthInit, DepthStep, DepthBounds, Inductive, PTL DEF Spec
=============================================================================
